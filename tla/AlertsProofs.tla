----------------------------- MODULE AlertsProofs -----------------------------
(***************************************************************************)
(* TLAPS proofs about Alerts, for every set of rules, candidates and users *)
(* and every length of the history.                                        *)
(***************************************************************************)
EXTENDS Alerts, TLAPS

Flushed == {"flush", "list", "protect", "resolve", "commit"}

(* What is to be resolved or acknowledged has a row.                       *)
PresentInv ==
    /\ \A k \in sweep.gone : rows[k] # None
    /\ \A u \in Users : ack[u] # None => rows[ack[u]] # None

(* A candidate has no alert before it is proposed.                         *)
UnproposedInv == \A v \in Candidates : version[v] = "none" => rows[v] = None

(* From the list on, the sweep knows of every active alert of a candidate  *)
(* that awaits approval, unless the candidate came after the list ...      *)
KnownInv ==
    \A v \in Candidates : version[v] = "draft" /\ Active(v) /\ v \notin late =>
        /\ Sweeping("protect") => v \in sweep.listed
        /\ Sweeping("resolve") => v \in sweep.kept

(* ... so of those that await approval it resolves only such a one.        *)
GoneInv ==
    Sweeping("commit") =>
        \A v \in Candidates : v \in sweep.gone /\ version[v] = "draft" => v \in late

(* A row the sweep has not found is not there, and one it has found        *)
(* resolved stays so, until the sweep writes it.                           *)
LoadedInv ==
    sweep.pc \in Flushed =>
        \A k \in sweep.found :
            IF sweep.loaded[k] = None THEN rows[k] = None
            ELSE ~ sweep.loaded[k].active => rows[k] # None /\ ~ rows[k].active

IInv == UnproposedInv /\ KnownInv /\ GoneInv /\ LoadedInv

-----------------------------------------------------------------------------
LEMMA RowFields ==
    ASSUME TypeOK, NEW k \in Keys, rows[k] # None
    PROVE  /\ rows[k] \in Row
           /\ rows[k].active \in BOOLEAN /\ rows[k].acked \in BOOLEAN
BY DEF TypeOK, Rows, Row

LEMMA LoadedFields ==
    ASSUME TypeOK, NEW k \in Keys, sweep.loaded[k] # None
    PROVE  /\ sweep.loaded[k] \in Row
           /\ sweep.loaded[k].active \in BOOLEAN /\ sweep.loaded[k].acked \in BOOLEAN
<1>1. sweep.loaded \in Rows
  BY DEF TypeOK, Sweep
<1> QED BY <1>1 DEF Rows, Row

LEMMA RowIs ==
    ASSUME NEW b \in BOOLEAN, NEW c \in BOOLEAN
    PROVE  /\ [active |-> b, acked |-> c] \in Row
           /\ [active |-> b, acked |-> c] # None
BY RowAssumption DEF Row

LEMMA IdleIsSweep == Idle \in Sweep
BY DEF Idle, Sweep, Rows

LEMMA IdleFields ==
    /\ Idle.pc = "idle" /\ Idle.gone = {}
    /\ \A S : /\ [Idle EXCEPT !.pc = "load", !.found = S].pc = "load"
              /\ [Idle EXCEPT !.pc = "load", !.found = S].gone = {}
<1>1. Idle.pc = "idle" /\ Idle.gone = {}
  BY DEF Idle
<1>2. Idle \in Sweep
  BY IdleIsSweep
<1> QED BY <1>1, <1>2 DEF Sweep

LEMMA RulesAreNotCandidates ==
    ASSUME TypeOK
    PROVE  /\ \A v \in Candidates : v \in Keys /\ v \notin sweep.found
           /\ sweep.found \subseteq Keys
BY KeyAssumption DEF TypeOK, Sweep, Keys

(* What a step of the sweep does to the alerts.                            *)
LEMMA WrittenIsRow ==
    ASSUME TypeOK, PresentInv, NEW k \in Keys
    PROVE  /\ Written(k) \in Row \cup {None}
           /\ rows[k] # None => Written(k) # None
<1>1. CASE k \in sweep.found /\ sweep.loaded[k] = None
  BY <1>1, RowIs DEF Written, Upserted
<1>2. CASE k \in sweep.found /\ sweep.loaded[k] # None
  <2>1. /\ (rows[k].active \/ ~ sweep.loaded[k].active) \in BOOLEAN
        /\ (rows[k].acked /\ (sweep.loaded[k].active \/ ~ sweep.loaded[k].acked)) \in BOOLEAN
    OBVIOUS
  <2>2. Written(k) = [active |-> rows[k].active \/ ~ sweep.loaded[k].active,
                      acked  |-> rows[k].acked
                                    /\ (sweep.loaded[k].active \/ ~ sweep.loaded[k].acked)]
    BY <1>2 DEF Written, Upserted
  <2> QED BY <2>1, <2>2, RowIs
<1>3. CASE k \notin sweep.found /\ k \in sweep.gone
  <2>1. rows[k] \in Row
    BY <1>3, RowFields DEF PresentInv
  <2>2. [rows[k] EXCEPT !.active = FALSE] \in Row
    BY <2>1 DEF Row
  <2> QED BY <1>3, <2>2, RowAssumption DEF Written, Row
<1>4. CASE k \notin sweep.found /\ k \notin sweep.gone
  BY <1>4 DEF Written, TypeOK, Rows
<1> QED BY <1>1, <1>2, <1>3, <1>4

LEMMA SweepTyped ==
    ASSUME TypeOK, PresentInv, SweepStep \/ Fail
    PROVE  TypeOK' /\ PresentInv'
<1>1. UNCHANGED <<raised, version, ack>>
  BY DEF SweepStep, Evaluate, Load, Flush, ListActive, Protect, Resolve, Commit, Fail
<1>2. sweep \in Sweep /\ rows \in Rows /\ raised \subseteq Rules
  BY DEF TypeOK
<1>9. late' \subseteq Candidates
  BY DEF SweepStep, Evaluate, Load, Flush, ListActive, Protect, Resolve, Commit, Fail, TypeOK
<1>3. CASE Evaluate \/ Fail
  <2>1. /\ rows' = rows
        /\ sweep' = Idle \/ sweep' = [Idle EXCEPT !.pc = "load", !.found = raised]
    BY <1>3 DEF Evaluate, Fail
  <2>2. [Idle EXCEPT !.pc = "load", !.found = raised] \in Sweep
    BY <1>2, IdleIsSweep DEF Sweep
  <2>3. sweep'.gone = {}
    BY <2>1, IdleFields
  <2> QED BY <1>1, <1>9, <2>1, <2>2, <2>3, IdleIsSweep DEF TypeOK, PresentInv
<1>4. CASE Load
  <2> DEFINE loaded == [k \in Keys |-> IF k \in sweep.found THEN rows[k] ELSE None]
  <2>1. loaded \in Rows
    BY <1>2 DEF Rows
  <2>2. sweep' = [sweep EXCEPT !.pc = "flush", !.loaded = loaded] /\ rows' = rows
    BY <1>4 DEF Load
  <2> HIDE DEF loaded
  <2>3. sweep' \in Sweep /\ sweep'.gone = sweep.gone
    BY <1>2, <2>1, <2>2 DEF Sweep
  <2> QED BY <1>1, <1>9, <2>2, <2>3 DEF TypeOK, PresentInv
<1>5. CASE Flush
  <2>1. sweep' \in Sweep /\ sweep'.gone = sweep.gone /\ rows' = rows
    BY <1>2, <1>5 DEF Flush, Sweep
  <2> QED BY <1>1, <1>9, <2>1 DEF TypeOK, PresentInv
<1>10. CASE ListActive
  <2> DEFINE listed == {v \in Candidates : Active(v)}
  <2>1. sweep' = [sweep EXCEPT !.pc = "protect", !.listed = listed] /\ rows' = rows
    BY <1>10 DEF ListActive
  <2>2. listed \subseteq Candidates
    OBVIOUS
  <2> HIDE DEF listed
  <2>3. sweep' \in Sweep /\ sweep'.gone = sweep.gone
    BY <1>2, <2>1, <2>2 DEF Sweep
  <2> QED BY <1>1, <1>9, <2>1, <2>3 DEF TypeOK, PresentInv
<1>6. CASE Protect
  <2>1. sweep.found \cup Protected \in SUBSET Keys
    BY <1>2, RulesAreNotCandidates DEF Protected, Sweep
  <2>2. sweep' \in Sweep /\ sweep'.gone = sweep.gone /\ rows' = rows
    BY <1>2, <1>6, <2>1 DEF Protect, Sweep
  <2> QED BY <1>1, <1>9, <2>2 DEF TypeOK, PresentInv
<1>7. CASE Resolve
  <2> DEFINE gone == {k \in Keys : Active(k)} \ sweep.kept
  <2>1. gone \in SUBSET Keys /\ \A k \in gone : rows[k] # None
    BY DEF Active
  <2>2. sweep' = [sweep EXCEPT !.pc = "commit", !.gone = gone] /\ rows' = rows
    BY <1>7 DEF Resolve
  <2> HIDE DEF gone
  <2>3. sweep' \in Sweep /\ sweep'.gone = gone
    BY <1>2, <2>1, <2>2 DEF Sweep
  <2> QED BY <1>1, <1>9, <2>1, <2>2, <2>3 DEF TypeOK, PresentInv
<1>8. CASE Commit
  <2>1. sweep' = Idle /\ sweep'.gone = {} /\ rows' = [k \in Keys |-> Written(k)]
    BY <1>8 DEF Commit, Idle
  <2>2. rows' \in Rows /\ \A k \in Keys : rows[k] # None => rows'[k] # None
    BY <2>1, WrittenIsRow DEF Rows
  <2>3. PresentInv'
    BY <1>1, <2>1, <2>2 DEF TypeOK, PresentInv
  <2> QED BY <1>1, <1>9, <2>1, <2>2, <2>3, IdleIsSweep DEF TypeOK
<1> QED BY <1>3, <1>4, <1>5, <1>6, <1>7, <1>8, <1>10 DEF SweepStep

LEMMA ProposeTyped ==
    ASSUME TypeOK, PresentInv, NEW v \in Candidates, Propose(v)
    PROVE  TypeOK' /\ PresentInv'
<1>1. /\ rows' = [rows EXCEPT ![v] = [active |-> TRUE, acked |-> FALSE]]
      /\ UNCHANGED <<raised, sweep, ack>>
  BY DEF Propose
<1>2. v \in Keys
  BY DEF Keys
<1>3. rows' \in Rows /\ \A k \in Keys : rows[k] # None => rows'[k] # None
  BY <1>1, <1>2, RowIs DEF TypeOK, Rows
<1>4. version' \in [Candidates -> {"none", "draft", "decided"}]
  BY DEF Propose, TypeOK
<1>5. sweep.gone \subseteq Keys /\ \A u \in Users : ack[u] \in Keys \cup {None}
  BY DEF TypeOK, Sweep
<1>6. late' \subseteq Candidates
  BY DEF Propose, TypeOK
<1> QED BY <1>1, <1>3, <1>4, <1>5, <1>6 DEF TypeOK, PresentInv

LEMMA AcknowledgeTyped ==
    ASSUME TypeOK, PresentInv, NEW u \in Users, Acknowledge(u)
    PROVE  TypeOK' /\ PresentInv'
<1>1. /\ ack[u] \in Keys /\ rows[ack[u]] # None
      /\ rows' = [rows EXCEPT ![ack[u]].acked = TRUE]
      /\ ack' = [ack EXCEPT ![u] = None]
      /\ UNCHANGED <<raised, version, sweep, late>>
  BY DEF Acknowledge, TypeOK, PresentInv
<1>2. [rows[ack[u]] EXCEPT !.acked = TRUE] \in Row
  BY <1>1, RowFields DEF Row
<1>3. rows' \in Rows /\ \A k \in Keys : rows[k] # None => rows'[k] # None
  BY <1>1, <1>2, RowAssumption DEF TypeOK, Rows, Row
<1>4. ack' \in [Users -> Keys \cup {None}]
  BY <1>1 DEF TypeOK
<1>5. sweep.gone \subseteq Keys
  BY DEF TypeOK, Sweep
<1>6. PresentInv'
  BY <1>1, <1>3, <1>4, <1>5 DEF PresentInv, TypeOK
<1> QED BY <1>1, <1>3, <1>4, <1>6 DEF TypeOK

LEMMA TypeStep == TypeOK /\ PresentInv /\ [Next]_vars => TypeOK' /\ PresentInv'
<1> SUFFICES ASSUME TypeOK, PresentInv, [Next]_vars PROVE TypeOK' /\ PresentInv'
  OBVIOUS
<1>1. CASE UNCHANGED vars
  BY <1>1 DEF vars, TypeOK, PresentInv
<1>2. CASE Plant
  BY <1>2 DEF Plant, TypeOK, PresentInv
<1>3. ASSUME NEW v \in Candidates, Decide(v) PROVE TypeOK' /\ PresentInv'
  BY <1>3 DEF Decide, TypeOK, PresentInv
<1>4. ASSUME NEW u \in Users, NEW k \in Keys, ReadAlert(u, k) PROVE TypeOK' /\ PresentInv'
  BY <1>4 DEF ReadAlert, Active, TypeOK, PresentInv
<1> QED BY <1>1, <1>2, <1>3, <1>4, SweepTyped, ProposeTyped, AcknowledgeTyped DEF Next

LEMMA InitType == Init => TypeOK /\ PresentInv
BY IdleIsSweep DEF Init, TypeOK, PresentInv, Rows, Idle

(* The rows, the sweep and the requests keep the values the code can give  *)
(* them, and no row an update refers to is missing.                        *)
THEOREM TypeCorrect == Spec => [](TypeOK /\ PresentInv)
BY InitType, TypeStep, PTL DEF Spec

-----------------------------------------------------------------------------
(* Acknowledging changes no row but the one read, and of it only the mark. *)
LEMMA AcknowledgeKeeps ==
    ASSUME TypeOK, PresentInv, NEW u \in Users, Acknowledge(u), NEW k \in Keys
    PROVE  /\ (rows'[k] = None) = (rows[k] = None)
           /\ rows[k] # None => /\ rows'[k].active = rows[k].active
                                /\ rows[k].acked => rows'[k].acked
<1>1. ack[u] \in Keys /\ rows[ack[u]] # None
  BY DEF Acknowledge, TypeOK, PresentInv
<1>2. rows' = [rows EXCEPT ![ack[u]] = [rows[ack[u]] EXCEPT !.acked = TRUE]]
  BY DEF Acknowledge
<1>3. /\ [rows[ack[u]] EXCEPT !.acked = TRUE] # None
      /\ [rows[ack[u]] EXCEPT !.acked = TRUE].active = rows[ack[u]].active
      /\ [rows[ack[u]] EXCEPT !.acked = TRUE].acked
  BY <1>1, RowFields, RowAssumption DEF Row
<1> QED BY <1>1, <1>2, <1>3 DEF TypeOK, Rows

LEMMA ProposeKeeps ==
    ASSUME TypeOK, PresentInv, IInv, NEW v \in Candidates, Propose(v)
    PROVE  IInv'
<1>1. /\ rows' = [rows EXCEPT ![v] = [active |-> TRUE, acked |-> FALSE]]
      /\ version' = [c \in Candidates |-> IF c = v THEN "draft"
                                          ELSE IF version[c] = "draft" THEN "decided"
                                          ELSE version[c]]
      /\ sweep' = sweep /\ version[v] = "none"
      /\ late' = IF Sweeping("protect") \/ Sweeping("resolve") THEN late \cup {v} ELSE late
  BY DEF Propose
<1>2. \A k \in Keys : k # v => rows'[k] = rows[k]
  BY <1>1 DEF TypeOK, Rows
<1>3. \A c \in Candidates : version'[c] = "draft" => c = v
  BY <1>1
<1>4. UnproposedInv'
  BY <1>1, <1>2, RulesAreNotCandidates DEF IInv, UnproposedInv
<1>5. KnownInv'
  BY <1>1, <1>3 DEF KnownInv, Sweeping
<1>6. v \notin sweep.gone
  BY <1>1 DEF PresentInv, IInv, UnproposedInv
<1>7. GoneInv'
  BY <1>1, <1>3, <1>6 DEF GoneInv, Sweeping
<1>8. LoadedInv'
  BY <1>1, <1>2, RulesAreNotCandidates DEF IInv, LoadedInv
<1> QED BY <1>4, <1>5, <1>7, <1>8 DEF IInv

(* Nobody takes an alert away but the sweep.                               *)
LEMMA PeopleKeep ==
    ASSUME TypeOK, PresentInv, IInv,
           \/ Plant
           \/ \E v \in Candidates : Decide(v)
           \/ \E u \in Users : Acknowledge(u) \/ \E k \in Keys : ReadAlert(u, k)
    PROVE  IInv'
<1>1. sweep' = sweep /\ late' = late
  BY DEF Plant, Decide, Acknowledge, ReadAlert
<1>2. \A v \in Candidates : version'[v] = version[v] \/ (version[v] = "draft" /\ version'[v] = "decided")
  BY DEF Plant, Decide, Acknowledge, ReadAlert, TypeOK
<1>3. \A k \in Keys : (rows'[k] = None) = (rows[k] = None) /\ (rows[k] # None => rows'[k].active = rows[k].active)
  <2>1. CASE rows' = rows
    BY <2>1
  <2>2. rows' = rows \/ \E u \in Users : Acknowledge(u)
    BY DEF Plant, Decide, ReadAlert
  <2> QED BY <2>1, <2>2, AcknowledgeKeeps
<1>4. Candidates \subseteq Keys /\ sweep.found \subseteq Keys
  BY RulesAreNotCandidates
<1>5. UnproposedInv'
  BY <1>2, <1>3, <1>4 DEF IInv, UnproposedInv
<1>6. KnownInv'
  BY <1>1, <1>2, <1>3, <1>4 DEF IInv, KnownInv, Active, Sweeping
<1>7. GoneInv'
  BY <1>1, <1>2 DEF IInv, GoneInv, Sweeping
<1>8. LoadedInv'
  BY <1>1, <1>3, <1>4 DEF IInv, LoadedInv
<1> QED BY <1>5, <1>6, <1>7, <1>8 DEF IInv

LEMMA SweepKeeps ==
    ASSUME TypeOK, PresentInv, IInv, SweepStep \/ Fail
    PROVE  IInv'
<1>1. version' = version
  BY DEF SweepStep, Evaluate, Load, Flush, ListActive, Protect, Resolve, Commit, Fail
<1>2. sweep \in Sweep /\ Candidates \subseteq Keys /\ sweep.found \subseteq Keys
  BY RulesAreNotCandidates DEF TypeOK
<1>3. CASE Evaluate \/ Fail
  <2>1. rows' = rows /\ sweep'.pc \in {"idle", "load"}
    BY <1>3, IdleFields DEF Evaluate, Fail
  <2> QED BY <1>1, <2>1 DEF IInv, UnproposedInv, KnownInv, GoneInv, LoadedInv, Sweeping, Flushed
<1>4. CASE Load
  <2> DEFINE loaded == [k \in Keys |-> IF k \in sweep.found THEN rows[k] ELSE None]
  <2>1. sweep' = [sweep EXCEPT !.pc = "flush", !.loaded = loaded] /\ rows' = rows
    BY <1>4 DEF Load
  <2>2. \A k \in sweep.found : loaded[k] = rows[k]
    BY <1>2
  <2> HIDE DEF loaded
  <2>3. sweep'.pc = "flush" /\ sweep'.found = sweep.found /\ sweep'.loaded = loaded
    BY <1>2, <2>1 DEF Sweep
  <2>4. LoadedInv'
    BY <2>1, <2>2, <2>3 DEF LoadedInv
  <2> QED BY <1>1, <2>1, <2>3, <2>4 DEF IInv, UnproposedInv, KnownInv, GoneInv, Sweeping
<1>5. CASE Flush \/ ListActive \/ Protect \/ Resolve
  <2>1. /\ rows' = rows /\ sweep'.found = sweep.found /\ sweep'.loaded = sweep.loaded
        /\ sweep.pc \in Flushed
    BY <1>2, <1>5 DEF Flush, ListActive, Protect, Resolve, Sweeping, Flushed, Sweep
  <2>2. UnproposedInv' /\ LoadedInv'
    BY <1>1, <2>1 DEF IInv, UnproposedInv, LoadedInv
  <2>3. CASE Flush
    <3>1. sweep'.pc = "list"
      BY <1>2, <2>3 DEF Flush, Sweep
    <3> QED BY <2>2, <3>1 DEF IInv, KnownInv, GoneInv, Sweeping
  <2>4. CASE ListActive
    <3>1. sweep'.pc = "protect" /\ sweep'.listed = {v \in Candidates : Active(v)}
      BY <1>2, <2>4 DEF ListActive, Sweep
    <3> QED BY <2>1, <2>2, <3>1 DEF IInv, KnownInv, GoneInv, Sweeping, Active
  <2>5. CASE Protect
    <3>1. /\ sweep'.pc = "resolve" /\ sweep'.kept = sweep.found \cup Protected /\ late' = late
          /\ Sweeping("protect")
      BY <1>2, <2>5 DEF Protect, Sweep
    <3>2. \A v \in Candidates :
             version[v] = "draft" /\ Active(v) /\ v \notin late => v \in Protected
      BY <3>1 DEF IInv, KnownInv, Protected
    <3> QED BY <1>1, <2>1, <2>2, <3>1, <3>2 DEF IInv, KnownInv, GoneInv, Sweeping, Active
  <2>6. CASE Resolve
    <3>1. /\ sweep'.pc = "commit" /\ late' = late /\ Sweeping("resolve")
          /\ sweep'.gone = {k \in Keys : Active(k)} \ sweep.kept
      BY <1>2, <2>6 DEF Resolve, Sweep
    <3>2. \A v \in Candidates : v \in sweep'.gone /\ version[v] = "draft" => v \in late
      BY <3>1 DEF IInv, KnownInv
    <3> QED BY <1>1, <2>2, <3>1, <3>2 DEF IInv, KnownInv, GoneInv, Sweeping
  <2> QED BY <1>5, <2>3, <2>4, <2>5, <2>6
<1>6. CASE Commit
  <2>1. /\ sweep'.pc = "idle" /\ rows' = [k \in Keys |-> Written(k)] /\ Sweeping("commit")
    BY <1>6, IdleFields DEF Commit
  <2>2. \A v \in Candidates : rows[v] = None /\ v \notin sweep.gone => rows'[v] = rows[v]
    BY <1>2, <2>1, RulesAreNotCandidates DEF Written
  <2>3. \A v \in Candidates : version[v] = "none" => rows[v] = None /\ v \notin sweep.gone
    BY DEF IInv, UnproposedInv, PresentInv
  <2> QED BY <1>1, <2>1, <2>2, <2>3 DEF IInv, UnproposedInv, KnownInv, GoneInv, LoadedInv, Sweeping, Flushed
<1> QED BY <1>3, <1>4, <1>5, <1>6 DEF SweepStep

LEMMA InitHolds == Init => IInv
<1> SUFFICES ASSUME Init PROVE IInv
  OBVIOUS
<1>1. /\ sweep.pc = "idle"
      /\ \A v \in Candidates : version[v] = "none" /\ rows[v] = None
  BY IdleFields DEF Init, Keys
<1> QED BY <1>1 DEF IInv, UnproposedInv, KnownInv, GoneInv, LoadedInv, Sweeping, Flushed

LEMMA InvariantStep ==
    TypeOK /\ PresentInv /\ IInv /\ [Next]_vars => (TypeOK /\ PresentInv /\ IInv)'
<1> SUFFICES ASSUME TypeOK, PresentInv, IInv, [Next]_vars PROVE IInv'
  BY TypeStep
<1>1. CASE UNCHANGED vars
  BY <1>1 DEF vars, IInv, UnproposedInv, KnownInv, GoneInv, LoadedInv, Active, Sweeping
<1> QED BY <1>1, ProposeKeeps, PeopleKeep, SweepKeeps DEF Next

(* Only these steps touch the alerts.                                      *)
LEMMA Writers ==
    ASSUME [Next]_vars
    PROVE  \/ rows' = rows \/ Commit
           \/ \E v \in Candidates : Propose(v)
           \/ \E u \in Users : Acknowledge(u)
BY DEF Next, vars, Plant, SweepStep, Evaluate, Load, Flush, ListActive, Protect, Resolve, Fail,
       Decide, ReadAlert

LEMMA Proposed ==
    ASSUME TypeOK, IInv, NEW v \in Candidates, Propose(v), NEW k \in Keys, rows[k] # None
    PROVE  rows'[k] = rows[k]
BY DEF Propose, IInv, UnproposedInv, TypeOK, Rows

LEMMA CommittedFound ==
    ASSUME TypeOK, IInv, Commit, NEW k \in sweep.found, rows[k] # None
    PROVE  /\ sweep.loaded[k] # None /\ k \in Keys
           /\ ~ sweep.loaded[k].active => ~ rows[k].active
           /\ rows'[k].acked =
                 (rows[k].acked /\ (sweep.loaded[k].active \/ ~ sweep.loaded[k].acked))
           /\ rows'[k].active = (rows[k].active \/ ~ sweep.loaded[k].active)
<1>1. k \in Keys /\ sweep.pc \in Flushed
  BY RulesAreNotCandidates DEF Commit, Sweeping, Flushed
<1>2. /\ sweep.loaded[k] # None
      /\ ~ sweep.loaded[k].active => ~ rows[k].active
  BY <1>1 DEF IInv, LoadedInv
<1>3. rows'[k] = [active |-> rows[k].active \/ ~ sweep.loaded[k].active,
                  acked  |-> rows[k].acked
                               /\ (sweep.loaded[k].active \/ ~ sweep.loaded[k].acked)]
  BY <1>1, <1>2 DEF Commit, Written, Upserted
<1> DEFINE a == rows[k].active \/ ~ sweep.loaded[k].active
           b == rows[k].acked /\ (sweep.loaded[k].active \/ ~ sweep.loaded[k].acked)
<1>4. rows'[k] = [active |-> a, acked |-> b]
  BY <1>3
<1> HIDE DEF a, b
<1>5. rows'[k].active = a /\ rows'[k].acked = b
  BY <1>4
<1> QED BY <1>1, <1>2, <1>5 DEF a, b

LEMMA CommittedOther ==
    ASSUME TypeOK, Commit, NEW k \in Keys, k \notin sweep.found, rows[k] # None
    PROVE  IF k \in sweep.gone THEN ~ rows'[k].active ELSE rows'[k] = rows[k]
<1>1. rows'[k] = IF k \in sweep.gone THEN [rows[k] EXCEPT !.active = FALSE] ELSE rows[k]
  BY DEF Commit, Written
<1>2. [rows[k] EXCEPT !.active = FALSE].active = FALSE
  BY RowFields DEF Row
<1> QED BY <1>1, <1>2

-----------------------------------------------------------------------------
(* analytics_service.py:367-371, 389-403: whatever is proposed, decided,   *)
(* acknowledged and failed between the statements of a sweep, it resolves  *)
(* the alert of no candidate that awaits approval, unless the candidate    *)
(* was committed between its list of alerts and its last SELECT.           *)
THEOREM WaitingDraftsSpared == Spec => SweepsSpareDrafts
<1> DEFINE A == \A v \in Candidates : version[v] = "draft" /\ Active(v) /\ ~Active(v)'
                                => v \in late
<1>1. ASSUME TypeOK, PresentInv, IInv, [Next]_vars, NEW v \in Candidates,
             version[v] = "draft", Active(v), ~ Active(v)'
      PROVE  v \in late
  <2>1. v \in Keys /\ rows[v] # None /\ rows[v].active /\ v \notin sweep.found
    BY <1>1, RulesAreNotCandidates DEF Active
  <2>2. rows' # rows
    BY <1>1 DEF Active
  <2>3. ASSUME NEW u \in Users, Acknowledge(u) PROVE FALSE
    BY <1>1, <2>1, <2>3, AcknowledgeKeeps DEF Active
  <2>4. ASSUME NEW c \in Candidates, Propose(c) PROVE FALSE
    BY <1>1, <2>1, <2>4, Proposed DEF Active
  <2>5. Commit
    BY <1>1, <2>2, <2>3, <2>4, Writers
  <2>6. v \in sweep.gone
    BY <1>1, <2>1, <2>5, CommittedOther DEF Active
  <2> QED BY <1>1, <2>5, <2>6 DEF Commit, IInv, GoneInv
<1>2. TypeOK /\ PresentInv /\ IInv /\ [Next]_vars => [A]_vars
  BY <1>1
<1> HIDE DEF A
<1>3. Spec => [][A]_vars
  BY InitType, InitHolds, InvariantStep, <1>2, PTL DEF Spec
<1> QED BY <1>3, PTL DEF SweepsSpareDrafts, A

(* db/repositories/alerts.py:47-56: an acknowledgement given between the   *)
(* sweep's read of a row and its write survives it while the alert stays   *)
(* active, and what comes back carries none from before.                   *)
THEOREM AcknowledgementsSurvive == Spec => AcknowledgementsKept
<1> DEFINE A == \A k \in Keys : rows[k] # None /\ Active(k)' =>
          /\ Active(k) /\ rows[k].acked => rows'[k].acked
          /\ ~rows[k].active /\ rows'[k].acked =>
                sweep.loaded[k] # None /\ ~sweep.loaded[k].acked
<1>1. ASSUME TypeOK, PresentInv, IInv, [Next]_vars, NEW k \in Keys,
             rows[k] # None, Active(k)'
      PROVE  /\ Active(k) /\ rows[k].acked => rows'[k].acked
             /\ ~rows[k].active /\ rows'[k].acked =>
                   sweep.loaded[k] # None /\ ~sweep.loaded[k].acked
  <2>1. rows'[k].active
    BY <1>1 DEF Active
  <2>2. CASE rows'[k] = rows[k]
    BY <2>1, <2>2
  <2>3. ASSUME NEW u \in Users, Acknowledge(u)
        PROVE  rows[k].active /\ (rows[k].acked => rows'[k].acked)
    BY <1>1, <2>1, <2>3, AcknowledgeKeeps
  <2>4. ASSUME NEW c \in Candidates, Propose(c) PROVE rows'[k] = rows[k]
    BY <1>1, <2>4, Proposed
  <2>5. CASE Commit
    <3>1. CASE k \in sweep.found
      BY <1>1, <2>1, <2>5, <3>1, CommittedFound DEF Active
    <3>2. CASE k \notin sweep.found
      BY <1>1, <2>1, <2>2, <2>5, <3>2, CommittedOther
    <3> QED BY <3>1, <3>2
  <2> QED BY <1>1, <2>2, <2>3, <2>4, <2>5, Writers
<1>2. TypeOK /\ PresentInv /\ IInv /\ [Next]_vars => [A]_vars
  BY <1>1
<1> HIDE DEF A
<1>3. Spec => [][A]_vars
  BY InitType, InitHolds, InvariantStep, <1>2, PTL DEF Spec
<1> QED BY <1>3, PTL DEF AcknowledgementsKept, A
=============================================================================
