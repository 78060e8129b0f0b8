------------------------- MODULE ConfigVersionsProofs -------------------------
(***************************************************************************)
(* TLAPS proofs about ConfigVersions, for any number of sessions, sections *)
(* and versions.                                                           *)
(***************************************************************************)
EXTENDS ConfigVersions, Integers, WellFoundedInduction, SequenceTheorems, FiniteSetTheorems, TLAPS

(* A save is a copy of a stored version and alone takes a new number, and  *)
(* the version an activation turns to is stored.                           *)
SourcesStored ==
    \A s \in Sessions :
        /\ At(s, "number") => Saving(s)
        /\ Saving(s) => tx[s].from \in Versions
        /\ Activating(s) => tx[s].version \in Versions

-----------------------------------------------------------------------------
(* Sets of numbers                                                         *)

(* Every set of natural numbers that is not empty has a least member.      *)
LEMMA LeastMember ==
    ASSUME NEW T \in SUBSET Nat, T # {}
    PROVE  \E m \in T : \A n \in T : m <= n
<1>1. PICK m \in T : \A n \in T : <<n, m>> \notin OpToRel(<, Nat)
  BY NatLessThanWellFounded, WFMin
<1>2. ASSUME NEW n \in T, n < m PROVE FALSE
  <2>1. <<n, m>> \in OpToRel(<, Nat)
    BY <1>2 DEF OpToRel
  <2> QED BY <1>1, <2>1
<1>3. \A n \in T : n \in Nat
  OBVIOUS
<1> QED BY <1>2, <1>3

(* A bounded one has a greatest member.                                    *)
LEMMA GreatestMember ==
    ASSUME NEW b \in Nat, NEW T \in SUBSET Nat, T # {}, \A n \in T : n <= b
    PROVE  \E m \in T : \A n \in T : n <= m
<1> DEFINE Rest == {r \in Nat : b - r \in T}
<1>1. \A n \in T : n \in Nat /\ b - n \in Nat /\ b - (b - n) = n
  OBVIOUS
<1>2. \A n \in T : b - n \in Rest
  BY <1>1
<1>3. Rest # {}
  BY <1>2
<1>4. PICK r \in Rest : \A q \in Rest : r <= q
  BY <1>3, LeastMember
<1>5. b - r \in T
  OBVIOUS
<1>6. \A n \in T : n <= b - r
  BY <1>1, <1>2, <1>4
<1> QED BY <1>5, <1>6

-----------------------------------------------------------------------------
(* The stored versions                                                     *)

LEMMA VersionsAreNumbers ==
    ASSUME TypeOK
    PROVE  /\ Len(rows) \in Nat /\ Len(rows) \in 1 .. MaxVersions
           /\ Versions \subseteq Numbers /\ Versions # {}
           /\ \A v \in Versions : rows[v] \in Row
           /\ Active \subseteq Versions /\ Active \subseteq Nat
BY BoundAssumption, ElementOfSeq, LenProperties DEF TypeOK, Versions, Numbers, Active

LEMMA LatestIsMember ==
    ASSUME TypeOK, Active # {}
    PROVE  ActiveVersion \in Active /\ \A v \in Active : v <= ActiveVersion
<1>1. \A v \in Active : v \in Nat /\ v <= Len(rows)
  BY VersionsAreNumbers DEF Active, Versions
<1>2. Len(rows) \in Nat /\ Active \in SUBSET Nat
  BY VersionsAreNumbers
<1>3. \E m \in Active : \A v \in Active : v <= m
  BY <1>1, <1>2, GreatestMember
<1> QED BY <1>3 DEF ActiveVersion, Latest

LEMMA FlaggedRows ==
    ASSUME TypeOK, NEW s \in Sessions
    PROVE  /\ Flagged(s) \in Seq(Row) /\ Len(Flagged(s)) = Len(rows)
           /\ \A v \in Versions :
                 /\ Flagged(s)[v].content = rows[v].content
                 /\ Flagged(s)[v].active <=>
                       IF v \in tx[s].marks THEN Activating(s) /\ v = tx[s].version
                       ELSE rows[v].active
<1>1. \A v \in Versions : /\ rows[v] \in Row
                          /\ (Activating(s) /\ v = tx[s].version) \in BOOLEAN
  BY VersionsAreNumbers DEF Activating, Saving, At
<1>2. \A v \in Versions : Flagged(s)[v] \in Row
  BY <1>1 DEF Flagged, Row
<1>3. Len(rows) \in Nat /\ Flagged(s) \in [1 .. Len(rows) -> Row]
  BY <1>2, VersionsAreNumbers DEF Flagged, Versions
<1>4. Flagged(s) \in Seq(Row)
  BY <1>3, IsASeq
<1>5. Len(Flagged(s)) = Len(rows)
  BY <1>3, <1>4, LenProperties
<1>6. \A v \in Versions :
         /\ Flagged(s)[v].content = rows[v].content
         /\ Flagged(s)[v].active <=>
               IF v \in tx[s].marks THEN Activating(s) /\ v = tx[s].version
               ELSE rows[v].active
  BY <1>1 DEF Flagged, Row
<1> QED BY <1>4, <1>5, <1>6

LEMMA SavedIsRow ==
    ASSUME TypeOK, SourcesStored, NEW s \in Sessions, Saving(s), tx[s].version = Len(rows) + 1
    PROVE  /\ Saved(s) \in Row /\ Saved(s).active
           /\ Saved(s).content[tx[s].section] = Len(rows) + 1
<1>1. tx[s].from \in Versions /\ tx[s].section \in Sections /\ tx[s].version \in Numbers
  BY VersionsAreNumbers DEF TypeOK, Request, SourcesStored, Saving, Numbers
<1>2. rows[tx[s].from].content \in [Sections -> Numbers]
  BY <1>1, VersionsAreNumbers DEF Row
<1> QED BY <1>1, <1>2 DEF Saved, Row

LEMMA SavedIsAppended ==
    ASSUME TypeOK, SourcesStored, NEW s \in Sessions, Saving(s), tx[s].version = Len(rows) + 1
    PROVE  LET new == Append(Flagged(s), Saved(s))
           IN  /\ new \in Seq(Row) /\ Len(new) = Len(rows) + 1
               /\ new[Len(rows) + 1] = Saved(s)
               /\ \A v \in Versions : new[v] = Flagged(s)[v]
               /\ Len(rows) + 1 \in Numbers
<1>1. Len(rows) + 1 \in Numbers
  BY VersionsAreNumbers DEF TypeOK, Request, Numbers
<1> QED BY <1>1, FlaggedRows, SavedIsRow, VersionsAreNumbers, AppendProperties DEF Versions
-----------------------------------------------------------------------------
(* Type correctness                                                        *)

LEMMA IdleIsRequest == Idle \in Request
BY BoundAssumption DEF Idle, Request, Numbers

LEMMA IdleFields == Idle.section = None /\ Idle.pc = "idle"
BY DEF Idle

LEMMA StepsOnlyRead ==
    ASSUME TypeOK, SourcesStored, NEW s \in Sessions,
           \/ \E k \in Sections : BeginSave(s, k)
           \/ \E v \in Versions : BeginActivate(s, v)
           \/ Number(s) \/ List(s) \/ Compare(s) \/ Update(s) \/ Abort(s)
    PROVE  /\ rows' = rows /\ overtaken' \subseteq overtaken
           /\ \E t \in Request :
                /\ tx' = [tx EXCEPT ![s] = t]
                /\ t.pc = "number" => t.section # None
                /\ t.section # None => t.from \in Versions
                /\ t.pc # "idle" /\ t.section = None => t.version \in Versions
<1>0. tx[s] \in Request /\ Len(rows) \in 1 .. MaxVersions /\ Active \subseteq Numbers
  BY VersionsAreNumbers DEF TypeOK
<1>a. /\ tx[s].section # None => tx[s].from \in Versions
      /\ ~ At(s, "idle") /\ tx[s].section = None => tx[s].version \in Versions
  BY DEF SourcesStored, Saving, Activating
<1>1. ASSUME NEW k \in Sections, BeginSave(s, k)
      PROVE  \E t \in Request :
                /\ tx' = [tx EXCEPT ![s] = t]
                /\ t.pc = "number" => t.section # None
                /\ t.section # None => t.from \in Versions
                /\ t.pc # "idle" /\ t.section = None => t.version \in Versions
  <2> DEFINE t == [Idle EXCEPT !.pc = "number", !.section = k, !.from = ActiveVersion]
  <2>1. ActiveVersion \in Versions /\ ActiveVersion \in 0 .. MaxVersions
    <3>1. ActiveVersion \in Versions
      BY <1>1, LatestIsMember, VersionsAreNumbers DEF BeginSave
    <3> QED BY <3>1, VersionsAreNumbers, BoundAssumption DEF Numbers
  <2>2. t \in Request /\ t.section = k /\ t.from = ActiveVersion
    BY <2>1, IdleIsRequest DEF Request
  <2> QED BY <1>1, <2>1, <2>2, NoneAssumption DEF BeginSave
<1>2. ASSUME NEW v \in Versions, BeginActivate(s, v)
      PROVE  \E t \in Request :
                /\ tx' = [tx EXCEPT ![s] = t]
                /\ t.pc = "number" => t.section # None
                /\ t.section # None => t.from \in Versions
                /\ t.pc # "idle" /\ t.section = None => t.version \in Versions
  <2> DEFINE t == [Idle EXCEPT !.pc = "list", !.version = v, !.seen = rows[v].active]
  <2>1. v \in 0 .. MaxVersions /\ rows[v].active \in BOOLEAN
    BY VersionsAreNumbers, BoundAssumption DEF Row, Numbers
  <2>2. t \in Request /\ t.version = v
    BY <2>1, IdleIsRequest DEF Request
  <2>3. t.section = None /\ t.pc = "list"
    BY DEF Idle
  <2> QED BY <1>2, <2>2, <2>3 DEF BeginActivate
<1>3. CASE Number(s)
  <2> DEFINE t == [tx[s] EXCEPT !.pc = "list", !.version = Len(rows) + 1]
  <2>1. Len(rows) + 1 \in 0 .. MaxVersions
    BY <1>0, <1>3, BoundAssumption DEF Number
  <2>2. t \in Request /\ t.section = tx[s].section /\ t.from = tx[s].from /\ t.version = Len(rows) + 1
    BY <1>0, <2>1 DEF Request
  <2>3. tx' = [tx EXCEPT ![s] = t]
    BY <1>0, <1>3 DEF Number, Request, TypeOK
  <2>4. tx[s].section # None
    BY <1>3 DEF Number, SourcesStored, Saving
  <2> QED BY <1>3, <1>a, <2>2, <2>3, <2>4 DEF Number, At, Request
<1>4. CASE List(s)
  <2> DEFINE t == [tx[s] EXCEPT !.pc = "update", !.marks = Active]
  <2>1. t \in Request /\ t.section = tx[s].section /\ t.from = tx[s].from
    BY <1>0 DEF Request
  <2>2. tx' = [tx EXCEPT ![s] = t]
    BY <1>0, <1>4 DEF List, Request, TypeOK
  <2> QED BY <1>4, <1>a, <2>1, <2>2 DEF List, At, Saving, Request
<1>5. CASE Compare(s)
  <2> DEFINE v == tx[s].version
             t == [tx[s] EXCEPT !.pc = "update",
                                !.marks = (Active \ {v}) \cup (IF tx[s].seen THEN {} ELSE {v})]
  <2>1. v \in Versions /\ v \in Numbers
    BY <1>5, VersionsAreNumbers DEF Compare, SourcesStored
  <2>2. t \in Request /\ t.section = tx[s].section /\ t.version = v
    BY <1>0, <2>1 DEF Request
  <2>3. tx' = [tx EXCEPT ![s] = t]
    BY <1>0, <1>5 DEF Compare, Request, TypeOK
  <2> QED BY <1>5, <1>a, <2>2, <2>3 DEF Compare, At, Activating, Saving, Request
<1>6. CASE Update(s)
  <2> DEFINE t == [tx[s] EXCEPT !.pc = "commit"]
  <2>1. t \in Request /\ t.section = tx[s].section /\ t.from = tx[s].from /\ t.version = tx[s].version
    BY <1>0 DEF Request
  <2>2. tx' = [tx EXCEPT ![s] = t]
    BY <1>0, <1>6 DEF Update, Request, TypeOK
  <2> QED BY <1>6, <1>a, <2>1, <2>2 DEF Update, At, Request
<1>7. CASE Abort(s)
  BY <1>7, IdleIsRequest, IdleFields DEF Abort, Ends
<1>8. rows' = rows /\ overtaken' \subseteq overtaken
  BY DEF BeginSave, BeginActivate, Number, List, Compare, Update, Abort
<1> QED BY <1>1, <1>2, <1>3, <1>4, <1>5, <1>6, <1>7, <1>8
LEMMA TypeStep ==
    TypeOK /\ SourcesStored /\ [Next]_vars => TypeOK' /\ SourcesStored'
<1> SUFFICES ASSUME TypeOK, SourcesStored, [Next]_vars PROVE TypeOK' /\ SourcesStored'
  OBVIOUS
<1>0. /\ tx \in [Sessions -> Request] /\ rows \in Seq(Row) /\ Len(rows) \in Numbers
      /\ Versions = 1 .. Len(rows) /\ Len(rows) \in Nat
  BY VersionsAreNumbers DEF TypeOK, Versions
<1>1. CASE UNCHANGED vars
  BY <1>1 DEF vars, TypeOK, SourcesStored, Saving, Activating, At, Versions
<1>2. ASSUME NEW s \in Sessions,
             \/ \E k \in Sections : BeginSave(s, k)
             \/ \E v \in Versions : BeginActivate(s, v)
             \/ Number(s) \/ List(s) \/ Compare(s) \/ Update(s) \/ Abort(s)
      PROVE  TypeOK' /\ SourcesStored'
  <2>1. PICK t \in Request :
           /\ tx' = [tx EXCEPT ![s] = t]
           /\ t.pc = "number" => t.section # None
           /\ t.section # None => t.from \in Versions
           /\ t.pc # "idle" /\ t.section = None => t.version \in Versions
    BY <1>2, StepsOnlyRead
  <2>2. rows' = rows /\ overtaken' \subseteq overtaken
    BY <1>2, StepsOnlyRead
  <2> QED BY <1>0, <2>1, <2>2 DEF TypeOK, SourcesStored, Saving, Activating, At, Versions
\* A commit stores all versions there were, and perhaps one more.
<1>3. ASSUME NEW s \in Sessions, tx' = [tx EXCEPT ![s] = Idle],
             rows' \in Seq(Row), Len(rows') \in Numbers, Len(rows') \in Nat,
             Len(rows) <= Len(rows'), overtaken' \subseteq Sessions
      PROVE  TypeOK' /\ SourcesStored'
  <2>1. Versions \subseteq Versions'
    BY <1>0, <1>3 DEF Versions
  <2>2. Idle \in Request /\ Idle.pc = "idle" /\ Idle.section = None
    BY IdleIsRequest, IdleFields
  <2> HIDE DEF Idle
  <2> QED BY <1>0, <1>3, <2>1, <2>2 DEF TypeOK, SourcesStored, Saving, Activating, At
<1>4. ASSUME NEW s \in Sessions, CommitSave(s) PROVE TypeOK' /\ SourcesStored'
  <2>1. rows' \in Seq(Row) /\ Len(rows') \in Numbers /\ Len(rows') \in {Len(rows), Len(rows) + 1}
    <3>1. CASE tx[s].version = Len(rows) + 1
      BY <1>0, <1>4, <3>1, SavedIsAppended DEF CommitSave
    <3>2. CASE tx[s].version # Len(rows) + 1
      BY <1>0, <1>4, <3>2 DEF CommitSave
    <3> QED BY <3>1, <3>2
  <2>2. tx' = [tx EXCEPT ![s] = Idle] /\ Len(rows') \in Nat /\ Len(rows) <= Len(rows')
    BY <1>0, <1>4, <2>1 DEF CommitSave, Ends
  <2>3. overtaken' \subseteq Sessions
    BY <1>4 DEF CommitSave, TypeOK
  <2> QED BY <1>3, <2>1, <2>2, <2>3
<1>5. ASSUME NEW s \in Sessions, CommitActivate(s) PROVE TypeOK' /\ SourcesStored'
  <2>1. /\ rows' \in Seq(Row) /\ Len(rows') = Len(rows)
        /\ tx' = [tx EXCEPT ![s] = Idle]
        /\ overtaken' \subseteq Sessions
    BY <1>5, FlaggedRows DEF CommitActivate, Ends, TypeOK
  <2>2. Len(rows') \in Nat /\ Len(rows') \in Numbers /\ Len(rows) <= Len(rows')
    BY <1>0, <2>1
  <2> QED BY <1>3, <2>1, <2>2
<1> QED BY <1>1, <1>2, <1>4, <1>5 DEF Next

LEMMA TypeInit == Init => TypeOK /\ SourcesStored
<1> SUFFICES ASSUME Init PROVE TypeOK /\ SourcesStored
  OBVIOUS
<1>1. [active |-> TRUE, content |-> [k \in Sections |-> 1]] \in Row
  BY BoundAssumption DEF Row, Numbers
<1>2. rows \in Seq(Row) /\ Len(rows) = 1
  BY <1>1 DEF Init
<1>3. 1 \in Numbers
  BY BoundAssumption DEF Numbers
<1> QED BY <1>2, <1>3, IdleIsRequest, IdleFields DEF Init, TypeOK, SourcesStored, Saving, Activating, At

(* Every stored version is a whole configuration, and requests stay        *)
(* well-formed, in every behaviour.                                        *)
THEOREM TypeCorrect == Spec => [](TypeOK /\ SourcesStored)
BY TypeInit, TypeStep, PTL DEF Spec

-----------------------------------------------------------------------------
(* What a save keeps                                                       *)

(* A save nobody has overtaken is a copy of the version in force as long   *)
(* as its number is still free.                                            *)
CopiesCurrent ==
    \A s \in Sessions : Saving(s) /\ s \notin overtaken =>
        /\ At(s, "number") => tx[s].from = ActiveVersion
        /\ ~ At(s, "number") =>
              /\ tx[s].version <= Len(rows) + 1
              /\ tx[s].version = Len(rows) + 1 => tx[s].from = ActiveVersion

LEMMA LastIsLatest ==
    ASSUME TypeOK, rows[Len(rows)].active
    PROVE  ActiveVersion = Len(rows)
<1>1. /\ Len(rows) \in Active /\ Active \subseteq Nat
      /\ \A v \in Active : v <= Len(rows)
  BY VersionsAreNumbers DEF Active, Versions
<1>2. Active # {}
  BY <1>1
<1>3. ActiveVersion \in Active /\ \A v \in Active : v <= ActiveVersion
  BY <1>2, LatestIsMember
<1>4. ActiveVersion \in Nat /\ Len(rows) \in Nat /\ ActiveVersion <= Len(rows) /\ Len(rows) <= ActiveVersion
  BY <1>1, <1>3, VersionsAreNumbers
<1> QED BY <1>4

LEMMA LastIsLatestNext == (TypeOK => (rows[Len(rows)].active => ActiveVersion = Len(rows)))'
BY LastIsLatest, PTL

LEMMA CopiesRead ==
    ASSUME TypeOK, SourcesStored, CopiesCurrent, NEW s \in Sessions,
           \/ \E k \in Sections : BeginSave(s, k)
           \/ \E v \in Versions : BeginActivate(s, v)
           \/ Number(s) \/ List(s) \/ Compare(s) \/ Update(s) \/ Abort(s)
    PROVE  CopiesCurrent'
<1>0. tx \in [Sessions -> Request] /\ Len(rows) \in Nat
  BY VersionsAreNumbers DEF TypeOK
<1>1. rows' = rows
  BY StepsOnlyRead
<1>2. Len(rows') = Len(rows) /\ ActiveVersion' = ActiveVersion
  BY <1>1 DEF ActiveVersion, Active, Versions
<1>3. ASSUME NEW k \in Sections, BeginSave(s, k) PROVE CopiesCurrent'
  <2>1. /\ tx'[s].pc = "number" /\ tx'[s].from = ActiveVersion
        /\ \A r \in Sessions \ {s} : tx'[r] = tx[r]
        /\ overtaken' = overtaken \ {s}
    BY <1>0, <1>3, IdleIsRequest DEF BeginSave, Request
  <2> QED BY <1>2, <2>1 DEF CopiesCurrent, Saving, At
<1>4. ASSUME NEW v \in Versions, BeginActivate(s, v) PROVE CopiesCurrent'
  <2>1. /\ tx'[s].section = None
        /\ \A r \in Sessions \ {s} : tx'[r] = tx[r]
        /\ overtaken' = overtaken
    BY <1>0, <1>4 DEF BeginActivate, Idle
  <2> QED BY <1>2, <2>1 DEF CopiesCurrent, Saving, At
<1>5. CASE Number(s)
  <2>1. /\ tx[s].pc = "number" /\ tx'[s].pc = "list" /\ tx'[s].section = tx[s].section
        /\ tx'[s].from = tx[s].from /\ tx'[s].version = Len(rows) + 1
        /\ \A r \in Sessions \ {s} : tx'[r] = tx[r]
        /\ overtaken' = overtaken
    BY <1>0, <1>5 DEF Number, At, Request
  <2> QED BY <1>0, <1>2, <2>1 DEF CopiesCurrent, Saving, At
<1>6. CASE List(s) \/ Compare(s) \/ Update(s)
  <2>1. /\ tx[s].pc # "number" /\ tx'[s].pc # "number" /\ tx'[s].section = tx[s].section
        /\ tx'[s].from = tx[s].from /\ tx'[s].version = tx[s].version
        /\ \A r \in Sessions \ {s} : tx'[r] = tx[r]
        /\ overtaken' = overtaken
    BY <1>0, <1>6 DEF List, Compare, Update, At, Request
  <2> QED BY <1>2, <2>1 DEF CopiesCurrent, Saving, At
<1>7. CASE Abort(s)
  <2>1. /\ tx'[s].section = None
        /\ \A r \in Sessions \ {s} : tx'[r] = tx[r]
        /\ overtaken' = overtaken \ {s}
    BY <1>0, <1>7, IdleFields DEF Abort, Ends
  <2> QED BY <1>2, <2>1 DEF CopiesCurrent, Saving, At
<1> QED BY <1>3, <1>4, <1>5, <1>6, <1>7

LEMMA CopiesCommit ==
    ASSUME TypeOK, SourcesStored, CopiesCurrent, NEW s \in Sessions,
           CommitSave(s) \/ CommitActivate(s)
    PROVE  CopiesCurrent'
<1>0. tx \in [Sessions -> Request] /\ Len(rows) \in Nat
  BY VersionsAreNumbers DEF TypeOK
<1>1. tx'[s].section = None /\ \A r \in Sessions \ {s} : tx'[r] = tx[r]
  BY <1>0, IdleFields DEF CommitSave, CommitActivate, Ends
<1>2. CASE CommitActivate(s)
  <2>1. overtaken' = overtaken \cup {r \in Sessions : Saving(r)}
    BY <1>2 DEF CommitActivate
  <2>2. \A r \in Sessions : Saving(r)' => r \in overtaken'
    BY <1>1, <2>1 DEF Saving
  <2> QED BY <2>2 DEF CopiesCurrent
<1>3. CASE CommitSave(s) /\ tx[s].version # Len(rows) + 1
  <2>1. rows' = rows /\ overtaken' = overtaken \ {s}
    BY <1>3 DEF CommitSave
  <2>2. Len(rows') = Len(rows) /\ ActiveVersion' = ActiveVersion
    BY <2>1 DEF ActiveVersion, Active, Versions
  <2> QED BY <1>1, <2>1, <2>2 DEF CopiesCurrent, Saving, At
<1>4. CASE CommitSave(s) /\ tx[s].version = Len(rows) + 1
  <2>1. /\ rows' = Append(Flagged(s), Saved(s)) /\ Saving(s)
        /\ overtaken' = (overtaken \cup {r \in Sessions : At(r, "number")}) \ {s}
    BY <1>4 DEF CommitSave
  <2>2. Len(rows') = Len(rows) + 1
    BY <1>4, <2>1, SavedIsAppended
  <2>3. ASSUME NEW r \in Sessions, Saving(r)', r \notin overtaken'
        PROVE  ~ At(r, "number")' /\ tx'[r].version < Len(rows') + 1 /\ tx'[r].version \in Nat
    <3>1. r # s /\ tx'[r] = tx[r]
      BY <1>1, <2>3 DEF Saving
    <3>2. Saving(r) /\ r \notin overtaken /\ ~ At(r, "number")
      BY <2>1, <2>3, <3>1 DEF Saving
    <3>3. tx[r].version <= Len(rows) + 1
      BY <3>2 DEF CopiesCurrent
    <3>4. tx[r].version \in Nat
      BY <1>0, BoundAssumption DEF Request
    <3> QED BY <1>0, <2>2, <3>1, <3>2, <3>3, <3>4 DEF At
  <2> QED BY <1>0, <2>2, <2>3 DEF CopiesCurrent
<1> QED BY <1>2, <1>3, <1>4

LEMMA CopiesStep ==
    TypeOK /\ SourcesStored /\ CopiesCurrent /\ [Next]_vars => CopiesCurrent'
<1> SUFFICES ASSUME TypeOK, SourcesStored, CopiesCurrent, [Next]_vars PROVE CopiesCurrent'
  OBVIOUS
<1>1. CASE UNCHANGED vars
  BY <1>1 DEF vars, CopiesCurrent, Saving, At, ActiveVersion, Active, Versions
<1> QED BY <1>1, CopiesRead, CopiesCommit DEF Next

LEMMA CopiesInit == Init => CopiesCurrent
BY IdleFields DEF Init, CopiesCurrent, Saving

(* What the commit of a save that was not overtaken puts in force.         *)
LEMMA OvertakenOnly ==
    ASSUME TypeOK, TypeOK', SourcesStored, CopiesCurrent, Next, NEW s \in Sessions,
           At(s, "commit"), Saving(s), Len(rows') > Len(rows), At(s, "idle")', s \notin overtaken
    PROVE  /\ rows'[ActiveVersion'].content[tx[s].section] = Len(rows')
           /\ \A k \in Sections \ {tx[s].section} :
                 rows'[ActiveVersion'].content[k] = rows[ActiveVersion].content[k]
<1>0. tx \in [Sessions -> Request] /\ Len(rows) \in Nat /\ Versions = 1 .. Len(rows)
  BY VersionsAreNumbers DEF TypeOK, Versions
<1>1. PICK r \in Sessions : CommitSave(r) /\ tx[r].version = Len(rows) + 1
  <2>1. rows' # rows
    BY <1>0
  <2>2. ~ \E r \in Sessions : CommitActivate(r)
    BY <1>0, FlaggedRows DEF CommitActivate
  <2> QED BY <2>1, <2>2 DEF Next, BeginSave, BeginActivate, Number, List, Compare, Update, Abort, CommitSave
<1>2. r = s
  <2>1. \A q \in Sessions \ {r} : tx'[q] = tx[q]
    BY <1>0, <1>1 DEF CommitSave, Ends
  <2> QED BY <2>1 DEF At
<1>3. rows' = Append(Flagged(s), Saved(s)) /\ tx[s].version = Len(rows) + 1
  BY <1>1, <1>2 DEF CommitSave
<1>4. Len(rows') = Len(rows) + 1 /\ rows'[Len(rows')] = Saved(s)
  BY <1>3, SavedIsAppended
<1>5. Saved(s) \in Row /\ Saved(s).active /\ Saved(s).content[tx[s].section] = Len(rows')
  BY <1>3, <1>4, SavedIsRow
<1>6. ActiveVersion' = Len(rows')
  BY <1>4, <1>5, LastIsLatestNext
<1>7. tx[s].from = ActiveVersion /\ tx[s].from \in Versions
  BY <1>3 DEF CopiesCurrent, SourcesStored, At
<1>8. rows[tx[s].from].content \in [Sections -> Numbers]
  BY <1>7, VersionsAreNumbers DEF Row
<1>9. \A k \in Sections \ {tx[s].section} : Saved(s).content[k] = rows[ActiveVersion].content[k]
  BY <1>7, <1>8 DEF Saved
<1> QED BY <1>4, <1>5, <1>6, <1>9

(* config_service.py:172-190, db/repositories/config.py:47-118: whatever   *)
(* is saved and activated beside it, a save changes no section but its own *)
(* unless another request committed between its read and its number, or an *)
(* activation before it ended.  That activations overlap is allowed here.  *)
THEOREM SavesLoseNothingElse == Spec => SavesKeepOtherSections
<1> DEFINE A == \A s \in Sessions :
          At(s, "commit") /\ Saving(s) /\ Len(rows') > Len(rows) /\ At(s, "idle")'
             /\ s \notin overtaken
          => /\ rows'[ActiveVersion'].content[tx[s].section] = Len(rows')
             /\ \A k \in Sections \ {tx[s].section} :
                   rows'[ActiveVersion'].content[k] = rows[ActiveVersion].content[k]
<1>1. TypeOK /\ SourcesStored /\ CopiesCurrent /\ [Next]_vars
        => (TypeOK /\ SourcesStored /\ CopiesCurrent)'
  BY TypeStep, CopiesStep
<1>2. TypeOK /\ TypeOK' /\ SourcesStored /\ CopiesCurrent /\ [Next]_vars => [A]_vars
  BY OvertakenOnly
<1> HIDE DEF A
<1>3. Spec => [][A]_vars
  BY TypeInit, CopiesInit, <1>1, <1>2, PTL DEF Spec
<1> QED BY <1>3, PTL DEF SavesKeepOtherSections, A
-----------------------------------------------------------------------------
(* One version is active                                                   *)

\* A request has read which rows it will write.
Listed(s) == At(s, "update") \/ At(s, "commit")

(* An activation is alone, and what it is going to write is every active   *)
(* version and its target.                                                 *)
ActivationsAlone ==
    \A s \in Sessions : Activating(s) =>
        /\ \A r \in Sessions \ {s} : At(r, "idle")
        /\ tx[s].version \notin Active /\ ~ tx[s].seen
        /\ Listed(s) => tx[s].marks = Active \cup {tx[s].version}

(* A save whose number is still free is going to write every active        *)
(* version: none was activated or stored since it took the number.         *)
NumberedSavesCurrent ==
    \A s \in Sessions : Saving(s) /\ ~ At(s, "number") /\ ~ At(s, "idle") =>
        /\ tx[s].version <= Len(rows) + 1
        /\ Listed(s) /\ tx[s].version = Len(rows) + 1 => tx[s].marks = Active

SingleActive == \E a \in Versions : Active = {a}

IInv == /\ TypeOK /\ SourcesStored
        /\ SingleActive
        /\ ActivationsAlone
        /\ NumberedSavesCurrent

(* Requests that only read leave the versions alone.                       *)
LEMMA ReadersKeep ==
    ASSUME rows' = rows
    PROVE  Versions' = Versions /\ Active' = Active /\ ActiveVersion' = ActiveVersion
BY DEF Versions, Active, ActiveVersion

LEMMA ReadStep ==
    ASSUME IInv, ~ Overlapping, NEW s \in Sessions,
           \/ \E k \in Sections : BeginSave(s, k)
           \/ \E v \in Versions : BeginActivate(s, v)
           \/ Number(s) \/ List(s) \/ Compare(s) \/ Update(s) \/ Abort(s)
    PROVE  SingleActive' /\ ActivationsAlone' /\ NumberedSavesCurrent'
<1>0. TypeOK /\ SourcesStored /\ tx \in [Sessions -> Request] /\ Len(rows) \in Nat
  BY VersionsAreNumbers DEF IInv, TypeOK
<1>1. rows' = rows /\ Versions' = Versions /\ Active' = Active /\ ActiveVersion' = ActiveVersion
  BY <1>0, ReadersKeep, StepsOnlyRead
<1>2. SingleActive'
  BY <1>1 DEF IInv, SingleActive
<1>3. ASSUME NEW k \in Sections, BeginSave(s, k) PROVE ActivationsAlone' /\ NumberedSavesCurrent'
  <2>1. \A r \in Sessions : ~ Activating(r)
    BY <1>3 DEF BeginSave, IInv
  <2>2. /\ tx'[s].pc = "number" /\ tx'[s].section = k
        /\ \A r \in Sessions \ {s} : tx'[r] = tx[r]
    BY <1>0, <1>3, IdleIsRequest DEF BeginSave, Request
  <2>3. \A r \in Sessions : ~ Activating(r)'
    BY <2>1, <2>2, NoneAssumption DEF Activating, Saving, At
  <2>4. NumberedSavesCurrent'
    BY <1>1, <2>2 DEF IInv, NumberedSavesCurrent, Saving, At, Listed
  <2> QED BY <2>3, <2>4 DEF ActivationsAlone
<1>4. ASSUME NEW v \in Versions, BeginActivate(s, v)
      PROVE  ActivationsAlone' /\ NumberedSavesCurrent'
  <2>1. \A r \in Sessions : At(r, "idle")
    BY <1>4 DEF BeginActivate, IInv
  <2>2. PICK a \in Versions : Active = {a}
    BY DEF IInv, SingleActive
  <2>3. v \notin Active
    BY <1>0, <1>4, <2>2, LatestIsMember DEF BeginActivate
  <2>4. ~ rows[v].active
    BY <2>3 DEF Active
  <2>5. tx'[s] = [Idle EXCEPT !.pc = "list", !.version = v, !.seen = rows[v].active]
    BY <1>0, <1>4 DEF BeginActivate
  <2>6. tx'[s].pc = "list" /\ tx'[s].section = None /\ tx'[s].version = v /\ ~ tx'[s].seen
    BY <2>4, <2>5 DEF Idle
  <2>7. \A r \in Sessions \ {s} : tx'[r] = tx[r]
    BY <1>0, <1>4 DEF BeginActivate
  <2>8. ActivationsAlone'
    BY <1>1, <2>1, <2>3, <2>6, <2>7 DEF ActivationsAlone, Activating, Saving, At, Listed
  <2>9. NumberedSavesCurrent'
    BY <2>1, <2>6, <2>7 DEF NumberedSavesCurrent, Saving, At
  <2> QED BY <2>8, <2>9
<1>5. CASE Number(s)
  <2>1. Saving(s) /\ At(s, "number")
    BY <1>0, <1>5 DEF Number, SourcesStored
  <2>2. /\ tx'[s].pc = "list" /\ tx'[s].section = tx[s].section
        /\ tx'[s].version = Len(rows) + 1
        /\ \A r \in Sessions \ {s} : tx'[r] = tx[r]
    BY <1>0, <1>5 DEF Number, Request
  <2>3. ActivationsAlone'
    BY <1>1, <2>1, <2>2 DEF IInv, ActivationsAlone, Activating, Saving, At, Listed
  <2>4. NumberedSavesCurrent'
    BY <1>0, <1>1, <2>2 DEF IInv, NumberedSavesCurrent, Saving, At, Listed
  <2> QED BY <1>2, <2>3, <2>4
<1>6. CASE List(s)
  <2>1. Saving(s) /\ At(s, "list")
    BY <1>6 DEF List
  <2>2. /\ tx'[s].pc = "update" /\ tx'[s].section = tx[s].section
        /\ tx'[s].version = tx[s].version /\ tx'[s].marks = Active
        /\ \A r \in Sessions \ {s} : tx'[r] = tx[r]
    BY <1>0, <1>6 DEF List, Request
  <2>3. ActivationsAlone'
    BY <1>1, <2>1, <2>2 DEF IInv, ActivationsAlone, Activating, Saving, At, Listed
  <2>4. NumberedSavesCurrent'
    BY <1>0, <1>1, <2>1, <2>2 DEF IInv, NumberedSavesCurrent, Saving, At, Listed
  <2> QED BY <1>2, <2>3, <2>4
<1>7. CASE Compare(s)
  <2> DEFINE v == tx[s].version
  <2>1. Activating(s) /\ At(s, "list") /\ v \notin Active /\ ~ tx[s].seen
    BY <1>7 DEF Compare, IInv, ActivationsAlone
  <2>2. /\ tx'[s].pc = "update" /\ tx'[s].section = tx[s].section
        /\ tx'[s].version = v /\ tx'[s].seen = tx[s].seen
        /\ tx'[s].marks = (Active \ {v}) \cup (IF tx[s].seen THEN {} ELSE {v})
        /\ \A r \in Sessions \ {s} : tx'[r] = tx[r]
    BY <1>0, <1>7 DEF Compare, Request
  <2>3. tx'[s].marks = Active \cup {v}
    BY <2>1, <2>2
  <2> HIDE DEF v
  <2>4. ActivationsAlone'
    BY <1>1, <2>1, <2>2, <2>3 DEF IInv, ActivationsAlone, Activating, Saving, At, Listed, v
  <2>5. NumberedSavesCurrent'
    BY <1>1, <2>1, <2>2 DEF IInv, NumberedSavesCurrent, Activating, Saving, At, Listed
  <2> QED BY <1>2, <2>4, <2>5
<1>8. CASE Update(s)
  <2>1. /\ tx'[s].pc = "commit" /\ tx'[s].section = tx[s].section
        /\ tx'[s].version = tx[s].version /\ tx'[s].seen = tx[s].seen
        /\ tx'[s].marks = tx[s].marks
        /\ \A r \in Sessions \ {s} : tx'[r] = tx[r]
    BY <1>0, <1>8 DEF Update, Request
  <2>2. At(s, "update")
    BY <1>8 DEF Update
  <2>3. ActivationsAlone'
    BY <1>1, <2>1, <2>2 DEF IInv, ActivationsAlone, Activating, Saving, At, Listed
  <2>4. NumberedSavesCurrent'
    BY <1>1, <2>1, <2>2 DEF IInv, NumberedSavesCurrent, Saving, At, Listed
  <2> QED BY <1>2, <2>3, <2>4
<1>9. CASE Abort(s)
  <2>1. At(s, "idle")' /\ ~ Saving(s)' /\ \A r \in Sessions \ {s} : tx'[r] = tx[r]
    BY <1>0, <1>9, IdleFields DEF Abort, Ends, At, Saving
  <2>2. ActivationsAlone'
    BY <1>1, <2>1 DEF IInv, ActivationsAlone, Activating, Saving, At, Listed
  <2>3. NumberedSavesCurrent'
    BY <1>1, <2>1 DEF IInv, NumberedSavesCurrent, Saving, At, Listed
  <2> QED BY <1>2, <2>2, <2>3
<1> QED BY <1>2, <1>3, <1>4, <1>5, <1>6, <1>7, <1>8, <1>9
LEMMA CommitStep ==
    ASSUME IInv, TypeOK', NEW s \in Sessions, CommitSave(s) \/ CommitActivate(s)
    PROVE  SingleActive' /\ ActivationsAlone' /\ NumberedSavesCurrent'
<1>0. /\ TypeOK /\ SourcesStored /\ tx \in [Sessions -> Request] /\ Len(rows) \in Nat
      /\ Versions = 1 .. Len(rows) /\ Active \subseteq Versions
      /\ \A v \in Versions : v \in Active <=> rows[v].active
  BY VersionsAreNumbers DEF IInv, TypeOK, Versions, Active
<1>1. /\ At(s, "commit") /\ At(s, "idle")' /\ ~ Saving(s)'
      /\ \A r \in Sessions \ {s} : tx'[r] = tx[r]
  BY <1>0, IdleFields DEF CommitSave, CommitActivate, Ends, At, Saving
<1>2. CASE Saving(s) /\ tx[s].version # Len(rows) + 1
  <2>1. rows' = rows
    BY <1>2 DEF CommitSave, CommitActivate, Activating
  <2>2. Versions' = Versions /\ Active' = Active
    BY <2>1, ReadersKeep
  <2>3. SingleActive' /\ ActivationsAlone'
    BY <1>1, <2>2 DEF IInv, SingleActive, ActivationsAlone, Activating, Saving, At, Listed
  <2>4. NumberedSavesCurrent'
    BY <1>1, <2>1, <2>2 DEF IInv, NumberedSavesCurrent, Saving, At, Listed
  <2> QED BY <2>3, <2>4
<1>3. CASE Saving(s) /\ tx[s].version = Len(rows) + 1
  <2>1. tx[s].marks = Active
    BY <1>1, <1>3 DEF IInv, NumberedSavesCurrent, At, Listed
  <2>2. /\ rows' = Append(Flagged(s), Saved(s))
        /\ Len(rows') = Len(rows) + 1 /\ rows'[Len(rows) + 1] = Saved(s)
        /\ \A v \in Versions : rows'[v] = Flagged(s)[v]
    BY <1>0, <1>3, SavedIsAppended DEF CommitSave, CommitActivate, Activating
  <2>3. \A v \in Versions : ~ rows'[v].active
    BY <1>0, <1>3, <2>1, <2>2, FlaggedRows DEF Activating
  <2>4. rows'[Len(rows) + 1].active
    BY <1>0, <1>3, <2>2, SavedIsRow
  <2>5. Versions' = Versions \cup {Len(rows) + 1}
    BY <1>0, <2>2 DEF Versions
  <2>6. Active' = {Len(rows) + 1}
    BY <2>3, <2>4, <2>5 DEF Active
  <2>7. \A r \in Sessions : ~ Activating(r)
    BY <1>1, <1>3 DEF IInv, ActivationsAlone, Activating, At
  <2>8. ActivationsAlone'
    BY <1>1, <2>7 DEF ActivationsAlone, Activating, Saving, At
  <2>9. \A r \in Sessions : Saving(r)' /\ ~ At(r, "number")' /\ ~ At(r, "idle")' =>
           tx'[r].version < Len(rows') + 1
    <3> SUFFICES ASSUME NEW r \in Sessions, Saving(r)', ~ At(r, "number")', ~ At(r, "idle")'
                 PROVE  tx'[r].version < Len(rows') + 1
      OBVIOUS
    <3>1. r # s /\ tx'[r] = tx[r]
      BY <1>1
    <3>2. tx[r].version <= Len(rows) + 1
      BY <3>1 DEF IInv, NumberedSavesCurrent, Saving, At
    <3>3. tx[r].version \in Nat
      BY <1>0, BoundAssumption DEF Request
    <3> QED BY <1>0, <2>2, <3>1, <3>2, <3>3
  <2>10. NumberedSavesCurrent'
    <3>1. \A r \in Sessions : tx'[r].version \in Nat
      BY BoundAssumption DEF TypeOK, Request
    <3> QED BY <1>0, <2>2, <2>9, <3>1 DEF NumberedSavesCurrent
  <2> QED BY <2>5, <2>6, <2>8, <2>10 DEF SingleActive
<1>4. CASE ~ Saving(s)
  <2>1. Activating(s) /\ rows' = Flagged(s)
    BY <1>1, <1>4 DEF CommitSave, CommitActivate
  <2>2. /\ tx[s].version \in Versions
        /\ tx[s].marks = Active \cup {tx[s].version}
        /\ \A r \in Sessions \ {s} : At(r, "idle")
    BY <1>0, <1>1, <2>1 DEF IInv, ActivationsAlone, SourcesStored, At, Listed
  <2>3. Versions' = Versions
    BY <1>0, <2>1, FlaggedRows DEF Versions
  <2>4. \A v \in Versions : rows'[v].active <=> v = tx[s].version
    BY <1>0, <2>1, <2>2, FlaggedRows
  <2>5. Active' = {tx[s].version}
    BY <2>2, <2>3, <2>4 DEF Active
  <2>6. \A r \in Sessions : At(r, "idle")'
    BY <1>1, <2>2 DEF At
  <2>7. ActivationsAlone' /\ NumberedSavesCurrent'
    BY <2>6 DEF ActivationsAlone, NumberedSavesCurrent, Activating, At
  <2> QED BY <2>2, <2>3, <2>5, <2>7 DEF SingleActive
<1> QED BY <1>2, <1>3, <1>4

LEMMA InvariantStep == IInv /\ ~ Overlapping /\ [Next]_vars => IInv'
<1> SUFFICES ASSUME IInv, ~ Overlapping, [Next]_vars PROVE IInv'
  OBVIOUS
<1>1. TypeOK' /\ SourcesStored'
  BY TypeStep DEF IInv
<1>2. CASE UNCHANGED vars
  BY <1>2, <1>1, ReadersKeep DEF vars, IInv, SingleActive, ActivationsAlone, NumberedSavesCurrent,
                               Activating, Saving, At, Listed
<1>3. CASE Next
  BY <1>1, <1>3, ReadStep, CommitStep DEF Next, IInv
<1> QED BY <1>2, <1>3

LEMMA InvariantInit == Init => IInv
<1> SUFFICES ASSUME Init PROVE IInv
  OBVIOUS
<1>1. Len(rows) = 1 /\ rows[1].active
  BY DEF Init
<1>2. Active = {1} /\ 1 \in Versions
  BY <1>1 DEF Active, Versions
<1>3. \A s \in Sessions : At(s, "idle")
  BY IdleFields DEF Init, At
<1> QED BY <1>2, <1>3, TypeInit DEF IInv, SingleActive, ActivationsAlone, NumberedSavesCurrent,
                                    Activating, At

(* db/models/config.py:3-4: exactly one version is active, whatever        *)
(* administrators save at the same moment, as long as no activation runs   *)
(* beside another request.  The strengthened invariant says what a         *)
(* request is about to write; the unique version number refuses the saves  *)
(* for which that is out of date.                                          *)
THEOREM OneVersionActive == ASSUME ~ Overlapping PROVE Spec => []OneActive
<1>1. IInv /\ [Next]_vars => IInv'
  BY InvariantStep
<1>2. IInv => OneActive
  BY FS_Singleton DEF IInv, SingleActive, OneActive
<1> QED BY <1>1, <1>2, InvariantInit, PTL DEF Spec
=============================================================================
