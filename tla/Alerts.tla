------------------------------- MODULE Alerts -------------------------------
(***************************************************************************)
(* The alert inbox: db/repositories/alerts.py, used by the alert sweep      *)
(* (services/analytics_service.py, refresh_alerts), by replanning, which    *)
(* announces a candidate that awaits approval, and by people who            *)
(* acknowledge (services/alert_service.py).                                 *)
(*                                                                          *)
(* A row per key; the sweep is one transaction at READ COMMITTED whose      *)
(* SELECTs see what others have committed by then.  An UPDATE writes the    *)
(* columns the session has changed of the row as it loaded it, and keeps    *)
(* the row locked until the commit.                                         *)
(***************************************************************************)
EXTENDS Naturals, FiniteSets

CONSTANTS Rules,        \* keys of alerts the rules raise on the state of the plant
          Candidates,   \* versions proposed by replanning; each is also a key
          Users,        \* people who acknowledge
          None          \* no row

Keys == Rules \cup Candidates

ASSUME KeyAssumption == Rules \cap Candidates = {} /\ None \notin Keys
ASSUME RowAssumption == None \notin [active : BOOLEAN, acked : BOOLEAN]

VARIABLES rows,     \* rows[k]: the alert with key k as committed
          raised,   \* the rules that hold of the plant
          version,  \* version[v]: what became of candidate v
          sweep,    \* the sweep under way
          ack,      \* ack[u]: the alert user u has read to acknowledge it
          late      \* history: candidates committed since the sweep listed the
                    \* alerts of candidates and before it selects what to resolve

vars == <<rows, raised, version, sweep, ack, late>>

Row  == [active : BOOLEAN, acked : BOOLEAN]
Rows == [Keys -> Row \cup {None}]
Idle == [pc |-> "idle", found |-> {}, loaded |-> [k \in Keys |-> None],
         listed |-> {}, kept |-> {}, gone |-> {}]
Sweep == [pc : {"idle", "load", "flush", "list", "protect", "resolve", "commit"},
          found : SUBSET Rules,     \* the alerts the rules evaluate to
          loaded : Rows,            \* their rows as loaded
          listed : SUBSET Candidates, \* active alerts of candidates
          kept : SUBSET Keys,       \* keys that are not to be resolved
          gone : SUBSET Keys]       \* rows to be made inactive

TypeOK == /\ rows \in Rows /\ raised \subseteq Rules
          /\ version \in [Candidates -> {"none", "draft", "decided"}]
          /\ sweep \in Sweep /\ ack \in [Users -> Keys \cup {None}]
          /\ late \subseteq Candidates

Init == /\ rows = [k \in Keys |-> None] /\ raised = {}
        /\ version = [v \in Candidates |-> "none"]
        /\ sweep = Idle /\ ack = [u \in Users |-> None] /\ late = {}

-----------------------------------------------------------------------------
Sweeping(pc) == sweep.pc = pc

Active(k) == rows[k] # None /\ rows[k].active

\* The rows the sweep has updated and not yet committed.
Locked == IF Sweeping("idle") \/ Sweeping("load") \/ Sweeping("flush") THEN {}
          ELSE {k \in sweep.found : sweep.loaded[k] # None} \cup sweep.gone

\* What the rules look at changes.
Plant == /\ \E k \in Rules : raised' = IF k \in raised THEN raised \ {k} ELSE raised \cup {k}
         /\ UNCHANGED <<rows, version, sweep, ack, late>>

\* Replanning commits a candidate that awaits approval together with its alert;
\* older candidates are superseded.
Propose(v) ==
    /\ version[v] = "none"
    /\ version' = [c \in Candidates |-> IF c = v THEN "draft"
                                        ELSE IF version[c] = "draft" THEN "decided"
                                        ELSE version[c]]
    /\ rows' = [rows EXCEPT ![v] = [active |-> TRUE, acked |-> FALSE]]
    /\ late' = IF Sweeping("protect") \/ Sweeping("resolve") THEN late \cup {v} ELSE late
    /\ UNCHANGED <<raised, sweep, ack>>

\* Approved, rejected or superseded; the alert is left to the sweep.
Decide(v) == /\ version[v] = "draft"
             /\ version' = [version EXCEPT ![v] = "decided"]
             /\ UNCHANGED <<rows, raised, sweep, ack, late>>

-----------------------------------------------------------------------------
(* Acknowledging: the row is read and judged, then updated.                *)

ReadAlert(u, k) ==
    /\ ack[u] = None /\ Active(k) /\ ~rows[k].acked
    /\ ack' = [ack EXCEPT ![u] = k]
    /\ UNCHANGED <<rows, raised, version, sweep, late>>

Acknowledge(u) ==
    /\ ack[u] # None /\ ack[u] \notin Locked
    /\ rows' = [rows EXCEPT ![ack[u]].acked = TRUE]
    /\ ack' = [ack EXCEPT ![u] = None]
    /\ UNCHANGED <<raised, version, sweep, late>>

-----------------------------------------------------------------------------
(* The sweep.                                                              *)

\* Every rule is evaluated on the live state of the plant.
Evaluate == /\ Sweeping("idle")
            /\ sweep' = [Idle EXCEPT !.pc = "load", !.found = raised]
            /\ UNCHANGED <<rows, raised, version, ack, late>>

Load == /\ Sweeping("load")
        /\ sweep' = [sweep EXCEPT !.pc = "flush",
                        !.loaded = [k \in Keys |-> IF k \in sweep.found THEN rows[k] ELSE None]]
        /\ UNCHANGED <<rows, raised, version, ack, late>>

Flush == /\ Sweeping("flush")
         /\ sweep' = [sweep EXCEPT !.pc = "list"]
         /\ UNCHANGED <<rows, raised, version, ack, late>>

\* The active alerts of candidates are listed ...
ListActive == /\ Sweeping("list")
              /\ sweep' = [sweep EXCEPT !.pc = "protect",
                              !.listed = {v \in Candidates : Active(v)}]
              /\ late' = {}
              /\ UNCHANGED <<rows, raised, version, ack>>

\* Mutant of Protected: only what nobody has acknowledged.
ProtectedUnread == {v \in sweep.listed : version[v] = "draft" /\ ~rows[v].acked}

\* ... and those whose candidate is still a draft then are not for the rules
\* to resolve.
Protected == {v \in sweep.listed : version[v] = "draft"}

Protect == /\ Sweeping("protect")
           /\ sweep' = [sweep EXCEPT !.pc = "resolve", !.kept = sweep.found \cup Protected]
           /\ UNCHANGED <<rows, raised, version, ack, late>>

\* The active rows with other keys.
Resolve == /\ Sweeping("resolve")
           /\ sweep' = [sweep EXCEPT !.pc = "commit",
                           !.gone = {k \in Keys : Active(k)} \ sweep.kept]
           /\ UNCHANGED <<rows, raised, version, ack, late>>

\* Mutants of Upserted: the whole row as loaded is written back; a resolved
\* alert stays so.
UpsertedStale(k) ==
    LET old == sweep.loaded[k]
    IN  IF old = None THEN [active |-> TRUE, acked |-> FALSE]
        ELSE [active |-> TRUE, acked |-> old.active /\ old.acked]
UpsertedResolved(k) ==
    IF sweep.loaded[k] = None THEN [active |-> TRUE, acked |-> FALSE] ELSE rows[k]

\* Only the columns that change from the row as loaded are written: none of an
\* active alert; the acknowledgement of a resolved one is cleared if it had one.
Upserted(k) ==
    LET old == sweep.loaded[k]
    IN  IF old = None THEN [active |-> TRUE, acked |-> FALSE]
        ELSE [active |-> rows[k].active \/ ~old.active,
              acked  |-> rows[k].acked /\ (old.active \/ ~old.acked)]

Written(k) == IF k \in sweep.found THEN Upserted(k)
              ELSE IF k \in sweep.gone THEN [rows[k] EXCEPT !.active = FALSE]
              ELSE rows[k]

Commit == /\ Sweeping("commit")
          /\ rows' = [k \in Keys |-> Written(k)]
          /\ sweep' = Idle
          /\ UNCHANGED <<raised, version, ack, late>>

\* The sweep fails and is rolled back; the next interval starts another.
Fail == ~Sweeping("idle") /\ sweep' = Idle /\ UNCHANGED <<rows, raised, version, ack, late>>

SweepStep == Evaluate \/ Load \/ Flush \/ ListActive \/ Protect \/ Resolve \/ Commit

Next == \/ Plant \/ SweepStep \/ Fail
        \/ \E v \in Candidates : Propose(v) \/ Decide(v)
        \/ \E u \in Users : Acknowledge(u) \/ \E k \in Keys : ReadAlert(u, k)

Spec == Init /\ [][Next]_vars

(* The worker starts a sweep per interval for ever, and no statement of it  *)
(* fails every time.                                                        *)
Fairness == /\ WF_vars(Evaluate) /\ SF_vars(Load) /\ SF_vars(Flush) /\ SF_vars(ListActive)
            /\ SF_vars(Protect) /\ SF_vars(Resolve) /\ SF_vars(Commit)

FairSpec == Spec /\ Fairness

-----------------------------------------------------------------------------
(* No sweep takes away the alert of a candidate that still awaits approval,  *)
(* whatever is proposed, decided and acknowledged between its statements,   *)
(* except of one that was committed after the sweep listed the alerts of    *)
(* candidates and before it selected what to resolve.                       *)
SweepsSpareDrafts ==
    [][\A v \in Candidates : version[v] = "draft" /\ Active(v) /\ ~Active(v)'
                                => v \in late]_vars

(* An acknowledgement is not lost while the alert stays active, even when   *)
(* it is given between the sweep's read of the row and its write; and what  *)
(* comes back was unacknowledged when the sweep read it: it carries no      *)
(* acknowledgement from before, only one committed since that read.         *)
AcknowledgementsKept ==
    [][\A k \in Keys : rows[k] # None /\ Active(k)' =>
          /\ Active(k) /\ rows[k].acked => rows'[k].acked
          /\ ~rows[k].active /\ rows'[k].acked =>
                sweep.loaded[k] # None /\ ~sweep.loaded[k].acked]_vars

(* The inbox follows the plant: what no longer holds, or is decided, goes,  *)
(* and what holds is shown.                                                 *)
InboxFollowsPlant ==
    /\ \A k \in Rules : (k \in raised) ~> (Active(k) \/ k \notin raised)
    /\ \A k \in Rules : (k \notin raised) ~> (~Active(k) \/ k \in raised)
    /\ \A v \in Candidates : (version[v] = "decided") ~> ~Active(v)
=============================================================================
