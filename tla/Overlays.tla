------------------------------ MODULE Overlays ------------------------------
(***************************************************************************)
(* The planners' overlays on the plan: priority overrides                   *)
(* (services/override_service.py), schedule locks (lock_service.py) and     *)
(* expedites (expedite_service.py), kept as rows that are switched off but  *)
(* never deleted (db/repositories/overlays.py).  A request runs in one      *)
(* transaction and is one action here; a refused request changes nothing    *)
(* and is no step.  Every request takes the next instant, so the instant a  *)
(* row was created at identifies it.                                        *)
(*                                                                          *)
(* Time passes by itself and makes rows expire.  The ERP closes orders and  *)
(* puts them on hold at any instant.                                        *)
(***************************************************************************)
EXTENDS Naturals, FiniteSets

CONSTANTS Orders, Machines, Planners,
          Eligible,     \* [Orders -> SUBSET Machines]: what the hard constraints admit
          Minutes,      \* length of the slot a moved order is given
          LockWindow,   \* scheduling.lock_window_minutes of the configuration
          MaxExpedite,  \* expedite.max_duration_hours of the configuration
          Lifetimes,    \* how long the expiries planners give are ahead
          Delays,       \* how far ahead the starts planners give are
          None,         \* no machine, no order
          Forever,      \* an instant after all others: no expiry
          Horizon       \* bound: nothing happens from this instant on

ASSUME TimesAssumption ==
    /\ Minutes \in Nat \ {0} /\ LockWindow \in Nat \ {0} /\ MaxExpedite \in Nat \ {0}
    /\ Lifetimes \subseteq Nat \ {0} /\ Delays \subseteq Nat \ {0}
    /\ Horizon \in Nat /\ Forever \in Nat
    /\ \A d \in {0} \cup Delays, l \in {0} \cup Lifetimes :
          Horizon + d + l + Minutes + LockWindow < Forever
ASSUME EligibleAssumption == Eligible \in [Orders -> SUBSET Machines]
ASSUME NoneAssumption == None \notin Orders \cup Machines

VARIABLES now,        \* Clock.now()
          closed,     \* orders the ERP closed
          erpHeld,    \* orders whose hold flag the ERP set
          overrides,  \* rows of priority_overrides
          locks,      \* rows of schedule_locks
          expedites   \* rows of expedites

vars == <<now, closed, erpHeld, overrides, locks, expedites>>
erp  == <<closed, erpHeld>>

Kinds == {"INCREASE_PRIORITY", "DECREASE_PRIORITY", "SET_PRIORITY", "FORCE_NEXT",
          "HOLD_ORDER", "RELEASE_HOLD", "MOVE_ORDER", "LOCK_MACHINE_ASSIGNMENT"}
Reserving == {"MACHINE", "TIME_SLOT"}
Instants  == 0 .. Forever

Override == [kind : Kinds, order : Orders, by : Planners, at : Instants,
             machine : Machines \cup {None}, until : Instants, active : BOOLEAN]
Lock == [kind : Reserving \cup {"ORDER", "SEQUENCE"}, order : Orders \cup {None},
         by : Planners, at : Instants, machine : Machines \cup {None},
         from : Instants, until : Instants, sequence : SUBSET Orders, active : BOOLEAN]
Expedite == [order : Orders, at : Instants, from : Instants, until : Instants,
             active : BOOLEAN]

TypeOK == /\ now \in 0 .. Horizon
          /\ closed \subseteq Orders /\ erpHeld \subseteq Orders
          /\ overrides \subseteq Override
          /\ locks \subseteq Lock
          /\ expedites \subseteq Expedite

Init == /\ now = 0
        /\ closed = {} /\ erpHeld = {}
        /\ overrides = {} /\ locks = {} /\ expedites = {}

-----------------------------------------------------------------------------
(* What the rows mean now                                                   *)

IsOpen(o) == o \notin closed

\* PriorityOverride.is_active_at, and the same filter in SQL (list_active)
InForce(r) == r.active /\ now < r.until
\* LockRepository.list_active: a lock whose window starts later is in force
LockInForce(lk) == lk.active /\ now < lk.until
Expediting(e) == e.active /\ e.from <= now /\ now < e.until

Newest(rows) == {r \in rows : \A s \in rows : s.at <= r.at}

\* The latest decision about holding the order, at most one row.
LatestHoldDecision(o) ==
    Newest({r \in overrides : /\ r.order = o /\ InForce(r)
                              /\ r.kind \in {"HOLD_ORDER", "RELEASE_HOLD"}})
PlannerHolds(o) == \E r \in LatestHoldDecision(o) : r.kind = "HOLD_ORDER"
EffectiveHold(o) == o \in erpHeld \/ PlannerHolds(o)

Overlap(a, b) == a.from < b.until /\ b.from < a.until

-----------------------------------------------------------------------------
(* Writing rows                                                             *)

SwitchedOff(rows, chosen) ==
    {IF r \in chosen THEN [r EXCEPT !.active = FALSE] ELSE r : r \in rows}

ActiveOf(o, kinds) == {r \in overrides : r.order = o /\ r.kind \in kinds /\ r.active}

NewOverride(kind, o, p, m, until) ==
    [kind |-> kind, order |-> o, by |-> p, at |-> now, machine |-> m,
     until |-> until, active |-> TRUE]

\* The new row replaces the active rows of the kinds in superseded.
Record(row, superseded) ==
    overrides' = SwitchedOff(overrides, ActiveOf(row.order, superseded)) \cup {row}

\* Whatever happens takes an instant of its own.
Request == now < Horizon /\ now' = now + 1
Expiries == {now + d : d \in Lifetimes} \cup {Forever}

-----------------------------------------------------------------------------
(* Overrides                                                                *)

\* increase_priority and decrease_priority add up, nothing is replaced.
Delta(o, p, kind, until) ==
    /\ Request /\ IsOpen(o)
    /\ Record(NewOverride(kind, o, p, None, until), {})
    /\ UNCHANGED <<erp, locks, expedites>>

SetPriority(o, p, until) ==
    /\ Request /\ IsOpen(o)
    /\ Record(NewOverride("SET_PRIORITY", o, p, None, until), {"SET_PRIORITY"})
    /\ UNCHANGED <<erp, locks, expedites>>

ForceNext(o, p, until) ==
    /\ Request /\ IsOpen(o)
    /\ Record(NewOverride("FORCE_NEXT", o, p, None, until), {"FORCE_NEXT"})
    /\ UNCHANGED <<erp, locks, expedites>>

Hold(o, p, until) ==
    /\ Request /\ IsOpen(o)
    /\ ~EffectiveHold(o)
    /\ Record(NewOverride("HOLD_ORDER", o, p, None, until), {"RELEASE_HOLD"})
    /\ UNCHANGED <<erp, locks, expedites>>

\* Mutant of Release: the hold itself stays active.
ReleaseKeepingHold(o, p) ==
    /\ Request /\ IsOpen(o) /\ PlannerHolds(o) /\ o \notin erpHeld
    /\ Record(NewOverride("RELEASE_HOLD", o, p, None, Forever), {"RELEASE_HOLD"})
    /\ UNCHANGED <<erp, locks, expedites>>

\* A hold of the ERP must be released there.
Release(o, p) ==
    /\ Request /\ IsOpen(o)
    /\ PlannerHolds(o) /\ o \notin erpHeld
    /\ Record(NewOverride("RELEASE_HOLD", o, p, None, Forever), {"HOLD_ORDER"})
    /\ UNCHANGED <<erp, locks, expedites>>

LockAssignment(o, p, m, until) ==
    /\ Request /\ IsOpen(o)
    /\ m \in Eligible[o]
    /\ Record(NewOverride("LOCK_MACHINE_ASSIGNMENT", o, p, m, until),
              {"LOCK_MACHINE_ASSIGNMENT"})
    /\ UNCHANGED <<erp, locks, expedites>>

-----------------------------------------------------------------------------
(* Moves and their companion locks                                          *)

\* The lock a move writes beside its row is found again by creator, instant
\* and machine.
Companion(lk, mv) == /\ lk.kind \in {"ORDER", "TIME_SLOT"}
                     /\ lk.order = mv.order
                     /\ <<lk.by, lk.at, lk.machine>> = <<mv.by, mv.at, mv.machine>>

Moves(o) == {r \in overrides : r.order = o /\ r.kind = "MOVE_ORDER"}

\* _release_move_locks: the companions of any of these moves, active or not
CompanionsOf(moves) == {lk \in locks : lk.active /\ \E mv \in moves : Companion(lk, mv)}

\* Mutant of MoveLock: the slot ends its length after the expiry of the move.
MoveLockFromExpiry(mv, start) ==
    [kind |-> "TIME_SLOT", order |-> mv.order, by |-> mv.by, at |-> now, machine |-> mv.machine,
     from |-> now, until |-> mv.until + Minutes, sequence |-> {}, active |-> TRUE]

MoveLock(mv, start) ==
    [kind |-> IF start = None THEN "ORDER" ELSE "TIME_SLOT",
     order |-> mv.order, by |-> mv.by, at |-> now, machine |-> mv.machine,
     from |-> IF start = None THEN now ELSE start,
     until |-> IF start = None THEN mv.until ELSE start + Minutes,
     sequence |-> {}, active |-> TRUE]

\* No check against the reservations of the machine or the locks of the order.
Move(o, p, m, start, until) ==
    /\ Request /\ IsOpen(o)
    /\ start # None => start < until
    /\ m \in Eligible[o]
    /\ LET mv == NewOverride("MOVE_ORDER", o, p, m, until)
       IN  /\ Record(mv, {"MOVE_ORDER", "LOCK_MACHINE_ASSIGNMENT"})
           /\ locks' = SwitchedOff(locks, CompanionsOf(Moves(o))) \cup {MoveLock(mv, start)}
    /\ UNCHANGED <<erp, expedites>>

\* Mutant of CancelOverride: the locks are left alone.
CancelOverrideOnly(r) == /\ Request /\ r.active
                         /\ overrides' = SwitchedOff(overrides, {r})
                         /\ UNCHANGED <<erp, locks, expedites>>

\* Cancelling a move releases the companions of all moves of its creator.
CancelOverride(r) ==
    /\ Request
    /\ r.active
    /\ overrides' = SwitchedOff(overrides, {r})
    /\ locks' = IF r.kind = "MOVE_ORDER"
                THEN SwitchedOff(locks, CompanionsOf({mv \in Moves(r.order) : mv.by = r.by}))
                ELSE locks
    /\ UNCHANGED <<erp, expedites>>

-----------------------------------------------------------------------------
(* Locks                                                                    *)

\* _check_conflicts, against the locks in force
Conflict(lk, other) ==
    \/ /\ {lk.kind, other.kind} \subseteq Reserving
       /\ lk.machine = other.machine /\ Overlap(lk, other)
    \/ lk.kind = "ORDER" /\ other.kind = "ORDER" /\ lk.order = other.order
    \/ /\ lk.kind = "SEQUENCE" /\ other.kind = "SEQUENCE"
       /\ lk.sequence \cap other.sequence # {}

\* _window: no start means now, no end means LockWindow after the start; without
\* both, a lock that reserves gets the default and any other lasts for ever.
Windows(kind) ==
    {[from |-> now + d, until |-> now + d + LockWindow] : d \in Delays}
    \cup {[from |-> now, until |-> now + d] : d \in Lifetimes}
    \cup {[from |-> now, until |-> IF kind \in Reserving THEN now + LockWindow ELSE Forever]}

\* Mutant of Admitted: locks whose window has not begun are overlooked.
AdmittedBesideLater(lk) ==
    /\ Request
    /\ ~\E other \in locks : LockInForce(other) /\ other.from <= now /\ Conflict(lk, other)
    /\ locks' = locks \cup {lk}
    /\ UNCHANGED <<erp, overrides, expedites>>

Admitted(lk) ==
    /\ Request
    /\ lk.order # None => IsOpen(lk.order)
    /\ \A o \in lk.sequence : IsOpen(o)
    /\ ~\E other \in locks : LockInForce(other) /\ Conflict(lk, other)
    /\ locks' = locks \cup {lk}
    /\ UNCHANGED <<erp, overrides, expedites>>

NewLock(kind, p, o, m, w, sequence) ==
    [kind |-> kind, order |-> o, by |-> p, at |-> now, machine |-> m,
     from |-> w.from, until |-> w.until, sequence |-> sequence, active |-> TRUE]

LockOrder(p, o, m, w)     == Admitted(NewLock("ORDER", p, o, m, w, {}))
Reserve(kind, p, o, m, w) == Admitted(NewLock(kind, p, o, m, w, {}))
LockSequence(p, s, w)     == /\ Cardinality(s) >= 2
                             /\ Admitted(NewLock("SEQUENCE", p, None, None, w, s))

Unlock(lk) == /\ Request
              /\ lk.active
              /\ locks' = SwitchedOff(locks, {lk})
              /\ UNCHANGED <<erp, overrides, expedites>>

-----------------------------------------------------------------------------
(* Expedites                                                                *)

\* Mutant of ExpediteOrder: nothing is replaced.
ExpediteBeside(o, from, until) ==
    /\ Request /\ IsOpen(o) /\ from < until /\ until - from <= MaxExpedite
    /\ expedites' = expedites \cup {[order |-> o, at |-> now, from |-> from,
                                     until |-> until, active |-> TRUE]}
    /\ UNCHANGED <<erp, overrides, locks>>

\* Only the expedites that run at this very instant are replaced.
ExpediteOrder(o, from, until) ==
    /\ Request /\ IsOpen(o)
    /\ from < until /\ until - from <= MaxExpedite
    /\ LET running == {e \in expedites : e.order = o /\ Expediting(e)}
       IN  expedites' = SwitchedOff(expedites, running)
                        \cup {[order |-> o, at |-> now, from |-> from,
                               until |-> until, active |-> TRUE]}
    /\ UNCHANGED <<erp, overrides, locks>>

CancelExpedite(e) == /\ Request
                     /\ e.active
                     /\ expedites' = SwitchedOff(expedites, {e})
                     /\ UNCHANGED <<erp, overrides, locks>>

-----------------------------------------------------------------------------
(* Time and the ERP                                                         *)

Tick == /\ Request
        /\ UNCHANGED <<erp, overrides, locks, expedites>>

Close(o) == /\ Request
            /\ closed' = closed \cup {o}
            /\ UNCHANGED <<erpHeld, overrides, locks, expedites>>

ErpHold(o) == /\ Request
              /\ erpHeld' = IF o \in erpHeld THEN erpHeld \ {o} ELSE erpHeld \cup {o}
              /\ UNCHANGED <<closed, overrides, locks, expedites>>

Steer(o, p) ==
    \/ \E kind \in {"INCREASE_PRIORITY", "DECREASE_PRIORITY"} : Delta(o, p, kind, Forever)
    \/ \E until \in Expiries :
          \/ SetPriority(o, p, until)
          \/ ForceNext(o, p, until)
          \/ Hold(o, p, until)
          \/ \E m \in Machines :
                \/ LockAssignment(o, p, m, until)
                \/ \E start \in {None} \cup {now + d : d \in Delays} : Move(o, p, m, start, until)
    \/ Release(o, p)

CreateLock(p) ==
    \/ \E o \in Orders, m \in Machines, w \in Windows("ORDER") : LockOrder(p, o, m, w)
    \/ \E m \in Machines, w \in Windows("MACHINE") : Reserve("MACHINE", p, None, m, w)
    \/ \E m \in Machines, w \in Windows("TIME_SLOT") : Reserve("TIME_SLOT", p, None, m, w)
    \/ \E s \in SUBSET Orders, w \in Windows("SEQUENCE") : LockSequence(p, s, w)

Next == \/ \E o \in Orders, p \in Planners : Steer(o, p)
        \/ \E r \in overrides : CancelOverride(r)
        \/ \E p \in Planners : CreateLock(p)
        \/ \E lk \in locks : Unlock(lk)
        \/ \E o \in Orders, d \in {0} \cup Delays, l \in Lifetimes :
              ExpediteOrder(o, now + d, now + d + l)
        \/ \E e \in expedites : CancelExpedite(e)
        \/ Tick
        \/ \E o \in Orders : Close(o) \/ ErpHold(o)
        \/ now = Horizon /\ UNCHANGED vars

Spec == Init /\ [][Next]_vars

-----------------------------------------------------------------------------
(* The decisions in force, as the desk of PlannerDesk                       *)

SlotKind == [score |-> "SET_PRIORITY", next |-> "FORCE_NEXT", place |-> "MOVE_ORDER",
             pin |-> "LOCK_MACHINE_ASSIGNMENT"]
Slots == DOMAIN SlotKind \cup {"hold"}

Deciding(o, s) ==
    IF s = "hold" THEN {r \in LatestHoldDecision(o) : r.kind = "HOLD_ORDER"}
    ELSE Newest({r \in overrides : r.order = o /\ r.kind = SlotKind[s] /\ InForce(r)})

Decision(o, s) == IF Deciding(o, s) = {} THEN None
                  ELSE (CHOOSE r \in Deciding(o, s) : TRUE).at

Desk == INSTANCE PlannerDesk
        WITH desk <- [o \in Orders |-> [s \in Slots |-> Decision(o, s)]],
             clock <- now, Empty <- None

(* The rows implement the desk: whatever is requested, cancelled or expires   *)
(* in whatever order, a hold, an absolute score, a forced-next mark, a move   *)
(* or a pin that was once replaced, cancelled or released never comes back    *)
(* into force (override_service.py:7-18, "the latest decision wins").         *)
DecisionsNeverReturn == Desk!Spec

(* Two locks in force that the check for conflicts would not let stand side   *)
(* by side are there only because the younger one was written by a move, the  *)
(* one writer that skips the check (lock_service.py:11-12, override_service   *)
(* .py:241).                                                                  *)
ConflictsOnlyByMoves ==
    \A a, b \in {lk \in locks : LockInForce(lk)} :
        a.at < b.at /\ Conflict(a, b) => \E mv \in overrides : mv.kind = "MOVE_ORDER" /\ Companion(b, mv)

(* An active companion lock belongs to an active move: when a move is         *)
(* replaced or cancelled the lock it wrote goes with it, also when other      *)
(* moves of the order came and went in between (override_service.py:15-17).   *)
CompanionsFollowMoves ==
    \A mv \in overrides, lk \in locks :
        mv.kind = "MOVE_ORDER" /\ Companion(lk, mv) /\ lk.active => mv.active

(* Two expedites of an order run at once only when the older one had not      *)
(* started yet when the younger was created; otherwise the younger replaced   *)
(* it (expedite_service.py:3-8).                                              *)
ExpeditesOverlapOnlyIfDelayed ==
    \A a, b \in {e \in expedites : Expediting(e)} :
        a.order = b.order /\ a.at < b.at => b.at < a.from
=============================================================================
