---------------------------- MODULE OverlaysProofs ----------------------------
(***************************************************************************)
(* TLAPS proofs about Overlays, for every set of orders, machines and      *)
(* planners, every configuration and any number of requests.               *)
(***************************************************************************)
EXTENDS Overlays, TLAPS

(* The instant a row was created at is past.                               *)
Past == /\ \A r \in overrides : r.at < now
        /\ \A lk \in locks : lk.at < now
        /\ \A e \in expedites : e.at < now

(* An expedite that has not run out yet either had not started when a      *)
(* younger one of its order was created, or it was switched off then.      *)
Pending(e) == e.active /\ now < e.until
PendingExpedites ==
    \A a, b \in {e \in expedites : Pending(e)} :
        a.order = b.order /\ a.at < b.at => b.at < a.from

(* Per order and kind of decision at most one row is in force.  A hold and *)
(* its release are decisions of one kind.                                  *)
SlotKinds(s) == IF s = "hold" THEN {"HOLD_ORDER", "RELEASE_HOLD"} ELSE {SlotKind[s]}
Standing(o, s) == {r \in overrides : r.order = o /\ r.kind \in SlotKinds(s) /\ InForce(r)}
OneStanding == \A o \in Orders, s \in Slots : \A r, t \in Standing(o, s) : r = t

IInv == /\ Past
        /\ CompanionsFollowMoves
        /\ ConflictsOnlyByMoves
        /\ PendingExpedites
        /\ OneStanding

-----------------------------------------------------------------------------
(* Switching rows off: nothing but the flag changes, and a row that is     *)
(* still active is one that was there and was not chosen.                  *)

SameOverride(r, s) == /\ r.kind = s.kind /\ r.order = s.order /\ r.by = s.by
                      /\ r.at = s.at /\ r.machine = s.machine /\ r.until = s.until

LEMMA OverrideOff ==
    ASSUME NEW rows \in SUBSET Override, NEW chosen
    PROVE  /\ SwitchedOff(rows, chosen) \subseteq Override
           /\ \A x \in SwitchedOff(rows, chosen) :
                 \E r \in rows : /\ SameOverride(x, r)
                                 /\ r \in chosen => ~ x.active
                                 /\ x.active => x = r
           /\ \A r \in rows : \E x \in SwitchedOff(rows, chosen) : SameOverride(x, r)
<1>1. \A r \in rows : /\ [r EXCEPT !.active = FALSE] \in Override
                      /\ SameOverride([r EXCEPT !.active = FALSE], r)
                      /\ ~ [r EXCEPT !.active = FALSE].active
  BY DEF Override, SameOverride
<1>2. \A r \in rows : r \in Override /\ SameOverride(r, r)
  BY DEF SameOverride
<1> QED BY <1>1, <1>2 DEF SwitchedOff

LEMMA LockOff ==
    ASSUME NEW rows \in SUBSET Lock, NEW chosen
    PROVE  /\ SwitchedOff(rows, chosen) \subseteq Lock
           /\ \A x \in SwitchedOff(rows, chosen) :
                 \E lk \in rows : /\ x.at = lk.at
                                  /\ lk \in chosen => ~ x.active
                                  /\ x.active => x = lk
<1>1. \A lk \in rows : /\ [lk EXCEPT !.active = FALSE] \in Lock
                       /\ [lk EXCEPT !.active = FALSE].at = lk.at
                       /\ ~ [lk EXCEPT !.active = FALSE].active
  BY DEF Lock
<1> QED BY <1>1 DEF SwitchedOff

LEMMA ExpediteOff ==
    ASSUME NEW rows \in SUBSET Expedite, NEW chosen
    PROVE  /\ SwitchedOff(rows, chosen) \subseteq Expedite
           /\ \A x \in SwitchedOff(rows, chosen) :
                 \E e \in rows : /\ x.at = e.at
                                 /\ e \in chosen => ~ x.active
                                 /\ x.active => x = e
<1>1. \A e \in rows : /\ [e EXCEPT !.active = FALSE] \in Expedite
                      /\ [e EXCEPT !.active = FALSE].at = e.at
                      /\ ~ [e EXCEPT !.active = FALSE].active
  BY DEF Expedite
<1> QED BY <1>1 DEF SwitchedOff

-----------------------------------------------------------------------------
(* Instants                                                                *)

LEMMA Times ==
    /\ Minutes \in Nat \ {0} /\ LockWindow \in Nat \ {0} /\ MaxExpedite \in Nat \ {0}
    /\ Horizon \in Nat /\ Forever \in Nat /\ 0 \in Instants /\ Forever \in Instants
    /\ \A t \in 0 .. Horizon, d \in {0} \cup Delays, l \in {0} \cup Lifetimes :
          /\ d \in Nat /\ l \in Nat /\ t \in Instants /\ t + LockWindow \in Instants
          /\ t + d \in Instants /\ t + l \in Instants /\ t + d + l \in Instants
          /\ t + d + Minutes \in Instants
          /\ t + l + Minutes \in Instants
          /\ t + d + LockWindow \in Instants
BY TimesAssumption DEF Instants

LEMMA Clock ==
    ASSUME TypeOK, Request
    PROVE  /\ now \in 0 .. Horizon /\ now' \in 0 .. Horizon /\ now' = now + 1
           /\ now \in Nat /\ now < now' /\ now \in Instants
BY Times DEF TypeOK, Request, Instants

LEMMA ExpiriesAreInstants == ASSUME TypeOK PROVE Expiries \subseteq Instants
BY Times DEF TypeOK, Expiries

LEMMA WindowsAreInstants ==
    ASSUME TypeOK, NEW kind, NEW w \in Windows(kind)
    PROVE  w.from \in Instants /\ w.until \in Instants
<1>1. now \in 0 .. Horizon
  BY DEF TypeOK
<1>2. \A d \in Delays : now + d \in Instants /\ now + d + LockWindow \in Instants
  BY <1>1, Times
<1>3. \A l \in Lifetimes : now + l \in Instants
  BY <1>1, Times
<1>4. now \in Instants /\ now + LockWindow \in Instants /\ Forever \in Instants
  BY <1>1, Times
<1> QED BY <1>2, <1>3, <1>4 DEF Windows

-----------------------------------------------------------------------------
(* What a step does to the rows                                            *)

Recorded(row, gone) == /\ Request
                       /\ row \in Override /\ row.at = now /\ row.active
                       /\ Record(row, gone)
                       /\ UNCHANGED erp

(* A decision other than a move: a decision in a slot replaces the active  *)
(* ones of that slot, a hold and its release each other.                   *)
Advised(row, gone) ==
    /\ Recorded(row, gone)
    /\ row.kind # "MOVE_ORDER" /\ "MOVE_ORDER" \notin gone
    /\ row.kind \in {"SET_PRIORITY", "FORCE_NEXT", "LOCK_MACHINE_ASSIGNMENT"} =>
          row.kind \in gone
    /\ row.kind = "HOLD_ORDER" => "RELEASE_HOLD" \in gone /\ ~ PlannerHolds(row.order)
    /\ row.kind = "RELEASE_HOLD" => "HOLD_ORDER" \in gone /\ PlannerHolds(row.order)
    /\ UNCHANGED <<locks, expedites>>

Moved(mv, lk) ==
    /\ Recorded(mv, {"MOVE_ORDER", "LOCK_MACHINE_ASSIGNMENT"})
    /\ mv.kind = "MOVE_ORDER"
    /\ lk \in Lock /\ lk.at = now /\ Companion(lk, mv)
    /\ locks' = SwitchedOff(locks, CompanionsOf(Moves(mv.order))) \cup {lk}
    /\ UNCHANGED expedites

Expedited(e) ==
    /\ Request
    /\ e \in Expedite /\ e.at = now
    /\ expedites' = SwitchedOff(expedites, {x \in expedites : x.order = e.order /\ Expediting(x)})
                    \cup {e}
    /\ UNCHANGED <<erp, overrides, locks>>

Untouched == /\ Request
             /\ closed' \subseteq Orders /\ erpHeld' \subseteq Orders
             /\ UNCHANGED <<overrides, locks, expedites>>

LEMMA NewOverrideIsRow ==
    ASSUME TypeOK, Request, NEW kind \in Kinds, NEW o \in Orders, NEW p \in Planners,
           NEW m \in Machines \cup {None}, NEW until \in Instants
    PROVE  LET r == NewOverride(kind, o, p, m, until)
           IN  /\ r \in Override /\ r.at = now /\ r.active
               /\ r.kind = kind /\ r.order = o /\ r.by = p /\ r.machine = m /\ r.until = until
<1>1. now \in Instants
  BY Clock
<1> QED BY <1>1 DEF NewOverride, Override

LEMMA NewLockIsRow ==
    ASSUME TypeOK, Request, NEW kind, NEW w \in Windows(kind), NEW p \in Planners,
           kind \in Reserving \cup {"ORDER", "SEQUENCE"},
           NEW o \in Orders \cup {None}, NEW m \in Machines \cup {None},
           NEW sequence \in SUBSET Orders
    PROVE  /\ NewLock(kind, p, o, m, w, sequence) \in Lock
           /\ NewLock(kind, p, o, m, w, sequence).at = now
<1>1. now \in Instants /\ w.from \in Instants /\ w.until \in Instants
  BY Clock, WindowsAreInstants
<1> QED BY <1>1 DEF NewLock, Lock

LEMMA SteerForms ==
    ASSUME TypeOK, NEW o \in Orders, NEW p \in Planners, Steer(o, p)
    PROVE  (\E row, gone : Advised(row, gone)) \/ (\E mv, lk : Moved(mv, lk))
<1> USE DEF Kinds
<1>1. ASSUME NEW kind \in {"INCREASE_PRIORITY", "DECREASE_PRIORITY"},
             Delta(o, p, kind, Forever)
      PROVE  \E row, gone : Advised(row, gone)
  <2>1. Forever \in Instants /\ Request
    BY <1>1, Times DEF Delta
  <2>2. Advised(NewOverride(kind, o, p, None, Forever), {})
    BY <1>1, <2>1, NewOverrideIsRow DEF Delta, Advised, Recorded
  <2> QED BY <2>2
<1>2. ASSUME NEW until \in Expiries, SetPriority(o, p, until)
      PROVE  \E row, gone : Advised(row, gone)
  <2>1. until \in Instants /\ Request
    BY <1>2, ExpiriesAreInstants DEF SetPriority
  <2>2. Advised(NewOverride("SET_PRIORITY", o, p, None, until), {"SET_PRIORITY"})
    BY <1>2, <2>1, NewOverrideIsRow DEF SetPriority, Advised, Recorded
  <2> QED BY <2>2
<1>3. ASSUME NEW until \in Expiries, ForceNext(o, p, until)
      PROVE  \E row, gone : Advised(row, gone)
  <2>1. until \in Instants /\ Request
    BY <1>3, ExpiriesAreInstants DEF ForceNext
  <2>2. Advised(NewOverride("FORCE_NEXT", o, p, None, until), {"FORCE_NEXT"})
    BY <1>3, <2>1, NewOverrideIsRow DEF ForceNext, Advised, Recorded
  <2> QED BY <2>2
<1>4. ASSUME NEW until \in Expiries, Hold(o, p, until)
      PROVE  \E row, gone : Advised(row, gone)
  <2>1. until \in Instants /\ Request
    BY <1>4, ExpiriesAreInstants DEF Hold
  <2>2. Advised(NewOverride("HOLD_ORDER", o, p, None, until), {"RELEASE_HOLD"})
    BY <1>4, <2>1, NewOverrideIsRow DEF Hold, EffectiveHold, Advised, Recorded
  <2> QED BY <2>2
<1>5. ASSUME Release(o, p)
      PROVE  \E row, gone : Advised(row, gone)
  <2>1. Forever \in Instants /\ Request
    BY <1>5, Times DEF Release
  <2>2. Advised(NewOverride("RELEASE_HOLD", o, p, None, Forever), {"HOLD_ORDER"})
    BY <1>5, <2>1, NewOverrideIsRow DEF Release, Advised, Recorded
  <2> QED BY <2>2
<1>6. ASSUME NEW until \in Expiries, NEW m \in Machines, LockAssignment(o, p, m, until)
      PROVE  \E row, gone : Advised(row, gone)
  <2>1. until \in Instants /\ Request
    BY <1>6, ExpiriesAreInstants DEF LockAssignment
  <2>2. Advised(NewOverride("LOCK_MACHINE_ASSIGNMENT", o, p, m, until),
                {"LOCK_MACHINE_ASSIGNMENT"})
    BY <1>6, <2>1, NewOverrideIsRow DEF LockAssignment, Advised, Recorded
  <2> QED BY <2>2
<1>7. ASSUME NEW until \in Expiries, NEW m \in Machines,
             NEW start \in {None} \cup {now + d : d \in Delays}, Move(o, p, m, start, until)
      PROVE  \E mv, lk : Moved(mv, lk)
  <2> DEFINE mv == NewOverride("MOVE_ORDER", o, p, m, until)
             lk == MoveLock(mv, start)
  <2>1. until \in Instants /\ Request /\ now \in Instants
    BY <1>7, ExpiriesAreInstants, Clock DEF Move
  <2>2. start # None => start \in Instants /\ start + Minutes \in Instants
    BY <2>1, Clock, Times
  <2>3. /\ mv \in Override /\ mv.at = now /\ mv.active
        /\ mv.kind = "MOVE_ORDER" /\ mv.order = o /\ mv.by = p /\ mv.machine = m
        /\ mv.until = until
    BY <2>1, NewOverrideIsRow
  <2>4. lk \in Lock /\ lk.at = now /\ Companion(lk, mv)
    <3>1. /\ lk.kind \in {"ORDER", "TIME_SLOT"} /\ lk.order = o /\ lk.by = p /\ lk.at = now
          /\ lk.machine = m
      BY <2>3 DEF MoveLock
    <3>2. lk \in Lock
      BY <2>1, <2>2, <2>3 DEF MoveLock, Lock, Reserving
    <3> QED BY <2>3, <3>1, <3>2 DEF Companion
  <2>5. /\ Record(mv, {"MOVE_ORDER", "LOCK_MACHINE_ASSIGNMENT"})
        /\ locks' = SwitchedOff(locks, CompanionsOf(Moves(o))) \cup {lk}
        /\ UNCHANGED <<erp, expedites>>
    BY <1>7 DEF Move
  <2> HIDE DEF mv, lk
  <2>6. Moved(mv, lk)
    BY <2>1, <2>3, <2>4, <2>5 DEF Moved, Recorded
  <2> QED BY <2>6
<1> QED BY <1>1, <1>2, <1>3, <1>4, <1>5, <1>6, <1>7 DEF Steer

LEMMA StepForms ==
    ASSUME TypeOK, Next
    PROVE  \/ \E row, gone : Advised(row, gone)
           \/ \E mv, lk : Moved(mv, lk)
           \/ \E r \in overrides : CancelOverride(r)
           \/ \E lk \in Lock : lk.at = now /\ Admitted(lk)
           \/ \E lk \in locks : Unlock(lk)
           \/ \E e : Expedited(e)
           \/ \E e \in expedites : CancelExpedite(e)
           \/ Untouched
           \/ UNCHANGED vars
<1>1. CASE \E o \in Orders, p \in Planners : Steer(o, p)
  BY <1>1, SteerForms
<1>2. ASSUME NEW p \in Planners, CreateLock(p)
      PROVE  \E lk \in Lock : lk.at = now /\ Admitted(lk)
  <2>1. ASSUME NEW o \in Orders, NEW m \in Machines, NEW w \in Windows("ORDER"),
               LockOrder(p, o, m, w)
        PROVE  \E lk \in Lock : lk.at = now /\ Admitted(lk)
    BY <2>1, NewLockIsRow DEF LockOrder, Admitted
  <2>2. ASSUME NEW kind \in Reserving, NEW m \in Machines, NEW w \in Windows(kind),
               Reserve(kind, p, None, m, w)
        PROVE  \E lk \in Lock : lk.at = now /\ Admitted(lk)
    BY <2>2, NewLockIsRow DEF Reserve, Admitted
  <2>3. ASSUME NEW s \in SUBSET Orders, NEW w \in Windows("SEQUENCE"), LockSequence(p, s, w)
        PROVE  \E lk \in Lock : lk.at = now /\ Admitted(lk)
    BY <2>3, NewLockIsRow DEF LockSequence, Admitted
  <2> QED BY <1>2, <2>1, <2>2, <2>3 DEF CreateLock, Reserving
<1>3. ASSUME NEW o \in Orders, NEW d \in {0} \cup Delays, NEW l \in Lifetimes,
             ExpediteOrder(o, now + d, now + d + l)
      PROVE  \E e : Expedited(e)
  <2> DEFINE e == [order |-> o, at |-> now, from |-> now + d, until |-> now + d + l,
                   active |-> TRUE]
  <2>1. Request /\ now \in 0 .. Horizon /\ now \in Instants
    BY <1>3, Clock DEF ExpediteOrder
  <2>2. e \in Expedite
    BY <2>1, Times DEF Expedite
  <2>3. Expedited(e)
    BY <1>3, <2>1, <2>2 DEF ExpediteOrder, Expedited
  <2> QED BY <2>3
<1>4. CASE Tick \/ \E o \in Orders : Close(o) \/ ErpHold(o)
  BY <1>4 DEF TypeOK, Tick, Close, ErpHold, Untouched, erp
<1> QED BY <1>1, <1>2, <1>3, <1>4 DEF Next
-----------------------------------------------------------------------------
(* Type correctness, and the instants of rows                              *)

LEMMA TypeStep == TypeOK /\ [Next]_vars => TypeOK'
<1> SUFFICES ASSUME TypeOK, [Next]_vars PROVE TypeOK'
  OBVIOUS
<1>0. /\ closed \subseteq Orders /\ erpHeld \subseteq Orders
      /\ overrides \in SUBSET Override /\ locks \in SUBSET Lock /\ expedites \in SUBSET Expedite
  BY DEF TypeOK
<1>1. Request => now' \in 0 .. Horizon
  BY Clock
<1>2. ASSUME NEW row, NEW gone, Recorded(row, gone)
      PROVE  /\ now' \in 0 .. Horizon /\ closed' \subseteq Orders /\ erpHeld' \subseteq Orders
             /\ overrides' \subseteq Override
  BY <1>0, <1>1, <1>2, OverrideOff DEF Recorded, Record, erp
<1>3. ASSUME NEW row, NEW gone, Advised(row, gone) PROVE TypeOK'
  BY <1>0, <1>2, <1>3 DEF TypeOK, Advised
<1>4. ASSUME NEW mv, NEW lk, Moved(mv, lk) PROVE TypeOK'
  BY <1>0, <1>2, <1>4, LockOff DEF TypeOK, Moved
<1>5. ASSUME NEW r \in overrides, CancelOverride(r) PROVE TypeOK'
  BY <1>0, <1>1, <1>5, OverrideOff, LockOff DEF TypeOK, CancelOverride, erp
<1>6. ASSUME NEW lk \in Lock, Admitted(lk) PROVE TypeOK'
  BY <1>0, <1>1, <1>6 DEF TypeOK, Admitted, erp
<1>7. ASSUME NEW lk \in locks, Unlock(lk) PROVE TypeOK'
  BY <1>0, <1>1, <1>7, LockOff DEF TypeOK, Unlock, erp
<1>8. ASSUME NEW e, Expedited(e) PROVE TypeOK'
  BY <1>0, <1>1, <1>8, ExpediteOff DEF TypeOK, Expedited, erp
<1>9. ASSUME NEW e \in expedites, CancelExpedite(e) PROVE TypeOK'
  BY <1>0, <1>1, <1>9, ExpediteOff DEF TypeOK, CancelExpedite, erp
<1>10. CASE Untouched
  BY <1>0, <1>1, <1>10 DEF TypeOK, Untouched
<1>11. CASE UNCHANGED vars
  BY <1>0, <1>11 DEF TypeOK, vars
<1> QED BY <1>3, <1>4, <1>5, <1>6, <1>7, <1>8, <1>9, <1>10, <1>11, StepForms

(* In every behaviour every row is one of its table: what the services     *)
(* write is well-formed, expiries and windows included.                    *)
THEOREM TypeCorrect == Spec => []TypeOK
<1>1. Init => TypeOK
  BY Times DEF Init, TypeOK
<1> QED BY <1>1, TypeStep, PTL DEF Spec

(* How the tables change, seen from the active rows: a row that is active  *)
(* was active before or is new and has this instant; the others keep       *)
(* theirs.                                                                 *)
LEMMA TablesGrow ==
    ASSUME TypeOK, TypeOK', Next
    PROVE  /\ now' \in {now, now + 1}
           /\ now' = now => UNCHANGED vars
           /\ \A x \in overrides' :
                 \/ x.at = now /\ now' = now + 1
                 \/ \E r \in overrides : SameOverride(x, r) /\ (x.active => x = r)
           /\ \A r \in overrides : \E x \in overrides' : SameOverride(x, r)
           /\ \A x \in locks' :
                 \/ x.at = now /\ now' = now + 1
                 \/ \E lk \in locks : x.at = lk.at /\ (x.active => x = lk)
           /\ \A x \in expedites' :
                 \/ x.at = now /\ now' = now + 1
                 \/ \E e \in expedites : x.at = e.at /\ (x.active => x = e)
<1> DEFINE Over == /\ \A x \in overrides' :
                         \/ x.at = now /\ now' = now + 1
                         \/ \E r \in overrides : SameOverride(x, r) /\ (x.active => x = r)
                   /\ \A r \in overrides : \E x \in overrides' : SameOverride(x, r)
           Lk == \A x \in locks' :
                    \/ x.at = now /\ now' = now + 1
                    \/ \E lk \in locks : x.at = lk.at /\ (x.active => x = lk)
           Ex == \A x \in expedites' :
                    \/ x.at = now /\ now' = now + 1
                    \/ \E e \in expedites : x.at = e.at /\ (x.active => x = e)
           Goal == now' \in {now, now + 1} /\ (now' = now => UNCHANGED vars) /\ Over /\ Lk /\ Ex
<1> SUFFICES Goal
  OBVIOUS
<1>0. /\ overrides \in SUBSET Override /\ locks \in SUBSET Lock /\ expedites \in SUBSET Expedite
      /\ now \in Nat
  BY Times DEF TypeOK
<1>1. Request => now' = now + 1 /\ now' # now
  BY <1>0 DEF Request
<1>2. /\ overrides' = overrides => Over
      /\ locks' = locks => Lk
      /\ expedites' = expedites => Ex
  BY DEF SameOverride
<1>3. ASSUME NEW row, NEW gone, Recorded(row, gone) PROVE now' = now + 1 /\ now' # now /\ Over
  BY <1>0, <1>1, <1>3, OverrideOff DEF Recorded, Record
<1>4. ASSUME NEW row, NEW gone, Advised(row, gone) PROVE Goal
  <2>1. Recorded(row, gone) /\ locks' = locks /\ expedites' = expedites
    BY <1>4 DEF Advised
  <2> HIDE DEF Over, Lk, Ex
  <2> QED BY <1>2, <1>3, <2>1
<1>5. ASSUME NEW mv, NEW lk, Moved(mv, lk) PROVE Goal
  <2>1. PICK gone : Recorded(mv, gone)
    BY <1>5 DEF Moved
  <2>2. now' = now + 1 /\ now' # now /\ Over
    BY <1>3, <2>1
  <2>3. Lk
    BY <1>0, <1>5, <2>2, LockOff DEF Moved
  <2>4. expedites' = expedites
    BY <1>5 DEF Moved
  <2> HIDE DEF Over, Lk, Ex
  <2> QED BY <1>2, <2>2, <2>3, <2>4
<1>6. ASSUME NEW r \in overrides, CancelOverride(r) PROVE Goal
  <2>1. now' = now + 1 /\ now' # now /\ expedites' = expedites
    BY <1>1, <1>6 DEF CancelOverride
  <2>2. Over
    BY <1>0, <1>6, OverrideOff DEF CancelOverride
  <2>3. Lk
    BY <1>0, <1>2, <1>6, LockOff DEF CancelOverride
  <2> HIDE DEF Over, Lk, Ex
  <2> QED BY <1>2, <2>1, <2>2, <2>3
<1>7. ASSUME NEW lk \in Lock, lk.at = now, Admitted(lk) PROVE Goal
  <2>1. /\ now' = now + 1 /\ now' # now
        /\ overrides' = overrides /\ expedites' = expedites /\ locks' = locks \cup {lk}
    BY <1>1, <1>7 DEF Admitted
  <2>2. Lk
    BY <1>7, <2>1
  <2> HIDE DEF Over, Lk, Ex
  <2> QED BY <1>2, <2>1, <2>2
<1>8. ASSUME NEW lk \in locks, Unlock(lk) PROVE Goal
  <2>1. /\ now' = now + 1 /\ now' # now
        /\ overrides' = overrides /\ expedites' = expedites
    BY <1>1, <1>8 DEF Unlock
  <2>2. Lk
    BY <1>0, <1>8, LockOff DEF Unlock
  <2> HIDE DEF Over, Lk, Ex
  <2> QED BY <1>2, <2>1, <2>2
<1>9. ASSUME NEW e, Expedited(e) PROVE Goal
  <2>1. /\ now' = now + 1 /\ now' # now
        /\ overrides' = overrides /\ locks' = locks
    BY <1>1, <1>9 DEF Expedited
  <2>2. Ex
    BY <1>0, <1>9, <2>1, ExpediteOff DEF Expedited
  <2> HIDE DEF Over, Lk, Ex
  <2> QED BY <1>2, <2>1, <2>2
<1>10. ASSUME NEW e \in expedites, CancelExpedite(e) PROVE Goal
  <2>1. /\ now' = now + 1 /\ now' # now
        /\ overrides' = overrides /\ locks' = locks
    BY <1>1, <1>10 DEF CancelExpedite
  <2>2. Ex
    BY <1>0, <1>10, ExpediteOff DEF CancelExpedite
  <2> HIDE DEF Over, Lk, Ex
  <2> QED BY <1>2, <2>1, <2>2
<1>11. CASE Untouched
  <2> HIDE DEF Over, Lk, Ex
  <2> QED BY <1>1, <1>2, <1>11 DEF Untouched
<1>12. CASE UNCHANGED vars
  <2> HIDE DEF Over, Lk, Ex
  <2> QED BY <1>2, <1>12 DEF vars
<1> QED BY <1>4, <1>5, <1>6, <1>7, <1>8, <1>9, <1>10, <1>11, <1>12, StepForms

LEMMA PastStep == TypeOK /\ TypeOK' /\ Past /\ [Next]_vars => Past'
<1> SUFFICES ASSUME TypeOK, TypeOK', Past, [Next]_vars PROVE Past'
  OBVIOUS
<1>0. /\ now \in Nat /\ overrides \subseteq Override /\ locks \subseteq Lock
      /\ expedites \subseteq Expedite
      /\ \A r \in Override \cup Lock \cup Expedite : r.at \in Nat
  BY Times DEF TypeOK, Override, Lock, Expedite, Instants
<1>1. CASE UNCHANGED vars
  BY <1>1 DEF Past, vars
<1>2. CASE Next
  <2>1. now' \in {now, now + 1} /\ (now' = now => UNCHANGED vars)
    BY <1>2, TablesGrow
  <2>2. ASSUME NEW x \in overrides' PROVE x.at < now'
    <3>1. CASE x.at = now /\ now' = now + 1
      BY <1>0, <3>1
    <3>2. ASSUME NEW r \in overrides, SameOverride(x, r) PROVE x.at < now'
      BY <1>0, <2>1, <3>2 DEF Past, SameOverride
    <3> QED BY <1>2, <3>1, <3>2, TablesGrow
  <2>3. ASSUME NEW x \in locks' PROVE x.at < now'
    <3>1. CASE x.at = now /\ now' = now + 1
      BY <1>0, <3>1
    <3>2. ASSUME NEW lk \in locks, x.at = lk.at PROVE x.at < now'
      BY <1>0, <2>1, <3>2 DEF Past
    <3> QED BY <1>2, <3>1, <3>2, TablesGrow
  <2>4. ASSUME NEW x \in expedites' PROVE x.at < now'
    <3>1. CASE x.at = now /\ now' = now + 1
      BY <1>0, <3>1
    <3>2. ASSUME NEW e \in expedites, x.at = e.at PROVE x.at < now'
      BY <1>0, <2>1, <3>2 DEF Past
    <3> QED BY <1>2, <3>1, <3>2, TablesGrow
  <2> QED BY <2>2, <2>3, <2>4 DEF Past
<1> QED BY <1>1, <1>2
-----------------------------------------------------------------------------
(* Companion locks go with their moves                                     *)

LEMMA CompanionOfCopy ==
    ASSUME NEW x, NEW y, NEW lk, SameOverride(x, y)
    PROVE  Companion(lk, x) <=> Companion(lk, y)
BY DEF SameOverride, Companion

LEMMA CompanionsStep ==
    TypeOK /\ TypeOK' /\ Past /\ CompanionsFollowMoves /\ [Next]_vars => CompanionsFollowMoves'
<1> SUFFICES ASSUME TypeOK, TypeOK', Past, CompanionsFollowMoves, [Next]_vars,
                    NEW x \in overrides', NEW lk \in locks',
                    x.kind = "MOVE_ORDER", Companion(lk, x), lk.active
             PROVE  x.active
  BY DEF CompanionsFollowMoves, Companion
<1>0. overrides \in SUBSET Override /\ locks \in SUBSET Lock
  BY DEF TypeOK
<1>a. lk.at = x.at
  BY DEF Companion
<1>b. \A t \in overrides \cup locks : t.at \in Nat /\ t.at < now
  BY DEF TypeOK, Override, Lock, Instants, Past
\* a move that keeps its row, and a lock that was there
<1>c. ASSUME NEW mv \in overrides, SameOverride(x, mv), lk \in locks
      PROVE  mv.active
  BY <1>c, CompanionOfCopy DEF CompanionsFollowMoves, SameOverride
<1>1. CASE UNCHANGED vars
  BY <1>1, <1>c DEF vars, SameOverride
<1>2. ASSUME NEW row, NEW gone, Advised(row, gone) PROVE x.active
  <2>1. lk \in locks
    BY <1>2 DEF Advised
  <2>2. x # row
    BY <1>2 DEF Advised
  <2>3. PICK mv \in overrides : x = IF mv \in ActiveOf(row.order, gone)
                                    THEN [mv EXCEPT !.active = FALSE] ELSE mv
    BY <1>2, <2>2 DEF Advised, Recorded, Record, SwitchedOff
  <2>4. SameOverride(x, mv)
    BY <1>0, <2>3 DEF Override, SameOverride
  <2>5. mv \notin ActiveOf(row.order, gone)
    BY <1>2, <2>4 DEF Advised, ActiveOf, SameOverride
  <2> QED BY <1>c, <2>1, <2>3, <2>4, <2>5
<1>3. ASSUME NEW mv, NEW new, Moved(mv, new) PROVE x.active
  <2>1. mv.active /\ mv.at = now /\ new.at = now
    BY <1>3 DEF Moved, Recorded
  <2>2. CASE x = mv
    BY <2>1, <2>2
  <2>3. CASE x # mv
    <3>1. PICK r \in overrides : SameOverride(x, r) /\ (x.active => x = r)
      BY <1>0, <1>3, <2>3, OverrideOff DEF Moved, Recorded, Record
    <3>2. lk # new
      BY <1>b, <1>a, <2>1, <3>1 DEF SameOverride
    <3>3. PICK old \in locks : /\ old \in CompanionsOf(Moves(mv.order)) => ~ lk.active
                               /\ lk.active => lk = old
      BY <1>0, <1>3, <3>2, LockOff DEF Moved
    <3>4. lk \in locks /\ lk \notin CompanionsOf(Moves(mv.order))
      BY <3>3
    <3>5. r.active
      BY <1>c, <3>1, <3>4
    <3>6. r.order # mv.order
      BY <3>1, <3>4, CompanionOfCopy DEF CompanionsOf, Moves, SameOverride
    <3>7. x \in SwitchedOff(overrides, ActiveOf(mv.order, {"MOVE_ORDER", "LOCK_MACHINE_ASSIGNMENT"}))
      BY <1>3, <2>3 DEF Moved, Recorded, Record
    <3>8. PICK s \in overrides :
             x = IF s \in ActiveOf(mv.order, {"MOVE_ORDER", "LOCK_MACHINE_ASSIGNMENT"})
                 THEN [s EXCEPT !.active = FALSE] ELSE s
      BY <3>7 DEF SwitchedOff
    <3>9. SameOverride(x, s)
      BY <1>0, <3>8 DEF Override, SameOverride
    <3>10. s.active
      BY <1>c, <3>4, <3>9
    <3>11. s \notin ActiveOf(mv.order, {"MOVE_ORDER", "LOCK_MACHINE_ASSIGNMENT"})
      BY <3>1, <3>6, <3>9 DEF ActiveOf, SameOverride
    <3> QED BY <3>8, <3>10, <3>11
  <2> QED BY <2>2, <2>3
<1>4. ASSUME NEW r \in overrides, CancelOverride(r) PROVE x.active
  <2>1. lk \in locks
    BY <1>0, <1>4, LockOff DEF CancelOverride
  <2>2. PICK mv \in overrides : x = IF mv \in {r} THEN [mv EXCEPT !.active = FALSE] ELSE mv
    BY <1>4 DEF CancelOverride, SwitchedOff
  <2>3. SameOverride(x, mv)
    BY <1>0, <2>2 DEF Override, SameOverride
  <2>4. mv.active
    BY <1>c, <2>1, <2>3
  <2>5. mv # r
    <3> SUFFICES ASSUME mv = r PROVE FALSE
      OBVIOUS
    <3> DEFINE cancelled == {m \in Moves(r.order) : m.by = r.by}
    <3>1. r.kind = "MOVE_ORDER" /\ r \in cancelled /\ Companion(lk, r)
      BY <2>3, CompanionOfCopy DEF Moves, SameOverride
    <3>2. lk \in SwitchedOff(locks, CompanionsOf(cancelled))
      BY <1>4, <3>1 DEF CancelOverride
    <3>3. lk \notin CompanionsOf(cancelled)
      BY <1>0, <3>2, LockOff
    <3> QED BY <2>1, <3>1, <3>3 DEF CompanionsOf
  <2> QED BY <2>2, <2>4, <2>5
<1>5. ASSUME NEW new \in Lock, new.at = now, Admitted(new) PROVE x.active
  <2>1. x \in overrides /\ SameOverride(x, x)
    BY <1>5 DEF Admitted, SameOverride
  <2>2. lk # new
    BY <1>a, <1>b, <1>5, <2>1
  <2> QED BY <1>c, <1>5, <2>1, <2>2 DEF Admitted
<1>6. ASSUME NEW old \in locks, Unlock(old) PROVE x.active
  <2>1. x \in overrides /\ SameOverride(x, x)
    BY <1>6 DEF Unlock, SameOverride
  <2>2. lk \in locks
    BY <1>0, <1>6, LockOff DEF Unlock
  <2> QED BY <1>c, <2>1, <2>2
<1>7. CASE (\E e : Expedited(e)) \/ (\E e \in expedites : CancelExpedite(e)) \/ Untouched
  BY <1>7, <1>c DEF Expedited, CancelExpedite, Untouched, SameOverride
<1> QED BY <1>1, <1>2, <1>3, <1>4, <1>5, <1>6, <1>7, StepForms
-----------------------------------------------------------------------------
(* Conflicts                                                               *)

LEMMA ConflictSymmetric ==
    ASSUME NEW x, NEW y, Conflict(x, y) PROVE Conflict(y, x)
BY DEF Conflict, Overlap

LEMMA ConflictsStep ==
    TypeOK /\ TypeOK' /\ Past /\ ConflictsOnlyByMoves /\ [Next]_vars => ConflictsOnlyByMoves'
<1> SUFFICES ASSUME TypeOK, TypeOK', Past, ConflictsOnlyByMoves, [Next]_vars
             PROVE  ConflictsOnlyByMoves'
  OBVIOUS
<1>1. CASE UNCHANGED vars
  BY <1>1 DEF vars, ConflictsOnlyByMoves, LockInForce
<1>2. CASE Next
  <2> SUFFICES ASSUME NEW a \in locks', NEW b \in locks', LockInForce(a)', LockInForce(b)',
                      a.at < b.at, Conflict(a, b)
               PROVE  \E mv \in overrides' : mv.kind = "MOVE_ORDER" /\ Companion(b, mv)
    BY DEF ConflictsOnlyByMoves, Conflict, Overlap, Companion
  <2>0. /\ locks \in SUBSET Lock /\ now \in Nat /\ now' \in {now, now + 1}
        /\ \A lk \in locks : lk.at \in Nat /\ lk.at < now
        /\ \A lk \in locks' : lk.until \in Nat
    BY <1>2, TablesGrow, Times DEF TypeOK, Lock, Instants, Past
  <2>1. a.active /\ b.active /\ now < a.until /\ now < b.until
    BY <2>0 DEF LockInForce
  <2>2. (a \in locks \/ a.at = now) /\ (b \in locks \/ b.at = now)
    BY <1>2, <2>1, TablesGrow
  <2>3. a \in locks /\ LockInForce(a)
    BY <2>0, <2>1, <2>2 DEF LockInForce
  <2>4. CASE b \in locks
    <3>1. PICK mv \in overrides : mv.kind = "MOVE_ORDER" /\ Companion(b, mv)
      BY <2>1, <2>3, <2>4 DEF ConflictsOnlyByMoves, LockInForce
    <3>2. PICK x \in overrides' : SameOverride(x, mv)
      BY <1>2, TablesGrow
    <3> QED BY <3>1, <3>2, CompanionOfCopy DEF SameOverride
  <2>5. CASE b \notin locks
    <3>1. ASSUME NEW row, NEW lk, Moved(row, lk)
          PROVE  \E mv \in overrides' : mv.kind = "MOVE_ORDER" /\ Companion(b, mv)
      <4>1. b = lk
        BY <2>0, <2>1, <2>5, <3>1, LockOff DEF Moved
      <4> QED BY <3>1, <4>1 DEF Moved, Recorded, Record
    <3>2. ASSUME NEW lk \in Lock, Admitted(lk) PROVE FALSE
      <4>1. b = lk
        BY <2>5, <3>2 DEF Admitted
      <4> QED BY <2>3, <3>2, <4>1, ConflictSymmetric DEF Admitted
    <3>3. ASSUME NEW chosen, locks' = SwitchedOff(locks, chosen) \/ locks' = locks PROVE FALSE
      BY <2>0, <2>1, <2>5, <3>3, LockOff
    <3>4. \/ \E mv, lk : Moved(mv, lk)
          \/ \E lk \in Lock : Admitted(lk)
          \/ \E chosen : locks' = SwitchedOff(locks, chosen) \/ locks' = locks
      BY <1>2, StepForms DEF Advised, CancelOverride, Unlock, Expedited, CancelExpedite,
                             Untouched, vars
    <3> QED BY <3>1, <3>2, <3>3, <3>4
  <2> QED BY <2>4, <2>5
<1> QED BY <1>1, <1>2

-----------------------------------------------------------------------------
(* Expedites                                                               *)

LEMMA ExpeditesStep ==
    TypeOK /\ TypeOK' /\ Past /\ PendingExpedites /\ [Next]_vars => PendingExpedites'
<1> SUFFICES ASSUME TypeOK, TypeOK', Past, PendingExpedites, [Next]_vars
             PROVE  PendingExpedites'
  OBVIOUS
<1>1. CASE UNCHANGED vars
  BY <1>1 DEF vars, PendingExpedites, Pending
<1>2. CASE Next
  <2> SUFFICES ASSUME NEW a \in expedites', NEW b \in expedites', Pending(a)', Pending(b)',
                      a.order = b.order, a.at < b.at
               PROVE  b.at < a.from
    BY DEF PendingExpedites
  <2>0. /\ expedites \in SUBSET Expedite /\ now \in Nat /\ now' \in {now, now + 1}
        /\ \A e \in expedites : e.at \in Nat /\ e.at < now /\ e.from \in Nat
        /\ \A e \in expedites' : e.until \in Nat
    BY <1>2, TablesGrow, Times DEF TypeOK, Expedite, Instants, Past
  <2>1. a.active /\ b.active /\ now < a.until /\ now < b.until
    BY <2>0 DEF Pending
  <2>2. (a \in expedites \/ a.at = now) /\ (b \in expedites \/ b.at = now)
    BY <1>2, <2>1, TablesGrow
  <2>3. a \in expedites /\ Pending(a)
    BY <2>0, <2>1, <2>2 DEF Pending
  <2>4. CASE b \in expedites
    BY <2>1, <2>3, <2>4 DEF PendingExpedites, Pending
  <2>5. CASE b \notin expedites
    <3>1. ASSUME NEW e, Expedited(e) PROVE b.at < a.from
      <4> DEFINE running == {x \in expedites : x.order = e.order /\ Expediting(x)}
      <4>1. b = e /\ a # e
        BY <2>0, <2>1, <2>3, <2>5, <3>1, ExpediteOff DEF Expedited
      <4>2. a \notin running
        BY <2>0, <2>1, <3>1, <4>1, ExpediteOff DEF Expedited
      <4> QED BY <2>0, <2>1, <2>3, <3>1, <4>1, <4>2 DEF Expediting, Expedited
    <3>2. ASSUME NEW chosen, expedites' = SwitchedOff(expedites, chosen) \/ expedites' = expedites
          PROVE  FALSE
      BY <2>0, <2>1, <2>5, <3>2, ExpediteOff
    <3>3. \/ \E e : Expedited(e)
          \/ \E chosen : expedites' = SwitchedOff(expedites, chosen) \/ expedites' = expedites
      BY <1>2, StepForms DEF Advised, Moved, CancelOverride, Admitted, Unlock,
                             CancelExpedite, Untouched, vars
    <3> QED BY <3>1, <3>2, <3>3
  <2> QED BY <2>4, <2>5
<1> QED BY <1>1, <1>2
-----------------------------------------------------------------------------
(* One decision stands per order and slot                                  *)

InSlot(row, o, s) == row.order = o /\ row.kind \in SlotKinds(s)

LEMMA SlotsKnown ==
    /\ Slots = {"score", "next", "place", "pin", "hold"}
    /\ SlotKinds("score") = {"SET_PRIORITY"} /\ SlotKinds("next") = {"FORCE_NEXT"}
    /\ SlotKinds("place") = {"MOVE_ORDER"} /\ SlotKinds("pin") = {"LOCK_MACHINE_ASSIGNMENT"}
    /\ SlotKinds("hold") = {"HOLD_ORDER", "RELEASE_HOLD"}
BY DEF Slots, SlotKind, SlotKinds

(* The decision that stands, when it is one that counts.                   *)
Counts(s, r) == s = "hold" => r.kind = "HOLD_ORDER"
DecisionsKnown ==
    \A o \in Orders, s \in Slots :
        /\ \A r \in Standing(o, s) : Decision(o, s) = IF Counts(s, r) THEN r.at ELSE None
        /\ Standing(o, s) = {} => Decision(o, s) = None

LEMMA DecisionsNow == TypeOK /\ OneStanding => DecisionsKnown
<1> SUFFICES ASSUME TypeOK, OneStanding, NEW o \in Orders, NEW s \in Slots
             PROVE  /\ \A r \in Standing(o, s) :
                          Decision(o, s) = IF Counts(s, r) THEN r.at ELSE None
                    /\ Standing(o, s) = {} => Decision(o, s) = None
  BY DEF DecisionsKnown
<1> DEFINE counting == {r \in Standing(o, s) : Counts(s, r)}
<1>1. \A r, t \in Standing(o, s) : r = t
  BY DEF OneStanding
<1>2. \A r \in Standing(o, s) : r.at \in Nat
  BY DEF TypeOK, Standing, Override, Instants
<1>3. Newest(Standing(o, s)) = Standing(o, s)
  BY <1>1, <1>2 DEF Newest
<1>4. Deciding(o, s) = counting
  <2>1. CASE s = "hold"
    <3>1. Standing(o, s) = {r \in overrides : /\ r.order = o /\ InForce(r)
                                              /\ r.kind \in {"HOLD_ORDER", "RELEASE_HOLD"}}
      BY <2>1, SlotsKnown DEF Standing
    <3>2. LatestHoldDecision(o) = Standing(o, s)
      BY <1>3, <3>1 DEF LatestHoldDecision
    <3> QED BY <2>1, <3>2 DEF Deciding, Counts
  <2>2. CASE s # "hold"
    <3>1. Standing(o, s) = {r \in overrides : r.order = o /\ r.kind = SlotKind[s] /\ InForce(r)}
      BY <2>2 DEF Standing, SlotKinds
    <3> QED BY <1>3, <2>2, <3>1 DEF Deciding, Counts
  <2> QED BY <2>1, <2>2
<1>5. ASSUME NEW r \in Standing(o, s)
      PROVE  Decision(o, s) = IF Counts(s, r) THEN r.at ELSE None
  <2>1. CASE Counts(s, r)
    <3>1. counting = {r}
      BY <1>1, <2>1
    <3>2. (CHOOSE x \in {r} : TRUE) = r
      OBVIOUS
    <3> QED BY <1>4, <2>1, <3>1, <3>2 DEF Decision
  <2>2. CASE ~ Counts(s, r)
    BY <1>1, <1>4, <2>2 DEF Decision
  <2> QED BY <2>1, <2>2
<1>6. ASSUME Standing(o, s) = {} PROVE Decision(o, s) = None
  BY <1>4, <1>6 DEF Decision
<1> QED BY <1>5, <1>6

LEMMA DecisionsNext == (TypeOK /\ OneStanding => DecisionsKnown)'
BY DecisionsNow, PTL

(* Every step lets decisions lapse, and at most puts a new one in place of *)
(* all others of its slot.                                                 *)
LEMMA StandingStep ==
    ASSUME TypeOK, TypeOK', OneStanding, Next
    PROVE  \/ \A o \in Orders, s \in Slots : Standing(o, s)' \subseteq Standing(o, s)
           \/ /\ now' = now + 1
              /\ \E row : row.at = now /\ \A o \in Orders, s \in Slots :
                    Standing(o, s)' \subseteq IF InSlot(row, o, s) THEN {row} ELSE Standing(o, s)
<1>0. /\ overrides \in SUBSET Override /\ now \in Nat /\ now' \in {now, now + 1}
      /\ \A r \in overrides' : r.until \in Nat
  BY TablesGrow, Times DEF TypeOK, Override, Instants
<1>a. ASSUME NEW r \in overrides', InForce(r)' PROVE r.active /\ now < r.until
  BY <1>0, <1>a DEF InForce
<1>1. ASSUME NEW row, NEW gone, Recorded(row, gone),
             \A o \in Orders, s \in Slots : InSlot(row, o, s) =>
                 \A r \in Standing(o, s) : r.kind \in gone
      PROVE  /\ now' = now + 1
             /\ row.at = now
             /\ \A o \in Orders, s \in Slots :
                    Standing(o, s)' \subseteq IF InSlot(row, o, s) THEN {row} ELSE Standing(o, s)
  <2>1. now' = now + 1 /\ row.at = now
    BY <1>1 DEF Recorded, Request
  <2>2. ASSUME NEW o \in Orders, NEW s \in Slots, NEW x \in Standing(o, s)', x # row
        PROVE  x \in Standing(o, s) /\ ~ InSlot(row, o, s)
    <3>1. x \in overrides' /\ x.order = o /\ x.kind \in SlotKinds(s) /\ InForce(x)'
      BY <2>2 DEF Standing, SlotKinds, SlotKind
    <3>2. x.active /\ now < x.until
      BY <1>a, <3>1
    <3>3. x \in overrides /\ x \notin ActiveOf(row.order, gone)
      BY <1>0, <1>1, <2>2, <3>1, <3>2, OverrideOff DEF Recorded, Record
    <3>4. x \in Standing(o, s)
      BY <3>1, <3>2, <3>3 DEF Standing, InForce
    <3>5. ASSUME InSlot(row, o, s) PROVE FALSE
      BY <1>1, <3>1, <3>2, <3>3, <3>4, <3>5 DEF ActiveOf, InSlot
    <3> QED BY <3>4, <3>5
  <2>3. ASSUME NEW o \in Orders, NEW s \in Slots, row \in Standing(o, s)'
        PROVE  InSlot(row, o, s)
    BY <2>3 DEF InSlot, Standing, SlotKinds, SlotKind
  <2> QED BY <2>1, <2>2, <2>3
<1>2. ASSUME NEW row, NEW gone, Advised(row, gone)
      PROVE  \A o \in Orders, s \in Slots : InSlot(row, o, s) =>
                 \A r \in Standing(o, s) : r.kind \in gone
  <2> SUFFICES ASSUME NEW o \in Orders, NEW s \in Slots, InSlot(row, o, s),
                      NEW r \in Standing(o, s)
               PROVE  r.kind \in gone
    OBVIOUS
  <2>1. CASE s # "hold"
    BY <1>2, <2>1, SlotsKnown DEF Advised, InSlot, Standing
  <2>2. CASE s = "hold"
    <3>1. \A t \in Standing(o, s) : t = r
      BY DEF OneStanding
    <3>2. \A t \in LatestHoldDecision(o) : t \in Standing(o, s)
      BY <2>2, SlotsKnown DEF LatestHoldDecision, Newest, Standing
    <3>3. r.at \in Nat
      BY <1>0 DEF Standing, Override, Instants
    <3>4. r \in LatestHoldDecision(o)
      BY <2>2, <3>1, <3>3, SlotsKnown DEF LatestHoldDecision, Newest, Standing
    <3>5. PlannerHolds(o) <=> r.kind = "HOLD_ORDER"
      BY <3>1, <3>2, <3>4 DEF PlannerHolds
    <3>6. r.kind \in {"HOLD_ORDER", "RELEASE_HOLD"} /\ row.kind \in {"HOLD_ORDER", "RELEASE_HOLD"}
      BY <2>2, SlotsKnown DEF Standing, InSlot
    <3> QED BY <1>2, <3>5, <3>6 DEF Advised, InSlot
  <2> QED BY <2>1, <2>2
<1>3. ASSUME NEW mv, NEW lk, Moved(mv, lk)
      PROVE  \A o \in Orders, s \in Slots : InSlot(mv, o, s) =>
                 \A r \in Standing(o, s) : r.kind \in {"MOVE_ORDER", "LOCK_MACHINE_ASSIGNMENT"}
  BY <1>3, SlotsKnown DEF Moved, InSlot, Standing
<1>4. ASSUME NEW chosen, overrides' = SwitchedOff(overrides, chosen) \/ overrides' = overrides
      PROVE  \A o \in Orders, s \in Slots : Standing(o, s)' \subseteq Standing(o, s)
  <2> SUFFICES ASSUME NEW o \in Orders, NEW s \in Slots, NEW x \in Standing(o, s)'
               PROVE  x \in Standing(o, s)
    OBVIOUS
  <2>1. x \in overrides' /\ x.order = o /\ x.kind \in SlotKinds(s) /\ InForce(x)'
    BY DEF Standing, SlotKinds, SlotKind
  <2>2. x.active /\ now < x.until
    BY <1>a, <2>1
  <2>3. x \in overrides
    BY <1>0, <1>4, <2>1, <2>2, OverrideOff
  <2> QED BY <2>1, <2>2, <2>3 DEF Standing, InForce
<1>5. \/ \E row, gone : Advised(row, gone)
      \/ \E mv, lk : Moved(mv, lk)
      \/ \E chosen : overrides' = SwitchedOff(overrides, chosen) \/ overrides' = overrides
  BY StepForms DEF CancelOverride, Admitted, Unlock, Expedited, CancelExpedite, Untouched, vars
<1>6. CASE \E row, gone : Advised(row, gone)
  BY <1>1, <1>2, <1>6 DEF Advised
<1>7. CASE \E mv, lk : Moved(mv, lk)
  BY <1>1, <1>3, <1>7 DEF Moved
<1> QED BY <1>4, <1>5, <1>6, <1>7

LEMMA OneStandingStep == TypeOK /\ TypeOK' /\ OneStanding /\ [Next]_vars => OneStanding'
<1> SUFFICES ASSUME TypeOK, TypeOK', OneStanding, [Next]_vars,
                    NEW o \in Orders, NEW s \in Slots,
                    NEW r \in Standing(o, s)', NEW t \in Standing(o, s)'
             PROVE  r = t
  BY DEF OneStanding
<1>1. CASE UNCHANGED vars
  BY <1>1 DEF vars, OneStanding, Standing, InForce, SlotKinds, SlotKind
<1>2. CASE Next
  <2>1. CASE Standing(o, s)' \subseteq Standing(o, s)
    BY <2>1 DEF OneStanding
  <2>2. CASE \E row : Standing(o, s)' \subseteq {row}
    BY <2>2
  <2> QED BY <1>2, <2>1, <2>2, StandingStep
<1> QED BY <1>1, <1>2

-----------------------------------------------------------------------------
(* The theorems                                                            *)

LEMMA InvariantInit == Init => IInv
BY DEF Init, IInv, Past, CompanionsFollowMoves, ConflictsOnlyByMoves, PendingExpedites,
       OneStanding, Standing

LEMMA InvariantStep == TypeOK /\ TypeOK' /\ IInv /\ [Next]_vars => IInv'
BY PastStep, CompanionsStep, ConflictsStep, ExpeditesStep, OneStandingStep DEF IInv

(* The strengthened invariant holds in every behaviour.                    *)
THEOREM Inductive == Spec => []IInv
BY TypeCorrect, InvariantInit, InvariantStep, PTL DEF Spec

(* override_service.py:15-17: an active lock of a move belongs to an       *)
(* active move, for any number of moves of any orders by any planners,     *)
(* replaced and cancelled in any order.                                    *)
THEOREM CompanionsGoWithMoves == Spec => []CompanionsFollowMoves
BY Inductive, PTL DEF IInv

(* lock_service.py:11-12: among any number of locks in force a pair that   *)
(* conflicts has a younger member that a move wrote.                       *)
THEOREM OnlyMovesConflict == Spec => []ConflictsOnlyByMoves
BY Inductive, PTL DEF IInv

(* expedite_service.py:3-8: two expedites of an order run at once only     *)
(* when the older had not begun as the younger was created.                *)
THEOREM OnlyDelayedOverlap == Spec => []ExpeditesOverlapOnlyIfDelayed
<1>1. TypeOK /\ IInv => ExpeditesOverlapOnlyIfDelayed
  BY DEF IInv, PendingExpedites, Pending, ExpeditesOverlapOnlyIfDelayed, Expediting
<1> QED BY <1>1, TypeCorrect, Inductive, PTL
-----------------------------------------------------------------------------
(* The rows implement the desk                                             *)

Abstract == [o \in Orders |-> [s \in Slots |-> Decision(o, s)]]

LEMMA AbstractNow ==
    /\ \A o \in Orders, s \in Slots : Abstract[o][s] = Decision(o, s)
    /\ \A o \in Orders, s \in Slots : Abstract'[o][s] = Decision(o, s)'
BY DEF Abstract

LEMMA DeskInit == Init => Desk!Init
<1> SUFFICES ASSUME Init PROVE Desk!Init
  OBVIOUS
<1>1. TypeOK /\ OneStanding
  BY InvariantInit, Times DEF Init, TypeOK, IInv
<1>2. \A o \in Orders, s \in Slots : Standing(o, s) = {}
  BY DEF Init, Standing
<1>3. \A o \in Orders, s \in Slots : Decision(o, s) = None
  BY <1>1, <1>2, DecisionsNow DEF DecisionsKnown
<1> QED BY <1>3 DEF Desk!Init, Init

(* Where the standing rows only get fewer the decision stays or lapses.    *)
LEMMA DecisionKept ==
    ASSUME DecisionsKnown, DecisionsKnown', NEW o \in Orders, NEW s \in Slots,
           Standing(o, s)' \subseteq Standing(o, s)
    PROVE  Decision(o, s)' \in {Decision(o, s), None}
<1>1. CASE Standing(o, s)' = {}
  BY <1>1 DEF DecisionsKnown
<1>2. ASSUME NEW r \in Standing(o, s)' PROVE Decision(o, s)' = Decision(o, s)
  BY <1>2 DEF DecisionsKnown, Counts
<1> QED BY <1>1, <1>2

LEMMA DeskStep ==
    TypeOK /\ TypeOK' /\ IInv /\ IInv' /\ [Next]_vars => [Desk!Next]_Desk!vars
<1> SUFFICES ASSUME TypeOK, TypeOK', IInv, IInv', [Next]_vars
             PROVE  Desk!Next \/ UNCHANGED Desk!vars
  OBVIOUS
<1>0. DecisionsKnown /\ DecisionsKnown'
  BY DecisionsNow, DecisionsNext DEF IInv
<1>1. CASE UNCHANGED vars
  BY <1>1 DEF vars, Desk!vars, Decision, Deciding, LatestHoldDecision, InForce, SlotKind, Slots
<1>2. CASE Next
  <2>0. now' \in {now, now + 1}
    BY <1>2, TablesGrow
  <2>1. CASE \A o \in Orders, s \in Slots : Standing(o, s)' \subseteq Standing(o, s)
    <3>1. \A o \in Orders, s \in Slots : Decision(o, s)' \in {Decision(o, s), None}
      BY <1>0, <2>1, DecisionKept
    <3>2. \A o \in Orders, s \in Slots : Desk!Kept(o, s)
      BY <3>1, AbstractNow DEF Desk!Kept, Abstract
    <3> QED BY <2>0, <3>2 DEF Desk!Next, Desk!Lapse
  <2>2. ASSUME now' = now + 1,
               NEW row, row.at = now,
               \A o \in Orders, s \in Slots :
                  Standing(o, s)' \subseteq IF InSlot(row, o, s) THEN {row} ELSE Standing(o, s)
        PROVE  Desk!Next
    <3>1. ASSUME NEW o \in Orders, NEW s \in Slots, ~ InSlot(row, o, s)
          PROVE  Desk!Kept(o, s)
      <4>1. Decision(o, s)' \in {Decision(o, s), None}
        BY <1>0, <2>2, <3>1, DecisionKept
      <4> QED BY <4>1, AbstractNow DEF Desk!Kept, Abstract
    <3>2. ASSUME NEW o \in Orders, NEW s \in Slots, InSlot(row, o, s)
          PROVE  Decision(o, s)' \in {now, None}
      <4>1. Standing(o, s)' \subseteq {row}
        BY <2>2, <3>2
      <4> QED BY <1>0, <2>2, <4>1 DEF DecisionsKnown, Counts
    <3>3. ASSUME NEW o \in Orders, NEW s \in Slots, InSlot(row, o, s), Decision(o, s)' = now
          PROVE  Desk!Next
      <4>1. ASSUME NEW p \in Orders, NEW t \in Slots, <<p, t>> # <<o, s>>
            PROVE  Desk!Kept(p, t)
        <5>1. ~ InSlot(row, p, t)
          BY <3>3, <4>1, SlotsKnown DEF InSlot
        <5> QED BY <3>1, <5>1
      <4>2. Desk!Decide(o, s)
        BY <2>2, <3>3, <4>1, AbstractNow DEF Desk!Decide, Abstract
      <4> QED BY <4>2 DEF Desk!Next
    <3>4. CASE \A o \in Orders, s \in Slots : InSlot(row, o, s) => Decision(o, s)' = None
      <4>1. ASSUME NEW o \in Orders, NEW s \in Slots, InSlot(row, o, s)
            PROVE  Desk!Kept(o, s)
        BY <3>4, <4>1, AbstractNow DEF Desk!Kept, Abstract
      <4>2. \A o \in Orders, s \in Slots : Desk!Kept(o, s)
        BY <3>1, <4>1
      <4> QED BY <2>2, <4>2 DEF Desk!Next, Desk!Lapse
    <3> QED BY <3>2, <3>3, <3>4
  <2> QED BY <1>2, <2>1, <2>2, StandingStep DEF IInv
<1> QED BY <1>1, <1>2

(* override_service.py:7-18, "the latest decision wins": the tables        *)
(* implement the desk, step by step.  A decision that was replaced,        *)
(* cancelled, released or has expired is never in force again.             *)
THEOREM RowsImplementDesk == Spec => DecisionsNeverReturn
<1>1. [](TypeOK /\ IInv) /\ [][Next]_vars => [][Desk!Next]_Desk!vars
  BY DeskStep, PTL
<1> QED BY <1>1, DeskInit, TypeCorrect, Inductive, PTL DEF Spec, DecisionsNeverReturn, Desk!Spec
=============================================================================
