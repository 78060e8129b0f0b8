--------------------------- MODULE MachineTimeline ---------------------------
(***************************************************************************)
(* One machine while a schedule is built: its working calendar, the busy   *)
(* slots and idle gaps of its MachineTimeline, and find_slot, which says   *)
(* where a job goes.  Instants are whole minutes; a calendar is the set of *)
(* minutes the machine works in.  Of what a setup depends on only the      *)
(* setup family is kept: a job costs its setup unless the job before it    *)
(* has its family (the shipped same_family_setup_factor is 0).             *)
(***************************************************************************)
EXTENDS Integers, FiniteSets

CONSTANTS
    Machines,   \* machine_ids
    Ops,        \* operation_ids
    Families,   \* setup families
    NoFamily,   \* an operation or a machine without one
    NoSlot,     \* None in the place of a slot
    Horizon,    \* bound: the last instant of every calendar
    Working,    \* machine -> the minutes it works in
    Family,     \* operation -> its setup family, or NoFamily
    Setup,      \* operation -> minutes of a changeover to it
    Run         \* operation -> minutes it runs, on every machine

Instants == 0 .. Horizon

ASSUME TimelineAssumption ==
    /\ Horizon \in Nat
    /\ Working \in [Machines -> SUBSET Instants]
    /\ NoFamily \notin Families
    /\ Family \in [Ops -> Families \union {NoFamily}]
    /\ Setup \in [Ops -> Nat]
    /\ Run \in [Ops -> Nat]

(* Why a slot has the setup it has: none recorded (a frozen entry of the   *)
(* previous schedule), the family of the job before it, or a changeover.   *)
Bases == {"frozen", "same", "full"}

(* A busy slot.  nr, its place among the insertions, tells slots that      *)
(* start together apart.                                                   *)
Slots == [op : Ops, start : Instants, end : Instants, setup : Nat, basis : Bases, nr : Nat]

ASSUME NoSlotAssumption == NoSlot \notin Slots

Gaps == [start : Instants, end : Instants, work : Nat,
         prev : Slots \union {NoSlot}, next : Slots]

(* floor: when the machine can first take work; family: its setup then;    *)
(* tailEnd and tailFamily: the state after its last job.                   *)
Timelines == [slots : SUBSET Slots, gaps : SUBSET Gaps, floor : Instants,
              family : Families \union {NoFamily},
              tailEnd : Instants, tailFamily : Families \union {NoFamily}]

Later(a, b) == IF a > b THEN a ELSE b

-----------------------------------------------------------------------------
(* The calendar.                                                           *)

(* working_minutes_between                                                 *)
WorkBetween(m, a, b) == Cardinality({t \in Working[m] : a <= t /\ t < b})

(* next_working_time: the first minute of work from t on, if there is one. *)
NextWorking(m, t) ==
    {s \in Working[m] : s >= t /\ \A q \in t .. (s - 1) : q \notin Working[m]}

(* add_work_minutes: the instant at which n minutes of work after s are    *)
(* done, if the calendar goes so far.                                      *)
Ends(m, s, n) ==
    {e \in (s + n) .. Horizon : WorkBetween(m, s, e) = n /\ (e = s \/ e - 1 \in Working[m])}

(* A job does not reach into a reserved window.                            *)
Clear(p, windows) == \A w \in windows : ~ (w.start < p.end /\ p.start < w.end)

(* Where n minutes of work may be done: from t on or after a window.       *)
Feasible(m, t, n, windows) ==
    {p \in UNION {{[start |-> s, end |-> e] : e \in Ends(m, s, n)} :
                    s \in UNION {NextWorking(m, u) :
                                  u \in {t} \union {w.end : w \in {x \in windows : x.end > t}}}} :
        Clear(p, windows)}

(* place_span: the earliest of them.  None means the error of a calendar   *)
(* that does not work any more.                                            *)
Spans(m, t, n, windows) ==
    LET feasible == Feasible(m, t, n, windows)
    IN  {p \in feasible : \A q \in feasible : p.start <= q.start}

-----------------------------------------------------------------------------
(* Setups.                                                                 *)
FamilyAfter(slot, initial) == IF slot = NoSlot THEN initial ELSE Family[slot.op]

SharesSetup(op, family) == Family[op] # NoFamily /\ Family[op] = family

SetupMinutes(op, family) == IF SharesSetup(op, family) THEN 0 ELSE Setup[op]

(* Mutant of SuccessorSetupHolds: the rule before frozen entries had one.  *)
SuccessorUnlessSame(g, op) ==
    g.next.basis = "same" => SharesSetup(op, Family[g.next.op])

(* A job of op's family may be put in front of the slot after the gap.     *)
SuccessorSetupHolds(g, op) ==
    \/ g.next.basis = "full"
    \/ g.next.basis = "same" /\ SharesSetup(op, Family[g.next.op])
    \/ g.next.basis = "frozen" /\ Family[op] = FamilyAfter(g.prev, NoFamily)

-----------------------------------------------------------------------------
(* The timeline.                                                           *)
NewTimeline(floor, family) ==
    [slots |-> {}, gaps |-> {}, floor |-> floor, family |-> family,
     tailEnd |-> floor, tailFamily |-> family]

(* The neighbours of a slot that starts at t: the last slot that starts at *)
(* or before t and the first one that starts after it.                     *)
Precedes(p, q) == p.start < q.start \/ (p.start = q.start /\ p.nr < q.nr)

SlotsUntil(tl, t) == {s \in tl.slots : s.start <= t}

SlotsAfter(tl, t) == {s \in tl.slots : s.start > t}

Before(tl, t) ==
    IF SlotsUntil(tl, t) = {} THEN NoSlot
    ELSE CHOOSE s \in SlotsUntil(tl, t) : \A q \in SlotsUntil(tl, t) \ {s} : Precedes(q, s)

After(tl, t) ==
    IF SlotsAfter(tl, t) = {} THEN NoSlot
    ELSE CHOOSE s \in SlotsAfter(tl, t) : \A q \in SlotsAfter(tl, t) \ {s} : Precedes(s, q)

(* _add_gap: idle time counts when some of it is working time.             *)
NewGap(m, start, end, prev, next) ==
    IF next = NoSlot \/ start >= end THEN {}
    ELSE {g \in {[start |-> start, end |-> end, work |-> WorkBetween(m, start, end),
                  prev |-> prev, next |-> next]} : g.work > 0}

(* Mutant of Consumed: the gap a slot is put into stays.                   *)
ConsumedUnlessShort(tl, slot, next) ==
    {g \in tl.gaps : next # NoSlot /\ g.end = next.start /\ slot.start = g.start}

(* The gap the slot takes.                                                 *)
Consumed(tl, slot, next) == {g \in tl.gaps : next # NoSlot /\ g.end = next.start}

(* apply_entry_to_state: the state after the last job, which a job put     *)
(* before the tail leaves alone.                                           *)
TailFamily(tl, slot) == IF slot.start >= tl.tailEnd THEN Family[slot.op] ELSE tl.tailFamily

(* insert, with the tail of the machine's state.                           *)
Insert(m, tl, slot) ==
    LET prev == Before(tl, slot.start)
        next == After(tl, slot.start)
        idleFrom == IF prev = NoSlot THEN tl.floor ELSE Later(prev.end, tl.floor)
    IN  [tl EXCEPT
           !.slots = @ \union {slot},
           !.gaps = (@ \ Consumed(tl, slot, next))
                    \union NewGap(m, idleFrom, slot.start, prev, slot)
                    \union NewGap(m, slot.end, IF next = NoSlot THEN slot.end ELSE next.start,
                                  slot, next),
           !.tailEnd = Later(@, slot.end),
           !.tailFamily = TailFamily(tl, slot)]

-----------------------------------------------------------------------------
(* find_slot.                                                              *)
Job(tl, op, family, p) ==
    [op |-> op, start |-> p.start, end |-> p.end, setup |-> SetupMinutes(op, family),
     basis |-> IF SharesSetup(op, family) THEN "same" ELSE "full",
     nr |-> Cardinality(tl.slots)]

(* Mutant of InGap: the end of the gap is only checked against its work.   *)
InGapByWork(m, tl, g, op, t, windows) ==
    LET family == FamilyAfter(g.prev, tl.family)
        minutes == SetupMinutes(op, family) + Run[op]
    IN  {Job(tl, op, family, p) : p \in
           {q \in Spans(m, Later(t, g.start), minutes, windows) :
              g.end > t /\ SuccessorSetupHolds(g, op) /\ g.work >= minutes}}

(* op at or after t in gap g, if it fits.  A job that starts with the gap  *)
(* is only checked against the gap's working minutes.                      *)
InGap(m, tl, g, op, t, windows) ==
    LET family == FamilyAfter(g.prev, tl.family)
        minutes == SetupMinutes(op, family) + Run[op]
    IN  {Job(tl, op, family, p) : p \in
           {q \in Spans(m, Later(t, g.start), minutes, windows) :
              /\ g.end > t
              /\ SuccessorSetupHolds(g, op)
              /\ g.work >= minutes
              /\ t > g.start \/ windows # {} => q.end <= g.end}}

AtTail(m, tl, op, t, windows) ==
    {Job(tl, op, tl.tailFamily, p) :
       p \in Spans(m, Later(t, tl.tailEnd), SetupMinutes(op, tl.tailFamily) + Run[op], windows)}

(* The first gap the job fits into, else the tail; tailOnly: the tail.     *)
FindSlot(m, tl, op, t, windows, tailOnly) ==
    LET fitting == {g \in tl.gaps : InGap(m, tl, g, op, t, windows) # {}}
    IN  IF tailOnly \/ fitting = {} THEN AtTail(m, tl, op, t, windows)
        ELSE UNION {InGap(m, tl, g, op, t, windows) :
                      g \in {h \in fitting : \A k \in fitting : h.end <= k.end}}
=============================================================================
