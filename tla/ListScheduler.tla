---------------------------- MODULE ListScheduler ----------------------------
(***************************************************************************)
(* One run of the rule-based scheduler: frozen entries of the previous     *)
(* schedule are reproduced, then ListScheduler.run takes the orders in     *)
(* queue order, places the operations of each in sequence - its            *)
(* dependencies and the order of a prerequisite first - and after every    *)
(* order lets the batching lookahead pull a same-setup order forward.      *)
(*                                                                         *)
(* The Python call stack is the variable stack.  What the numbers of the   *)
(* configuration decide is a free choice: which of the usable machines     *)
(* costs least (rank_machines), and whether a pull keeps the score gap,    *)
(* the delay and the due dates (pick_next).                                *)
(***************************************************************************)
EXTENDS MachineTimeline, Sequences

CONSTANTS
    Orders,     \* open orders
    Route,      \* order -> its pending operations, in sequence
    CanDo,      \* operation -> the machines of its process
    Now,        \* the instant of the run
    Batching,   \* config.batching.enabled
    LockWindow, \* config.lock_window_minutes
    None,       \* no order, operation or machine
    Inputs      \* the snapshots the run may be given

OrderOf(op) == CHOOSE o \in Orders : \E i \in DOMAIN Route[o] : Route[o][i] = op

(* Planner locks as build_lock_index tells them apart: a reserved window,  *)
(* perhaps for an order; an order first, perhaps on a machine; a machine   *)
(* that takes no new work.                                                 *)
Windows == [machine : Machines, order : Orders \union {None}, start : Instants, end : Instants]

OrderLocks == [order : Orders, machine : Machines \union {None}]

(* An entry of the previous schedule, with the setup it was planned with.  *)
Entries == [op : Ops, machine : Machines, start : Instants, end : Instants, setup : Nat]

(* What a run is given: the candidates in processing order, what each      *)
(* depends on, when it is released, the cross-order prerequisites, known   *)
(* cycle times and eligible machines, the machines' state, the locks, and  *)
(* the orders in progress or forced next.                                  *)
InputType ==
    [queue : Seq(Orders), deps : [Orders -> SUBSET Orders], release : [Orders -> Instants],
     prereq : [Ops -> Ops \union {None}], noCycle : SUBSET Ops,
     barred : SUBSET (Ops \X Machines), excluded : SUBSET Machines,
     floor : [Machines -> Instants], family : [Machines -> Families \union {NoFamily}],
     windows : SUBSET Windows, orderLocks : SUBSET OrderLocks,
     frozenMachines : SUBSET Machines, urgent : SUBSET Orders, previous : SUBSET Entries]

ASSUME RunAssumption ==
    /\ Now \in Instants \ {0}
    /\ Batching \in BOOLEAN
    /\ LockWindow \in Nat
    /\ Route \in [Orders -> Seq(Ops)]
    /\ CanDo \in [Ops -> SUBSET Machines]
    /\ None \notin Orders \union Machines \union Ops
    /\ Inputs \subseteq InputType

VARIABLES
    in,         \* the snapshot of the run
    left,       \* entries of the previous schedule still to be looked at
    timelines,  \* machine -> its timeline
    placed,     \* operation -> its entry, or NotPlaced
    completion, \* order -> when it is finished, 0 when it is not placed
    failed,     \* order -> the reason codes it was left unscheduled with
    processed,  \* orders taken from the queue
    cursor,     \* position in the queue
    stack,      \* calls of process that have not returned
    work,       \* machines the batching lookahead still has to look at
    status      \* "frozen", "running", "done" or "error"

vars == <<in, left, timelines, placed, completion, failed, processed, cursor, stack, work, status>>

NotPlaced == [machine |-> None, start |-> 0, end |-> 0, kept |-> FALSE]

Queued == {in.queue[i] : i \in DOMAIN in.queue}

Position(o) == CHOOSE i \in DOMAIN in.queue : in.queue[i] = o

-----------------------------------------------------------------------------
(* LockIndex.                                                              *)
SlotLocks(o) == {w \in in.windows : w.order = o}

OrderLocked(o) == SlotLocks(o) # {} \/ \E l \in in.orderLocks : l.order = o

Pins(o) == {l.machine : l \in {k \in in.orderLocks : k.order = o /\ k.machine # None}}

Available == Machines \ in.excluded

-----------------------------------------------------------------------------
(* Which machines an operation may go to.                                  *)

(* eligible_machines: a pinned order stays on its machine for the steps    *)
(* the machine can do (locked_machine_assignment).                         *)
Eligible(op) ==
    {m \in CanDo[op] : <<op, m>> \notin in.barred
        /\ \A p \in Pins(OrderOf(op)) : m = p \/ p \notin CanDo[op]}

(* usable_machines                                                         *)
Usable(op) == (Eligible(op) \intersect Available) \ in.frozenMachines

NextUnplaced(o) ==
    LET unplaced == {i \in DOMAIN Route[o] : placed[Route[o][i]] = NotPlaced}
    IN  IF unplaced = {} THEN None
        ELSE Route[o][CHOOSE i \in unplaced : \A j \in unplaced : i <= j]

(* _place_operation applies a slot lock to the next unplaced operation,    *)
(* which each operation of the order is when its turn comes.               *)
SlotLocksOn(op) ==
    IF NextUnplaced(OrderOf(op)) = op THEN SlotLocks(OrderOf(op)) ELSE {}

(* Mutant of Reserved: windows of other orders are not kept free.          *)
ReservedUnlessOrder(op, m) == {w \in in.windows : w.machine = m /\ w.order = None}

(* The windows op has to keep clear of on m: those that are not its own.   *)
Reserved(op, m) ==
    {w \in in.windows : w.machine = m
        /\ \A own \in SlotLocksOn(op) : <<w.start, w.end>> # <<own.start, own.end>>}

-----------------------------------------------------------------------------
(* The call stack.                                                         *)
Frame(o, forced) ==
    [order |-> o, stage |-> "deps", next |-> 1, release |-> 0, prevEnd |-> 0,
     forced |-> forced, pulledFor |-> forced, touched |-> <<>>]

Top == stack[Len(stack)]

Below == SubSeq(stack, 1, Len(stack) - 1)

SetTop(frame) == stack' = Below \o <<frame>>

Call(o) ==
    /\ processed' = processed \union {o}
    /\ stack' = stack \o <<Frame(o, None)>>

(* Mutant of Return: the lookahead always goes on with pulledFor.          *)
ReturnAnyway ==
    /\ stack' = IF Below # <<>> /\ Below[Len(Below)].stage = "deps"
                THEN [Below EXCEPT ![Len(Below)].touched = @ \o Top.touched]
                ELSE Below
    /\ work' = IF Below # <<>> \/ ~ Batching \/ Top.touched = <<>> THEN work
               ELSE work \o Top.touched \o <<Top.pulledFor>>

(* process returns: the machines it gave work to are the caller's, unless  *)
(* _prerequisite_release called it; the lookahead starts from them, and    *)
(* goes on with the machine a job was pulled to.                           *)
Return ==
    /\ stack' = IF Below # <<>> /\ Below[Len(Below)].stage = "deps"
                THEN [Below EXCEPT ![Len(Below)].touched = @ \o Top.touched]
                ELSE Below
    /\ work' = IF Below # <<>> \/ ~ Batching \/ Top.touched = <<>> THEN work
               ELSE IF Top.pulledFor = None THEN Top.touched
               ELSE work \o Top.touched \o <<Top.pulledFor>>

(* unschedule, and the return of _place_order that follows it.             *)
Unschedule(code) ==
    /\ failed' = [failed EXCEPT ![Top.order] = @ \union {code}]
    /\ Return
    /\ UNCHANGED <<in, left, timelines, placed, completion, processed, cursor, status>>

At(stage) == status = "running" /\ stack # <<>> /\ Top.stage = stage

-----------------------------------------------------------------------------
(* reproduce_frozen_entries, one entry of the sorted list.                 *)
Kept(e) ==
    /\ \/ e.start < Now + LockWindow
       \/ OrderLocked(OrderOf(e.op))
       \/ e.machine \in in.frozenMachines
    /\ e.end > Now
    /\ e.machine \in Available
    /\ \A p \in Pins(OrderOf(e.op)) : p = e.machine

FrozenSlot(e) ==
    [op |-> e.op, start |-> e.start, end |-> e.end, setup |-> e.setup, basis |-> "frozen",
     nr |-> Cardinality(timelines[e.machine].slots)]

ReproduceEntry ==
    /\ status = "frozen"
    /\ \E e \in left :
        /\ \A d \in left : d.machine = e.machine => e.start <= d.start
        /\ left' = left \ {e}
        /\ IF Kept(e)
           THEN /\ timelines' = [timelines EXCEPT ![e.machine] =
                                   Insert(e.machine, @, FrozenSlot(e))]
                /\ placed' = [placed EXCEPT ![e.op] =
                                [machine |-> e.machine, start |-> e.start, end |-> e.end,
                                 kept |-> TRUE]]
           ELSE UNCHANGED <<timelines, placed>>
    /\ UNCHANGED <<in, completion, failed, processed, cursor, stack, work, status>>

Begin ==
    /\ status = "frozen"
    /\ left = {}
    /\ status' = "running"
    /\ UNCHANGED <<in, left, timelines, placed, completion, failed, processed, cursor, stack, work>>

(* run: the next order of the queue, once the lookahead has ended.         *)
NextOrder ==
    /\ status = "running" /\ stack = <<>> /\ work = <<>>
    /\ cursor < Len(in.queue)
    /\ cursor' = cursor + 1
    /\ IF in.queue[cursor'] \in processed THEN UNCHANGED <<processed, stack>>
       ELSE Call(in.queue[cursor'])
    /\ UNCHANGED <<in, left, timelines, placed, completion, failed, work, status>>

RunComplete ==
    /\ status = "running" /\ stack = <<>> /\ work = <<>>
    /\ cursor = Len(in.queue)
    /\ status' = "done"
    /\ UNCHANGED <<in, left, timelines, placed, completion, failed, processed, cursor, stack, work>>

(* process: dependencies that are candidates themselves go first.          *)
Upstream == (in.deps[Top.order] \intersect Queued) \ processed

ProcessDependency ==
    /\ At("deps")
    /\ \E d \in Upstream : Call(d)
    /\ UNCHANGED <<in, left, timelines, placed, completion, failed, cursor, work, status>>

(* Mutant of DependenciesHold: only candidates count as dependencies.      *)
QueuedDependenciesHold ==
    \A d \in in.deps[Top.order] \intersect Queued : completion[d] # 0

(* No dependency of the order is left without a completion.                *)
DependenciesHold == \A d \in in.deps[Top.order] : completion[d] # 0

(* _dependency_release: after all dependencies, or not at all.             *)
ReleaseOrder ==
    /\ At("deps") /\ Upstream = {} /\ DependenciesHold
    /\ \E t \in {in.release[Top.order]} \union {completion[d] : d \in in.deps[Top.order]} :
        /\ in.release[Top.order] <= t
        /\ \A d \in in.deps[Top.order] : completion[d] <= t
        /\ SetTop([Top EXCEPT !.stage = "place", !.release = t])
    /\ UNCHANGED <<in, left, timelines, placed, completion, failed, processed, cursor, work, status>>

DependencyBlocks ==
    /\ At("deps") /\ Upstream = {} /\ ~ DependenciesHold
    /\ Unschedule("blocked")

-----------------------------------------------------------------------------
(* _place_order: the operations in sequence.                               *)
OpNow == Route[Top.order][Top.next]

(* Mutant of Remaining: the last operation is left out.                    *)
RemainingButLast == Top.next < Len(Route[Top.order])

Remaining == Top.next <= Len(Route[Top.order])

AtUnplaced == At("place") /\ Remaining /\ placed[OpNow] = NotPlaced

KeepFrozen ==
    /\ At("place") /\ Remaining /\ placed[OpNow] # NotPlaced
    /\ SetTop([Top EXCEPT !.next = @ + 1, !.prevEnd = placed[OpNow].end, !.forced = None])
    /\ UNCHANGED <<in, left, timelines, placed, completion, failed, processed, cursor, work, status>>

PrerequisiteUnplaced ==
    in.prereq[OpNow] # None /\ placed[in.prereq[OpNow]] = NotPlaced

PrerequisiteOrder == OrderOf(in.prereq[OpNow])

ProcessPrerequisite ==
    /\ AtUnplaced /\ PrerequisiteUnplaced
    /\ PrerequisiteOrder \in Queued \ processed
    /\ Call(PrerequisiteOrder)
    /\ UNCHANGED <<in, left, timelines, placed, completion, failed, cursor, work, status>>

PrerequisiteBlocks ==
    /\ AtUnplaced /\ PrerequisiteUnplaced
    /\ PrerequisiteOrder \notin Queued \ processed
    /\ Unschedule("blocked")

(* Mutant of Earliest: the operation before is not waited for.             *)
EarliestOfRelease ==
    Later(Later(Now, Top.release), IF in.prereq[OpNow] = None THEN 0 ELSE placed[in.prereq[OpNow]].end)

(* The release of the operation: its order, the operation before it, and   *)
(* its prerequisite.                                                       *)
Earliest ==
    Later(Later(Later(Now, Top.release), Top.prevEnd),
          IF in.prereq[OpNow] = None THEN in.release[Top.order] ELSE placed[in.prereq[OpNow]].end)

(* A slot lock's machine, or the one a job is pulled to.                   *)
Required ==
    IF SlotLocksOn(OpNow) # {} THEN {w.machine : w \in SlotLocksOn(OpNow)}
    ELSE {Top.forced} \ {None}

(* Not before the window of a slot lock starts.                            *)
FromWindow(t) ==
    CHOOSE s \in {t} \union {w.start : w \in SlotLocksOn(OpNow)} :
        t <= s /\ \A w \in SlotLocksOn(OpNow) : w.start <= s

(* Where the operation would go on m.                                      *)
Options(m) ==
    FindSlot(m, timelines[m], OpNow, FromWindow(Earliest), Reserved(OpNow, m),
             Top.forced # None)

MachinesFor == IF Required \subseteq Usable(OpNow) THEN Usable(OpNow) ELSE {}

ReadyToPlace == AtUnplaced /\ ~ PrerequisiteUnplaced

(* rank_machines: every usable machine is asked, and one of them costs     *)
(* least; a required machine is taken whatever it costs.                   *)
Ranked == {m \in MachinesFor : OpNow \notin in.noCycle}

NoMachine ==
    /\ ReadyToPlace /\ MachinesFor = {}
    /\ Unschedule("no_eligible_machine")

NoCycleTime ==
    /\ ReadyToPlace /\ MachinesFor # {} /\ Ranked = {}
    /\ Unschedule("missing_cycle_time")

(* The error of a calendar that does not work any more ends the run,       *)
(* whichever machine the ranking asked it of.                              *)
CalendarEnds ==
    /\ ReadyToPlace
    /\ \E m \in Ranked : Options(m) = {}
    /\ status' = "error"
    /\ UNCHANGED <<in, left, timelines, placed, completion, failed, processed, cursor, stack, work>>

Best == IF Required = {} THEN Ranked ELSE Ranked \intersect Required

(* _build_entry: the instants the ranking found.                           *)
EntryIn(m, slot) == [machine |-> m, start |-> slot.start, end |-> slot.end, kept |-> FALSE]

RecordEntry(op, m, slot) ==
    /\ timelines' = [timelines EXCEPT ![m] = Insert(m, @, slot)]
    /\ placed' = [placed EXCEPT ![op] = EntryIn(m, slot)]

PlaceOperation ==
    /\ ReadyToPlace
    /\ \A m \in Ranked : Options(m) # {}
    /\ \E m \in Best : \E slot \in Options(m) :
        /\ RecordEntry(OpNow, m, slot)
        /\ SetTop([Top EXCEPT !.next = @ + 1, !.prevEnd = slot.end, !.forced = None,
                              !.touched = Append(@, m)])
    /\ UNCHANGED <<in, left, completion, failed, processed, cursor, work, status>>

OrderPlaced ==
    /\ At("place") /\ ~ Remaining
    /\ completion' = [completion EXCEPT ![Top.order] = Top.prevEnd]
    /\ Return
    /\ UNCHANGED <<in, left, timelines, placed, failed, processed, cursor, status>>

-----------------------------------------------------------------------------
(* _batch_lookahead, for the machine at the head of the work-list: orders  *)
(* further down the queue whose next operation could go there now.         *)
Waiting(m) ==
    {o \in Queued \ processed :
        /\ Position(o) > cursor
        /\ in.release[o] <= timelines[m].tailEnd
        /\ \A d \in in.deps[o] \intersect Queued : completion[d] # 0
        /\ NextUnplaced(o) # None
        /\ in.prereq[NextUnplaced(o)] = None
        /\ m \in Eligible(NextUnplaced(o))
        /\ NextUnplaced(o) \notin in.noCycle}

Held(o) == OrderLocked(o) \/ o \in in.urgent

Shares(o, m) == SharesSetup(NextUnplaced(o), timelines[m].tailFamily)

(* pick_next: o passes the head, which does not share the setup, and       *)
(* nothing locked or forced.                                               *)
MayPull(o, m) ==
    /\ Shares(o, m)
    /\ \A p \in Waiting(m) : Position(p) <= Position(o) => ~ Held(p)
    /\ \E h \in Waiting(m) :
        /\ Position(h) < Position(o) /\ ~ Shares(h, m)
        /\ \A p \in Waiting(m) : Position(h) <= Position(p)

PullForward ==
    /\ status = "running" /\ stack = <<>> /\ work # <<>>
    /\ \E o \in Waiting(Head(work)) :
        /\ MayPull(o, Head(work))
        /\ processed' = processed \union {o}
        /\ stack' = <<Frame(o, Head(work))>>
    /\ work' = Tail(work)
    /\ UNCHANGED <<in, left, timelines, placed, completion, failed, cursor, status>>

(* Mutant of NoPull: the machine stays on the work-list.                   *)
NoPullAgain ==
    /\ status = "running" /\ stack = <<>> /\ work # <<>>
    /\ work' = Append(Tail(work), Head(work))
    /\ UNCHANGED <<in, left, timelines, placed, completion, failed, processed, cursor, stack, status>>

NoPull ==
    /\ status = "running" /\ stack = <<>> /\ work # <<>>
    /\ work' = Tail(work)
    /\ UNCHANGED <<in, left, timelines, placed, completion, failed, processed, cursor, stack, status>>

-----------------------------------------------------------------------------
Init ==
    /\ in \in Inputs
    /\ left = in.previous
    /\ timelines = [m \in Machines |-> NewTimeline(in.floor[m], in.family[m])]
    /\ placed = [op \in Ops |-> NotPlaced]
    /\ completion = [o \in Orders |-> 0]
    /\ failed = [o \in Orders |-> {}]
    /\ processed = {}
    /\ cursor = 0
    /\ stack = <<>>
    /\ work = <<>>
    /\ status = "frozen"

Next ==
    \/ ReproduceEntry \/ Begin
    \/ NextOrder \/ ProcessDependency \/ ReleaseOrder \/ DependencyBlocks
    \/ KeepFrozen \/ ProcessPrerequisite \/ PrerequisiteBlocks
    \/ NoMachine \/ NoCycleTime \/ CalendarEnds \/ PlaceOperation \/ OrderPlaced
    \/ PullForward \/ NoPull
    \/ RunComplete

Spec == Init /\ [][Next]_vars

FairSpec == Spec /\ WF_vars(Next)

-----------------------------------------------------------------------------
Frames ==
    [order : Orders, stage : {"deps", "place"}, next : Nat \ {0}, release : Instants,
     prevEnd : Instants, forced : Machines \union {None}, pulledFor : Machines \union {None},
     touched : Seq(Machines)]

(* Every variable keeps the values the code can give it.                   *)
TypeOK ==
    /\ in \in InputType
    /\ left \subseteq in.previous
    /\ timelines \in [Machines -> Timelines]
    /\ placed \in [Ops -> [machine : Machines \union {None}, start : Instants, end : Instants,
                           kept : BOOLEAN]]
    /\ completion \in [Orders -> Instants]
    /\ failed \in [Orders -> SUBSET {"blocked", "no_eligible_machine", "missing_cycle_time"}]
    /\ processed \subseteq Orders
    /\ cursor \in 0 .. Len(in.queue)
    /\ stack \in Seq(Frames)
    /\ work \in Seq(Machines)
    /\ status \in {"frozen", "running", "done", "error"}

(* Slots of a machine never overlap, whatever is back-filled into whatever *)
(* gap (timeline.py; tests: _assert_no_overlap).                           *)
SlotsDisjoint(tl) ==
    \A s, q \in tl.slots : s # q => s.end <= q.start \/ q.end <= s.start

MachinesSingleBooked == \A m \in Machines : SlotsDisjoint(timelines[m])

(* The gaps kept up to date slot by slot are exactly the idle working time *)
(* between the slots: nothing is lost to back-filling and nothing stale is *)
(* offered (MachineTimeline.insert).                                       *)
GapsAreIdleTime ==
    \A m \in Machines :
        LET tl == timelines[m]
            idleFrom(s) == IF \E p \in tl.slots : Precedes(p, s)
                           THEN Later((CHOOSE p \in tl.slots : Precedes(p, s)
                                        /\ \A q \in tl.slots : Precedes(q, s) => q = p \/ Precedes(q, p)).end,
                                      tl.floor)
                           ELSE tl.floor
            idle == {<<idleFrom(s), s.start>> : s \in tl.slots}
        IN  {<<g.start, g.end>> : g \in tl.gaps}
              = {i \in idle : i[1] < i[2] /\ WorkBetween(m, i[1], i[2]) > 0}

(* The setup a slot is recorded with is enough after the job that is       *)
(* actually before it, also when that was put there later (the successor   *)
(* rule, successor_setup_holds).  Said of the machines whose reproduced    *)
(* entries start when the machine is free or later: see TailIsLastJob.     *)
SetupsSuffice ==
    \A m \in {k \in Machines : \A q \in timelines[k].slots : q.start >= timelines[k].floor} :
      \A s \in timelines[m].slots :
        LET earlier == {q \in timelines[m].slots : Precedes(q, s)}
            follows == IF earlier = {} THEN timelines[m].family
                       ELSE Family[(CHOOSE q \in earlier : \A r \in earlier : r = q \/ Precedes(r, q)).op]
        IN  s.setup >= SetupMinutes(s.op, follows)

EndsBefore(p, op) == placed[p] # NotPlaced /\ placed[p].end <= placed[op].start

(* A placed operation starts after the operations before it in its route,  *)
(* after everything its order depends on and after its prerequisite        *)
(* (_dependency_release, _prerequisite_release, _place_order).  Said of    *)
(* runs that reproduce no operation without those before it: a kept        *)
(* successor of a dropped operation ends before it (RoutesInSequence).     *)
PrecedenceKept ==
    \A o \in Orders : \A i \in DOMAIN Route[o] :
        LET op == Route[o][i]
        IN  placed[op] # NotPlaced /\ ~ placed[op].kept =>
              /\ \A j \in 1 .. (i - 1) : EndsBefore(Route[o][j], op)
              /\ \A d \in in.deps[o] : \A j \in DOMAIN Route[d] : EndsBefore(Route[d][j], op)
              /\ in.prereq[op] # None => EndsBefore(in.prereq[op], op)

(* New work stays out of the windows reserved on its machine for others    *)
(* (build_lock_index, place_span).                                         *)
WindowsKept ==
    \A op \in Ops : \A w \in in.windows :
        placed[op].machine = w.machine /\ ~ placed[op].kept /\ w.order # OrderOf(op)
          => ~ (w.start < placed[op].end /\ placed[op].start < w.end)

(* When the run is done every candidate is either planned to its last      *)
(* operation, with the instant its last operation ends as its completion,  *)
(* or left unscheduled for one reason (process, _place_order, unschedule). *)
EveryOrderAnswered ==
    status = "done" => \A o \in Queued :
        \/ /\ failed[o] = {}
           /\ \A i \in DOMAIN Route[o] : placed[Route[o][i]] # NotPlaced
           /\ completion[o] = placed[Route[o][Len(Route[o])]].end
        \/ Cardinality(failed[o]) = 1 /\ completion[o] = 0

(* The run comes to an end: neither cycles of dependencies nor chains of   *)
(* pulled jobs keep it going (process, _lookahead_worklist).               *)
RunEnds == <>(status \in {"done", "error"})

(* The setup state kept for the tail is the one after the last job of the  *)
(* machine (state.py).                                                     *)
TailIsLastJob ==
    \A m \in Machines : \A s \in timelines[m].slots :
        (\A q \in timelines[m].slots \ {s} : Precedes(q, s))
          => timelines[m].tailFamily = Family[s.op]

(* The operations of an order are planned in sequence, those reproduced    *)
(* from the previous schedule included (rule_based.py).                    *)
RoutesInSequence ==
    status = "done" => \A o \in Orders : \A i, j \in DOMAIN Route[o] :
        i < j /\ placed[Route[o][i]] # NotPlaced /\ placed[Route[o][j]] # NotPlaced
          => placed[Route[o][i]].end <= placed[Route[o][j]].start
=============================================================================
