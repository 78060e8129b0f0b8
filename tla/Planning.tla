------------------------------ MODULE Planning ------------------------------
(***************************************************************************)
(* Planning runs while the ERP and the planners go on changing things:      *)
(* PlanningPipeline.run (engines/pipeline.py) takes the snapshot of an      *)
(* instant through the data-quality gate, the priorities, the choice of     *)
(* candidates (scheduling/candidates.py) and the scheduler, which keeps     *)
(* what the plan before had promised for the next hours (state.py).         *)
(*                                                                          *)
(* The scheduler proper is the module ListScheduler: here it gives each     *)
(* candidate one of its machines, a free choice, from the first hours the   *)
(* machine has to spare.  Every order has one step left at a time.          *)
(***************************************************************************)
EXTENDS DataQuality

CONSTANTS
    Snapshots,   \* what the ERP and the planners may begin with
    Horizon,     \* bound: the last instant
    MaxChanges,  \* bound: changes by the ERP and the planners
    MaxRuns,     \* bound: planning runs
    Scheduling,  \* the SchedulingConfig: lockWindow, blocked, ordersPerRun
    Records(_),  \* Records(s): what s may look like after the next synchronisation
    Decisions    \* what planners may decide, as rows of overlays without identity and instant

VARIABLES
    now,
    plant,    \* the snapshot
    plan,     \* the entries of the plan in force
    report,   \* the orders left out by the last run, each with the reason codes
    queue,    \* the candidates of the last run in processing order
    ranking,  \* the open orders by rank, as the last run published them
    filed,    \* the data-quality issues on file
    changes,
    runs

vars == <<now, plant, plan, report, queue, ranking, filed, changes, runs>>

Orders == DOMAIN plant.order

-----------------------------------------------------------------------------
(* locks.py: what the locks in force mean to one run.                      *)

Locks(s, t) == {l \in s.locks : ActiveAt(l, t)}

SequenceLocks(s, t) == {l \in Locks(s, t) : l.kind = "SEQUENCE" /\ Len(l.sequence) > 1}

FrozenMachines(s, t) ==
    {l.machine : l \in {k \in Locks(s, t) : k.kind = "MACHINE" /\ k.order = None /\ k.machine # None}}

LocksOn(s, o, t) ==
    {l \in Locks(s, t) : l.kind \in {"ORDER", "MACHINE"} /\ l.order = o}
      \cup {l \in SequenceLocks(s, t) : \E i \in DOMAIN l.sequence : l.sequence[i] = o}

IsLocked(s, o, t) == LocksOn(s, o, t) # {}

FirstLocked(s, o, t) == LeastOf({l.at : l \in LocksOn(s, o, t)})

LockPin(s, o, t) ==
    IF PinningLocks(s, o, t) = {} THEN None
    ELSE Latest(PinningLocks(s, o, t), LAMBDA l : l.at).machine

-----------------------------------------------------------------------------
(* candidates.py                                                           *)

StructuralStates == {"WAITING_PREVIOUS_OPERATION", "MACHINE_UNAVAILABLE"}

RealBlockers(result) == {b \in result.blockers : b.state \notin StructuralStates}

Resolvable(blockers) == Scheduling.blocked /\ \A b \in blockers : b.until # None

\* Why an open order is no candidate, given the results of those that passed the gate.
Rejection(s, passed, o) ==
    IF s.order[o].status \notin Schedulable THEN {"status_not_schedulable"}
    ELSE IF o \notin DOMAIN passed THEN {"no_priority"}
    ELSE IF Resolvable(RealBlockers(passed[o])) \/ RealBlockers(passed[o]) = {} THEN {}
    ELSE {"blocked"}

Release(result, t) == GreatestOf({t} \cup {b.until : b \in RealBlockers(result)})

InProgress(s, o) ==
    \E x \in PendingOperations(s, o) :
        s.operation[x].status = "in_progress" /\ s.operation[x].machine # None

Bucket(s, passed, o, t) ==
    IF InProgress(s, o) THEN 0 ELSE IF IsLocked(s, o, t) THEN 1 ELSE IF passed[o].forced THEN 2 ELSE 3

\* People's decisions first: the sort key of a candidate.
Before(s, passed, t, a, b) ==
    LET bucket(o) == Bucket(s, passed, o, t)
        lock(o)   == IF IsLocked(s, o, t) THEN FirstLocked(s, o, t) ELSE MaxChanges + 1
    IN  \/ bucket(a) < bucket(b)
        \/ bucket(a) = bucket(b) /\ lock(a) < lock(b)
        \/ bucket(a) = bucket(b) /\ lock(a) = lock(b)
             /\ \/ passed[a].score > passed[b].score
                \/ passed[a].score = passed[b].score /\ Earlier(s, a, b)

\* Mutant of ApplySequence: the places are shared out in the order they already have.
ApplySequencePlaces(sequence, lock) == sequence

\* The listed orders share out the places they have, in the order of the lock.
ApplySequence(sequence, lock) ==
    LET listed == SelectSeq(lock.sequence, LAMBDA o : \E i \in DOMAIN sequence : sequence[i] = o)
        slots  == Ascending({i \in DOMAIN sequence : \E j \in DOMAIN listed : listed[j] = sequence[i]})
    IN  IF Len(listed) < 2 THEN sequence
        ELSE [i \in DOMAIN sequence |->
                IF \E j \in DOMAIN slots : slots[j] = i
                THEN listed[CHOOSE j \in DOMAIN slots : slots[j] = i] ELSE sequence[i]]

\* In processing order: sorted, then as the sequence locks will have it.
Sequenced(s, passed, accepted, t) ==
    FoldLeft(ApplySequence, SetToSortSeq(accepted, LAMBDA a, b : Before(s, passed, t, a, b)),
             SetToSortSeq(SequenceLocks(s, t), LAMBDA a, b : a.at < b.at))

\* A run takes so many orders and no more.
LimitRun(ordered, rejected) ==
    LET limit == IF Scheduling.ordersPerRun = None THEN Len(ordered)
                 ELSE Smaller(Len(ordered), Scheduling.ordersPerRun)
    IN  [queue |-> SubSeq(ordered, 1, limit),
         rejected |-> [o \in DOMAIN rejected |->
            IF \E i \in limit + 1 .. Len(ordered) : ordered[i] = o THEN {"run_limit"} ELSE rejected[o]]]

\* select_candidates: who is planned, in which order, and who is not for what reason.
SelectCandidates(s, passed, t) ==
    LET rejected == [o \in OpenOrders(s) |-> Rejection(s, passed, o)]
    IN  LimitRun(Sequenced(s, passed, {o \in DOMAIN rejected : rejected[o] = {}}, t), rejected)

-----------------------------------------------------------------------------
(* state.py                                                                *)

\* Machines that take part: those that work, or are known to come back.
Pool(s, t) == {m \in DOMAIN s.machine : MachineOperable(s, m, t)}

\* Mutant of Promised: the window begins where the entry ends.
PromisedByEnd(s, e, t) ==
    \/ e.end < t + Scheduling.lockWindow
    \/ IsLocked(s, e.order, t) \/ e.machine \in FrozenMachines(s, t)

\* The next hours, what is locked, and what stands on a machine that is.
Promised(s, e, t) ==
    \/ e.start < t + Scheduling.lockWindow
    \/ IsLocked(s, e.order, t)
    \/ e.machine \in FrozenMachines(s, t)

\* From when on a machine of the pool takes part.
FreeFrom(s, m, t) ==
    LET ends == {w[2] : w \in {v \in s.machine[m].downtime : v[2] > t}}
    IN  GreatestOf({t, s.machine[m].from} \cup IF Operable(s.machine[m]) THEN {} ELSE {LeastOf(ends)})

\* reproduce_frozen_entries
Kept(s, entries, t) ==
    {[e EXCEPT !.locked = TRUE] :
        e \in {f \in entries : /\ Promised(s, f, t) /\ f.end > t
                               /\ IsOpen(s, f.order)
                               /\ Known(f.step, s.operation) => ~IsDone(s.operation[f.step])
                               /\ f.machine \in Pool(s, t)
                               /\ LockPin(s, f.order, t) \in {None, f.machine}}}

-----------------------------------------------------------------------------
(* run.py, as far as it decides which orders are left out.                 *)

StepOf(s, o) ==
    LET left == PendingOperations(s, o)
    IN  IF left = {} THEN None
        ELSE CHOOSE x \in left : \A y \in left : s.operation[x].sequence <= s.operation[y].sequence

Usable(s, o, t) ==
    (EligibleMachines(s, NextOperation(s, o), t) \cap Pool(s, t)) \ FrozenMachines(s, t)

Overlap(e, m, a, b) == e.machine = m /\ e.start < b /\ a < e.end

\* The spans of that many of a machine's working hours (place_on_calendar).
Spans(working, hours) == {<<a, AddWork(working, a, hours)>> : a \in {h \in working : CanAddWork(working, h, hours)}}

\* The first of them on which nothing is planned yet.
FirstSpan(entries, spans, m, from) ==
    LET clear == {w \in spans : w[1] >= from /\ \A e \in entries : ~Overlap(e, m, w[1], w[2])}
    IN  CHOOSE w \in clear : \A v \in clear : w[1] <= v[1]

EndOf(entries, o) == LeastOf({e.end : e \in {f \in entries : f.order = o}})

\* ListScheduler.process: what an order depends on goes first, then its own step.  A run
\* knows what is kept, the orders' release, the machines each may go to and the spans of
\* its work there.
Process(run) ==
    LET names   == DOMAIN run.spans
        entries == run.kept \cup [order : names, step : {run.step[o] : o \in names},
                                  machine : DOMAIN run.back, start : Int, end : Int, locked : {FALSE}]
        process[acc \in [entries : SUBSET entries, failed : SUBSET (names \X STRING),
                         done : SUBSET names, processed : SUBSET names], o \in names] ==
            LET deps   == run.deps[o]
                before == FoldLeft(LAMBDA a, d : process[a, d], [acc EXCEPT !.processed = @ \cup {o}],
                                   Ascending(deps \cap names))
                from   == GreatestOf({run.release[o]} \cup {EndOf(before.entries, d) : d \in deps})
                m      == run.choice[o]
                span   == FirstSpan(before.entries, run.spans[o][m], m, Larger(from, run.back[m]))
                Fail(code) == [before EXCEPT !.failed = @ \cup {<<o, code>>}]
            IN  CASE o \in acc.processed                       -> acc
                  [] o \notin acc.processed /\ ~deps \subseteq before.done -> Fail("blocked")
                  [] OTHER ->
                       IF \E e \in before.entries : e.order = o THEN [before EXCEPT !.done = @ \cup {o}]
                       ELSE IF run.choice[o] = None THEN Fail("no_eligible_machine")
                       ELSE IF run.spans[o] = None THEN Fail("missing_cycle_time")
                       ELSE [before EXCEPT !.done = @ \cup {o},
                                !.entries = @ \cup {[order |-> o, step |-> run.step[o], machine |-> m,
                                                     start |-> span[1], end |-> span[2], locked |-> FALSE]}]
    IN  process

-----------------------------------------------------------------------------
(* pipeline.py                                                             *)

\* Mutant of Withhold: the orders that have an item are looked for too early.
WithholdReported(codes, excluded) ==
    [o \in DOMAIN codes |->
        IF o \notin excluded \/ codes[o] = {} THEN codes[o] ELSE codes[o] \ {"no_priority"}]

\* withhold_data_quality_blocked: the gate is the reason, unless there was another.
Withhold(codes, excluded) ==
    [o \in DOMAIN codes |->
        LET kept == codes[o] \ {"no_priority"}
        IN  IF o \notin excluded THEN codes[o] ELSE IF kept # {} THEN kept ELSE {"data_quality"}]

\* The spans of an order's work on each of the machines it may go to.
SpansOf(s, o, machines, hours) ==
    IF hours = None THEN None ELSE [m \in machines |-> Spans(WorkingHours(s, m), hours)]

\* What a run of the scheduler on these candidates starts from.
RunContext(s, passed, candidates, t) ==
    LET spans(o, machines) == SpansOf(s, o, machines, RemainingHours(s, o, machines))
    IN  [usable  |-> [o \in candidates |-> Usable(s, o, t)],
         back    |-> [m \in Pool(s, t) |-> FreeFrom(s, m, t)],
         step    |-> [o \in candidates |-> StepOf(s, o)],
         release |-> [o \in candidates |-> Release(passed[o], t)],
         deps    |-> [o \in candidates |->
                        {d \in s.order[o].dependsOn \cap DOMAIN s.order : IsOpen(s, d)}],
         spans   |-> [o \in candidates |-> spans(o, Usable(s, o, t))]]

\* What may become of the candidates: one outcome for each choice of their machines.
Outcomes(s, chosen, run) ==
    LET names   == DOMAIN run.usable
        start   == [entries |-> run.kept, failed |-> {}, done |-> {}, processed |-> {}]
        choices == {c \in [names -> DOMAIN s.machine \cup {None}] : \A o \in names :
                        IF run.usable[o] = {} THEN c[o] = None ELSE c[o] \in run.usable[o]}
        Run(choice) == FoldLeft(LAMBDA acc, o : Process(run @@ ("choice" :> choice))[acc, o],
                                start, chosen.queue)
    IN  {[plan |-> end.entries, queue |-> chosen.queue,
          codes |-> [o \in DOMAIN chosen.rejected |-> chosen.rejected[o]
                        \cup {f[2] : f \in {g \in end.failed : g[1] = o}}]] :
            end \in {Run(choice) : choice \in choices}}

\* RuleBasedScheduler.schedule on the results that passed the gate: the plans it may give,
\* and the orders each leaves out with their codes.
Schedules(s, entries, passed, t) ==
    LET chosen == SelectCandidates(s, passed, t)
        base   == RunContext(s, passed, {chosen.queue[i] : i \in DOMAIN chosen.queue}, t)
    IN  Outcomes(s, chosen, base @@ ("kept" :> Kept(s, entries, t)))

\* Each outcome of the scheduler, as the gate relabels it, with the ranking of all orders.
Published(s, entries, results, excluded, t) ==
    LET ranked == RankResults(s, results)
    IN  {[plan |-> r.plan, queue |-> r.queue, report |-> Withhold(r.codes, excluded),
          ranking |-> [i \in DOMAIN ranked |->
                         [order |-> ranked[i], score |-> results[ranked[i]].score,
                          forced |-> results[ranked[i]].forced]]] :
            r \in Schedules(s, entries, [o \in DOMAIN results \ excluded |-> results[o]], t)}

\* PlanningPipeline.run: the gate, the priorities, the scheduler.
PipelineResults(s, entries, t) ==
    Published(s, entries, Evaluate(s, t), Unschedulable(s, t), t)

Plan ==
    /\ runs < MaxRuns
    /\ \E r \in PipelineResults(plant, plan, now) :
        /\ plan' = r.plan /\ report' = r.report
        /\ queue' = r.queue /\ ranking' = r.ranking
    /\ filed' = Refile(filed, Issues(plant, now))
    /\ runs' = runs + 1
    /\ UNCHANGED <<now, plant, changes>>

\* DataQualityService.run: the records are checked without a plan being made.
CheckData ==
    /\ filed' = Refile(filed, Issues(plant, now))
    /\ UNCHANGED <<now, plant, plan, report, queue, ranking, changes, runs>>

-----------------------------------------------------------------------------
(* What happens between the runs.                                          *)

Tick ==
    /\ now < Horizon
    /\ now' = now + 1
    /\ UNCHANGED <<plant, plan, report, queue, ranking, filed, changes, runs>>

\* The ERP reports what has changed; a synchronisation brings it in.
Synchronise ==
    /\ changes < MaxChanges
    /\ plant' \in Records(plant)
    /\ changes' = changes + 1
    /\ UNCHANGED <<now, plan, report, queue, ranking, filed, runs>>

\* A planner's override, lock or expedite; `at` tells the later from the earlier one.
Decide ==
    /\ changes < MaxChanges
    /\ changes' = changes + 1
    /\ \E d \in Decisions :
        LET row == d.row @@ ("at" :> changes' @@ "active" :> TRUE
                               @@ "expires" :> IF d.lasts = None THEN None ELSE now + d.lasts)
        IN  plant' = [plant EXCEPT ![d.into] = @ \cup {row}]
    /\ UNCHANGED <<now, plan, report, queue, ranking, filed, runs>>

Init ==
    /\ now = 0
    /\ plant \in Snapshots
    /\ plan = {}
    /\ report = [o \in {} |-> {}]
    /\ queue = <<>>
    /\ ranking = <<>>
    /\ filed = {}
    /\ changes = 0
    /\ runs = 0

Next == Plan \/ CheckData \/ Tick \/ Synchronise \/ Decide

Spec == Init /\ [][Next]_vars

-----------------------------------------------------------------------------
(* After a run every open order has work in the plan or exactly one reason  *)
(* why not - or both, when the work is what the plan before had promised:   *)
(* nothing gets lost between the gate, the candidates, the limit of a run,  *)
(* the scheduler and the relabelling (withhold_data_quality_blocked).  And  *)
(* unless nothing is wrong with the records at all, the data-quality        *)
(* dashboard counts every order left out for its data, and no order that is *)
(* newly planned (replace_run, DataQualityService.summary).                 *)
EveryOpenOrderAnswered ==
    [][runs' # runs =>
        LET board == DOMAIN Dashboard(plant, filed')
        IN  \A o \in OpenOrders(plant) :
                LET work == {e \in plan' : e.order = o}
                IN  /\ Cardinality(report'[o]) <= 1
                    /\ work = {} => report'[o] # {}
                    /\ work # {} /\ report'[o] # {} => \A e \in work : e.locked
                    /\ Issues(plant, now) # {} =>
                          /\ report'[o] = {"data_quality"} => o \in board
                          /\ o \in board => \A e \in work : e.locked]_vars

(* Work that begins within the next hours neither moves nor disappears from *)
(* one plan to the next, whatever happens to its order's priority, blockers *)
(* or data, and nothing is laid over it - unless its order is closed or     *)
(* locked to another machine, or the machine is gone for good               *)
(* (reproduce_frozen_entries).                                              *)
PromisesKept ==
    [][runs' # runs =>
        \A e \in plan :
            /\ e.start < now + Scheduling.lockWindow /\ e.end > now
            /\ IsOpen(plant, e.order) /\ (Known(e.step, plant.operation) => ~IsDone(plant.operation[e.step]))
            /\ LockPin(plant, e.order, now) \in {None, e.machine}
            /\ Operable(plant.machine[e.machine])
            => \E f \in plan' : /\ <<f.order, f.machine, f.start, f.end>>
                                     = <<e.order, e.machine, e.start, e.end>>
                                /\ \A g \in plan' \ {f} : ~Overlap(g, f.machine, f.start, f.end)]_vars

(* Orders a planner put in sequence are processed in it, and the limit of a *)
(* run never leaves out an order that is in progress, locked or forced      *)
(* while one that is none of it is planned (sort_key,                       *)
(* apply_sequence_locks).  Said of locks that have no order in common.      *)
DecisionsComeFirst ==
    [][runs' # runs =>
        LET locks    == SequenceLocks(plant, now)
            at(o)    == CHOOSE i \in DOMAIN queue' : queue'[i] = o
            names    == {queue'[i] : i \in DOMAIN queue'}
            listed(l) == {l.sequence[i] : i \in DOMAIN l.sequence}
            decided(o) == InProgress(plant, o) \/ IsLocked(plant, o, now) \/ ForcedNext(plant, o, now)
        IN  /\ (\A l, k \in locks : l # k => listed(l) \cap listed(k) = {}) =>
                  \A l \in locks : \A i, j \in DOMAIN l.sequence :
                      i < j /\ {l.sequence[i], l.sequence[j]} \subseteq names
                        => at(l.sequence[i]) < at(l.sequence[j])
            /\ \A o \in OpenOrders(plant) :
                  "run_limit" \in report'[o] /\ decided(o) => \A p \in names : decided(p)]_vars

(* A customer has more than its share of the first places of a ranking only *)
(* by forced orders, or because nobody below is short of its own share;     *)
(* forced orders come before all others, and among one customer's orders    *)
(* the cap changes nothing (ranking.py).                                    *)
SharesAreFair ==
    [][runs' # runs =>
        LET customer(i) == plant.order[ranking'[i].order].customer
            above(i, k) == Cardinality({j \in 1 .. i - 1 : customer(j) = customer(k)})
            ranks       == DOMAIN ranking'
            results     == [o \in OpenOrders(plant) |->
                              LET i == CHOOSE j \in ranks : ranking'[j].order = o
                              IN  [score |-> ranking'[i].score, forced |-> ranking'[i].forced]]
        IN  \A i, k \in ranks : i < k =>
                /\ ranking'[k].forced => ranking'[i].forced
                /\ i <= Profile.fairness.topN /\ ~ranking'[i].forced /\ above(i, i) >= MaxSlots
                     => ~ranking'[k].forced /\ above(i, k) >= MaxSlots
                /\ customer(i) = customer(k)
                     => RankedBefore(plant, results, ranking'[i].order, ranking'[k].order)]_vars

(* Put together day by day, from shifts that reach over midnight and local  *)
(* dates that are not the days of UTC, a calendar has exactly the hours its *)
(* shifts, overtime and downtime mean (utc_day_segments, _day).             *)
CalendarsExact ==
    \A m \in DOMAIN plant.machine :
        WorkingHours(plant, m) =
            {h \in UNION {DayHours(d) : d \in SearchDays} : WorksAt(plant, m, h)}

(* "Nodes that lie on at least one directed cycle" (find_cycle_members):    *)
(* every open order that waits for itself in the end is found.              *)
CyclesFound ==
    LET graph == DependencyGraph(plant)
        paths == UNION {[1 .. n -> DOMAIN graph] : n \in 1 .. Cardinality(DOMAIN graph)}
    IN  \A p \in paths :
            (\A i \in DOMAIN p : p[(i % Len(p)) + 1] \in graph[p[i]]) => p[1] \in FindCycleMembers(graph)
=============================================================================
