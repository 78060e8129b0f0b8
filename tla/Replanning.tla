----------------------------- MODULE Replanning -----------------------------
(***************************************************************************)
(* Continuous replanning: engines/replanning (triggers, stability, engine)  *)
(* under services/replanning_service.py, run by the worker and on request.  *)
(*                                                                          *)
(* An evaluation compares the plant with the snapshot the plan in force was *)
(* drawn from, lets the scheduler draw a candidate, compares the two plans  *)
(* and rejects the candidate, lets it wait for approval or approves it.     *)
(* The plant changes, time passes and managers decide at any point: the     *)
(* plan in force is read when an evaluation begins, again when the          *)
(* candidate is drawn, and replaced when the evaluation commits.            *)
(*                                                                          *)
(* Every order has one operation, of one unit of time.  What the scheduler  *)
(* makes of the orders it is free to place, and what the quality score says *)
(* of the result, is left open (ListScheduler has the first).               *)
(***************************************************************************)
EXTENDS Naturals, FiniteSets, FiniteSetsExt

CONSTANTS Orders, Machines,
          Fragile,            \* the machines that may fail
          Later,              \* the orders the plant does not know at first
          Pressing,           \* orders expedited, forced next or overdue as they arrive
          Tight,              \* orders a delay makes late
          SoftKinds,          \* trigger types of changes that never force a new plan
          None,               \* no entry, no return
          Horizon,            \* bound on time
          MaxChanges,         \* bound on the changes of the plant
          FrozenWindow,       \* StabilityRules.frozen_window_minutes
          LockWindow,         \* SchedulingConfig.lock_window_minutes
          MaxMoves,           \* StabilityRules.max_moves_per_replan
          SignificantOrders,  \* ReplanningConfig.significant_change_orders
          RequireApproval,    \* ReplanningConfig.require_approval
          TriggerOn,          \* ReplanningConfig.trigger_on
          ControlledAuto,     \* WritebackMode: is an approved candidate published at once?
          Requests,           \* the trigger types evaluations are asked for with
          Returns             \* do failed machines announce when they return?

ASSUME SubsetAssumption == Fragile \subseteq Machines /\ Later \subseteq Orders
ASSUME WindowAssumption == {Horizon, MaxChanges, FrozenWindow, LockWindow, MaxMoves,
                            SignificantOrders} \subseteq Nat
ASSUME SwitchAssumption == {RequireApproval, ControlledAuto, Returns} \subseteq BOOLEAN

VARIABLES now,
          plant,    \* the orders and machines as synchronised
          version,  \* the versions that are published, approved and wait for approval
          job,      \* the evaluation under way
          changes   \* how often the plant has changed (bound)

vars == <<now, plant, version, job, changes>>

Time     == 0 .. Horizon
Statuses == {"absent", "open", "failed", "rework", "closed"}
OrderState   == [status : Statuses, late : BOOLEAN]
MachineState == [up : BOOLEAN, back : Time \cup {None}]  \* end of the downtime ahead
Plant    == [order : [Orders -> OrderState], machine : [Machines -> MachineState],
             touched : SUBSET SoftKinds]  \* what has changed besides
Entry    == [machine : Machines, start : Time]
Plan     == [Orders -> Entry \cup {None}]
Lifecycle == {"published", "approved", "draft"}
Version  == [plan : Plan, plant : Plant]

ASSUME NoneAssumption == None \notin Version

Idle == [pc |-> "idle"]

Init == /\ now = 0
        /\ plant = [order |-> [o \in Orders |->
                        [status |-> IF o \in Later THEN "absent" ELSE "open", late |-> FALSE]],
                    machine |-> [m \in Machines |-> [up |-> TRUE, back |-> None]],
                    touched |-> {}]
        /\ version = [s \in Lifecycle |-> None]
        /\ job = Idle
        /\ changes = 0

-----------------------------------------------------------------------------
(* The plant.                                                              *)

IsOpen(p, o) == p.order[o].status \notin {"absent", "closed"}

\* A machine that does not run and has no downtime that ends is out of the plan.
CanRun(p, m, t) == p.machine[m].up \/ (p.machine[m].back # None /\ p.machine[m].back > t)

OrderChanges(o) ==
    LET old == plant.order[o]
    IN  CASE old.status = "absent" -> {[old EXCEPT !.status = "open"]}
          [] old.status = "closed" -> {}
          [] OTHER -> {[old EXCEPT !.status = s] : s \in {"open", "failed", "rework", "closed"}}
                        \cup {[old EXCEPT !.late = TRUE]}

MachineChanges(m) ==
    IF m \notin Fragile THEN {}
    ELSE {[up |-> TRUE, back |-> None], [up |-> FALSE, back |-> None]}
            \cup (IF Returns THEN [up : {FALSE}, back : {t \in Time : t > now}] ELSE {})

\* A synchronisation, or a planner, brings a change.
Synchronise ==
    /\ changes < MaxChanges /\ changes' = changes + 1
    /\ \/ \E o \in Orders : \E s \in OrderChanges(o) \ {plant.order[o]} :
             plant' = [plant EXCEPT !.order[o] = s]
       \/ \E m \in Machines : \E s \in MachineChanges(m) \ {plant.machine[m]} :
             plant' = [plant EXCEPT !.machine[m] = s]
       \/ \E k \in SoftKinds \ plant.touched : plant' = [plant EXCEPT !.touched = @ \cup {k}]
    /\ UNCHANGED <<now, version, job>>

Tick == now < Horizon /\ now' = now + 1 /\ UNCHANGED <<plant, version, job, changes>>

-----------------------------------------------------------------------------
(* triggers.py: what changed between two snapshots.                        *)

Event(type, subject, hard) == [type |-> type, subject |-> subject, pressing |-> hard]

NewOrders(old, new) ==
    {Event("new_order", o, o \in Pressing) :
        o \in {q \in Orders : old.order[q].status = "absent" /\ IsOpen(new, q)}}

ClosedOrders(old, new) ==
    {Event("order_completed", o, FALSE) : o \in {q \in Orders : IsOpen(old, q) /\ ~IsOpen(new, q)}}

\* A changed status counts while the order is open, before and now.
Troubles(old, new) ==
    {Event(IF new.order[o].status = "failed" THEN "quality_failure" ELSE "rework", o, TRUE) :
        o \in {q \in Orders : /\ IsOpen(old, q)
                              /\ old.order[q].status # new.order[q].status
                              /\ new.order[q].status \in {"failed", "rework"}}}

Delays(old, new) ==
    {Event("production_delay", o, o \in Tight) :
        o \in {q \in Orders : /\ old.order[q].status # "absent" /\ IsOpen(new, q)
                              /\ new.order[q].late /\ ~old.order[q].late}}

\* Mutant of Failures: only downtime that ends counts.
FailuresWindowed(old, new, t) ==
    {Event("machine_down", m, TRUE) :
        m \in {n \in Machines : /\ new.machine[n].back # None /\ new.machine[n].back > t
                                /\ new.machine[n].back # old.machine[n].back}}

Failures(old, new, t) ==
    {Event("machine_down", m, TRUE) :
        m \in {n \in Machines :
                  \/ old.machine[n].up /\ ~new.machine[n].up
                  \/ /\ new.machine[n].back # None /\ new.machine[n].back > t
                     /\ new.machine[n].back # old.machine[n].back}}

Recoveries(old, new) ==
    {Event("machine_up", m, FALSE) : m \in {n \in Machines : ~old.machine[n].up /\ new.machine[n].up}}

\* Material received, customers and their rules, expedites, overrides and locks.
SoftEvents(old, new) == {Event(k, None, FALSE) : k \in new.touched \ old.touched}

DetectEvents(old, new, t) ==
    NewOrders(old, new) \cup ClosedOrders(old, new) \cup Troubles(old, new)
      \cup Delays(old, new) \cup Failures(old, new, t) \cup Recoveries(old, new)
      \cup SoftEvents(old, new)

-----------------------------------------------------------------------------
(* stability.py: what a candidate changes of the plan in force.            *)

Finished(e, t) == e.start + 1 <= t

\* The entries whose work is still ahead.
Relevant(plan, p, t) ==
    {o \in Orders : plan[o] # None /\ ~Finished(plan[o], t) /\ IsOpen(p, o)}

Frozen(plan, p, t) ==
    {o \in Relevant(plan, p, t) : plan[o].start < t + FrozenWindow /\ CanRun(p, plan[o].machine, t)}

Stability(old, new, p, t) ==
    LET relevant == Relevant(old, p, t)
        frozen   == Frozen(old, p, t)
        changed  == {o \in relevant : new[o] # old[o]}
        added    == {o \in Orders \ relevant : new[o] # None}
    IN  [violations |-> frozen \cap changed,
         moved      |-> {o \in changed \ frozen : new[o] # None},
         removed    |-> {o \in changed \ frozen : new[o] = None},
         added      |-> added]

-----------------------------------------------------------------------------
(* engine.py: the decision.                                                *)

AlwaysTrigger == {"manual", "scheduled"}

ShouldTrigger(events) == \E e \in events : e.type \in AlwaysTrigger \cup TriggerOn

\* The orders with entries that have not ended.
Scheduled(plan, t) == {o \in Orders : plan[o] # None /\ ~Finished(plan[o], t)}

HardEvents(events, plan, t) ==
    {e \in events :
        /\ e.pressing
        /\ CASE e.type = "machine_down" -> \E o \in Scheduled(plan, t) : plan[o].machine = e.subject
             [] e.type = "new_order"    -> TRUE
             [] OTHER                   -> e.subject \in Scheduled(plan, t)}

\* Mutant of ShouldReplan: the quality decides even when the plan is infeasible.
ShouldReplanIfBetter(hard, report, better) ==
    /\ hard # {} \/ report.moved \cup report.added \cup report.removed # {}
    /\ Cardinality(report.moved) <= MaxMoves
    /\ better

\* better: is the gain of the quality score as large as required, or unknown?
ShouldReplan(hard, report, better) ==
    \/ hard # {}
    \/ /\ report.moved \cup report.added \cup report.removed # {}
       /\ Cardinality(report.moved) <= MaxMoves
       /\ better

ChangedOrders(report) == report.violations \cup report.moved \cup report.added \cup report.removed

RequiresApproval(report) ==
    \/ RequireApproval
    \/ report.violations # {}
    \/ Cardinality(report.moved) > MaxMoves
    \/ SignificantOrders > 0 /\ Cardinality(ChangedOrders(report)) >= SignificantOrders

-----------------------------------------------------------------------------
(* The scheduler, as far as it is bound.                                   *)

Schedulable(p, o) == p.order[o].status \in {"open", "rework"}

\* reproduce_frozen_entries: what starts within the lock window is copied.
Reproduced(old, p, t) ==
    {o \in Relevant(old, p, t) : old[o].start < t + LockWindow /\ CanRun(p, old[o].machine, t)}

\* init_machine_states: a machine that is down is free when it returns.
FreeFrom(p, m, t) == IF p.machine[m].up THEN t ELSE p.machine[m].back

Placements(p, o, t) ==
    IF ~Schedulable(p, o) THEN {None}
    ELSE {None} \cup {e \in Entry : CanRun(p, e.machine, t) /\ e.start >= FreeFrom(p, e.machine, t)}

\* No machine is booked twice.
Candidates(old, p, t) ==
    {c \in Plan : \A o \in Orders :
        /\ IF o \in Reproduced(old, p, t) THEN c[o] = old[o] ELSE c[o] \in Placements(p, o, t)
        /\ c[o] # None => \A q \in Orders \ {o} : c[q] # c[o]}

EmptyPlan == [o \in Orders |-> None]
PlanOf(v) == IF v = None THEN EmptyPlan ELSE v.plan

-----------------------------------------------------------------------------
(* replanning_service.py                                                   *)

\* get_current: what the shop floor should follow.
Current == IF version["published"] # None THEN version["published"]
           ELSE IF version["approved"] # None THEN version["approved"]
           ELSE version["draft"]

\* The plan in force and the plant are read, the changes detected.
Begin(request) ==
    /\ job = Idle
    /\ LET events == IF Current = None THEN {} ELSE DetectEvents(Current.plant, plant, now)
       IN  /\ ShouldTrigger(events \cup {Event(request, None, FALSE)})
           /\ job' = [pc |-> "generating", events |-> events, plan |-> Current,
                      plant |-> plant, at |-> now]
    /\ UNCHANGED <<now, plant, version, changes>>

\* The decision on candidate c.
Report(c) == Stability(PlanOf(job.plan), c, job.plant, job.at)
Hard      == HardEvents(job.events, PlanOf(job.plan), job.at)
Accepted(c, better) ==
    job.plan = None \/ ShouldReplan(Hard, Report(c), better)

\* The candidate is drawn from the plant as it is by now ...
Generated(c) == [plan |-> c, plant |-> plant]

\* Mutant of Previous: the plan read at the beginning is taken for it.
PreviousAsRead == PlanOf(job.plan)

\* ... and keeps what is about to start of the plan in force by now.
Previous == PlanOf(Current)

Verdict(c, better) ==
    IF ~Accepted(c, better) THEN "reject"
    ELSE IF RequiresApproval(Report(c)) THEN "propose" ELSE "approve"

\* The scheduler draws a candidate; it is judged against the plan read first.
Draw ==
    /\ job.pc = "generating"
    /\ \E c \in Candidates(Previous, plant, now), better \in BOOLEAN :
          LET verdict == Verdict(c, better)
          IN  job' = [pc |-> "deciding", base |-> Current, at |-> now, verdict |-> verdict,
                      candidate |-> IF verdict = "reject" THEN None ELSE Generated(c)]
    /\ UNCHANGED <<now, plant, version, changes>>

Approved(v)  == [version EXCEPT !["approved"] = v]
Published(v) == [published |-> v, approved |-> None, draft |-> version["draft"]]

\* The candidate is rejected, or takes the place of the one that awaits approval,
\* or is approved and, under CONTROLLED_AUTO, published.
Decided(v, verdict) ==
    CASE verdict = "reject"  -> version
      [] verdict = "propose" -> [version EXCEPT !["draft"] = v]
      [] verdict = "approve" -> IF ControlledAuto THEN Published(v) ELSE Approved(v)

\* The evaluation commits.
Finish ==
    /\ job.pc = "deciding"
    /\ version' = Decided(job.candidate, job.verdict)
    /\ job' = Idle
    /\ UNCHANGED <<now, plant, changes>>

\* A manager approves, publishes or rejects.
Approve == /\ version["draft"] # None
           /\ version' = [Approved(version["draft"]) EXCEPT !["draft"] = None]
           /\ UNCHANGED <<now, plant, job, changes>>

Publish == /\ version["approved"] # None
           /\ version' = Published(version["approved"])
           /\ UNCHANGED <<now, plant, job, changes>>

Reject(status) == /\ version[status] # None
                  /\ version' = [version EXCEPT ![status] = None]
                  /\ UNCHANGED <<now, plant, job, changes>>

\* The evaluation fails and is rolled back.
Fail == job # Idle /\ job' = Idle /\ UNCHANGED <<now, plant, version, changes>>

Next == \/ Synchronise \/ Tick
        \/ \E r \in Requests : Begin(r)
        \/ Draw \/ Finish \/ Fail
        \/ Approve \/ Publish \/ Reject("draft") \/ Reject("approved")

Spec == Init /\ [][Next]_vars

(* The worker evaluates once per interval for ever, a job that failed is    *)
(* followed by the next one, and not every evaluation fails.                *)
Fairness == WF_vars(\E r \in Requests : Begin(r)) /\ SF_vars(Draw) /\ SF_vars(Finish)

FairSpec == Spec /\ Fairness

-----------------------------------------------------------------------------
TypeOK == /\ now \in Time /\ changes \in 0 .. MaxChanges
          /\ plant \in Plant
          /\ version \in [Lifecycle -> Version \cup {None}]
          /\ job.pc \in {"idle", "generating", "deciding"}
          /\ job.pc = "idle" => job = Idle
          /\ job.pc = "generating" =>
                job.plan \in Version \cup {None} /\ job.plant \in Plant /\ job.at \in Time
          /\ job.pc = "deciding" =>
                /\ job.base \in Version \cup {None} /\ job.candidate \in Version \cup {None}
                /\ job.at \in Time /\ job.verdict \in {"reject", "propose", "approve"}

\* Work of plan v still ahead on a machine nobody knows to return.
StrandedWork(v, p, t) ==
    {o \in Relevant(PlanOf(v), p, t) : ~CanRun(p, PlanOf(v)[o].machine, t)}

(* An evaluation that finds work planned on a machine that cannot run        *)
(* replaces the plan whatever the candidate's quality: the difference of the *)
(* two snapshots always holds the event that makes the plan infeasible.      *)
StrandedWorkIsHard ==
    job.pc = "generating" => (StrandedWork(job.plan, job.plant, job.at) # {} => Hard # {})

\* Where a plan goes that needs no approval.
Accepting == IF ControlledAuto THEN "published" ELSE "approved"

Running(plan, t) == {o \in Orders : plan[o] # None /\ plan[o].start <= t /\ ~Finished(plan[o], t)}

(* A plan accepted without a manager does not move work that is under way in *)
(* the plan it replaces, whatever managers approved, published or rejected   *)
(* while the evaluation ran, the plan in force exchanged under it included:  *)
(* as long as the commit follows within the lock window of the drawing, no   *)
(* other plan came into force in between, and the order was open and the     *)
(* machine able to run as the candidate was drawn.                           *)
RunningWorkStays ==
    [][job.pc = "deciding" /\ job' = Idle /\ version'[Accepting] # version[Accepting]
          /\ Current # None /\ Current = job.base /\ now < job.at + LockWindow
       => \A o \in Running(Current.plan, now) :
             /\ IsOpen(job.candidate.plant, o)
             /\ CanRun(job.candidate.plant, Current.plan[o].machine, job.at)
             => PlanOf(version'[Accepting])[o] = Current.plan[o]]_vars

(* Work on a machine that failed does not stay in the plan unnoticed: a      *)
(* version without it is in force or waits for approval or publication,      *)
(* or the machine is repaired, or the work ends or its order is closed.      *)
FailuresAnswered ==
    (StrandedWork(Current, plant, now) # {})
        ~> (\E s \in Lifecycle : version[s] # None /\ StrandedWork(version[s], plant, now) = {})
=============================================================================
