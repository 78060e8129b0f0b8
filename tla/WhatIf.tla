------------------------------- MODULE WhatIf -------------------------------
(***************************************************************************)
(* What-if studies (engines/simulation, services/simulation_service.py): a  *)
(* planner asks what would become of the plan if things were different.    *)
(* The snapshot of the moment is planned as it is, then a copy of it to     *)
(* which the scenarios have been applied one after the other, both with     *)
(* what the plan in force has promised, and the two are compared (diff.py). *)
(*                                                                          *)
(* A study is the answer to one request: it changes nothing and is gone     *)
(* with the next step.  Scenarios on the weights of the profile are left    *)
(* out, the profile is a constant here; nothing is reserved in the stock.   *)
(***************************************************************************)
EXTENDS Analytics

CONSTANTS Studies,  \* the requests: sequences of scenarios
          Expediting \* points and hours of an expedite that names none

VARIABLE study

studyVars == <<vars, study>>

NoStudy == [scenarios |-> <<>>]

-----------------------------------------------------------------------------
(* scenarios_resources.py: s is the copy, x the scenario, t the instant.    *)

\* The window is added to the downtime; the status stays.
MachineDown(s, x, t) == [s EXCEPT !.machine[x.machine].downtime = @ \cup {<<Default(x.from, t), x.to>>}]

Extended(f, k, value) == [j \in DOMAIN f \cup {k} |-> IF j = k THEN value ELSE f[j]]

\* Whatever is released for a machine is released for its copy.
Released(f, source, copy) ==
    [k \in DOMAIN f |-> IF source \in f[k].machines THEN [f[k] EXCEPT !.machines = @ \cup {copy}] ELSE f[k]]

AddMachine(s, x) ==
    LET copy == [s.machine[x.of] EXCEPT !.status = "available", !.downtime = {}, !.material = None,
                                        !.family = None, !.from = Default(x.from, 0),
                                        !.calendar = Default(x.calendar, @)]
    IN  [s EXCEPT !.machine = Extended(@, x.id, copy), !.tool = Released(@, x.of, x.id),
                  !.material = Released(@, x.of, x.id)]

TargetSpecs(s, calendar) == IF calendar = "all" THEN DOMAIN s.calendar ELSE {calendar}

ExtraWorkingDay(s, x) ==
    [s EXCEPT !.calendar = [k \in DOMAIN @ |->
        IF k \in TargetSpecs(s, x.calendar) THEN [@[k] EXCEPT !.extraDays = @ \cup {x.day}] ELSE @[k]]]

\* Local hours of a day, over midnight when the end is not after the start.
LocalWindow(spec, day, from, to) ==
    LET begin == day * DayLength - spec.offset
    IN  <<begin + from, begin + to + (IF to <= from THEN DayLength ELSE 0)>>

ExtraShift(s, x) ==
    [s EXCEPT !.calendar = [k \in DOMAIN @ |->
        IF k \in TargetSpecs(s, x.calendar)
        THEN [@[k] EXCEPT !.overtime = @ \cup {LocalWindow(s.calendar[k], x.day, x.from, x.to)}]
        ELSE @[k]]]

OrdersUsingMaterial(s, k) ==
    {o \in OpenOrders(s) : \/ s.order[o].material = k
                           \/ \E y \in PendingOperations(s, o) : s.operation[y].material = k}

WithMaterialStatus(s, S, status) ==
    [s EXCEPT !.order = [o \in DOMAIN @ |-> IF o \in S THEN [@[o] EXCEPT !.materialStatus = status] ELSE @[o]]]

\* An order that holds its material keeps it, unless that is the delayed shipment.
DelayedOrders(s, x) ==
    {o \in OrdersUsingMaterial(s, x.material) : x.allocated \/ s.order[o].materialStatus # "available"}

MaterialDelay(s, x, t) ==
    LET k     == x.material
        due   == IF x.until # None THEN x.until ELSE Default(s.material[k].receipt, t) + x.days * DayLength
        stock == [s.material[k] EXCEPT !.receipt = due,
                    !.incoming = IF x.allocated THEN @ + s.material[k].free ELSE @,
                    !.free = IF x.allocated THEN 0 ELSE @]
    IN  WithMaterialStatus([s EXCEPT !.material[k] = stock], DelayedOrders(s, x), "on_order")

MaterialArrival(s, x, t) ==
    LET k        == x.material
        quantity == Default(x.quantity, s.material[k].incoming)
        stock    == s.material[k]
    IN  IF Default(x.at, t) <= t
        THEN WithMaterialStatus(
               [s EXCEPT !.material[k] = [stock EXCEPT !.free = @ + quantity, !.receipt = None,
                                                       !.incoming = Larger(0, @ - quantity)]],
               OrdersUsingMaterial(s, k), "available")
        ELSE [s EXCEPT !.material[k] = [stock EXCEPT !.receipt = x.at,
                                          !.incoming = Larger(@, Default(x.quantity, 0))]]

-----------------------------------------------------------------------------
(* scenarios_orders.py, scenarios_priority.py                              *)

Expedited(s, o, x, t) ==
    [s EXCEPT !.expedites = @ \cup {[order |-> o, points |-> Default(x.points, Expediting.points), from |-> t,
                                     active |-> TRUE, expires |-> t + Default(x.hours, Expediting.hours)]}]

\* The simulated orders are numbered after all others.
NextId(s) == GreatestOf(DOMAIN s.order) + 1

StepId(o, sequence) == 100 * o + sequence

\* The orders and steps a clone brings, as if they had just come in.
CloneOrder(s, x, o, t) ==
    LET source == s.order[x.of]
        quantity == Default(x.quantity, source.quantity)
    IN  [source EXCEPT !.line = None, !.received = t, !.status = "new", !.completed = 0, !.onHold = FALSE,
                       !.dependsOn = {}, !.quantity = quantity, !.pending = quantity,
                       !.customer = Default(x.customer, @), !.due = Default(x.due, @),
                       !.value = Default(x.value, @)]

CloneSteps(s, x, o, quantity) ==
    LET steps == OperationsOf(s, x.of)
        prerequisite(p) == IF Known(p, s.operation) THEN StepId(o, s.operation[p].sequence) ELSE None
    IN  [y \in {StepId(o, s.operation[z].sequence) : z \in steps} |->
            LET z == CHOOSE w \in steps : StepId(o, s.operation[w].sequence) = y
            IN  [s.operation[z] EXCEPT !.order = o, !.quantity = quantity, !.pending = quantity,
                                       !.completed = 0, !.status = "pending",
                                       !.prerequisite = prerequisite(@)]]

UrgentOrder(s, x, t) ==
    LET o     == NextId(s)
        order == CloneOrder(s, x, o, t)
        steps == CloneSteps(s, x, o, order.quantity)
        added == [s EXCEPT !.order = Extended(@, o, order), !.operation = steps @@ @]
    IN  IF x.expedite THEN Expedited(added, o, x, t) ELSE added

\* Mutant of Outsource: the pieces leave the order, its steps keep theirs.
OutsourceOrderOnly(s, o, quantity) == [s EXCEPT !.order[o].pending = @ - Smaller(quantity, @)]

\* So many of an order's pieces are made elsewhere.
Outsource(s, o, quantity) ==
    LET pieces == Smaller(quantity, s.order[o].pending)
        left(y) == Larger(s.operation[y].completed, s.operation[y].quantity - pieces)
    IN  [s EXCEPT !.order[o].pending = @ - pieces,
                  !.operation = [y \in DOMAIN @ |->
                     IF y \in PendingOperations(s, o)
                     THEN [@[y] EXCEPT !.quantity = left(y), !.pending = left(y) - s.operation[y].completed]
                     ELSE @[y]]]

\* The open orders whose next step can run in the group, what is least urgent first.
GroupQueue(s, group) ==
    LET queued == {o \in OpenOrders(s) : \E m \in CandidateMachines(s, NextOperation(s, o)) :
                                            s.machine[m].group = group}
        due(o) == s.order[o].due
        first(a, b) == IF due(a) = due(b) THEN a < b
                       ELSE due(a) = None \/ (due(b) # None /\ due(a) > due(b))
    IN  SetToSortSeq(queued, first)

OutsourceOrders(s, x) == FoldLeft(LAMBDA r, o : Outsource(r, o, r.order[o].pending), s, x.list)

OutsourceGroup(s, x) ==
    LET Take(acc, o) ==
            LET pieces == Smaller(acc.s.order[o].pending, acc.left)
            IN  IF pieces <= 0 THEN acc
                ELSE [s |-> Outsource(acc.s, o, pieces), left |-> acc.left - pieces]
    IN  FoldLeft(Take, [s |-> s, left |-> x.quantity], GroupQueue(s, x.group)).s

HoldOrders(s, x) ==
    [s EXCEPT !.order = [o \in DOMAIN @ |-> IF o \in x.orders THEN [@[o] EXCEPT !.onHold = TRUE] ELSE @[o]]]

ExpediteOrders(s, x, t) == FoldLeft(LAMBDA r, o : Expedited(r, o, x, t), s, Ascending(x.orders))

\* A rule of the customer's own, over the one there is.
PrioritizeCustomer(s, x) ==
    [s EXCEPT !.customer[x.customer].boost = Default(x.points, @),
              !.customer[x.customer].ruleTier = Default(x.tier, @),
              !.customer[x.customer].ruleSla = Default(x.sla, @)]

-----------------------------------------------------------------------------
(* base.py, engine.py                                                      *)

ApplyTo(s, x, t) ==
    CASE x.kind = "machine_down"        -> MachineDown(s, x, t)
      [] x.kind = "add_machine"         -> AddMachine(s, x)
      [] x.kind = "extra_working_day"   -> ExtraWorkingDay(s, x)
      [] x.kind = "extra_shift"         -> ExtraShift(s, x)
      [] x.kind = "material_delay"      -> MaterialDelay(s, x, t)
      [] x.kind = "material_arrival"    -> MaterialArrival(s, x, t)
      [] x.kind = "urgent_orders"       -> UrgentOrder(s, x, t)
      [] x.kind = "outsource_orders"    -> OutsourceOrders(s, x)
      [] x.kind = "outsource_group"     -> OutsourceGroup(s, x)
      [] x.kind = "due_date_change"     -> [s EXCEPT !.order[x.order].due = x.due]
      [] x.kind = "hold_orders"         -> HoldOrders(s, x)
      [] x.kind = "expedite_orders"     -> ExpediteOrders(s, x, t)
      [] x.kind = "prioritize_customer" -> PrioritizeCustomer(s, x)

ApplyScenarios(s, scenarios, t) == FoldLeft(LAMBDA r, x : ApplyTo(r, x, t), s, scenarios)

-----------------------------------------------------------------------------
(* diff.py                                                                 *)

\* What a plan says of an order: when it is done, where it begins, as which job there.
OrderView(s, result, o) ==
    LET entries   == {e \in result.plan : e.order = o}
        first     == CHOOSE e \in entries : \A f \in entries : e.start <= f.start
        scheduled == entries # {} /\ (o \in DOMAIN result.report => result.report[o] = {})
        done      == IF scheduled THEN GreatestOf({e.end : e \in entries}) ELSE None
    IN  [scheduled |-> scheduled, done |-> done,
         machine |-> IF entries = {} THEN None ELSE first.machine,
         place   |-> IF entries = {} THEN None
                     ELSE Cardinality({e \in result.plan : e.machine = first.machine /\ e.start <= first.start}),
         late    |-> done # None /\ o \in DOMAIN s.order /\ s.order[o].due # None /\ done > s.order[o].due]

SeenOrders(result) ==
    {e.order : e \in result.plan} \cup {o \in DOMAIN result.report : result.report[o] # {}}

\* Mutant of DiffSchedules: whether an order is late after is judged by its due date before.
DiffSchedulesStale(s, after, before, then, t) ==
    LET seen == SeenOrders(before) \cup SeenOrders(then)
        b    == [o \in seen |-> OrderView(s, before, o)]
        a    == [o \in seen |-> OrderView(s, then, o)]
    IN  [affected |-> {o \in seen : b[o] # a[o]}, moved |-> {}, resequenced |-> {},
         newlyLate   |-> {o \in seen : a[o].late /\ ~b[o].late},
         newlyOnTime |-> {o \in seen : b[o].late /\ ~a[o].late /\ a[o].scheduled},
         metricsBefore |-> ScheduleMetrics(s, before.plan, before.report, t),
         metricsAfter  |-> ScheduleMetrics(after, then.plan, then.report, t)]

DiffSchedules(s, after, before, then, t) ==
    LET seen == SeenOrders(before) \cup SeenOrders(then)
        b    == [o \in seen |-> OrderView(s, before, o)]
        a    == [o \in seen |-> OrderView(after, then, o)]
        moved(o)    == b[o].machine # None /\ a[o].machine # None /\ b[o].machine # a[o].machine
        affected    == {o \in seen : \/ b[o].done # a[o].done \/ moved(o) \/ b[o].late # a[o].late
                                     \/ b[o].scheduled # a[o].scheduled}
    IN  [affected    |-> affected,
         moved       |-> {o \in affected : moved(o)},
         resequenced |-> {o \in affected : /\ ~moved(o) /\ None \notin {a[o].place, b[o].place}
                                           /\ a[o].place # b[o].place},
         newlyLate   |-> {o \in affected : a[o].late /\ ~b[o].late},
         newlyOnTime |-> {o \in affected : b[o].late /\ ~a[o].late /\ a[o].scheduled},
         metricsBefore |-> ScheduleMetrics(s, before.plan, before.report, t),
         metricsAfter  |-> ScheduleMetrics(after, then.plan, then.report, t)]

-----------------------------------------------------------------------------
(* SimulationService.simulate                                              *)

\* What a request must name for the scenarios to be applied at all.
Valid(s, x, t) ==
    /\ "machine" \in DOMAIN x => x.machine \in DOMAIN s.machine
    /\ "material" \in DOMAIN x => x.material \in DOMAIN s.material
    /\ x.kind = "machine_down" => Default(x.from, t) < x.to
    /\ x.kind = "add_machine" => x.of \in DOMAIN s.machine /\ x.id \notin DOMAIN s.machine
    /\ x.kind = "urgent_orders" => x.of \in DOMAIN s.order

\* The baseline does not depend on the request.
Simulate ==
    /\ study = NoStudy
    /\ LET baseline == PipelineResults(plant, plan, now)
       IN  \E scenarios \in Studies :
            /\ \A i \in DOMAIN scenarios : Valid(plant, scenarios[i], now)
            /\ LET after == ApplyScenarios(plant, scenarios, now)
               IN  \E before \in baseline, then \in PipelineResults(after, plan, now) :
                      study' = [scenarios |-> scenarios, after |-> after, before |-> before, then |-> then,
                                diff |-> DiffSchedules(plant, after, before, then, now)]
    /\ UNCHANGED vars

StudyInit == Init /\ study = NoStudy

StudyNext == Simulate \/ (Next /\ study' = NoStudy)

StudySpec == StudyInit /\ [][StudyNext]_studyVars

-----------------------------------------------------------------------------
(* The two plans of a study and the figures beside them tell the same       *)
(* story: late orders after are those before, and the newly late, less the  *)
(* newly on time and those that are no longer planned (diff.py against      *)
(* metrics.py), and of each plan the risk report says what the scheduler's  *)
(* own figures do, but for late orders that are out of scope (risk.py).     *)
StudyReconciles ==
    study # NoStudy =>
        LET diff == study.diff
            gone == {o \in SeenOrders(study.before) : /\ OrderView(plant, study.before, o).late
                                                      /\ ~OrderView(study.after, study.then, o).scheduled}
            Matches(v, risk, metrics) ==
                LET outside == {o \in DOMAIN risk : risk[o].late /\ risk[o].reason = "status_not_schedulable"}
                    planned == {o \in DOMAIN risk : risk[o].scheduled}
                IN  /\ metrics.late = Cardinality({o \in planned : risk[o].late})
                    /\ metrics.onTime = Cardinality({o \in planned : risk[o].lateness # None /\ ~risk[o].late})
                    /\ metrics.scheduled + metrics.unscheduled = Cardinality(OpenOrders(v.s))
                    /\ RevenueAtRisk(v, risk) = metrics.revenueAtRisk
                         + Total(outside, LAMBDA o : Revenue(v.s, o))
                         + Total({o \in DOMAIN risk \ planned : risk[o].late /\ risk[o].reason = None},
                                 LAMBDA o : Revenue(v.s, o))
            MatchesIn(v, metrics) == Matches(v, OrdersAtRisk(v), metrics)
        IN  /\ diff.metricsAfter.late = diff.metricsBefore.late + Cardinality(diff.newlyLate)
                                          - Cardinality(diff.newlyOnTime) - Cardinality(gone)
            /\ MatchesIn(ViewOf(plant, study.before.plan, study.before.report, TRUE, filed, now),
                         diff.metricsBefore)
            /\ MatchesIn(ViewOf(study.after, study.then.plan, study.then.report, TRUE, filed, now),
                         diff.metricsAfter)

(* What is newly planned in a study obeys its last scenario: nothing begins *)
(* on a machine while it is down or before it has come, nothing of an order *)
(* that is put on hold or waits for the delayed material, the new order is  *)
(* planned or answered, outsourced orders are gone from plan and report and *)
(* the pieces taken from a group are as many as asked for, least urgent     *)
(* first, from the orders as from their steps.  What the plan in force has  *)
(* promised stays the same in both, unless its machine is out of order: a   *)
(* simulated breakdown gives that one an end, and with it its promises      *)
(* back.                                                                    *)
ScenariosTakeEffect ==
    study # NoStudy =>
        LET last  == Len(study.scenarios)
            x     == study.scenarios[last]
            given == ApplyScenarios(plant, SubSeq(study.scenarios, 1, last - 1), now)
            after == study.after
            new   == {e \in study.then.plan : ~e.locked}
            kept(result) == {e \in result.plan : /\ e.locked /\ IsOpen(after, e.order)
                                                 /\ Operable(after.machine[e.machine])}
            starting(o)  == {e.start : e \in {f \in new : f.order = o}}
            answered(o)  == \/ \E e \in study.then.plan : e.order = o
                            \/ study.then.report[o] # {}
            pieces(s)    == Total(DOMAIN plant.order, LAMBDA o : s.order[o].pending)
            taken        == {o \in DOMAIN plant.order : after.order[o].pending < given.order[o].pending}
        IN  /\ kept(study.then) = kept(study.before)
            /\ x.kind = "machine_down" =>
                  \A e \in new : e.machine = x.machine => ~(Default(x.from, now) <= e.start /\ e.start < x.to)
            /\ x.kind = "add_machine" =>
                  \A e \in study.then.plan : e.machine = x.id => ~e.locked /\ e.start >= Default(x.from, 0)
            /\ x.kind = "hold_orders" => \A e \in new : e.order \notin x.orders
            /\ x.kind = "material_delay" =>
                  \A o \in DelayedOrders(given, x) : \A b \in starting(o) : b >= after.material[x.material].receipt
            /\ x.kind = "urgent_orders" => \A o \in DOMAIN after.order \ DOMAIN plant.order : answered(o)
            /\ x.kind = "outsource_orders" =>
                  \A i \in DOMAIN x.list : /\ \A e \in study.then.plan : e.order # x.list[i]
                                             /\ x.list[i] \notin DOMAIN study.then.report
            /\ x.kind = "outsource_group" =>
                  LET inLine == GroupQueue(given, x.group)
                  IN  /\ pieces(given) - pieces(after)
                           = Smaller(x.quantity, Total({inLine[i] : i \in DOMAIN inLine},
                                                       LAMBDA o : given.order[o].pending))
                      /\ \A i, j \in DOMAIN inLine : i < j /\ inLine[j] \in taken => ~IsOpen(after, inLine[i])
                      /\ \A o \in taken : \A y \in PendingOperations(after, o) :
                            after.operation[y].pending <= after.order[o].pending
                      /\ \A o \in taken : ~IsOpen(after, o) => \A e \in new : e.order # o
=============================================================================
