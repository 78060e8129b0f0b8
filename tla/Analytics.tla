----------------------------- MODULE Analytics -----------------------------
(***************************************************************************)
(* What the plant is told about itself: engines/analytics.  Risk of every   *)
(* open order (risk.py), key figures (kpis.py, otd.py), required against    *)
(* available hours (capacity.py), bottlenecks (bottleneck.py) and alerts    *)
(* (alert_rules_*.py), all computed from the plan in force - as old as it   *)
(* may be - and the records and priorities of the moment.                   *)
(*                                                                          *)
(* A view v holds what they are computed from: the snapshot v.s, the        *)
(* instant v.t, the entries and reason codes of the plan in force, whether  *)
(* there is one, the data-quality issues on file, and the priorities.  An   *)
(* available_from of 0 stands for none; machines are looked at by machine   *)
(* or by group, not by process.                                             *)
(***************************************************************************)
EXTENDS Planning

CONSTANT Alerting  \* the AlertConfig, and what the analytics take from the SchedulingConfig

ViewOf(s, entries, codes, has, issues, t) ==
    [s |-> s, t |-> t, plan |-> entries, codes |-> codes, has |-> has, issues |-> issues,
     results |-> Evaluate(s, t)]

Total(S, value(_)) == MapThenSumSet(value, S)

-----------------------------------------------------------------------------
(* common.py                                                               *)

PlantOffset(s) == IF Known(s.defaultCalendar, s.calendar) THEN s.calendar[s.defaultCalendar].offset ELSE 0

LocalDate(s, t) == (t + PlantOffset(s)) \div DayLength

LocalMidnight(s, d) == d * DayLength - PlantOffset(s)

WeekStart(d) == d - (d % 7)

OrderStarted(s, o) ==
    \/ s.order[o].status \in {"in_production", "partially_completed", "quality_inspection"}
    \/ s.order[o].completed > 0
    \/ \E x \in OperationsOf(s, o) : s.operation[x].status \in {"in_progress", "completed"}
                                       \/ s.operation[x].completed > 0

NeededMaterial(s, o) == MaterialOf(s, NextOperation(s, o))

\* The step's tools and, where it is the order's own process, the order's as well.
NeededTools(s, o) ==
    LET op == NextOperation(s, o)
    IN  op.tools \cup IF IsPrimary(s, op) THEN s.order[o].tools ELSE {}

StepCycle(s, x) == Default(s.operation[x].cycle, s.order[s.operation[x].order].cycle)

\* A cycle beyond what is plausible counts as unknown.
StepHours(s, x) ==
    LET op    == s.operation[x]
        setup == IF op.status = "in_progress" THEN 0
                 ELSE Larger(0, Default(op.setup, Default(s.order[op.order].setup, 0)))
    IN  IF StepCycle(s, x) = None \/ StepCycle(s, x) > Limits.cycle THEN None
        ELSE setup + Larger(0, StepCycle(s, x)) * op.pending

MachineKey(s, m, dimension) == IF dimension = "machine" THEN m ELSE s.machine[m].group

\* The resource a step will use, when that is certain; else None.
Resolve(s, op, dimension) ==
    LET primary  == IsPrimary(s, op)
        order    == s.order[op.order]
        assigned == IF op.machine = None /\ primary THEN order.required ELSE op.machine
        group    == IF op.group = None /\ primary THEN order.group ELSE op.group
        listed   == op.eligible \cap DOMAIN s.machine
        unique(machines) == LET keys == {MachineKey(s, m, dimension) : m \in machines}
                            IN  IF Cardinality(keys) = 1 THEN CHOOSE k \in keys : TRUE ELSE None
    IN  IF Known(assigned, s.machine) THEN MachineKey(s, assigned, dimension)
        ELSE IF listed # {} THEN unique(listed)
        ELSE IF group # None
        THEN IF dimension = "machine" THEN unique(InGroup(s, group)) ELSE group
        ELSE unique({m \in DOMAIN s.machine : op.process \in s.machine[m].processes})

EntriesOf(v, o) == {e \in v.plan : e.order = o}

UnscheduledReason(v, o) ==
    IF v.has /\ o \in DOMAIN v.codes /\ v.codes[o] # {} THEN CHOOSE c \in v.codes[o] : TRUE ELSE None

\* fully_scheduled_completion
ScheduledCompletion(v, o) ==
    IF EntriesOf(v, o) = {} \/ UnscheduledReason(v, o) # None THEN None
    ELSE GreatestOf({e.end : e \in EntriesOf(v, o)})

-----------------------------------------------------------------------------
(* risk.py                                                                 *)

RiskRank(level) == CASE level = "low" -> 0 [] level = "medium" -> 1 [] level = "high" -> 2
                     [] OTHER -> 3

MaxLevel(a, b) == IF RiskRank(a) >= RiskRank(b) THEN a ELSE b
MinLevel(a, b) == IF RiskRank(a) <= RiskRank(b) THEN a ELSE b

InScope(reason) == reason \notin {None, "status_not_schedulable"}

\* By where the plan puts the order, else by the projection of the priorities, else by
\* the due date alone.
AssessOrderRisk(v, o) ==
    LET due       == v.s.order[o].due
        done      == ScheduledCompletion(v, o)
        projected == Default(done, v.results[o].projected)
        reason    == UnscheduledReason(v, o)
        lateness  == IF due = None THEN None
                     ELSE IF projected # None THEN projected - due
                     ELSE IF due < v.t THEN v.t - due ELSE None
        late  == lateness # None /\ lateness > 0
        tight == lateness # None /\ -lateness < Alerting.atRiskSlack
        level == IF late THEN "critical"
                 ELSE IF tight \/ InScope(reason) THEN MaxLevel("high", v.results[o].risk)
                 ELSE IF done # None THEN MinLevel(v.results[o].risk, "medium") ELSE v.results[o].risk
    IN  [level |-> level, projected |-> projected, lateness |-> lateness, late |-> late,
         untilDue |-> IF due = None THEN None ELSE due - v.t,
         scheduled |-> done # None, reason |-> reason,
         atRisk |-> late \/ tight \/ InScope(reason) \/ RiskRank(level) >= RiskRank("high"),
         basis |-> IF done # None THEN "schedule" ELSE IF projected # None THEN "priority"
                   ELSE IF due # None THEN "due_date" ELSE "unknown"]

OrdersAtRisk(v) == [o \in OpenOrders(v.s) |-> AssessOrderRisk(v, o)]

CountsAsMoneyAtRisk(item) == item.late \/ InScope(item.reason)

Revenue(s, o) == Default(s.order[o].value, 0)

RevenueAtRisk(v, risk) ==
    Total({o \in DOMAIN risk : CountsAsMoneyAtRisk(risk[o])}, LAMBDA o : Revenue(v.s, o))

-----------------------------------------------------------------------------
(* metrics.py: what the scheduler says of its own plan on leaving.          *)

Share(part, whole) == (100 * part) \div whole

\* Working hours that are planned, of those there are, on each machine.
MachineUtilization(s, entries, from, to) ==
    [m \in DOMAIN s.machine |->
        LET working == WorkingHours(s, m) \cap HoursOf(<<from, to>>)
            busy    == Total({e \in entries : e.machine = m},
                             LAMBDA e : Cardinality(working \cap HoursOf(<<e.start, e.end>>)))
        IN  [busy |-> busy, available |-> Cardinality(working)]]

ScheduleMetrics(s, entries, codes, t) ==
    LET failed   == {o \in DOMAIN codes : codes[o] # {}}
        placed   == {e.order : e \in entries} \ failed
        dated    == {o \in placed : s.order[o].due # None}
        slack(o) == s.order[o].due - GreatestOf({e.end : e \in {f \in entries : f.order = o}})
        late     == {o \in dated : slack(o) < 0}
        lost     == {o \in failed : \E c \in codes[o] : InScope(c)}
    IN  [scheduled |-> Cardinality(placed), unscheduled |-> Cardinality(failed),
         late |-> Cardinality(late), onTime |-> Cardinality(dated \ late),
         atRisk |-> Cardinality({o \in dated \ late : slack(o) < Alerting.atRiskSlack}),
         tardiness |-> Total(late, LAMBDA o : -slack(o)),
         onTimePct |-> IF dated # {} THEN Share(Cardinality(dated \ late), Cardinality(dated))
                       ELSE IF placed # {} THEN 100 ELSE 0,
         revenueAtRisk |-> Total(late \cup lost, LAMBDA o : Revenue(s, o)),
         utilization |-> MachineUtilization(s, entries, t, t + Alerting.days * DayLength)]

-----------------------------------------------------------------------------
(* capacity.py                                                             *)

\* Local days or weeks up to the horizon, the first from now on.
PeriodBounds(s, t, period) ==
    LET end   == t + Alerting.days * DayLength
        today == LocalDate(s, t)
        step  == IF period = "day" THEN 1 ELSE 7
        first == IF period = "day" THEN today ELSE WeekStart(today)
        begins == {d \in first .. LocalDate(s, end) :
                     (d - first) % step = 0 /\ LocalMidnight(s, d) < end}
    IN  {<<Larger(LocalMidnight(s, d), t), Smaller(LocalMidnight(s, d + step), end)>> : d \in begins}

\* The period an instant lies in; the first one for the time before.
PeriodAt(bounds, t) ==
    LET begun == {p \in bounds : p[1] <= t}
    IN  IF begun = {} THEN CHOOSE p \in bounds : \A q \in bounds : p[1] <= q[1]
        ELSE CHOOSE p \in begun : \A q \in begun : q[1] <= p[1]

\* Out of order and nobody knows until when.
NoReturnKnown(s, m, t) ==
    ~Operable(s.machine[m]) /\ s.machine[m].from = 0 /\ ~ReturnsAfter(s.machine[m], t)

\* What becomes of a step that is not in the plan.
DemandOf(v, x, excluded, dimension, end) ==
    LET op == v.s.operation[x]
        due == v.s.order[op.order].due
    IN  IF op.order \in excluded THEN "excluded"
        ELSE IF StepCycle(v.s, x) = None THEN "missing"
        ELSE IF StepCycle(v.s, x) > Limits.cycle THEN "implausible"
        ELSE IF Resolve(v.s, op, dimension) = None THEN "unallocated"
        ELSE IF due # None /\ due >= end THEN "beyond" ELSE "estimated"

\* Mutant of EntryHours: an entry counts in the period it begins in, up to its end.
EntryHoursAtStart(working, e, p) ==
    IF p[1] <= e.start /\ e.start < p[2] THEN Cardinality(working \cap HoursOf(<<e.start, e.end>>)) ELSE 0

\* The working hours of an entry that lie in a period.
EntryHours(working, e, p) ==
    Cardinality(working \cap HoursOf(<<Larger(e.start, p[1]), Smaller(e.end, p[2])>>))

\* Every step that is not in the plan, what becomes of it and where, and its hours.
Demand(v, excluded, dimension) ==
    {[step |-> x, order |-> v.s.operation[x].order, key |-> Resolve(v.s, v.s.operation[x], dimension),
      hours |-> Default(StepHours(v.s, x), 0),
      fate |-> DemandOf(v, x, excluded, dimension, v.t + Alerting.days * DayLength)] :
        x \in PendingSteps(v.s) \ {e.step : e \in v.plan}}

\* For each resource and period the hours in the plan, those still to be planned that are
\* due by then, and those there are.
CapacityOf(v, dimension, bounds, given) ==
    LET s        == v.s
        fated(fate) == {x \in given.demand : x.fate = fate}
        hours(S) == Total(S, LAMBDA x : x.hours)
        dueIn(x) == PeriodAt(bounds, Default(s.order[x.order].due, v.t))
        keys     == {MachineKey(s, m, dimension) : m \in DOMAIN s.machine}
                      \cup {x.key : x \in fated("estimated")}
        members(k) == {m \in DOMAIN s.machine : MachineKey(s, m, dimension) = k}
    IN  [periods |-> bounds,
         rows |-> {[key |-> k, period |-> p,
             available |-> Total({m \in members(k) : ~NoReturnKnown(s, m, v.t)},
                                 LAMBDA m : Cardinality(given.working[m] \cap HoursOf(p))),
             scheduled |-> Total({e \in v.plan : e.machine \in members(k)},
                                 LAMBDA e : EntryHours(given.working[e.machine], e, p)),
             estimated |-> hours({x \in fated("estimated") : x.key = k /\ dueIn(x) = p})] :
                k \in keys, p \in bounds},
         unallocated |-> hours(fated("unallocated")), beyond |-> hours(fated("beyond")),
         noDemand    |-> {x \in given.demand : x.fate \in {"excluded", "missing", "implausible"}}]

\* compute_capacity
Capacity(v, dimension, period) ==
    CapacityOf(v, dimension, PeriodBounds(v.s, v.t, period),
               [demand  |-> Demand(v, Unschedulable(v.s, v.t), dimension),
                working |-> [m \in DOMAIN v.s.machine |-> WorkingHours(v.s, m)]])

Required(row) == row.scheduled + row.estimated

Utilization(required, available) ==
    IF available > 0 THEN Share(required, available) ELSE IF required > 0 THEN 100 ELSE 0

\* Of each resource, over all periods.
CapacityTotals(capacity) ==
    {LET rows == {r \in capacity.rows : r.key = k}
     IN  [key |-> k, required |-> Total(rows, Required),
          available |-> Total(rows, LAMBDA r : r.available),
          shortfall |-> Total(rows, LAMBDA r : Larger(0, Required(r) - r.available))] :
        k \in {r.key : r \in capacity.rows}}

-----------------------------------------------------------------------------
(* kpis.py, otd.py                                                         *)

\* Orders that are done with, and those of them that were in time.
OtdBucket(v, orders) ==
    [total  |-> Cardinality(orders),
     onTime |-> Cardinality({o \in orders : ScheduledCompletion(v, o) <= v.s.order[o].due})]

\* The orders the plan finishes, as far as they are still open and have a due date: all
\* together, by customer, and by the local day they end on.
ProjectedOtd(v) ==
    LET dated   == {o \in OpenOrders(v.s) : ScheduledCompletion(v, o) # None /\ v.s.order[o].due # None}
        tier(o) == v.s.customer[v.s.order[o].customer].tier
        day(o)  == LocalDate(v.s, ScheduledCompletion(v, o))
    IN  OtdBucket(v, dated) @@
        [byTier |-> [k \in {tier(o) : o \in dated} |-> OtdBucket(v, {o \in dated : tier(o) = k})],
         trend  |-> [d \in {day(o) : o \in dated} |-> OtdBucket(v, {o \in dated : day(o) = d})]]

ExpectedOtdPct(risk, has) ==
    LET basis == IF has THEN "schedule" ELSE "priority"
        dated == {o \in DOMAIN risk : risk[o].basis = basis /\ risk[o].lateness # None}
    IN  IF dated = {} THEN None
        ELSE Share(Cardinality({o \in dated : risk[o].lateness <= 0}), Cardinality(dated))

ExecutiveKpis(v, risk) ==
    LET open      == OpenOrders(v.s)
        today     == LocalDate(v.s, v.t)
        due(o)    == v.s.order[o].due
        ahead     == {o \in open : due(o) # None /\ due(o) >= v.t}
        dueOn(S)  == Cardinality({o \in ahead : LocalDate(v.s, due(o)) \in S})
        blocked(state) == Cardinality({o \in open : v.results[o].readiness = state})
        scheduled == Cardinality({o \in open : risk[o].scheduled})
    IN  [open |-> Cardinality(open), pending |-> Total(open, LAMBDA o : v.s.order[o].pending),
         dueToday |-> dueOn({today}), dueTomorrow |-> dueOn({today + 1}),
         dueThisWeek |-> dueOn(today .. WeekStart(today) + 6),
         overdue |-> Cardinality({o \in open : due(o) # None /\ due(o) < v.t}),
         atRisk |-> Cardinality({o \in open : risk[o].atRisk}),
         expectedOtd |-> ExpectedOtdPct(risk, v.has),
         revenueAtRisk |-> RevenueAtRisk(v, risk),
         blockedByMaterial |-> blocked("WAITING_MATERIAL"), blockedByTooling |-> blocked("WAITING_TOOLING"),
         blockedByMachine |-> blocked("MACHINE_UNAVAILABLE"), awaitingApproval |-> blocked("WAITING_APPROVAL"),
         blockedTotal |-> Cardinality(open) - blocked("READY"),
         scheduled |-> scheduled, unscheduled |-> Cardinality(open) - scheduled]

-----------------------------------------------------------------------------
(* bottleneck.py                                                           *)

CapacitySeverity(utilization, shortfall) ==
    LET overloaded == utilization >= Alerting.overloadPct
    IN  IF shortfall > 0 /\ overloaded THEN "critical"
        ELSE IF shortfall > 0 \/ overloaded THEN "high"
        ELSE IF utilization >= Alerting.bottleneckPct THEN "medium" ELSE None

Bottleneck(resource, severity, waiting, revenue) ==
    [resource |-> resource, severity |-> severity, waiting |-> waiting, revenue |-> revenue]

MoneyOf(v, risk, S) ==
    Total({o \in S : CountsAsMoneyAtRisk(risk[o])}, LAMBDA o : Revenue(v.s, o))

\* A resource the plan and the demand need more of than there is; the orders behind it
\* are those whose next step will use it.
CapacityBottlenecks(v, risk, dimension, totals) ==
    LET severity(r) == CapacitySeverity(Utilization(r.required, r.available), r.shortfall)
        next     == {o \in OpenOrders(v.s) : StepOf(v.s, o) # None}
        users(k) == {o \in next : Resolve(v.s, v.s.operation[StepOf(v.s, o)], dimension) = k}
    IN  {Bottleneck(<<dimension, r.key>>, severity(r), {o \in users(r.key) : ~OrderStarted(v.s, o)},
                    MoneyOf(v, risk, users(r.key))) :
            r \in {x \in totals : x.required > 0 /\ severity(x) # None}}

MissingTools(s, o, t) ==
    LET needed   == NeededTools(s, o)
        unusable == {k \in needed : ~Known(k, s.tool) \/ ~s.tool[k].usable \/ s.tool[k].from > t}
    IN  IF unusable = {} THEN needed ELSE unusable

\* The orders that wait for a material or tool, by what they wait for.
WaitingForMaterial(v) == {o \in OpenOrders(v.s) : v.results[o].readiness = "WAITING_MATERIAL"}
WaitingForTooling(v)  == {o \in OpenOrders(v.s) : v.results[o].readiness = "WAITING_TOOLING"}

ResourceBottlenecks(v, risk) ==
    LET limit     == v.t + Alerting.shortageDays * DayLength
        urgent(S) == \E o \in S : v.s.order[o].due # None /\ v.s.order[o].due <= limit
        blockedBy == {<<"material", NeededMaterial(v.s, o), o>> : o \in WaitingForMaterial(v)}
                       \cup UNION {{<<"tooling", k, o>> : k \in MissingTools(v.s, o, v.t)} :
                                     o \in WaitingForTooling(v)}
        named     == {<<b[1], b[2]>> : b \in {c \in blockedBy : c[2] # None}}
        orders(n) == {b[3] : b \in {c \in blockedBy : <<c[1], c[2]>> = n}}
    IN  {Bottleneck(n, IF urgent(orders(n)) THEN "critical" ELSE "high", orders(n),
                    MoneyOf(v, risk, orders(n))) : n \in named}

FindBottlenecks(v, risk) ==
    ResourceBottlenecks(v, risk)
      \cup UNION {CapacityBottlenecks(v, risk, d, CapacityTotals(Capacity(v, d, "week"))) :
                     d \in {"machine_group", "machine"}}

-----------------------------------------------------------------------------
(* The alert rules; what a replan disrupts is left to the module Replanning. *)

Alert(severity, entity) == [severity |-> severity, entity |-> entity]

\* Mutant of LikelyLateAlerts: an overdue order the plan finishes late is announced here, too.
LikelyLateAlertsOverdue(v, risk) ==
    {Alert("high", o) : o \in {p \in DOMAIN risk : risk[p].late}}

\* Orders that are not overdue yet, but will be - or have little slack left.
LikelyLateAlerts(v, risk) ==
    LET ahead    == {o \in DOMAIN risk : risk[o].untilDue # None /\ risk[o].untilDue >= 0}
        slack(o) == IF risk[o].lateness = None THEN risk[o].untilDue ELSE -risk[o].lateness
    IN  {Alert(IF risk[o].late THEN "high" ELSE "warning", o) :
            o \in {p \in ahead : risk[p].late \/ slack(p) < Alerting.likelyLateSlack}}

OverdueAlerts(risk) ==
    {Alert("critical", o) :
        o \in {p \in DOMAIN risk : risk[p].untilDue # None /\ risk[p].untilDue < 0}}

SlaBreachAlerts(v) ==
    {Alert(IF v.results[o].sla >= Profile.sla.breach THEN "critical" ELSE "high", o) :
        o \in {p \in DOMAIN v.results : v.results[p].sla >= Alerting.slaImminent}}

\* Planned to have begun a while ago, and not begun.
BehindScheduleAlerts(v, risk) ==
    LET missed(e) == /\ Known(e.step, v.s.operation)
                     /\ v.s.operation[e.step].status \notin {"in_progress", "completed"}
                     /\ v.t - e.start > Alerting.behind
    IN  {Alert(IF risk[o].atRisk THEN "high" ELSE "warning", o) :
            o \in {p \in DOMAIN risk : \E e \in EntriesOf(v, p) : missed(e)}}

StarvationAlerts(v) ==
    {Alert(IF v.results[o].risk = "critical" THEN "critical" ELSE "high", o) :
        o \in {p \in OpenOrders(v.s) :
                 /\ v.s.order[p].received # None /\ ~OrderStarted(v.s, p)
                 /\ v.t - v.s.order[p].received >= Alerting.starvationDays * DayLength}}

DowntimeSeverity(machine, t) ==
    LET active   == \E w \in machine.downtime : t \in HoursOf(w)
        upcoming == \E w \in machine.downtime : t < w[1] /\ w[1] <= t + Alerting.lookahead
    IN  IF machine.status \in {"down", "offline"} THEN "critical"
        ELSE IF machine.status = "maintenance" THEN "warning"
        ELSE IF active THEN "high" ELSE IF upcoming THEN "warning" ELSE None

MachineDowntimeAlerts(v) ==
    {Alert(DowntimeSeverity(v.s.machine[m], v.t), m) :
        m \in {n \in DOMAIN v.s.machine : DowntimeSeverity(v.s.machine[n], v.t) # None}}

\* blocked: pairs of a resource and an order that waits for it.
ShortageAlerts(v, blocked) ==
    LET limit   == v.t + Alerting.shortageDays * DayLength
        due(o)  == v.s.order[o].due
        soon    == {b \in blocked : due(b[2]) # None /\ due(b[2]) <= limit}
        today   == LocalDate(v.s, v.t)
        urgent(k) == \E b \in soon : b[1] = k /\ LocalDate(v.s, due(b[2])) <= today
    IN  {Alert(IF urgent(k) THEN "critical" ELSE "high", k) : k \in {b[1] : b \in soon}}

MaterialShortageAlerts(v) ==
    ShortageAlerts(v, {<<Default(NeededMaterial(v.s, o), "unknown"), o>> : o \in WaitingForMaterial(v)})

ToolShortageAlerts(v) ==
    LET tools(o) == IF NeededTools(v.s, o) = {} THEN {"unknown"} ELSE MissingTools(v.s, o, v.t)
    IN  ShortageAlerts(v, UNION {{<<k, o>> : k \in tools(o)} : o \in WaitingForTooling(v)})

CapacityOverloadAlerts(v, capacity) ==
    LET over == {r \in capacity.rows : /\ Required(r) > 0
                                       /\ Utilization(Required(r), r.available) >= Alerting.overloadPct}
    IN  {Alert(IF r.available < Required(r) THEN "high" ELSE "warning",
               <<r.key, LocalDate(v.s, r.period[1])>>) : r \in over}

BottleneckAlerts(bottlenecks) ==
    {Alert(IF b.severity = "medium" THEN "warning" ELSE b.severity, b.resource) : b \in bottlenecks}

DataQualityAlerts(v) ==
    {Alert("high", i.code) : i \in {j \in v.issues : j.blocking}}

\* By type; what is announced twice under one key counts once.
EvaluateAlerts(v, risk) ==
    [ORDER_LIKELY_LATE |-> LikelyLateAlerts(v, risk), ORDER_OVERDUE |-> OverdueAlerts(risk),
     MACHINE_DOWNTIME |-> MachineDowntimeAlerts(v), MATERIAL_SHORTAGE |-> MaterialShortageAlerts(v),
     TOOL_SHORTAGE |-> ToolShortageAlerts(v),
     CAPACITY_OVERLOAD |-> CapacityOverloadAlerts(v, Capacity(v, "machine_group", "week")),
     BOTTLENECK |-> BottleneckAlerts(FindBottlenecks(v, risk)), SLA_BREACH_RISK |-> SlaBreachAlerts(v),
     PRODUCTION_BEHIND_SCHEDULE |-> BehindScheduleAlerts(v, risk),
     STARVATION |-> StarvationAlerts(v), DATA_QUALITY |-> DataQualityAlerts(v)]

-----------------------------------------------------------------------------
\* AnalyticsService.live
LiveView == ViewOf(plant, plan, report, runs > 0, filed, now)

(* No hour of work is lost or counted twice between resources, weeks and    *)
(* days: machines and their groups add up to the same planned hours, days   *)
(* to the same as weeks, no machine is planned for more than it works, and  *)
(* work that is neither planned nor withheld is required somewhere, beyond  *)
(* the horizon, or reported as not allocated (compute_capacity).            *)
DemandIsConserved ==
    LET wanted == {x \in PendingSteps(plant) \ {e.step : e \in plan} :
                     /\ StepHours(plant, x) # None
                     /\ plant.operation[x].order \notin Unschedulable(plant, now)}
        inside(e) == WorkingHours(plant, e.machine)
                       \cap HoursOf(<<Larger(e.start, now), Smaller(e.end, now + Alerting.days * DayLength)>>)
        Conserved(c, d) ==
            /\ Total(c.rows, LAMBDA r : r.scheduled) = Total(plan, LAMBDA e : Cardinality(inside(e)))
            /\ Total(c.rows, LAMBDA r : r.estimated) + c.unallocated + c.beyond
                 = Total(wanted, LAMBDA x : StepHours(plant, x))
            /\ d = "machine" => \A r \in c.rows :
                    Known(r.key, plant.machine) => NoReturnKnown(plant, r.key, now) \/ r.scheduled <= r.available
        ConservedIn(v) == \A d \in {"machine", "machine_group"}, p \in {"day", "week"} :
                              Conserved(Capacity(v, d, p), d)
    IN  ConservedIn(LiveView)

(* Whoever is late hears of it once: an overdue order raises exactly the    *)
(* overdue alert, another late one exactly the likely-late one, and each    *)
(* order the data-quality dashboard counts finds its reason among them      *)
(* (alert_rules_*.py).                                                      *)
LateOrdersAnnounced ==
    LET overdue(o)  == plant.order[o].due # None /\ plant.order[o].due < now
        Announced(risk, alerts) ==
            LET on(o, type) == {a \in alerts[type] : a.entity = o}
            IN  \A o \in OpenOrders(plant) :
                    LET late == on(o, "ORDER_LIKELY_LATE")
                        over == on(o, "ORDER_OVERDUE")
                    IN  /\ overdue(o) => over # {} /\ late = {}
                        /\ risk[o].late /\ ~overdue(o) => over = {} /\ late = {Alert("high", o)}
        Explained(alerts, board) ==
            \A o \in DOMAIN board : Alert("high", board[o]) \in alerts["DATA_QUALITY"]
        AnnouncedOn(risk, alerts) == Announced(risk, alerts) /\ Explained(alerts, Dashboard(plant, filed))
        AnnouncedBy(v, risk) == AnnouncedOn(risk, EvaluateAlerts(v, risk))
        AnnouncedIn(v)       == AnnouncedBy(v, OrdersAtRisk(v))
    IN  AnnouncedIn(LiveView)
=============================================================================
