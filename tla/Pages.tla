------------------------------- MODULE Pages -------------------------------
(***************************************************************************)
(* The pages planners look at, next to the dashboard of module Analytics:   *)
(* the list of orders (order_query_service.py), the list of machines, one   *)
(* machine and its schedule (machine_query_service.py), and the day view    *)
(* and Gantt chart of the plan (schedule_view_service.py).  Each reads the  *)
(* plan in force, the records and the overlays of the moment for itself,    *)
(* with a window, a grouping and an idea of "on hold" of its own.           *)
(*                                                                          *)
(* Free text search, sorting and the cutting into pages are left out, and   *)
(* so are the minutes of an entry and the filters on stored priorities.     *)
(***************************************************************************)
EXTENDS Analytics

CONSTANTS
    GanttSpan,    \* DEFAULT_GANTT_DAYS, as hours
    MachineSpan   \* DEFAULT_SCHEDULE_WINDOW_HOURS

-----------------------------------------------------------------------------
(* schedule.py, schedule_service.py: the entries of a version.             *)

Meets(w, from, to) == w[1] < to /\ from < w[2]

\* Mutant of Overlapping: only the entries that begin in the window.
OverlappingByStart(entries, from, to) == {e \in entries : from <= e.start /\ e.start < to}

Overlapping(entries, from, to) == {e \in entries : Meets(<<e.start, e.end>>, from, to)}

\* The locks in force on a machine (those modelled have no window of their own).
LocksOf(v, m) == {l \in Locks(v.s, v.t) : l.machine = m}

-----------------------------------------------------------------------------
(* schedule_view_service.py                                                *)

\* One row for each machine asked for, with what stands on it and when it is out of use.
Rows(v, machines, entries, from, to) ==
    [m \in machines |->
        [blocks   |-> {e \in entries : e.machine = m},
         downtime |-> {w \in v.s.machine[m].downtime : Meets(w, from, to)},
         locks    |-> LocksOf(v, m)]]

\* A local day, from midnight to midnight of the plant.
DayView(v, d) ==
    LET from == LocalMidnight(v.s, d)
        to   == LocalMidnight(v.s, d + 1)
    IN  Rows(v, DOMAIN v.s.machine, Overlapping(v.plan, from, to), from, to)

\* All machines, or those of a group; no machine to show is no filter on the entries.
Gantt(v, group, from, to) ==
    LET machines == IF group = None THEN DOMAIN v.s.machine ELSE InGroup(v.s, group)
        entries  == Overlapping(v.plan, from, to)
    IN  Rows(v, machines, IF machines = {} THEN entries ELSE {e \in entries : e.machine \in machines}, from, to)

-----------------------------------------------------------------------------
(* machine_query_service.py                                                *)

\* What a machine has to do, and when it is free: after all its entries, however many gaps.
Load(v, m) ==
    LET entries == {e \in v.plan : e.machine = m}
    IN  [entries |-> Cardinality(entries),
         nextFree |-> GreatestOf({v.t, v.s.machine[m].from} \cup {e.end : e \in entries})]

ListMachines(v, group) ==
    [m \in IF group = None THEN DOMAIN v.s.machine ELSE InGroup(v.s, group) |->
        [load |-> Load(v, m), locks |-> Cardinality(LocksOf(v, m))]]

\* get_machine_detail: what comes next on a machine.
Upcoming(v, m) ==
    {e \in v.plan : e.machine = m /\ e.end > v.t /\ e.start < v.t + MachineSpan}

\* get_machine_schedule, from now on unless another window is asked for.
MachineSchedule(v, m, from, to) ==
    [entries  |-> {e \in Overlapping(v.plan, from, to) : e.machine = m},
     downtime |-> {w \in v.s.machine[m].downtime : Meets(w, from, to)},
     locks    |-> LocksOf(v, m)]

-----------------------------------------------------------------------------
(* order_query_service.py                                                  *)

\* Where the plan puts an order: the machine of its first entry, until its last one ends.
ScheduleInfo(v, o) ==
    IF EntriesOf(v, o) = {} THEN None
    ELSE LET first == CHOOSE e \in EntriesOf(v, o) : \A f \in EntriesOf(v, o) : e.start <= f.start
         IN  [machine |-> first.machine, start |-> first.start,
              end |-> GreatestOf({e.end : e \in EntriesOf(v, o)})]

\* snapshot_service.effective_hold: the flag of the ERP, else the latest decision.
OnHold(v, o) ==
    \/ v.s.order[o].onHold
    \/ LET decisions == {d \in ActiveOverrides(v.s, o, v.t) : d.kind \in {"HOLD_ORDER", "RELEASE_HOLD"}}
       IN  \E d \in decisions : d.kind = "HOLD_ORDER" /\ \A e \in decisions : e.at <= d.at

\* _matches: a machine is asked for by the plan's choice or by the order's own.
Matches(v, o, info, filter) ==
    /\ filter.onHold # None => OnHold(v, o) = filter.onHold
    /\ filter.machine # None =>
          filter.machine \in {v.s.order[o].required} \cup IF info = None THEN {} ELSE {info.machine}

\* list_orders, of the open ones.
ListOrders(v, filter) ==
    {o \in OpenOrders(v.s) : Matches(v, o, ScheduleInfo(v, o), filter)}

\* get_machine_options: where the next step of an open order may go, and where it is put.
MachineOptions(v, o) ==
    [eligible  |-> EligibleMachines(v.s, NextOperation(v.s, o), v.t),
     scheduled |-> IF EntriesOf(v, o) = {} THEN None ELSE LeastOf({e.machine : e \in EntriesOf(v, o)}),
     pinned    |-> PinnedMachine(v.s, o, v.t)]

-----------------------------------------------------------------------------
(* The figures of the dashboard are counted by different code over the same *)
(* orders and tell the same story, however old the plan: the expected share *)
(* of orders on time is that of the on-time report, what is overdue is what *)
(* the risk report says, every order with a late end is among those at      *)
(* risk, orders are scheduled or not, and an order that ends on a day of    *)
(* the trend is in the view of that day, or ends at the midnight it begins  *)
(* with (kpis.py, otd.py, risk.py).                                         *)
DashboardAgrees(v, risk, kpi, otd) ==
    /\ v.has => kpi.expectedOtd = IF otd.total = 0 THEN None ELSE Share(otd.onTime, otd.total)
    /\ kpi.overdue = Cardinality({o \in DOMAIN risk : risk[o].untilDue # None /\ risk[o].untilDue < 0})
    /\ Cardinality({o \in DOMAIN risk : risk[o].late}) <= kpi.atRisk
    /\ \A o \in DOMAIN risk : risk[o].scheduled => risk[o].reason = None /\ EntriesOf(v, o) # {}
    /\ kpi.dueToday + kpi.overdue <= kpi.open /\ kpi.dueToday <= kpi.dueThisWeek
    /\ \A d \in DOMAIN otd.trend :
          LET seen == UNION {DayView(v, d)[m].blocks : m \in DOMAIN v.s.machine}
          IN  otd.trend[d].total <= Cardinality({e.order : e \in seen \cup
                                        {f \in v.plan : f.end = LocalMidnight(v.s, d)}})

(* The day views add up to the hours the capacity report counts for each    *)
(* machine and day, although one starts from midnight and the other from    *)
(* now; the charts of the groups are together that of the plant, each row   *)
(* of it what the machine's own page says; and no hour a row shows as       *)
(* downtime is capacity (ScheduleViewService, compute_capacity).            *)
ChartsAgree(v) ==
    LET working == Tabulated([m \in DOMAIN v.s.machine |-> WorkingHours(v.s, m)])
        to      == v.t + GanttSpan
        groups  == {v.s.machine[m].group : m \in DOMAIN v.s.machine}
        Shown(chart) == UNION {chart[m].blocks : m \in DOMAIN chart}
        Counted(row, day) == row.scheduled = Total(day[row.key].blocks,
                                                   LAMBDA e : EntryHours(working[row.key], e, row.period))
        PlantIs(chart) ==
            /\ Shown(chart) = UNION {Shown(Gantt(v, g, v.t, to)) : g \in groups}
            /\ \A m \in DOMAIN chart : /\ chart[m] = [blocks   |-> MachineSchedule(v, m, v.t, to).entries,
                                                     downtime |-> MachineSchedule(v, m, v.t, to).downtime,
                                                     locks    |-> LocksOf(v, m)]
                                       /\ \A w \in chart[m].downtime : working[m] \cap HoursOf(w) = {}
    IN  /\ PlantIs(Gantt(v, None, v.t, to))
        /\ \A row \in Capacity(v, "machine", "day").rows :
              Known(row.key, v.s.machine) => Counted(row, DayView(v, LocalDate(v.s, row.period[1])))

(* The list of orders tells of an order what the others do: it ends when    *)
(* the risk report says it does, its machine shows it until then, on the    *)
(* last day of it at the latest, and it is on hold exactly when that is     *)
(* what holds it - unless the ERP says so by the status alone.  It has no   *)
(* machine to choose from only when that is why it waits                    *)
(* (OrderQueryService, effective_hold, readiness.py).                       *)
OrdersAgree(v, risk) ==
    LET held   == ListOrders(v, [onHold |-> TRUE, machine |-> None])
        list   == Tabulated(ListMachines(v, None))
        blockers(o) == {b.state : b \in v.results[o].blockers}
        Placed(o, info) ==
            /\ risk[o].projected = info.end
            /\ info.end <= list[info.machine].load.nextFree
            /\ info.end > v.t /\ info.start < v.t + MachineSpan =>
                  \E e \in Upcoming(v, info.machine) : e.order = o
            /\ \E e \in DayView(v, LocalDate(v.s, info.end - 1))[info.machine].blocks : e.order = o
    IN  /\ Total(DOMAIN list, LAMBDA m : list[m].load.entries) = Cardinality(v.plan)
        /\ \A o \in DOMAIN risk :
              /\ risk[o].scheduled => Placed(o, ScheduleInfo(v, o))
              /\ MachineOptions(v, o).eligible = {} => "MACHINE_UNAVAILABLE" \in blockers(o)
              /\ o \in held => "ON_HOLD" \in blockers(o)
              /\ "ON_HOLD" \in blockers(o) /\ v.s.order[o].status # "on_hold" => o \in held

(* What the dashboard, the charts and the lists say of the plan in force    *)
(* and of the orders, each by code of its own, is the same.                 *)
FiguresAgree ==
    LET AgreeOn(v, risk) == /\ DashboardAgrees(v, risk, ExecutiveKpis(v, risk), ProjectedOtd(v))
                            /\ ChartsAgree(v)
                            /\ OrdersAgree(v, risk)
        AgreeIn(v)       == AgreeOn(v, OrdersAtRisk(v))
    IN  AgreeIn(LiveView)
=============================================================================
