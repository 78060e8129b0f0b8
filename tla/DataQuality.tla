----------------------------- MODULE DataQuality -----------------------------
(***************************************************************************)
(* The data-quality engine (engines/data_quality): what is wrong with the   *)
(* ERP's records in a snapshot s at instant t, and which open orders must   *)
(* not be planned because of it.  A rule gives a set of issues; an issue    *)
(* concerns an order, and blocks it or is a warning.  Texts, field names    *)
(* and issues on master data alone are left out.                            *)
(***************************************************************************)
EXTENDS Priority

CONSTANT Limits  \* the DataQualityConfig: which toggles block, and what is plausible

-----------------------------------------------------------------------------
(* base.py                                                                 *)

DefaultBlocking ==
    {"MISSING_DUE_DATE", "MISSING_CYCLE_TIME", "MISSING_MACHINE_ASSIGNMENT", "MISSING_MATERIAL",
     "NEGATIVE_QUANTITY", "IMPOSSIBLE_PRODUCTION_TIME", "CONFLICTING_MACHINE_CAPABILITY",
     "INVALID_ROUTING", "MISSING_OPERATIONS"}

Toggled == {"MISSING_DUE_DATE", "MISSING_CYCLE_TIME", "MISSING_SETUP_TIME",
            "MISSING_MACHINE_ASSIGNMENT"}

BlockingCodes == (DefaultBlocking \ Toggled) \cup (Toggled \cap Limits.blocking)

Issue(o, code)   == [order |-> o, code |-> code, blocking |-> code \in BlockingCodes]
Warning(o, code) == [order |-> o, code |-> code, blocking |-> FALSE]

OperationsOf(s, o) == {x \in DOMAIN s.operation : s.operation[x].order = o}

\* The steps that are left of the open orders.
PendingSteps(s) == UNION {PendingOperations(s, o) : o \in OpenOrders(s)}

\* A step in, issues about its order out.
OnSteps(s, code, wrong(_, _)) ==
    {Issue(s.operation[x].order, code) :
        x \in {y \in PendingSteps(s) : wrong(s.operation[y], s.order[s.operation[y].order])}}

OnOrders(S, code, wrong(_)) == {Issue(o, code) : o \in {p \in S : wrong(p)}}

AsWarnings(issues) == {Warning(i.order, i.code) : i \in issues}

-----------------------------------------------------------------------------
(* rules_orders.py                                                         *)

MissingDueDate(s) == OnOrders(OpenOrders(s), "MISSING_DUE_DATE", LAMBDA o : s.order[o].due = None)

InvalidDate(s, t) ==
    OnOrders(DOMAIN s.order, "INVALID_DATE", LAMBDA o :
        s.order[o].due # None /\ \/ s.order[o].due > t + Limits.ahead
                                 \/ s.order[o].received # None /\ s.order[o].due < s.order[o].received)

NegativeQuantity(s) ==
    LET Negative(r) == r.quantity < 0 \/ r.completed < 0
        Exceeded(r) == r.quantity >= 0 /\ r.completed > r.quantity
        steps(o)    == {s.operation[x] : x \in OperationsOf(s, o)}
    IN  OnOrders(DOMAIN s.order, "NEGATIVE_QUANTITY", LAMBDA o :
            Negative(s.order[o]) \/ \E r \in steps(o) : Negative(r))
        \cup AsWarnings(OnOrders(DOMAIN s.order, "NEGATIVE_QUANTITY", LAMBDA o :
            \/ Exceeded(s.order[o]) \/ \E r \in steps(o) : Exceeded(r)
            \/ s.order[o].quantity = 0 /\ s.order[o].status \notin ClosedStatuses))

\* One line of the ERP twice, or open lines that look alike.
DuplicateOrder(s) ==
    LET same(o, p) == \/ s.order[o].line # None /\ s.order[o].line = s.order[p].line
                      \/ /\ {o, p} \subseteq OpenOrders(s)
                         /\ s.order[o].due # None /\ s.order[o].due = s.order[p].due
                         /\ s.order[o].customer = s.order[p].customer
                         /\ s.order[o].part = s.order[p].part
                         /\ s.order[o].quantity = s.order[p].quantity
    IN  OnOrders(DOMAIN s.order, "DUPLICATE_ORDER",
                 LAMBDA o : \E p \in DOMAIN s.order \ {o} : same(o, p))

IncorrectStatus(s) ==
    LET Contradicts(op) ==
            \/ op.status = "completed" /\ op.completed < op.quantity
            \/ /\ op.status \notin {"completed", "cancelled", "on_hold"}
               /\ op.quantity > 0 /\ op.completed >= op.quantity
        wrong(o) ==
            LET order == s.order[o]
                steps == {s.operation[x] : x \in OperationsOf(s, o)}
            IN  \/ order.status \in {"completed", "packed", "shipped"} /\ order.pending > 0
                \/ /\ order.status = "in_production" /\ steps # {}
                   /\ \A op \in steps : op.status # "in_progress"
                \/ /\ order.status \notin ClosedStatuses \cup {"on_hold"}
                   /\ steps # {} /\ \A op \in steps : IsDone(op)
                \/ \E op \in steps : Contradicts(op)
    IN  OnOrders(DOMAIN s.order, "INCORRECT_STATUS", wrong)

MissingCustomer(s) ==
    OnOrders(OpenOrders(s), "MISSING_CUSTOMER", LAMBDA o :
        ~Known(s.order[o].customer, s.customer) \/ ~s.customer[s.order[o].customer].active)

-----------------------------------------------------------------------------
(* rules_operations.py                                                     *)

MissingCycleTime(s) ==
    OnSteps(s, "MISSING_CYCLE_TIME",
            LAMBDA op, order : op.cycle = None /\ DOMAIN op.cycles = {} /\ order.cycle = None)

MissingSetupTime(s) ==
    OnSteps(s, "MISSING_SETUP_TIME", LAMBDA op, order : op.setup = None /\ order.setup = None)

InGroup(s, g) == {m \in DOMAIN s.machine : g # None /\ s.machine[m].group = g}

\* Every machine a step or its order names, one by one or by its group.
MachineRefs(s, op, order) ==
    (({op.machine} \cup op.eligible) \cap DOMAIN s.machine) \cup InGroup(s, op.group)
        \cup IF IsPrimary(s, op) THEN ({order.required} \cap DOMAIN s.machine) \cup InGroup(s, order.group)
             ELSE {}

MissingMachineAssignment(s) ==
    OnSteps(s, "MISSING_MACHINE_ASSIGNMENT", LAMBDA op, order : MachineRefs(s, op, order) = {})

MaterialProcesses == {"cnc", "additive"}

MissingMaterial(s) ==
    OnSteps(s, "MISSING_MATERIAL", LAMBDA op, order :
        /\ op.process \in MaterialProcesses \/ Default(op.perUnit, 0) > 0
        /\ MaterialOf(s, op) = None)

\* The step's own cycle time, else the shortest a machine has for it, else the order's estimate.
ResolveCycle(op, order) ==
    IF op.cycle # None THEN op.cycle
    ELSE IF DOMAIN op.cycles # {} THEN LeastOf({op.cycles[m] : m \in DOMAIN op.cycles})
    ELSE order.cycle

\* What is left of an order, by its own steps.
RoutedHours(s, o) ==
    LET order     == s.order[o]
        hours(op) == Larger(0, Default(op.setup, Default(order.setup, 0)))
                       + Larger(0, Default(ResolveCycle(op, order), 0)) * op.pending
    IN  MapThenSumSet(LAMBDA x : hours(s.operation[x]), PendingOperations(s, o))

\* Negative, or so long that the unit must be wrong: a step's cycle time, on any machine,
\* or its setup, or the order's estimate; the total of what is left only when no step is
\* even doubtful.
ImpossibleProductionTime(s) ==
    LET Implausible(cycle) == cycle < 0 \/ cycle > Limits.cycle
        cycles(op)   == {op.cycles[m] : m \in DOMAIN op.cycles} \cup ({op.cycle} \ {None})
        blocked(op)  == (\E c \in cycles(op) : Implausible(c)) \/ Default(op.setup, 0) < 0
        doubtful(op) == 0 \in cycles(op) \/ Default(op.setup, 0) > Limits.setup
        steps(o)     == {s.operation[x] : x \in PendingOperations(s, o)}
    IN  OnOrders(OpenOrders(s), "IMPOSSIBLE_PRODUCTION_TIME", LAMBDA o :
            \/ \E op \in steps(o) : blocked(op)
            \/ s.order[o].cycle # None /\ Implausible(s.order[o].cycle)
            \/ (\A op \in steps(o) : ~doubtful(op)) /\ RoutedHours(s, o) > Limits.total)
        \cup AsWarnings(OnOrders(OpenOrders(s), "IMPOSSIBLE_PRODUCTION_TIME",
                                 LAMBDA o : \E op \in steps(o) : doubtful(op)))

\* The machines a step names one by one, or its order where the step is its own process.
NamedMachines(s, op, order) ==
    (({op.machine} \cup op.eligible) \cap DOMAIN s.machine)
      \cup IF op.machine = None /\ IsPrimary(s, op) THEN {order.required} \cap DOMAIN s.machine
           ELSE {}

\* Machine m cannot do the step's process, or not with its material or tools.
Unfit(s, op, m) ==
    LET k == MaterialOf(s, op)
    IN  \/ op.process \notin s.machine[m].processes
        \/ k # None /\ s.machine[m].materials # {} /\ k \notin s.machine[m].materials
        \/ \E tool \in op.tools : /\ Known(tool, s.tool) /\ s.tool[tool].machines # {}
                                  /\ m \notin s.tool[tool].machines

\* No machine of the group can do the step's process.
UnfitGroup(s, op, g) ==
    InGroup(s, g) # {} /\ \A m \in InGroup(s, g) : op.process \notin s.machine[m].processes

\* The machines named one by one cannot do it: a warning as long as one of them can.
ConflictingMachineCapability(s) ==
    OnSteps(s, "CONFLICTING_MACHINE_CAPABILITY", LAMBDA op, order :
        NamedMachines(s, op, order) # {} /\ \A m \in NamedMachines(s, op, order) : Unfit(s, op, m))
    \cup AsWarnings(OnSteps(s, "CONFLICTING_MACHINE_CAPABILITY", LAMBDA op, order :
        \/ \E m \in NamedMachines(s, op, order) : Unfit(s, op, m)
        \/ UnfitGroup(s, op, op.group)
        \/ IsPrimary(s, op) /\ UnfitGroup(s, op, order.group)))

-----------------------------------------------------------------------------
(* rules_routing.py                                                        *)

\* Depth first over the graph in ascending order.  A step back to the path tells that
\* the path from there on is a cycle; what has been left is not looked at again.
Search(successors) ==
    LET nodes == UNION {{n} \cup successors[n] : n \in DOMAIN successors}
        search[found \in [seen : SUBSET nodes, cycle : SUBSET nodes], path \in Seq(nodes)] ==
            LET node == path[Len(path)]
                Follow(acc, next) ==
                    IF \E i \in DOMAIN path : path[i] = next
                    THEN [acc EXCEPT !.cycle = @ \cup {path[i] : i \in
                            (CHOOSE j \in DOMAIN path : path[j] = next) .. Len(path)}]
                    ELSE IF next \in acc.seen THEN acc
                    ELSE search[acc, Append(path, next)]
            IN  FoldLeft(Follow, [found EXCEPT !.seen = @ \cup {node}],
                         IF node \in DOMAIN successors THEN Ascending(successors[node]) ELSE <<>>)
    IN  search

FindCycleMembers(successors) ==
    LET Visit(found, root) == IF root \in found.seen THEN found
                              ELSE Search(successors)[found, <<root>>]
    IN  FoldLeft(Visit, [seen |-> {}, cycle |-> {}], Ascending(DOMAIN successors)).cycle

\* What an open order waits for, as far as the snapshot knows it.
DependencyGraph(s) ==
    [o \in {p \in OpenOrders(s) : s.order[p].dependsOn # {}} |-> s.order[o].dependsOn \cap DOMAIN s.order]

PrerequisiteGraph(s) ==
    LET steps == UNION {OperationsOf(s, o) : o \in OpenOrders(s)}
        links == {x \in steps : LET p == s.operation[x].prerequisite
                                IN  p # x /\ Known(p, s.operation)}
    IN  [x \in links |-> {s.operation[x].prerequisite}]

InvalidRouting(s) ==
    LET WellPlaced(x) ==
            LET op == s.operation[x]
            IN  op.prerequisite # None =>
                    /\ op.prerequisite # x /\ op.prerequisite \in DOMAIN s.operation
                    /\ s.operation[op.prerequisite].order = op.order
                    /\ s.operation[op.prerequisite].sequence < op.sequence
        routed == {o \in OpenOrders(s) : OperationsOf(s, o) # {}}
    IN  OnOrders(OpenOrders(s) \ routed, "MISSING_OPERATIONS", LAMBDA o : TRUE)
        \cup OnOrders(routed, "INVALID_ROUTING", LAMBDA o :
                \/ \E x \in OperationsOf(s, o) : ~WellPlaced(x)
                \/ \E x, y \in OperationsOf(s, o) :
                        x # y /\ s.operation[x].sequence = s.operation[y].sequence)
        \cup {Issue(s.operation[x].order, "INVALID_ROUTING") :
                x \in FindCycleMembers(PrerequisiteGraph(s))}
        \cup {Issue(o, "INVALID_ROUTING") : o \in FindCycleMembers(DependencyGraph(s))}

UnknownReference(s) ==
    LET groups == {s.machine[m].group : m \in DOMAIN s.machine} \cup {None}
        lost(names, f) == names \ (DOMAIN f \cup {None}) # {}
    IN  OnOrders(OpenOrders(s), "UNKNOWN_REFERENCE", LAMBDA o :
            LET r == s.order[o]
            IN  \/ lost({r.material}, s.material) \/ lost(r.tools, s.tool)
                \/ lost({r.required}, s.machine)  \/ lost(r.dependsOn, s.order)
                \/ r.group \notin groups)
        \cup OnSteps(s, "UNKNOWN_REFERENCE", LAMBDA op, order :
                \/ lost({op.material}, s.material) \/ lost(op.tools, s.tool)
                \/ lost({op.machine} \cup op.eligible \cup DOMAIN op.cycles, s.machine)
                \/ op.group \notin groups)

-----------------------------------------------------------------------------
(* engine.py                                                               *)

Issues(s, t) ==
    MissingDueDate(s) \cup InvalidDate(s, t) \cup NegativeQuantity(s) \cup DuplicateOrder(s)
        \cup IncorrectStatus(s) \cup MissingCustomer(s) \cup MissingCycleTime(s)
        \cup MissingSetupTime(s) \cup MissingMachineAssignment(s) \cup MissingMaterial(s)
        \cup ImpossibleProductionTime(s) \cup ConflictingMachineCapability(s)
        \cup InvalidRouting(s) \cup UnknownReference(s)

Unschedulable(s, t) == {i.order : i \in {j \in Issues(s, t) : j.blocking}} \cap OpenOrders(s)

DashboardPrecedence ==
    <<"MISSING_OPERATIONS", "INVALID_ROUTING", "MISSING_MACHINE_ASSIGNMENT",
      "CONFLICTING_MACHINE_CAPABILITY", "MISSING_CYCLE_TIME", "IMPOSSIBLE_PRODUCTION_TIME",
      "MISSING_SETUP_TIME", "MISSING_MATERIAL", "MISSING_DUE_DATE", "INVALID_DATE",
      "NEGATIVE_QUANTITY", "INCORRECT_STATUS", "DUPLICATE_ORDER", "MISSING_CUSTOMER",
      "UNKNOWN_REFERENCE">>

\* The reason an order is counted under on the dashboard: the defect to mend first.
PrimaryReason(issues, o) ==
    DashboardPrecedence[LeastOf({i \in DOMAIN DashboardPrecedence :
        \E j \in issues : j.order = o /\ j.blocking /\ j.code = DashboardPrecedence[i]})]

-----------------------------------------------------------------------------
(* db/repositories/data_quality.py and services/data_quality_service.py     *)

\* The issues on file are the rows of the latest run that has any: a run that finds
\* nothing stores no row, and the one before stays the latest.
Refile(filed, issues) == IF issues = {} THEN filed ELSE issues

\* summary: the orders that cannot be scheduled, by the defect to mend first.
Dashboard(s, filed) ==
    [o \in {i.order : i \in {j \in filed : j.blocking}} \cap OpenOrders(s) |-> PrimaryReason(filed, o)]
=============================================================================
