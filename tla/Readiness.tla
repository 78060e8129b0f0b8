------------------------------ MODULE Readiness ------------------------------
(***************************************************************************)
(* Can an order run now, and where?  The rules of engines/constraints: the  *)
(* hard constraints between an operation and a machine (hard.py), the       *)
(* machines worth looking at (eligibility.py) and the blockers of an order  *)
(* (readiness.py), as functions of a snapshot s and an instant t.           *)
(*                                                                          *)
(* s.order, s.operation, s.machine, s.material and s.tool map the           *)
(* identifiers to records, s.overrides and s.locks are the planners'        *)
(* overlays.  None stands for what the ERP has not told; what it names may  *)
(* be absent from the snapshot.                                             *)
(***************************************************************************)
EXTENDS Naturals, FiniteSets, SequencesExt

CONSTANT None

Known(x, f) == x # None /\ x \in DOMAIN f

Latest(S, at(_)) == CHOOSE x \in S : \A y \in S : at(y) <= at(x)

-----------------------------------------------------------------------------
(* Orders and operations.                                                  *)

ClosedStatuses == {"completed", "packed", "shipped", "cancelled"}
Schedulable    == {"new", "released", "planned", "scheduled", "material_waiting",
                   "tooling_waiting", "in_production", "partially_completed", "rework"}

IsOpen(s, o) == s.order[o].status \notin ClosedStatuses /\ s.order[o].pending > 0

IsDone(op) == op.status \in {"completed", "cancelled"} \/ op.pending = 0

PendingOperations(s, o) ==
    {x \in DOMAIN s.operation : s.operation[x].order = o /\ ~IsDone(s.operation[x])}

\* The ERP sent no routing: the order itself is the operation.
SynthesizeOperation(s, o) ==
    LET order == s.order[o]
    IN  [order |-> o, sequence |-> 1, process |-> order.process, group |-> order.group,
         eligible |-> {}, machine |-> order.required, status |-> "pending",
         pending |-> order.pending, prerequisite |-> None, material |-> order.material,
         perUnit |-> None, tools |-> order.tools, setup |-> order.setup, cycle |-> order.cycle,
         cycles |-> <<>>, family |-> None]

NextOperation(s, o) ==
    IF PendingOperations(s, o) = {} THEN SynthesizeOperation(s, o)
    ELSE s.operation[CHOOSE x \in PendingOperations(s, o) :
            \A y \in PendingOperations(s, o) : s.operation[x].sequence <= s.operation[y].sequence]

\* What the order requires of machines and tools concerns its own process.
IsPrimary(s, op) ==
    s.order[op.order].process = "other" \/ op.process = s.order[op.order].process

-----------------------------------------------------------------------------
(* Machines in time.                                                       *)

\* One pass over the downtime in the order of its starts.
MachineAvailableAt(machine, t) ==
    LET Skip(u, w) == IF w[1] <= u /\ u < w[2] THEN w[2] ELSE u
    IN  FoldLeft(Skip, IF machine.from > t THEN machine.from ELSE t,
                 SetToSortSeq(machine.downtime, LAMBDA a, b : a[1] < b[1]))

ReturnsAfter(machine, t) == \E w \in machine.downtime : w[2] > t

Operable(machine) == machine.status \in {"available", "running"}

-----------------------------------------------------------------------------
(* The machine a planner has chosen: the newest lock, else the newest       *)
(* override.                                                                *)

ActiveAt(row, t) == row.active /\ (row.expires = None \/ t < row.expires)

PinningLocks(s, o, t) ==
    {l \in s.locks : /\ ActiveAt(l, t) /\ l.order = o /\ l.machine # None
                     /\ l.kind \in {"ORDER", "MACHINE"}}

PinningOverrides(s, o, t) ==
    {v \in s.overrides : /\ v.order = o /\ v.kind = "LOCK_MACHINE_ASSIGNMENT"
                         /\ v.machine # None /\ ActiveAt(v, t)}

PinnedMachine(s, o, t) ==
    LET pins == IF PinningLocks(s, o, t) # {} THEN PinningLocks(s, o, t)
                ELSE PinningOverrides(s, o, t)
    IN  IF pins = {} THEN None ELSE Latest(pins, LAMBDA p : p.at).machine

-----------------------------------------------------------------------------
(* The hard constraints, each on operation op and machine m.               *)

ProcessCapability(s, op, m) == op.process \in s.machine[m].processes

ExplicitEligibility(s, op, m) ==
    /\ op.eligible = {} \/ m \in op.eligible
    /\ IsPrimary(s, op) => s.order[op.order].required \in {None, m}
    /\ op.status = "in_progress" => op.machine \in {None, m}

RequiredGroup(s, op) ==
    IF op.group # None THEN op.group
    ELSE IF IsPrimary(s, op) THEN s.order[op.order].group ELSE None

MachineGroup(s, op, m) ==
    op.eligible = {} => RequiredGroup(s, op) \in {None, s.machine[m].group}

MaterialOf(s, op) == IF op.material # None THEN op.material ELSE s.order[op.order].material

MaterialCompatibility(s, op, m) ==
    LET k == MaterialOf(s, op)
    IN  k # None =>
            /\ s.machine[m].materials = {} \/ k \in s.machine[m].materials
            /\ Known(k, s.material) => \/ s.material[k].machines = {}
                                       \/ m \in s.material[k].machines

RequiredTooling(s, op) ==
    IF op.tools # {} THEN op.tools
    ELSE IF IsPrimary(s, op) THEN s.order[op.order].tools ELSE {}

ToolingCompatibility(s, op, m) ==
    \A k \in RequiredTooling(s, op) :
        Known(k, s.tool) => s.tool[k].machines = {} \/ m \in s.tool[k].machines

\* Downtime that ends tells when the machine is back, whenever it begins.
MachineOperable(s, m, t) == Operable(s.machine[m]) \/ ReturnsAfter(s.machine[m], t)

\* The part may be turned.
PartSize(s, op, m) ==
    LET part     == s.order[op.order].size
        envelope == s.machine[m].envelope
        Large(d) == SortSeq(d, LAMBDA a, b : a > b)
    IN  part # None /\ envelope # None => \A i \in 1 .. 3 : Large(part)[i] <= Large(envelope)[i]

QuantityRestriction(s, op, m) ==
    /\ s.machine[m].minBatch # None /\ op.pending > 0 => op.pending >= s.machine[m].minBatch
    /\ s.machine[m].maxBatch # None => op.pending <= s.machine[m].maxBatch

\* The pin binds the operations the pinned machine can perform.
LockedMachineAssignment(s, op, m, t) ==
    LET pin == PinnedMachine(s, op.order, t)
    IN  \/ pin \in {None, m}
        \/ Known(pin, s.machine) /\ op.process \notin s.machine[pin].processes

CheckHard(s, op, m, t) ==
    /\ ProcessCapability(s, op, m) /\ ExplicitEligibility(s, op, m) /\ MachineGroup(s, op, m)
    /\ MaterialCompatibility(s, op, m) /\ ToolingCompatibility(s, op, m)
    /\ MachineOperable(s, m, t) /\ PartSize(s, op, m) /\ QuantityRestriction(s, op, m)
    /\ LockedMachineAssignment(s, op, m, t)

\* Only plausible machines are looked at.
CandidateMachines(s, op) ==
    LET required == IF IsPrimary(s, op) THEN s.order[op.order].required ELSE None
    IN  CASE op.eligible # {} -> op.eligible \cap DOMAIN s.machine
          [] op.eligible = {} /\ required # None -> {required} \cap DOMAIN s.machine
          [] op.eligible = {} /\ required = None /\ RequiredGroup(s, op) # None ->
                {m \in DOMAIN s.machine : s.machine[m].group = RequiredGroup(s, op)}
          [] OTHER -> {m \in DOMAIN s.machine : op.process \in s.machine[m].processes}

EligibleMachines(s, op, t) == {m \in CandidateMachines(s, op) : CheckHard(s, op, m, t)}

-----------------------------------------------------------------------------
(* What blocks an order: a state each, and when it is over as far as known. *)
(* When the work waited for ends is left to the scheduler.                  *)

Blocker(state, until) == [state |-> state, until |-> until]

\* The latest of the holds and releases in force decides.
HoldOverride(s, o, t) ==
    LET decisions == {v \in s.overrides : /\ v.order = o /\ ActiveAt(v, t)
                                          /\ v.kind \in {"HOLD_ORDER", "RELEASE_HOLD"}}
        latest == Latest(decisions, LAMBDA v : v.at)
    IN  IF decisions # {} /\ latest.kind = "HOLD_ORDER" THEN latest ELSE None

HoldBlockers(s, o, t) ==
    LET hold == HoldOverride(s, o, t)
    IN  IF s.order[o].onHold \/ s.order[o].status = "on_hold" THEN {Blocker("ON_HOLD", None)}
        ELSE IF hold = None THEN {} ELSE {Blocker("ON_HOLD", hold.expires)}

QualityBlockers(s, o) ==
    IF s.order[o].quality \in {"hold", "failed"} THEN {Blocker("QUALITY_HOLD", None)} ELSE {}

ApprovalBlockers(s, o) ==
    IF s.order[o].drawing THEN {} ELSE {Blocker("WAITING_APPROVAL", None)}

\* The status of the order counts before the stock; what is not known does not block.
MaterialBlockers(s, o, op) ==
    LET k     == MaterialOf(s, op)
        stock == s.material[k]
        need  == op.pending * op.perUnit
    IN  CASE s.order[o].materialStatus \in {"unavailable", "on_order"} ->
                {Blocker("WAITING_MATERIAL", IF Known(k, s.material) THEN stock.receipt ELSE None)}
          [] s.order[o].materialStatus = "available" \/ ~Known(k, s.material)
                \/ op.perUnit = None -> {}
          [] OTHER ->
                IF need <= stock.free THEN {}
                ELSE {Blocker("WAITING_MATERIAL",
                        IF stock.incoming > 0 /\ stock.free + stock.incoming >= need
                        THEN stock.receipt ELSE None)}

ToolingBlockers(s, op, t) ==
    {Blocker("WAITING_TOOLING", IF s.tool[k].from > t THEN s.tool[k].from ELSE None) :
        k \in {j \in RequiredTooling(s, op) : /\ Known(j, s.tool)
                                              /\ ~s.tool[j].usable \/ s.tool[j].from > t}}

DependencyBlockers(s, o, op) ==
    {IF s.order[d].status = "cancelled" THEN Blocker("OTHER_CONSTRAINT", None)
     ELSE Blocker("WAITING_PREVIOUS_OPERATION", None) :
        d \in {e \in s.order[o].dependsOn \cap DOMAIN s.order :
                  s.order[e].status = "cancelled" \/ IsOpen(s, e)}}
    \cup IF Known(op.prerequisite, s.operation) /\ ~IsDone(s.operation[op.prerequisite])
         THEN {Blocker("WAITING_PREVIOUS_OPERATION", None)} ELSE {}

\* back: when the machines there are can work.
MissingMachine(back, t) ==
    IF back = {} THEN {Blocker("MACHINE_UNAVAILABLE", None)}
    ELSE IF t \in back THEN {}
    ELSE {Blocker("MACHINE_UNAVAILABLE", CHOOSE u \in back : \A w \in back : u <= w)}

MachineBlockers(s, op, t) ==
    MissingMachine({MachineAvailableAt(s.machine[m], t) : m \in EligibleMachines(s, op, t)}, t)

Blockers(s, o, t) ==
    LET op == NextOperation(s, o)
    IN  IF ~IsOpen(s, o) THEN {Blocker("OTHER_CONSTRAINT", None)}
        ELSE HoldBlockers(s, o, t) \cup QualityBlockers(s, o) \cup ApprovalBlockers(s, o)
                \cup MaterialBlockers(s, o, op) \cup ToolingBlockers(s, op, t)
                \cup DependencyBlockers(s, o, op) \cup MachineBlockers(s, op, t)

ReadinessPrecedence ==
    <<"ON_HOLD", "QUALITY_HOLD", "WAITING_APPROVAL", "WAITING_MATERIAL", "WAITING_TOOLING",
      "MACHINE_UNAVAILABLE", "WAITING_PREVIOUS_OPERATION", "OTHER_CONSTRAINT", "READY">>

ReadinessState(blockers) ==
    LET states == {b.state : b \in blockers} \cup {"READY"}
    IN  ReadinessPrecedence[CHOOSE i \in 1 .. 9 :
            /\ ReadinessPrecedence[i] \in states
            /\ \A j \in 1 .. i - 1 : ReadinessPrecedence[j] \notin states]
=============================================================================
