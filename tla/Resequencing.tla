----------------------------- MODULE Resequencing -----------------------------
(***************************************************************************)
(* CpSatScheduler: the rule-based run of ListScheduler, after which the    *)
(* machines with the most planned work are re-sequenced one by one.  The   *)
(* solver hands back an order of the machine's movable jobs; they are      *)
(* placed again in that order through the calendar, and the machine keeps  *)
(* its new entries or the ones it had.                                     *)
(*                                                                         *)
(* Free choices: the order the solver finds (its objective and its time    *)
(* limit), and whether the quality of the schedule drops.  The solver's    *)
(* own constraints only make it find fewer orders; what _rebuild refuses   *)
(* is refused here.                                                        *)
(***************************************************************************)
EXTENDS ListScheduler, FiniteSetsExt

CONSTANT TopMachines  \* top_k_machines

(* A machine takes work from now on, or when it becomes available          *)
(* (MachineState.next_free).                                               *)
ASSUME ResequencingAssumption ==
    /\ TopMachines \in Nat
    /\ \A i \in Inputs : \A m \in Machines : Now <= i.floor[m]

VARIABLES
    moved,   \* operation -> the entry it was re-placed with, or NotPlaced
    looked,  \* machines that were looked at
    crashed  \* a calendar that does not work any more ended the run

rvars == <<vars, moved, looked, crashed>>

(* improved: the entries as they stand.                                    *)
Plan == [op \in Ops |-> IF moved[op] = NotPlaced THEN placed[op] ELSE moved[op]]

Planned(m) == {op \in Ops : Plan[op].machine = m}

(* Entries of the previous schedule and of slot locks are locked.          *)
Fixed(op) == placed[op].kept \/ SlotLocks(OrderOf(op)) # {}

Movable(m) == {op \in Planned(m) : ~ Fixed(op)}

Load(m) ==
    LET minutes(op) == WorkBetween(m, placed[op].start, placed[op].end)
        planned == {op \in Ops : placed[op].machine = m}
    IN  MapThenSumSet(minutes, planned)

(* targets: the machines by their load in the rule-based schedule.         *)
Targets ==
    {m \in Machines \ looked :
        /\ Cardinality(looked) < TopMachines
        /\ \E op \in Ops : placed[op].machine = m
        /\ \A k \in Machines \ looked : Load(k) <= Load(m)}

-----------------------------------------------------------------------------
(* _jobs: what binds a movable job.                                        *)
Neighbour(op, step) ==
    LET o == OrderOf(op)
        i == CHOOSE k \in DOMAIN Route[o] : Route[o][k] = op
    IN  IF i + step \in DOMAIN Route[o] THEN Route[o][i + step] ELSE None

MachineOf(op) == IF op = None THEN None ELSE Plan[op].machine

(* same_machine_pred                                                       *)
FollowsOn(op, m) == MachineOf(Neighbour(op, -1)) = m /\ ~ Fixed(Neighbour(op, -1))

Anchor(m) ==
    CHOOSE t \in {Now} \union {Plan[op].start : op \in Planned(m)} :
        t <= Now /\ \A op \in Planned(m) : t <= Plan[op].start

(* release_w: the working minutes until the operation before it, planned   *)
(* elsewhere or fixed, has ended.                                          *)
ReleaseWork(op, m) ==
    IF MachineOf(Neighbour(op, -1)) = None \/ FollowsOn(op, m) THEN 0
    ELSE WorkBetween(m, Anchor(m), Plan[Neighbour(op, -1)].end)

(* Mutant of Bound: only the next operation of the same machine binds.     *)
BoundHere(op, m) == MachineOf(Neighbour(op, 1)) = m

(* deadline_w: the operation that follows is planned on another machine.   *)
Bound(op, m) == MachineOf(Neighbour(op, 1)) \notin {None, m}

(* initial.next_free: after the fixed entries.  (Where the machine stands  *)
(* still until it returns, its calendar says so.)                          *)
FirstFree(m) ==
    CHOOSE t \in {in.floor[m]} \union {Plan[op].end : op \in Planned(m) \ Movable(m)} :
        in.floor[m] <= t /\ \A op \in Planned(m) \ Movable(m) : Plan[op].end <= t

Blocked(m) ==
    {[start |-> w.start, end |-> w.end] : w \in {v \in in.windows : v.machine = m}}
      \union {[start |-> Plan[op].start, end |-> Plan[op].end] : op \in Planned(m) \ Movable(m)}

-----------------------------------------------------------------------------
(* The orders the solver may return that are not the present one.          *)
Sequences(m) ==
    {s \in [1 .. Cardinality(Movable(m)) -> Movable(m)] :
        /\ \A op \in Movable(m) : \E i \in DOMAIN s : s[i] = op
        /\ \E i, j \in DOMAIN s : i < j /\ Plan[s[j]].start < Plan[s[i]].start}

(* _rebuild: one job more, after the state the jobs before it leave.       *)
Replaced(m, op, state) ==
    {[machine |-> m, start |-> p.start, end |-> p.end, kept |-> FALSE] :
       p \in UNION {Spans(m, Later(state.free, t), SetupMinutes(op, state.family) + Run[op],
                          Blocked(m)) : t \in Ends(m, FirstFree(m), ReleaseWork(op, m))}}

(* Its predecessor comes later, or it ends after what follows relies on.   *)
Refused(m, op, state, entry) ==
    \/ FollowsOn(op, m) /\ Neighbour(op, -1) \notin DOMAIN state.entries
    \/ Bound(op, m) /\ entry.end > Plan[op].end

(* The states _rebuild goes through; a set that is empty stands for a      *)
(* return of None, or for the calendar's error.                            *)
Rebuild(m, s) ==
    LET after[i \in 0 .. Len(s)] ==
          IF i = 0
          THEN {[free |-> FirstFree(m), family |-> in.family[m], entries |-> << >>]}
          ELSE UNION {{[free |-> Later(st.free, e.end), family |-> Family[s[i]],
                        entries |-> [op \in DOMAIN st.entries \union {s[i]} |->
                                       IF op = s[i] THEN e ELSE st.entries[op]]] :
                         e \in {x \in Replaced(m, s[i], st) : ~ Refused(m, s[i], st, x)}} :
                      st \in after[i - 1]}
    IN  after

Resequenced(m, s) == {st.entries : st \in Rebuild(m, s)[Len(s)]}

CalendarFails(m, s) ==
    \E i \in DOMAIN s : \E st \in Rebuild(m, s)[i - 1] : Replaced(m, s[i], st) = {}

-----------------------------------------------------------------------------
(* A machine keeps its entries: too few jobs, no solution, the order it    *)
(* had, no rebuild, or a quality that would drop.                          *)
KeepSequence ==
    /\ status = "done" /\ ~ crashed
    /\ \E m \in Targets : looked' = looked \union {m}
    /\ UNCHANGED <<vars, moved, crashed>>

Resequence ==
    /\ status = "done" /\ ~ crashed
    /\ \E m \in Targets :
        /\ looked' = looked \union {m}
        /\ \E s \in Sequences(m) : \E entries \in Resequenced(m, s) :
             moved' = [op \in Ops |-> IF op \in DOMAIN entries THEN entries[op] ELSE moved[op]]
    /\ UNCHANGED <<vars, crashed>>

ResequencingFails ==
    /\ status = "done" /\ ~ crashed
    /\ \E m \in Targets : \E s \in Sequences(m) : CalendarFails(m, s)
    /\ crashed' = TRUE
    /\ UNCHANGED <<vars, moved, looked>>

RuleBasedStep == Next /\ UNCHANGED <<moved, looked, crashed>>

CpSatInit ==
    /\ Init
    /\ moved = [op \in Ops |-> NotPlaced]
    /\ looked = {}
    /\ crashed = FALSE

CpSatNext == RuleBasedStep \/ KeepSequence \/ Resequence \/ ResequencingFails

CpSatSpec == CpSatInit /\ [][CpSatNext]_rvars /\ WF_rvars(CpSatNext)

-----------------------------------------------------------------------------
Overlap(a, b) == a.start < b.end /\ b.start < a.end

(* An operation that ended before the next one of its route began still    *)
(* does.  (Said but of a next operation that is fixed on the machine of    *)
(* the first: nothing in _jobs binds the two.)                             *)
RouteKept(op, next) ==
    next # None /\ Plan[op] # NotPlaced /\ Plan[next] # NotPlaced
      /\ ~ (Fixed(next) /\ MachineOf(next) = MachineOf(op))
      /\ placed[op].end <= placed[next].start
    => Plan[op].end <= Plan[next].start

(* The plan stays sound however many machines are re-sequenced, each from  *)
(* the entries the ones before left: nothing is double booked, new work    *)
(* keeps out of the windows reserved for others, and no operation          *)
(* overtakes the one before it in its route, which another machine may     *)
(* have moved meanwhile (CpSatScheduler.schedule, _jobs, _rebuild).        *)
PlanStaysSound ==
    LET new == {op \in Ops : Plan[op] # NotPlaced /\ ~ Plan[op].kept}
    IN  /\ \A op \in new : \A q \in Ops \ {op} :
             Plan[q].machine = Plan[op].machine => ~ Overlap(Plan[op], Plan[q])
        /\ \A op \in new : \A w \in in.windows :
             w.machine = Plan[op].machine /\ w.order # OrderOf(op) => ~ Overlap(w, Plan[op])
        /\ \A op \in Ops : RouteKept(op, Neighbour(op, 1))
=============================================================================
