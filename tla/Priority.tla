------------------------------ MODULE Priority ------------------------------
(***************************************************************************)
(* What matters first: engines/priority.  The score of an order is the      *)
(* weighted sum of eleven factors (priority/factors) over a context built   *)
(* once from the snapshot (context.py), then what ERP, customer, waiting,   *)
(* expedites and planners add (adjustments.py, engine.py); the rank is the  *)
(* place of the order by its score, with a cap on a customer's share of the *)
(* first places (ranking.py).                                               *)
(*                                                                          *)
(* Scores, weights and shares are whole percentages, and a unit of time is  *)
(* an hour; identifiers of orders and machines are numbers in the order the *)
(* code sorts them by.                                                      *)
(***************************************************************************)
EXTENDS Calendars

CONSTANT Profile   \* the PriorityProfile, as a record of its sections

LeastOf(S)    == CHOOSE x \in S : \A y \in S : x <= y
GreatestOf(S) == CHOOSE x \in S : \A y \in S : y <= x
Larger(a, b)  == IF a > b THEN a ELSE b
Smaller(a, b) == IF a < b THEN a ELSE b
Clamp(x)      == Larger(0, Smaller(100, x))
Ascending(S)  == SetToSortSeq(S, LAMBDA a, b : a < b)
Default(x, d) == IF x = None THEN d ELSE x

OpenOrders(s) == {o \in DOMAIN s.order : IsOpen(s, o)}

-----------------------------------------------------------------------------
(* common.py                                                               *)

\* The piecewise linear function through the anchors, flat beyond both ends.
Interpolate(anchors, x) ==
    LET p == SortSeq(anchors, LAMBDA a, b : a[1] < b[1])
        i == LeastOf({j \in 1 .. Len(p) : x <= p[j][1]})
    IN  CASE x <= p[1][1]      -> p[1][2]
          [] x > p[Len(p)][1]  -> p[Len(p)][2]
          [] OTHER -> p[i - 1][2]
                        + ((p[i][2] - p[i - 1][2]) * (x - p[i - 1][1])) \div (p[i][1] - p[i - 1][1])

\* Half of those at most as large and half of the smaller ones; values: a function.
MidRankPercentile(values, k) ==
    (100 * (Cardinality({j \in DOMAIN values : values[j] < values[k]})
            + Cardinality({j \in DOMAIN values : values[j] <= values[k]})))
        \div (2 * Cardinality(DOMAIN values))

\* The part of a partial function that is known.
KnownValues(value(_), S) == [x \in {y \in S : value(y) # None} |-> value(x)]

-----------------------------------------------------------------------------
(* context.py: when machines are free and orders done.                     *)

\* A machine that is down and not known to return is unknown, as is one that never works.
NextFree(s, m, working, t) ==
    LET base  == MachineAvailableAt(s.machine[m], t)
        hours == {u \in working : u >= base}
    IN  IF (~Operable(s.machine[m]) /\ base <= t) \/ hours = {} THEN None ELSE LeastOf(hours)

BaseSetup(s, op) == Larger(0, Default(op.setup, Default(s.order[op.order].setup, Profile.setup.default)))

\* soft.py: the setup of op on m from what is mounted there, in minutes and by what.
EstimateSetup(s, op, m) ==
    LET base == BaseSetup(s, op)
        k    == MaterialOf(s, op)
    IN  IF op.family # None /\ op.family = s.machine[m].family
        THEN [minutes |-> (base * Profile.setup.sameFamily) \div 100, basis |-> "same_family"]
        ELSE IF k # None /\ k = s.machine[m].material
        THEN [minutes |-> (base * Profile.setup.sameMaterial) \div 100, basis |-> "same_material"]
        ELSE [minutes |-> base,
              basis |-> IF s.machine[m].family = None /\ s.machine[m].material = None
                        THEN "unknown" ELSE "changeover"]

\* The order's own estimate, when the routing does not tell.
OrderLevelHours(s, o) ==
    LET r == s.order[o]
    IN  IF r.hours # None
        THEN IF r.quantity > 0 THEN (Larger(0, r.hours) * r.pending) \div r.quantity ELSE Larger(0, r.hours)
        ELSE IF r.cycle # None THEN Larger(0, Default(r.setup, 0)) + Larger(0, r.cycle) * r.pending
        ELSE None

\* Setup and run of the operations that are left.  An operation runs as long everywhere: a
\* cycle time it has for a machine (op.cycles, which DataQuality judges) is op.cycle here.
RemainingHours(s, o, eligible) ==
    LET left     == PendingOperations(s, o)
        next     == NextOperation(s, o)
        operable == {m \in eligible : Operable(s.machine[m])}
        machine  == LeastOf(IF operable # {} THEN operable ELSE eligible)
        setup(op) == CASE op.status = "in_progress"        -> 0
                       [] op = next /\ eligible # {} /\ op.status # "in_progress"
                                                           -> EstimateSetup(s, op, machine).minutes
                       [] OTHER                            -> BaseSetup(s, op)
        hours    == [x \in left |-> setup(s.operation[x]) + s.operation[x].cycle * s.operation[x].pending]
    IN  IF left = {} \/ \E x \in left : s.operation[x].cycle = None THEN OrderLevelHours(s, o)
        ELSE FoldFunction(LAMBDA a, b : a + b, 0, hours)

\* On the machine that is free first, once the blockers are over as far as known.
ProjectCompletion(remaining, eligible, free, working, blockers, t) ==
    LET known == {m \in eligible : free[m] # None}
        m     == CHOOSE n \in known : \A k \in known :
                    free[n] < free[k] \/ (free[n] = free[k] /\ n <= k)
        start == GreatestOf({t, free[m]} \cup ({b.until : b \in blockers} \ {None}))
        from  == LeastOf({h \in working[m] : h >= start})
    IN  IF remaining = None \/ known = {} THEN None
        ELSE IF ~CanAddWork(working[m], start, Larger(1, remaining)) THEN start + remaining
        ELSE IF remaining = 0 THEN from ELSE AddWork(working[m], start, remaining)

\* The orders that wait for o, directly or not: a search that remembers what it has
\* found, in ascending order, and cuts the cycles of the ERP's data.  The memo has None
\* for the orders the search has not left yet.
Descend(dependents) ==
    LET names == DOMAIN dependents
        descend[memo \in [names -> {None} \cup SUBSET names], o \in names, visiting \in SUBSET names] ==
            LET Visit(acc, d) ==
                    IF d \in visiting \cup {o} THEN acc
                    ELSE LET below == descend[acc.memo, d, visiting \cup {o}]
                         IN  [memo |-> below, found |-> acc.found \cup {d} \cup below[d]]
                all == FoldLeft(Visit, [memo |-> memo, found |-> {}], Ascending(dependents[o]))
            IN  IF memo[o] # None THEN memo ELSE [all.memo EXCEPT ![o] = all.found]
    IN  descend

Descendants(dependents) ==
    FoldLeft(LAMBDA memo, o : Descend(dependents)[memo, o, {}], [o \in DOMAIN dependents |-> None],
             Ascending(DOMAIN dependents))

Dependents(s) == [o \in DOMAIN s.order |-> {d \in DOMAIN s.order : o \in s.order[d].dependsOn}]

DownstreamValue(s, o, below) ==
    LET value == [d \in below \cap OpenOrders(s) |-> Default(s.order[d].value, 0)]
    IN  FoldFunction(LAMBDA a, b : a + b, 0, value)

\* Some order that waits for o has no time left for both.
CriticalPath(s, o, below, remaining, t) ==
    \E d \in below \cap OpenOrders(s) :
        /\ s.order[d].due # None
        /\ remaining[o] # None \/ remaining[d] # None
        /\ s.order[d].due - t <= Default(remaining[o], 0) + Default(remaining[d], 0)

Earlier(s, a, b) ==
    LET due(o) == s.order[o].due
    IN  \/ due(a) # None /\ due(b) = None
        \/ due(a) # None /\ due(b) # None /\ due(a) < due(b)
        \/ due(a) = due(b) /\ a < b

\* The share of the next due orders that have the material and a machine in common.
BatchingShare(s, o, eligible) ==
    LET byDue  == SetToSortSeq(OpenOrders(s), LAMBDA a, b : Earlier(s, a, b))
        window == {byDue[i] : i \in 1 .. Smaller(Profile.fairness.topN, Len(byDue))} \ {o}
        like(p) == LET k == MaterialOf(s, NextOperation(s, o))
                   IN  k # None /\ k = MaterialOf(s, NextOperation(s, p))
    IN  IF window = {} THEN 0
        ELSE (100 * Cardinality({p \in window : like(p) /\ eligible[o] \cap eligible[p] # {}}))
                \div Cardinality(window)

\* The same function, for TLC to compute once and not at every application.
Tabulated(f) == f @@ <<>>

\* What is worked out once for all orders: first what depends on the snapshot only, ...
Groundwork(s, t) ==
    [blockers |-> Tabulated([o \in OpenOrders(s) |-> Blockers(s, o, t)]),
     eligible |-> Tabulated([o \in OpenOrders(s) |-> EligibleMachines(s, NextOperation(s, o), t)]),
     working  |-> Tabulated([m \in DOMAIN s.machine |-> WorkingHours(s, m)]),
     below    |-> Descendants(Dependents(s))]

\* ... then the machines' next free hours and the orders' remaining ones, ...
Loads(s, base, t) ==
    base @@ [free      |-> Tabulated([m \in DOMAIN s.machine |-> NextFree(s, m, base.working[m], t)]),
             remaining |-> Tabulated([o \in OpenOrders(s) |-> RemainingHours(s, o, base.eligible[o])])]

\* ... and what the factors are made of.
ContextOf(s, base, t) ==
    LET open == OpenOrders(s)
    IN  base @@
        [readiness |-> [o \in open |-> ReadinessState(base.blockers[o])],
         projected |-> [o \in open |-> ProjectCompletion(base.remaining[o], base.eligible[o], base.free,
                                                         base.working, base.blockers[o], t)],
         downstream |-> [o \in open |-> DownstreamValue(s, o, base.below[o])],
         critical |-> {o \in open : CriticalPath(s, o, base.below[o], base.remaining, t)},
         batching |-> [o \in open |-> BatchingShare(s, o, base.eligible)]]

Context(s, t) == ContextOf(s, Loads(s, Groundwork(s, t), t), t)

-----------------------------------------------------------------------------
(* The factors: each a raw score of order o, brought to 0 .. 100 and        *)
(* weighted by FactorScores.                                                *)

UrgencyScore(hours) ==
    LET cfg  == Profile.dueDate
        last == cfg.anchors[Len(cfg.anchors)]
        prev == cfg.anchors[Len(cfg.anchors) - 1]
        beyond == last[2] + ((last[2] - prev[2]) * (hours - last[1])) \div (last[1] - prev[1])
    IN  CASE hours <= 0 -> cfg.overdue
          [] hours > 0 /\ hours <= last[1] -> Interpolate(cfg.anchors, hours)
          [] OTHER -> Smaller(last[2], IF last[2] >= prev[2] THEN cfg.floor
                                       ELSE Larger(cfg.floor, beyond))

\* What is left until the due date, or what the projected completion leaves of it.
DueDateUrgency(s, ctx, o, t) ==
    LET due == s.order[o].due
    IN  IF due = None THEN Profile.dueDate.floor
        ELSE UrgencyScore(due - (IF ctx.projected[o] = None THEN t
                                 ELSE Larger(t, ctx.projected[o])))

\* The first level that tells: the order, the customer's rule, the customer, the profile.
ResolveSlaHours(s, o) ==
    LET c == s.customer[s.order[o].customer]
    IN  Default(s.order[o].sla, Default(c.ruleSla, Default(c.sla, Profile.sla.default)))

SlaRisk(s, ctx, o, t) ==
    LET sla  == ResolveSlaHours(s, o)
        from == s.order[o].received
        end  == IF ctx.projected[o] = None THEN t ELSE Larger(t, ctx.projected[o])
        left == (100 * (from + sla - end)) \div sla
    IN  CASE sla = None -> 0
          [] sla # None /\ from = None -> Profile.sla.watch
          [] OTHER -> IF from + sla - end <= 0 THEN Profile.sla.breach
                      ELSE Interpolate(Profile.sla.anchors, left)

OrderValue(s, o) ==
    LET values == KnownValues(LAMBDA p : s.order[p].value, OpenOrders(s))
        floor  == Profile.value.min
    IN  IF s.order[o].value = None THEN floor
        ELSE floor + ((100 - floor) * MidRankPercentile(values, o)) \div 100

Margin(s, o) ==
    IF s.order[o].margin = None THEN 0
    ELSE MidRankPercentile(KnownValues(LAMBDA p : s.order[p].margin, OpenOrders(s)), o)

\* The ERP's penalty per day or a share of the value, higher for escalated and
\* strategic customers.
EffectivePenalty(s, o) ==
    LET c    == s.customer[s.order[o].customer]
        base == IF s.order[o].penalty # None THEN s.order[o].penalty
                ELSE (s.order[o].value * Profile.penalty.ratio) \div 100
    IN  IF s.order[o].penalty = None /\ s.order[o].value = None THEN None
        ELSE (base * (100 + Profile.penalty.perLevel * c.escalation)
                   * (IF c.strategic THEN Profile.penalty.strategic ELSE 100)) \div 10000

DelayPenalty(s, o) ==
    IF EffectivePenalty(s, o) \in {None, 0} THEN 0
    ELSE MidRankPercentile(KnownValues(LAMBDA p : EffectivePenalty(s, p), OpenOrders(s)), o)

DownstreamImpact(ctx, o) ==
    LET values == KnownValues(LAMBDA p : IF ctx.downstream[p] = 0 THEN None ELSE ctx.downstream[p],
                              DOMAIN ctx.downstream)
    IN  IF o \in ctx.critical THEN 100
        ELSE IF ctx.downstream[o] = 0 THEN 0 ELSE MidRankPercentile(values, o)

\* The tier, blended with the customer's rank by revenue.
CustomerImportance(s, o) ==
    LET c       == s.customer[s.order[o].customer]
        cfg     == Profile.customer
        revenue == KnownValues(LAMBDA d : s.customer[d].revenue, DOMAIN s.customer)
        tier    == cfg.tier[Default(c.ruleTier, c.tier)]
        blended == IF c.revenue = None THEN tier
                   ELSE ((100 - cfg.revenueWeight) * tier
                           + cfg.revenueWeight * MidRankPercentile(revenue, s.order[o].customer))
                        \div 100
    IN  Smaller(cfg.max, blended + (IF c.strategic THEN cfg.strategic ELSE 0)
                                 + cfg.perLevel * c.escalation)

MachineAvailability(ctx, o, t) ==
    LET cfg   == Profile.machine
        known == {ctx.free[m] : m \in ctx.eligible[o]} \ {None}
        wait  == LeastOf(known) - t
    IN  CASE known = {} -> cfg.none
          [] known # {} /\ wait <= 0 ->
                cfg.now + (IF Cardinality(ctx.eligible[o]) = 1 THEN cfg.single ELSE 0)
          [] OTHER -> IF wait <= cfg.within
                      THEN Interpolate(<< <<0, cfg.now>>, <<cfg.within, cfg.soon>> >>, wait)
                      ELSE Larger(cfg.none, (cfg.soon * cfg.within) \div wait)

ProductionReadiness(s, ctx, o) ==
    LET state == ctx.readiness[o]
    IN  IF state = "WAITING_MATERIAL" /\ s.order[o].materialStatus = "partial"
        THEN Profile.readiness["PARTIAL"] ELSE Profile.readiness[state]

\* By the smallest setup among the eligible machines; a large one counts less.
SetupEfficiency(s, ctx, o) ==
    LET op      == NextOperation(s, o)
        rank(e) == CASE e.basis = "same_family" -> 0 [] e.basis = "same_material" -> 1
                     [] e.basis = "changeover" -> 2 [] OTHER -> 3
        all     == {EstimateSetup(s, op, m) : m \in ctx.eligible[o]}
        best    == CHOOSE e \in all : \A d \in all :
                     e.minutes < d.minutes \/ (e.minutes = d.minutes /\ rank(e) <= rank(d))
        large   == Profile.setup.large
        excess  == Smaller(100, (100 * (best.minutes - large)) \div large)
    IN  IF all = {} THEN Profile.setup["unknown"]
        ELSE IF best.minutes <= large THEN Profile.setup[best.basis]
        ELSE (Profile.setup[best.basis] * Larger(0, 100 - (excess * Profile.setup.penalty) \div 100))
                \div 100

FactorScores(s, ctx, o, t) ==
    [due_date_urgency |-> DueDateUrgency(s, ctx, o, t), sla_risk |-> SlaRisk(s, ctx, o, t),
     order_value |-> OrderValue(s, o), margin |-> Margin(s, o), delay_penalty |-> DelayPenalty(s, o),
     downstream_impact |-> DownstreamImpact(ctx, o), customer_importance |-> CustomerImportance(s, o),
     machine_availability |-> MachineAvailability(ctx, o, t),
     production_readiness |-> ProductionReadiness(s, ctx, o),
     setup_efficiency |-> SetupEfficiency(s, ctx, o), batching_affinity |-> ctx.batching[o]]

\* Weights are normalised to a sum of 100.
Weighted(raw) ==
    FoldFunction(LAMBDA a, b : a + b, 0,
                 [f \in DOMAIN raw |-> Profile.weight[f] * Clamp(raw[f])]) \div 100

BaseScore(s, ctx, o, t) == Weighted(FactorScores(s, ctx, o, t))

-----------------------------------------------------------------------------
(* adjustments.py                                                          *)

WaitingDays(s, o, t) == IF s.order[o].received = None THEN None
                        ELSE Larger(0, t - s.order[o].received) \div DayLength

AgingAdjustment(s, o, t) ==
    LET days == WaitingDays(s, o, t)
        cfg  == Profile.aging
    IN  IF days = None \/ days <= cfg.startAfter THEN 0
        ELSE Larger(0, Smaller(cfg.max, (days - cfg.startAfter) * cfg.perDay))

StarvationAdjustment(s, o, t) ==
    LET days == WaitingDays(s, o, t)
    IN  IF days = None \/ days < Profile.fairness.maxWait THEN 0 ELSE Profile.fairness.boost

\* The strongest expedite in force, capped.
ExpediteAdjustment(s, o, t) ==
    LET points == {e.points : e \in {x \in s.expedites : x.order = o /\ x.from <= t /\ ActiveAt(x, t)}}
    IN  IF points = {} THEN 0 ELSE Smaller(Larger(0, GreatestOf(points)), Profile.expediteMax)

Adjustments(s, o, t) ==
    s.order[o].erpPoints + s.customer[s.order[o].customer].boost
      + AgingAdjustment(s, o, t) + StarvationAdjustment(s, o, t) + ExpediteAdjustment(s, o, t)

ActiveOverrides(s, o, t) == {v \in s.overrides : v.order = o /\ ActiveAt(v, t)}

ForcedNext(s, o, t) == \E v \in ActiveOverrides(s, o, t) : v.kind = "FORCE_NEXT"

\* Raised, lowered and set in the order the planners did; forced wins over everything.
OverrideAdjustments(s, o, t, score) ==
    LET Apply(x, v) == CASE v.kind = "INCREASE_PRIORITY" -> x + v.value
                         [] v.kind = "DECREASE_PRIORITY" -> x - v.value
                         [] v.kind = "SET_PRIORITY"      -> v.value
                         [] OTHER                        -> x
    IN  IF ForcedNext(s, o, t) THEN 100
        ELSE FoldLeft(Apply, score,
                      SetToSortSeq(ActiveOverrides(s, o, t), LAMBDA a, b : a.at < b.at))

\* What is not ready does not come before what is, unless it is forced.
CapBlocked(state, forced, score) ==
    IF state # "READY" /\ Profile.blockedCap # None /\ ~forced
    THEN Smaller(score, Profile.blockedCap) ELSE score

Score(s, ctx, o, t) ==
    CapBlocked(ctx.readiness[o], ForcedNext(s, o, t),
               Clamp(OverrideAdjustments(s, o, t, BaseScore(s, ctx, o, t) + Adjustments(s, o, t))))

AssessRisk(s, ctx, o, t) ==
    LET cfg   == Profile.risk
        due   == s.order[o].due
        slack == IF ctx.projected[o] # None THEN due - ctx.projected[o]
                 ELSE due - t - Default(ctx.remaining[o], 0)
        late  == IF ctx.projected[o] # None THEN -slack > cfg.critical
                 ELSE ctx.remaining[o] # None /\ slack < cfg.critical
    IN  CASE due = None                 -> "low"
          [] due # None /\ (due < t \/ late) -> "critical"
          [] OTHER -> IF slack < cfg.high THEN "high"
                      ELSE IF slack < cfg.medium THEN "medium" ELSE "low"

\* PriorityEngine.evaluate, as far as scheduler, ranking and analytics use it.
EvaluateIn(s, ctx, t) ==
    [o \in OpenOrders(s) |->
        [score |-> Score(s, ctx, o, t), forced |-> ForcedNext(s, o, t),
         readiness |-> ctx.readiness[o], blockers |-> ctx.blockers[o],
         projected |-> ctx.projected[o], sla |-> SlaRisk(s, ctx, o, t),
         risk |-> AssessRisk(s, ctx, o, t)]]

Evaluate(s, t) == Tabulated(EvaluateIn(s, Context(s, t), t))

-----------------------------------------------------------------------------
(* ranking.py                                                              *)

RankedBefore(s, results, a, b) ==
    LET ra == results[a] rb == results[b]
    IN  \/ ra.forced /\ ~rb.forced
        \/ ra.forced = rb.forced /\ \/ ra.score > rb.score
                                    \/ ra.score = rb.score /\ Earlier(s, a, b)

MaxSlots == Larger(1, (Profile.fairness.topN * Profile.fairness.share) \div 100)

\* Mutant of ApplyTopNShare: a forced order counts against the share like any other.
ApplyTopNShareForced(s, results, ordered) ==
    LET customer(o) == s.order[o].customer
        Walk(acc, o) ==
            IF Len(acc.kept) >= Profile.fairness.topN THEN [acc EXCEPT !.rest = Append(@, o)]
            ELSE IF Cardinality({i \in DOMAIN acc.kept : customer(acc.kept[i]) = customer(o)}) < MaxSlots
            THEN [acc EXCEPT !.kept = Append(@, o)]
            ELSE [acc EXCEPT !.demoted = Append(@, o)]
        split == FoldLeft(Walk, [kept |-> <<>>, demoted |-> <<>>, rest |-> <<>>], ordered)
    IN  split.kept \o split.demoted \o split.rest

\* One walk down the ranking: what is kept among the first, what goes below them.
ApplyTopNShare(s, results, ordered) ==
    LET customer(o) == s.order[o].customer
        Held(kept, c) == Cardinality({i \in DOMAIN kept : customer(kept[i]) = c})
        Walk(acc, o) ==
            IF Len(acc.kept) >= Profile.fairness.topN THEN [acc EXCEPT !.rest = Append(@, o)]
            ELSE IF results[o].forced \/ Held(acc.kept, customer(o)) < MaxSlots
            THEN [acc EXCEPT !.kept = Append(@, o)]
            ELSE [acc EXCEPT !.demoted = Append(@, o)]
        split == FoldLeft(Walk, [kept |-> <<>>, demoted |-> <<>>, rest |-> <<>>], ordered)
    IN  split.kept \o split.demoted \o split.rest

RankResults(s, results) ==
    ApplyTopNShare(s, results, SetToSortSeq(DOMAIN results,
                                            LAMBDA a, b : RankedBefore(s, results, a, b)))
=============================================================================
