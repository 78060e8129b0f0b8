--------------------------- MODULE MCListScheduler ---------------------------
(* Small instances of Resequencing, and of the ListScheduler it runs, for  *)
(* TLC: four orders on two machines.  m1 stands still from 6 to 9, m2      *)
(* always works.  o1 goes from m1 to m2, the others have one operation; b1 *)
(* and d1 can go to either machine.                                        *)
EXTENDS Resequencing, TLC

CONSTANTS o1, o2, o3, o4, a1, a2, b1, c1, d1, m1, m2, f1, f2

FourOrders == {o1, o2, o3, o4}
FiveOps == {a1, a2, b1, c1, d1}
TwoMachines == {m1, m2}
TwoFamilies == {f1, f2}

RouteValue == o1 :> <<a1, a2>> @@ o2 :> <<b1>> @@ o3 :> <<c1>> @@ o4 :> <<d1>>
CanDoValue == a1 :> {m1} @@ a2 :> {m2} @@ b1 :> {m1, m2} @@ c1 :> {m2} @@ d1 :> {m1, m2}
WorkingValue == m1 :> (0 .. 5) \union (9 .. Horizon) @@ m2 :> (0 .. Horizon)
FamilyValue == a1 :> f1 @@ a2 :> f1 @@ b1 :> f2 @@ c1 :> f1 @@ d1 :> f1
SetupValue == a1 :> 1 @@ a2 :> 1 @@ b1 :> 1 @@ c1 :> 1 @@ d1 :> 1
RunValue == a1 :> 2 @@ a2 :> 2 @@ b1 :> 1 @@ c1 :> 1 @@ d1 :> 1
ShortRun == [RunValue EXCEPT ![b1] = 0]

NoDeps == [o \in Orders |-> {}]
NoPrereq == [op \in Ops |-> None]

(* A snapshot without anything special: the orders in the given queue.     *)
Plain(queue) ==
    [queue |-> queue, deps |-> NoDeps, release |-> [o \in Orders |-> Now], prereq |-> NoPrereq,
     noCycle |-> {}, barred |-> {}, excluded |-> {}, floor |-> [m \in Machines |-> Now],
     family |-> (m1 :> f1 @@ m2 :> f2), windows |-> {}, orderLocks |-> {}, frozenMachines |-> {},
     urgent |-> {}, previous |-> {}]

Queues == {q \in [1 .. 3 -> {o1, o2, o3}] : {q[i] : i \in 1 .. 3} = {o1, o2, o3}}

(* Orders that wait for each other, machines and cycle times that miss.    *)
Upstream1 == {NoDeps, [NoDeps EXCEPT ![o2] = {o1}], [NoDeps EXCEPT ![o1] = {o2}, ![o2] = {o1}],
              [NoDeps EXCEPT ![o3] = {o1, o2}], [NoDeps EXCEPT ![o1] = {o3}]}
Upstream2 == {NoPrereq, [NoPrereq EXCEPT ![c1] = a1], [NoPrereq EXCEPT ![a2] = b1],
              [NoPrereq EXCEPT ![a1] = c1, ![c1] = a2]}
Troubles == {<<{}, {}, {}>>, <<{b1}, {}, {}>>, <<{}, {<<b1, m2>>}, {}>>, <<{}, {}, {m1}>>}

Waiting3 ==
    {[Plain(q) EXCEPT !.deps = d, !.prereq = p,
                      !.noCycle = t[1], !.barred = t[2], !.excluded = t[3]] :
        q \in Queues \union {<<o1, o3>>}, d \in Upstream1, p \in Upstream2, t \in Troubles}

(* Work of the previous schedule, reserved windows, late releases.         *)
Entry(op, m, s, e) == [op |-> op, machine |-> m, start |-> s, end |-> e, setup |-> 1]

SameSetup(op, m, s, e) == [op |-> op, machine |-> m, start |-> s, end |-> e, setup |-> 0]

PreviousPlans ==
    {{}, {Entry(b1, m1, 3, 5)}, {Entry(c1, m2, 5, 7), Entry(b1, m2, 9, 11)},
     {Entry(a1, m1, 2, 5), Entry(a2, m2, 6, 8)}, {Entry(a1, m1, 0, 3), Entry(c1, m2, 2, 4)},
     {Entry(a1, m1, 0, 2), Entry(a2, m2, 4, 6), SameSetup(c1, m2, 8, 9)},
     {SameSetup(b1, m2, 5, 6)}}

Window(m, o, s, e) == [machine |-> m, order |-> o, start |-> s, end |-> e]

WindowSets ==
    {{}, {Window(m1, None, 3, 5)}, {Window(m2, o2, 4, 7)},
     {Window(m2, None, 3, 6), Window(m1, o2, 3, 6)}, {Window(m1, o1, 4, 10)}}

Releases == {[o \in Orders |-> IF o = o1 THEN t ELSE Now] : t \in {Now, 4, Horizon - 1}}

Around ==
    {[Plain(q) EXCEPT !.previous = v, !.windows = w, !.release = r] :
        q \in Queues, v \in PreviousPlans, w \in WindowSets, r \in Releases}

(* Planner's locks, frozen machines, machines that come back later.        *)
Decided ==
    {[Plain(q) EXCEPT !.previous = v, !.orderLocks = k, !.frozenMachines = f,
                      !.floor = b, !.urgent = u] :
        q \in {<<o1, o2, o3>>, <<o2, o3, o1>>}, v \in PreviousPlans,
        k \in {{}, {[order |-> o2, machine |-> m2]}, {[order |-> o1, machine |-> m2]},
               {[order |-> o3, machine |-> None]}},
        f \in {{}, {m1}}, b \in {[m \in Machines |-> Now], (m1 :> Now @@ m2 :> 4)},
        u \in {{}, {o2}}}

(* Four orders, of which the lookahead can pull two forward.               *)
Batches ==
    {[Plain(q) EXCEPT !.previous = v, !.windows = w, !.floor = b, !.urgent = u, !.deps = d] :
        q \in {<<o1, o2, o3, o4>>, <<o3, o2, o4, o1>>}, v \in {{}, {Entry(a1, m1, 2, 5)}},
        w \in {{}, {Window(m2, o2, 4, 7)}, {Window(m2, None, 8, 10)}},
        b \in {[m \in Machines |-> Now], (m1 :> Now @@ m2 :> 4)}, u \in {{}, {o3}},
        d \in {NoDeps, [NoDeps EXCEPT ![o4] = {o3}], [NoDeps EXCEPT ![o3] = {o4}]}}

(* A machine whose calendar ends while it is re-sequenced.                 *)
EndOfCalendar ==
    {[Plain(<<o2, o4>>) EXCEPT !.excluded = {m1}, !.floor = (m1 :> Now @@ m2 :> Horizon - 3)]}

(* Candidates come in progress, locked and forced orders first.            *)
ChosenByPlanner(i) ==
    i.urgent \union {l.order : l \in i.orderLocks} \union {w.order : w \in i.windows}

AllInputs ==
    {i \in Waiting3 \union Around \union Decided \union Batches \union EndOfCalendar :
        \A j, k \in DOMAIN i.queue :
            j < k /\ i.queue[k] \in ChosenByPlanner(i) => i.queue[j] \in ChosenByPlanner(i)}
=============================================================================
