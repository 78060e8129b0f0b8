----------------------------- MODULE MCPlanning -----------------------------
(* Small instances of Planning for TLC: orders 1 to 4 of two customers,    *)
(* with one step each (21 to 24), and the machines 11 and 12, of which 12  *)
(* has downtime from 2 to 4.                                               *)
EXTENDS Planning

Order(customer, due) ==
    [status |-> "released", pending |-> 1, quantity |-> 1, completed |-> 0, onHold |-> FALSE,
     quality |-> "ok", drawing |-> TRUE, material |-> "steel", materialStatus |-> "available",
     required |-> None, group |-> None, process |-> "cnc", tools |-> {}, dependsOn |-> {},
     size |-> None, customer |-> customer, due |-> due, received |-> -12, value |-> 100 * due,
     margin |-> None, penalty |-> None, sla |-> None, setup |-> 1, hours |-> None, cycle |-> None,
     erpPoints |-> 0, line |-> None, part |-> due]

Step(o, group) ==
    [order |-> o, sequence |-> 10, process |-> "cnc", group |-> group, eligible |-> {},
     machine |-> None, status |-> "pending", pending |-> 1, quantity |-> 1, completed |-> 0,
     prerequisite |-> None, material |-> None, perUnit |-> 1, tools |-> {}, setup |-> 1,
     cycle |-> 1, cycles |-> <<>>, family |-> IF o \in {1, 4} THEN "f" ELSE "g"]

Machine(group, downtime) ==
    [processes |-> {"cnc"}, group |-> group, materials |-> {}, envelope |-> None, minBatch |-> None,
     maxBatch |-> None, from |-> 0, calendar |-> IF downtime = {} THEN "days" ELSE "nights", downtime |-> downtime, status |-> "available",
     family |-> "f", material |-> None]

Customer(tier) ==
    [ruleSla |-> None, sla |-> None, escalation |-> 0, strategic |-> FALSE, revenue |-> None,
     tier |-> tier, ruleTier |-> None, boost |-> 0, active |-> TRUE]

Plain ==
    [order |-> (1 :> Order("a", 6) @@ 2 :> Order("a", 8) @@ 3 :> Order("a", 12) @@ 4 :> Order("b", 20)),
     operation |-> (21 :> Step(1, "mill") @@ 22 :> Step(2, "mill") @@ 23 :> Step(3, "mill")
                      @@ 24 :> [Step(4, None) EXCEPT !.eligible = {12}, !.cycles = 12 :> 1]),
     machine |-> (11 :> Machine("mill", {}) @@ 12 :> Machine("mill", {<<2, 4>>})),
     material |-> [k \in {"steel"} |-> [machines |-> {}, receipt |-> 3, free |-> 9, incoming |-> 0]],
     tool |-> [k \in {} |-> {}],
     customer |-> ("a" :> Customer("A") @@ "b" :> Customer("B")),
     calendar |-> ("days" :> [shifts |-> {[start |-> 1, end |-> 5, weekdays |-> 0 .. 4]},
                              holidays |-> {2}, extraDays |-> {}, overtime |-> {<<5, 6>>}, offset |-> 1]
                   @@ "nights" :> [shifts |-> {[start |-> 4, end |-> 3, weekdays |-> 0 .. 6]},
                                   holidays |-> {}, extraDays |-> {}, overtime |-> {}, offset |-> 1]),
     defaultCalendar |-> "days",
     overrides |-> {}, locks |-> {}, expedites |-> {}]

Lock(kind, o, m, sequence) == [kind |-> kind, order |-> o, machine |-> m, sequence |-> sequence]
Override(kind, o, m, value) == [kind |-> kind, order |-> o, machine |-> m, value |-> value]
Made(row, at, expires) == row @@ ("at" :> at @@ "active" :> TRUE @@ "expires" :> expires)

SnapshotValue ==
    {Plain,
     [Plain EXCEPT !.order[3].dependsOn = {4}, !.order[2].dependsOn = {1},
                   !.locks = {Made(Lock("SEQUENCE", None, None, <<2, 1>>), -2, None),
                              Made(Lock("SEQUENCE", None, None, <<4, 3>>), -1, None)}],
     [Plain EXCEPT !.overrides = {Made(Override("HOLD_ORDER", 1, None, 0), -2, 2),
                                  Made(Override("FORCE_NEXT", 3, None, 0), -1, None)},
                   !.operation[24].status = "in_progress", !.operation[24].machine = 12],
     [Plain EXCEPT !.order[1].due = None, !.order[4].materialStatus = "on_order",
                   !.order[2].line = "line", !.order[3].line = "line", !.machine[11].status = "down", !.machine[11].downtime = {<<0, 3>>},
                   !.expedites = {[order |-> 2, points |-> 40, from |-> 1, active |-> TRUE, expires |-> 3]}]}

RecordsValue(s) ==
    UNION {{[s EXCEPT !.order[o].status = st] : st \in {"on_hold", "completed"} \ {s.order[o].status}}
             \cup {[s EXCEPT !.order[o].due = IF @ = None THEN 6 ELSE None]} : o \in {1, 3}}
      \cup {[s EXCEPT !.order[1].materialStatus = "unavailable"]}
      \cup {[s EXCEPT !.machine[m].status = st] : m \in {11, 12}, st \in {"down", "available"}}
      \cup {[s EXCEPT !.operation[22].status = "in_progress", !.operation[22].machine = 11],
            [s EXCEPT !.operation[21].status = "completed"]}

\* The ERP adds dependencies, one at a time.
PlainValue == {Plain}
DependenciesValue(s) == {[s EXCEPT !.order[o].dependsOn = @ \cup {d}] : o \in 1 .. 3, d \in 1 .. 3}
NoDecisions == {}

DecisionValue ==
    {[into |-> "overrides", row |-> Override(kind, o, None, 0), lasts |-> 2] :
        kind \in {"HOLD_ORDER", "FORCE_NEXT"}, o \in {1, 4}}
      \cup {[into |-> "overrides", row |-> Override("SET_PRIORITY", 4, None, 99), lasts |-> None],
            [into |-> "overrides", row |-> Override("INCREASE_PRIORITY", 3, None, 30), lasts |-> 1],
            [into |-> "overrides", row |-> Override("RELEASE_HOLD", 1, None, 0), lasts |-> None],
            [into |-> "overrides", row |-> Override("LOCK_MACHINE_ASSIGNMENT", 2, 12, 0), lasts |-> None]}
      \cup {[into |-> "locks", row |-> l, lasts |-> None] :
              l \in {Lock("ORDER", 4, 11, <<>>), Lock("ORDER", 3, 12, <<>>),
                     Lock("MACHINE", None, 12, <<>>), Lock("SEQUENCE", None, None, <<3, 2, 1>>),
                     Lock("SEQUENCE", None, None, <<4, 1>>)}}

ProfileValue ==
    [weight |-> [due_date_urgency |-> 30, sla_risk |-> 5, order_value |-> 10, margin |-> 5,
                 delay_penalty |-> 5, downstream_impact |-> 10, customer_importance |-> 10,
                 machine_availability |-> 10, production_readiness |-> 5, setup_efficiency |-> 5,
                 batching_affinity |-> 5],
     setup |-> [default |-> 1, sameFamily |-> 0, sameMaterial |-> 50, large |-> 2, penalty |-> 50,
                same_family |-> 100, same_material |-> 70, changeover |-> 40, unknown |-> 50],
     dueDate |-> [anchors |-> << <<1, 95>>, <<4, 80>>, <<10, 50>> >>, overdue |-> 100, floor |-> 5],
     sla |-> [default |-> 96, watch |-> 50, breach |-> 100, anchors |-> << <<0, 95>>, <<100, 10>> >>],
     value |-> [min |-> 10], penalty |-> [ratio |-> 1, perLevel |-> 10, strategic |-> 150],
     customer |-> [tier |-> [A |-> 80, B |-> 50], revenueWeight |-> 20, max |-> 100, strategic |-> 10,
                   perLevel |-> 5],
     machine |-> [none |-> 0, now |-> 90, single |-> 10, within |-> 4, soon |-> 60],
     readiness |-> [READY |-> 100, PARTIAL |-> 40, WAITING_MATERIAL |-> 20, WAITING_TOOLING |-> 20,
                    WAITING_APPROVAL |-> 10, WAITING_PREVIOUS_OPERATION |-> 50,
                    MACHINE_UNAVAILABLE |-> 20, QUALITY_HOLD |-> 0, ON_HOLD |-> 0,
                    OTHER_CONSTRAINT |-> 0],
     aging |-> [startAfter |-> 1, max |-> 10, perDay |-> 2],
     fairness |-> [topN |-> 3, share |-> 50, maxWait |-> 30, boost |-> 10],
     expediteMax |-> 30, blockedCap |-> 40,
     risk |-> [critical |-> 0, high |-> 4, medium |-> 12]]

LimitsValue == [blocking |-> {"MISSING_DUE_DATE", "MISSING_CYCLE_TIME", "MISSING_MACHINE_ASSIGNMENT"},
                ahead |-> 1000, cycle |-> 10, setup |-> 24, total |-> 1000]

SchedulingValue == [lockWindow |-> 2, blocked |-> TRUE, ordersPerRun |-> 3]
=============================================================================
