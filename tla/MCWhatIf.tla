------------------------------ MODULE MCWhatIf ------------------------------
(* A small instance of WhatIf for TLC: the orders and machines of           *)
(* MCPlanning, of which only the first order has a choice of machines.      *)
EXTENDS WhatIf, Pages, MCPlanning

Base ==
    [Plain EXCEPT !.order[4].due = 9, !.order[4].customer = "a", !.operation[22].eligible = {11},
                  !.operation[23].eligible = {12}, !.order[3].received = 0, !.order[3].due = 1,
                  !.order[2].pending = 2, !.order[2].quantity = 2, !.operation[22].pending = 2, !.operation[22].quantity = 2,
                  !.material = [k \in {"steel"} |-> [machines |-> {11}, receipt |-> 3, free |-> 9, incoming |-> 2]],
                  !.tool = [k \in {"jig"} |-> [machines |-> {}, usable |-> TRUE, from |-> 0]]]

StudiedSnapshots ==
    {Base,
     [Base EXCEPT !.operation[21].eligible = {11}, !.order[2].materialStatus = "on_order",
                  !.order[4].due = None, !.machine[12].status = "down",
                  !.operation[23].tools = {"jig"}, !.tool["jig"].usable = FALSE]}

StudiedRecords(s) ==
    {[s EXCEPT !.order[1].status = "completed"], [s EXCEPT !.order[2].materialStatus = "unavailable"],
     [s EXCEPT !.operation[24].status = "in_progress", !.operation[24].machine = 12],
     [s EXCEPT !.machine[11].status = "maintenance"], [s EXCEPT !.operation[22].cycle = 11]}

StudiedDecisions == {[into |-> "overrides", row |-> Override("HOLD_ORDER", 1, None, 0), lasts |-> 2]}

Scenario(kind) == "kind" :> kind

StudiesValue ==
    {<<Scenario("machine_down") @@ [machine |-> 11, from |-> None, to |-> 6]>>,
     <<Scenario("extra_shift") @@ [calendar |-> "days", day |-> 1, from |-> 5, to |-> 1],
       Scenario("machine_down") @@ [machine |-> 12, from |-> 3, to |-> 9]>>,
     <<Scenario("extra_working_day") @@ [calendar |-> "all", day |-> 2],
       Scenario("add_machine") @@ [of |-> 11, id |-> 13, from |-> 4, calendar |-> None]>>,
     <<Scenario("material_delay") @@ [material |-> "steel", until |-> None, days |-> 1, allocated |-> TRUE]>>,
     <<Scenario("material_arrival") @@ [material |-> "steel", at |-> None, quantity |-> None],
       Scenario("material_delay") @@ [material |-> "steel", until |-> 5, days |-> 0, allocated |-> FALSE]>>,
     <<Scenario("due_date_change") @@ [order |-> 1, due |-> 2],
       Scenario("outsource_orders") @@ [list |-> <<1, 3>>]>>,
     <<Scenario("material_arrival") @@ [material |-> "steel", at |-> 4, quantity |-> 3],
       Scenario("outsource_group") @@ [group |-> "mill", quantity |-> 2]>>,
     <<Scenario("due_date_change") @@ [order |-> 3, due |-> 20],
       Scenario("hold_orders") @@ [orders |-> {1, 4}]>>,
     <<Scenario("prioritize_customer") @@ [customer |-> "b", points |-> 40, tier |-> "A", sla |-> None]>>,
     <<Scenario("expedite_orders") @@ [orders |-> {3}, points |-> None, hours |-> None],
       Scenario("urgent_orders") @@ [of |-> 1, quantity |-> 2, customer |-> "b", due |-> 3, value |-> None,
                                     expedite |-> TRUE, points |-> 50, hours |-> 2]>>}

AlertingValue ==
    [atRiskSlack |-> 3, likelyLateSlack |-> 2, starvationDays |-> 2, shortageDays |-> 1, overloadPct |-> 90,
     bottleneckPct |-> 70, lookahead |-> 3, slaImminent |-> 60, behind |-> 1, days |-> 2]

ExpeditingValue == [points |-> 20, hours |-> 6]
=============================================================================
