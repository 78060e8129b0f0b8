------------------------------ MODULE MCIntake ------------------------------
(* A small instance of Intake for TLC: two orders with a step each, one     *)
(* machine, and two calendars of which the second is the plant's default.   *)
(* A third order has the line of the first one, the fourth is of a customer *)
(* that is not known.                                                       *)
EXTENDS Intake

Row(id, key, of, data) == [id |-> id, key |-> key, of |-> of, at |-> 0, data |-> data, raw |-> Empty]

OrderRow(id, line, customer) == Row(id, line, None, [CUST_CODE |-> customer, STATUS |-> "released"])

StepRow(id, key, of) ==
    Row(id, key, of, [MACHINE_NO |-> "M", OP_STATUS |-> "pending", QTY |-> 2, QTY_DONE |-> 0,
                      ACT_START |-> None, ACT_END |-> None])

Records ==
    [customer  |-> {Row(1, "C", None, [TIER_CODE |-> "key"])},
     material  |-> {Row(1, "S", None, [QTY_ONHAND |-> 0, QTY_INCOMING |-> 2, EXPECTED_DT |-> 9])},
     machine   |-> {Row(1, "M", None, [STATUS |-> "available", CALENDAR_CODE |-> "days", UNPLANNED_DOWN |-> 0])},
     tooling   |-> {Row(1, "T", None, [AVAILABLE |-> TRUE])},
     calendar  |-> {Row(1, "nights", None, [SHIFTS |-> "two", IS_DEFAULT |-> FALSE]),
                    Row(2, "days", None, [SHIFTS |-> "one", IS_DEFAULT |-> TRUE])},
     order     |-> {OrderRow(1, "A", "C"), OrderRow(2, "B", "C")},
     operation |-> {StepRow(1, "A1", 1), StepRow(2, "B1", 2)}]

Arrivals ==
    {[order |-> OrderRow(3, "A", "C"), operations |-> {StepRow(3, "A2", 3)}],
     [order |-> OrderRow(4, "D", "X"), operations |-> {}]}

FlawValue ==
    [customer |-> {<<"CUST_NAME", "empty">>, <<"TIER_CODE", "garbled">>}, material |-> {}, tooling |-> {},
     machine |-> {<<"STATUS", "garbled">>}, calendar |-> {<<"CALENDAR_NAME", "empty">>},
     order |-> {<<"LINE_NO", "garbled">>, <<"STATUS", "garbled">>},
     operation |-> {<<"OP_SEQ", "empty">>, <<"QTY_DONE", "empty">>}]

ThresholdValue == [tolerance |-> 0, warning |-> 1, mismatch |-> 5]
=============================================================================
