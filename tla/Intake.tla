------------------------------- MODULE Intake -------------------------------
(***************************************************************************)
(* What a synchronisation makes of the ERP's records: the connector emits   *)
(* rows, the normaliser maps their fields and names the order lines, the    *)
(* sync service checks them against each other and the store, applies the   *)
(* progress reports, stores everything, closes what is missing and grades   *)
(* the counts.  How runs interleave with the ERP and with one another is    *)
(* the subject of ErpSync: here a run is one step, and every event has an   *)
(* instant of its own.                                                      *)
(*                                                                          *)
(* A row of the ERP has its external id, the identity its fields spell      *)
(* (key; an order's is its line, ORDER_NO and LINE_NO), the order it        *)
(* belongs to (of, an external id), the instant of its last change, the     *)
(* values of the fields that are looked at, and its flaws: fields the       *)
(* export has empty or garbled.  Other fields arrive as they are.           *)
(***************************************************************************)
EXTENDS Integers, FiniteSets

CONSTANTS
    None,
    FirstRecords, \* the rows the ERP begins with, by entity
    NewOrders,    \* orders it may receive: records of an order row and its operation rows
    Flaws,        \* what may go wrong with a row of each entity: pairs of a field and how
    Quantities,   \* of material that may arrive
    Thresholds,   \* ReconciliationThresholds: tolerance, warning, mismatch
    MaxChanges,   \* bound: changes in the ERP
    MaxRuns       \* bound: synchronisations

VARIABLES
    served,           \* the ERP's rows, by entity
    store,            \* what is stored, by entity and identity
    defaultCalendar,
    mark,             \* the watermark: started_at of the last completed run
    outcome,          \* of the last run: its mode, issues and grade
    doubt,            \* order lines and keys some run since the last full one complained of
    clock,
    changes,
    runs

intakeVars == <<served, store, defaultCalendar, mark, outcome, doubt, clock, changes, runs>>

Masters == {"customer", "material", "machine", "tooling", "calendar"}
Entities == Masters \cup {"order", "operation"}

Empty == [k \in {} |-> None]

\* dict.update: f, and g where f says nothing.
Over(f, g) == [k \in DOMAIN f \cup DOMAIN g |-> IF k \in DOMAIN f THEN f[k] ELSE g[k]]

\* Rows come in the order of their ids.
First(rows) == CHOOSE r \in rows : \A q \in rows : r.id <= q.id

-----------------------------------------------------------------------------
(* What the tables of the ERP, dictionaries by id, guarantee: a row has an  *)
(* id and a key of its own - only order lines can have the same -, an       *)
(* order its status, an operation its order, to which it belongs for good.  *)

SoundRow(e, r) ==
    /\ DOMAIN r = {"id", "key", "of", "at", "data", "raw"}
    /\ r.id \in Nat /\ r.at \in Int /\ r.key # None
    /\ e = "order" => "STATUS" \in DOMAIN r.data
    /\ e = "operation" => "order" \notin DOMAIN r.data

SoundTables(rows) ==
    /\ DOMAIN rows = Entities
    /\ \A e \in Entities : IsFiniteSet(rows[e]) /\ \A r \in rows[e] : SoundRow(e, r)
    /\ \A e \in Entities \ {"order"} : \A r, q \in rows[e] : r.key = q.key => r = q
    /\ \A r, q \in rows.order : r.id = q.id => r = q
    /\ \A x \in rows.operation : \E o \in rows.order : o.id = x.of

NewOperations == UNION {n.operations : n \in NewOrders}

ASSUME RecordsAssumption ==
    /\ None \notin Int
    /\ None \notin {"missing_required", "unknown_code", "invalid_value"}
    /\ SoundTables(FirstRecords)
    /\ \A e \in Entities : \A r \in FirstRecords[e] : r.at <= 0
    /\ \A n \in NewOrders :
          /\ SoundRow("order", n.order)
          /\ IsFiniteSet(n.operations)
          /\ \A x \in n.operations : SoundRow("operation", x) /\ x.of = n.order.id
          /\ \A x, y \in n.operations : x.key = y.key => x = y
    /\ \A x, y \in FirstRecords.operation \cup NewOperations : x.key = y.key => x.of = y.of
    /\ Thresholds \in [{"tolerance", "warning", "mismatch"} -> Int]

-----------------------------------------------------------------------------
(* field_maps.py: the fields that must be there, those with a vocabulary,   *)
(* those that must parse, and the defaults that are not simply nothing.     *)
(* What is in no set is text, which cannot be wrong.                        *)

Fields(required, coded, parsed, default) ==
    [required |-> required, coded |-> coded, parsed |-> parsed, default |-> default]

CustomerFields ==
    Fields({"CUST_CODE", "CUST_NAME"}, {"TIER_CODE", "PAY_RISK"},
           {"PRIO", "STRATEGIC_FLAG", "ANNUAL_REV", "REV_12M", "PROFIT_PCT", "SVC_LEVEL_PCT",
            "SLA_HRS", "ESC_LVL", "OTD_PCT", "ACTIVE"},
           [TIER_CODE |-> "standard", PAY_RISK |-> "unknown"])

\* LINE_NO is text in the table, and must be an integer when the id is composed.
OrderFields ==
    Fields({"ORDER_NO", "LINE_NO", "CUST_CODE", "PART_NO"},
           {"STATUS", "MAT_STATUS", "QC_STATUS", "SHIP_STATUS", "PROC_TYPE", "ROUTE"},
           {"LINE_NO", "ORDER_DT", "RECV_DT", "REQ_DT", "PROM_DT", "REV_DT", "QTY", "QTY_DONE",
            "QTY_CANC", "PRIO", "ORDER_VAL", "EST_COST", "EST_MARGIN", "ACT_MARGIN",
            "EST_SETUP_MIN", "EST_CYCLE_MIN", "EST_TOTAL_MIN", "CUST_PRIO", "TECH_PRIO",
            "COMM_PRIO", "LATE_PEN_DAY", "SLA_HRS", "DWG_APPROVED", "HOLD_FLAG"},
           [STATUS |-> "new", QTY |-> 0, QTY_DONE |-> 0, HOLD_FLAG |-> FALSE, DWG_APPROVED |-> TRUE])

OperationFields ==
    Fields({"OP_ID", "ORDER_NO", "LINE_NO", "OP_SEQ"}, {"OP_TYPE", "OP_STATUS"},
           {"LINE_NO", "OP_SEQ", "SETUP_MIN", "CYCLE_MIN", "MACHINE_CYCLE", "QTY", "QTY_DONE",
            "MAT_QTY_PER", "EST_START", "EST_END", "ACT_START", "ACT_END"},
           [OP_STATUS |-> "pending", QTY |-> 0, QTY_DONE |-> 0])

MachineFields ==
    Fields({"MACHINE_NO", "MACHINE_NAME", "WC_GROUP"}, {"PROC_TYPE", "STATUS", "COMPAT_PROCS"},
           {"EFFICIENCY_PCT", "UTIL_PCT", "CAP_HRS_DAY", "MAINT_WINDOWS", "PLANNED_DOWN",
            "UNPLANNED_DOWN", "MAX_PART_MM", "AVAIL_FROM", "PREF_RANK"},
           [STATUS |-> "available", UNPLANNED_DOWN |-> 0])

MaterialFields ==
    Fields({"MATERIAL_NO", "MATERIAL_NAME"}, {},
           {"QTY_ONHAND", "QTY_RESERVED", "QTY_INCOMING", "EXPECTED_DT", "MIN_STOCK"},
           [QTY_ONHAND |-> 0, QTY_INCOMING |-> 0])

ToolingFields ==
    Fields({"TOOL_NO", "TOOL_NAME"}, {},
           {"AVAILABLE", "AVAIL_FROM", "SETUP_MIN", "LIFE_EXPECTED", "USAGE_CURRENT"},
           [AVAILABLE |-> TRUE])

CalendarFields ==
    Fields({"CALENDAR_CODE", "CALENDAR_NAME"}, {}, {"SHIFTS", "HOLIDAYS", "OVERTIME", "EXTRA_DAYS"},
           [SHIFTS |-> "none"])

ProductionStatusFields ==
    Fields({"OP_ID", "REPORTED_AT"}, {"OP_STATUS"}, {"QTY_DONE", "ACT_START", "ACT_END", "REPORTED_AT"},
           [OP_STATUS |-> "pending"])

FieldMaps ==
    [customer |-> CustomerFields, order |-> OrderFields, operation |-> OperationFields,
     machine |-> MachineFields, material |-> MaterialFields, tooling |-> ToolingFields,
     calendar |-> CalendarFields, production_status |-> ProductionStatusFields]

Feeds == DOMAIN FieldMaps

-----------------------------------------------------------------------------
(* mock_connector.py                                                       *)

ProgressStatuses == {"in_progress", "completed", "rework", "on_hold"}

\* The rows a feed is made from: progress is reported of what has been begun.
FeedRows(rows, e) ==
    IF e # "production_status" THEN rows[e]
    ELSE {[r EXCEPT !.raw = Empty] :
            r \in {o \in rows.operation : o.data.OP_STATUS \in ProgressStatuses \/ o.data.QTY_DONE > 0}}

\* Whatever has changed after `since`.
Emit(rows, e, since) == {r \in FeedRows(rows, e) : since = None \/ r.at > since}

-----------------------------------------------------------------------------
(* normalizer.py                                                           *)

\* What is wrong with the record, or the object, of that identity.
Issue(e, key, code) == [entity |-> e, key |-> key, code |-> code]

\* parsers.py: what goes wrong with a field that is empty or garbled - an empty one
\* matters only where it is required - or None.
ParseError(map, f, how) ==
    CASE how = "empty"   -> IF f \in map.required THEN "missing_required" ELSE None
      [] how = "garbled" -> IF f \in map.coded THEN "unknown_code"
                            ELSE IF f \in map.parsed THEN "invalid_value" ELSE None

FieldIssues(e, r) ==
    LET errors == {ParseError(FieldMaps[e], f, r.raw[f]) : f \in DOMAIN r.raw}
    IN  {Issue(e, r.key, error) : error \in errors \ {None}}

\* A required field that is empty or does not parse makes the record unusable.
Usable(e, r) ==
    \A f \in DOMAIN r.raw \cap FieldMaps[e].required :
        ParseError(FieldMaps[e], f, r.raw[f]) \notin {"missing_required", "invalid_value"}

\* _map_record: what a flawed field becomes is its default.
MapRecord(e, r) ==
    LET default == FieldMaps[e].default
    IN  [f \in DOMAIN r.data \ {"IS_DEFAULT"} |->
            IF f \notin DOMAIN r.raw THEN r.data[f]
            ELSE IF f \in DOMAIN default THEN default[f] ELSE None]

\* compose_order_id: the line of the order a row belongs to; the copy is the first.
OrderId(rows, r) == <<(CHOOSE o \in rows.order : o.id = r.of).key, 0>>

Construct(rows, e, r) ==
    IF e = "operation" THEN Over([order |-> OrderId(rows, r)], MapRecord(e, r)) ELSE MapRecord(e, r)

\* How many usable rows before r have its identity.
Copy(usable, r) == Cardinality({q \in usable : q.key = r.key /\ q.id < r.id})

\* A second row of the same identity is skipped, but an order line that is there twice is
\* kept as a copy.
KeptRows(e, usable) == {r \in usable : e = "order" \/ Copy(usable, r) = 0}

Name(e, usable, r) == IF e = "order" THEN <<r.key, Copy(usable, r)>> ELSE r.key

\* normalize_*: the objects by identity, and what was wrong.
Normalize(rows, e, since) ==
    LET fetched == Emit(rows, e, since)
        usable  == {r \in fetched : Usable(e, r)}
        kept    == KeptRows(e, usable)
    IN  [count  |-> Cardinality(fetched),
         items  |-> [n \in {Name(e, usable, r) : r \in kept} |->
                        Construct(rows, e, CHOOSE r \in kept : Name(e, usable, r) = n)],
         issues |-> (UNION {FieldIssues(e, r) : r \in fetched})
                      \cup {Issue(e, r.key, "duplicate_id") : r \in {q \in usable : Copy(usable, q) > 0}}]

Batch(rows, since) == [e \in Feeds |-> Normalize(rows, e, since)]

\* The calendar the ERP flags, or else the first that is known; None without any.
DefaultCalendarId(rows, since) ==
    LET known   == {r \in Emit(rows, "calendar", since) : Usable("calendar", r)}
        flagged == {r \in known : r.data.IS_DEFAULT}
    IN  IF flagged # {} THEN First(flagged).key ELSE IF known # {} THEN First(known).key ELSE None

\* ProductionStatusUpdate.apply: a report without a value leaves what is there.
Applied(operation, report) ==
    [f \in DOMAIN operation |->
        IF f = "OP_STATUS" \/ (f \in {"QTY_DONE", "MACHINE_NO", "ACT_START", "ACT_END"} /\ report[f] # None)
        THEN report[f] ELSE operation[f]]

WithProgress(operations, reports) ==
    [x \in DOMAIN operations |->
        IF x \in DOMAIN reports THEN Applied(operations[x], reports[x]) ELSE operations[x]]

\* snapshot_builder.py: the planning snapshot straight from the ERP, without a store.
SnapshotFromRecords(rows) ==
    LET batch == Batch(rows, None)
    IN  [e \in Entities |->
            IF e = "operation" THEN WithProgress(batch[e].items, batch.production_status.items)
            ELSE batch[e].items]

-----------------------------------------------------------------------------
(* sync_service.py                                                         *)

ClosedStatuses == {"completed", "packed", "shipped", "cancelled"}

\* Steps of an order that is neither in the batch nor stored are left out.
KeptOperations(batch, stored) ==
    {x \in DOMAIN batch.operation.items :
        batch.operation.items[x].order \in DOMAIN batch.order.items \cup DOMAIN stored.order}

\* References are only complained of; what is dropped is named by _validate, too.
Validate(batch, stored) ==
    LET lost(e, f, master) ==
            {x \in DOMAIN batch[e].items :
                /\ batch[e].items[x][f] # None
                /\ batch[e].items[x][f] \notin DOMAIN batch[master].items \cup DOMAIN stored[master]}
        kept == KeptOperations(batch, stored)
    IN  {Issue("order", x[1], "unknown_customer") : x \in lost("order", "CUST_CODE", "customer")}
          \cup {Issue("operation", x, "unknown_machine") :
                  x \in lost("operation", "MACHINE_NO", "machine") \cap kept}
          \cup {Issue("machine", x, "unknown_calendar") : x \in lost("machine", "CALENDAR_CODE", "calendar")}
          \cup {Issue("operation", x, "unknown_order") : x \in DOMAIN batch.operation.items \ kept}

\* Mutant of StoredOperations: a full run keeps the steps the ERP no longer has.
MergedOperations(stored, batch, operations, mode) == Over(operations, stored.operation)

\* Mutant of StoredOperations: the steps of orders that were not fetched again are forgotten.
OwnOperations(stored, batch, operations, mode) ==
    LET fetched == DOMAIN batch.order.items
        own     == {x \in DOMAIN operations : operations[x].order \in fetched}
        gone    == {x \in DOMAIN stored.operation \ own :
                      mode = "full" /\ stored.operation[x].order \in fetched}
    IN  Over([x \in own |-> operations[x]], [x \in DOMAIN stored.operation \ gone |-> stored.operation[x]])

\* OrderRepository.upsert, and the foreign steps after it: a full run also deletes the
\* steps of its orders that the ERP no longer has.
StoredOperations(stored, batch, operations, mode) ==
    LET fetched == DOMAIN batch.order.items
        gone    == {x \in DOMAIN stored.operation \ DOMAIN operations :
                      mode = "full" /\ stored.operation[x].order \in fetched}
    IN  Over(operations, [x \in DOMAIN stored.operation \ gone |-> stored.operation[x]])

\* _reconcile_missing_orders: close what a full run did not see, or delete it.
StoredOrders(stored, batch, mode, prune) ==
    LET fetched == DOMAIN batch.order.items
        all     == Over(batch.order.items, stored.order)
    IN  IF mode = "full" /\ prune THEN batch.order.items
        ELSE IF mode = "full" /\ fetched # {}
        THEN [o \in DOMAIN all |->
                IF o \in fetched \/ all[o].STATUS \in ClosedStatuses THEN all[o]
                ELSE [all[o] EXCEPT !.STATUS = "cancelled"]]
        ELSE all

\* All that a run stores, and the reports it finds no operation for.
UpsertAll(stored, batch, mode, prune) ==
    LET reports  == batch.production_status.items
        kept     == KeptOperations(batch, stored)
        inBatch  == WithProgress([x \in kept |-> batch.operation.items[x]], reports)
        steps    == StoredOperations(stored, batch, inBatch, mode)
        reported == WithProgress(steps, [x \in DOMAIN reports \ kept |-> reports[x]])
        orders   == StoredOrders(stored, batch, mode, prune)
    IN  [store   |-> [e \in Entities |->
                        CASE e = "order"     -> orders
                          [] e = "operation" -> [x \in {y \in DOMAIN reported :
                                                          reported[y].order \in DOMAIN orders} |-> reported[x]]
                          [] OTHER           -> Over(batch[e].items, stored[e])],
         steps   |-> Cardinality(kept),
         unknown |-> DOMAIN reports \ (kept \cup DOMAIN steps)]

-----------------------------------------------------------------------------
(* reconciliation.py                                                       *)

\* Mutant of Classify: a fetch of nothing is not looked at.
ClassifyServed(fetched, stored) ==
    LET difference == IF stored > fetched THEN stored - fetched ELSE fetched - stored
    IN  IF difference <= Thresholds.tolerance \/ 100 * difference < Thresholds.warning * fetched
             \/ fetched = 0 THEN "ok"
        ELSE IF 100 * difference >= Thresholds.mismatch * fetched THEN "mismatch" ELSE "warning"

Classify(fetched, stored) ==
    LET difference == IF stored > fetched THEN stored - fetched ELSE fetched - stored
    IN  IF difference <= Thresholds.tolerance THEN "ok"
        ELSE IF fetched <= 0 \/ 100 * difference >= Thresholds.mismatch * fetched THEN "mismatch"
        ELSE IF 100 * difference >= Thresholds.warning * fetched THEN "warning" ELSE "ok"

\* Against what is stored afterwards in a full run, against what was upserted in a slice.
Grade(batch, result, mode) ==
    LET count(e) ==
            CASE e = "production_status" -> Cardinality(DOMAIN batch[e].items \ result.unknown)
              [] e # "production_status" /\ mode = "full" -> Cardinality(DOMAIN result.store[e])
              [] e = "operation" /\ mode # "full" -> result.steps
              [] OTHER -> Cardinality(DOMAIN batch[e].items)
        grades == {Classify(batch[e].count, count(e)) : e \in Feeds}
    IN  IF "mismatch" \in grades THEN "mismatch" ELSE IF "warning" \in grades THEN "warning" ELSE "ok"

-----------------------------------------------------------------------------
(* A run.                                                                  *)

\* The lines and keys of the rows an issue is about, and the lines the ERP has twice.
Doubted(rows, issues) ==
    LET about(e, r) == \E i \in issues :
            /\ i.entity = e \/ (i.entity = "production_status" /\ e = "operation")
            /\ i.key = r.key
        shared(r)   == \E o \in rows.order \ {r} : o.key = r.key
    IN  (UNION {{r.key : r \in {q \in rows[e] : about(e, q)}} : e \in Entities})
          \cup {OrderId(rows, r)[1] : r \in {q \in rows.operation : about("operation", q)}}
          \cup {r.key : r \in {q \in rows.order : shared(q)}}

\* Without a completed run an incremental run fetches everything, too.
Sync(mode, prune) ==
    /\ runs < MaxRuns
    /\ LET since   == IF mode = "full" THEN None ELSE mark
           batch   == Batch(served, since)
           default == DefaultCalendarId(served, since)
           result  == UpsertAll(store, batch, mode, prune)
           issues  == (UNION {batch[e].issues : e \in Feeds}) \cup Validate(batch, store)
                        \cup {Issue("production_status", x, "unknown_operation") : x \in result.unknown}
       IN  /\ store' = result.store
           /\ defaultCalendar' = IF default = None THEN defaultCalendar ELSE default
           /\ outcome' = [mode |-> mode, issues |-> issues, grade |-> Grade(batch, result, mode)]
           /\ doubt' = (IF mode = "full" THEN {} ELSE doubt) \cup Doubted(served, issues)
    /\ mark' = clock
    /\ clock' = clock + 1
    /\ runs' = runs + 1
    /\ UNCHANGED <<served, changes>>

-----------------------------------------------------------------------------
(* What happens in the ERP.                                                *)

Change ==
    /\ changes < MaxChanges
    /\ changes' = changes + 1
    /\ clock' = clock + 1
    /\ UNCHANGED <<store, defaultCalendar, mark, outcome, doubt, runs>>

\* The row r of entity e is changed to q.
Touch(e, r, q) == Change /\ q # r /\ served' = [served EXCEPT ![e] = (@ \ {r}) \cup {[q EXCEPT !.at = clock]}]

AddOrder ==
    /\ Change
    /\ \E n \in NewOrders :
        /\ \A o \in served.order : o.id # n.order.id
        /\ served' = [served EXCEPT !.order = @ \cup {[n.order EXCEPT !.at = clock]},
                              !.operation = @ \cup {[x EXCEPT !.at = clock] : x \in n.operations}]

SetMachineStatus ==
    \E r \in served.machine, status \in {"down", "running"}, windows \in {0, 1} :
        Touch("machine", r, [r EXCEPT !.data.STATUS = status, !.data.UNPLANNED_DOWN = @ + windows])

ReceiveMaterial ==
    \E r \in served.material, q \in Quantities :
        LET incoming == IF r.data.QTY_INCOMING > q THEN r.data.QTY_INCOMING - q ELSE 0
        IN  Touch("material", r,
                [r EXCEPT !.data.QTY_ONHAND = @ + q, !.data.QTY_INCOMING = incoming,
                          !.data.EXPECTED_DT = IF incoming = 0 THEN None ELSE @])

ReportProgress ==
    \E r \in served.operation, status \in {"in_progress", "completed"}, done \in {None, 1} :
        Touch("operation", r,
            [r EXCEPT !.data.OP_STATUS = status,
                      !.data.QTY_DONE = IF status = "completed" THEN r.data.QTY
                                        ELSE IF done = None THEN @ ELSE done,
                      !.data.ACT_START = IF status = "in_progress" /\ @ = None THEN clock ELSE @,
                      !.data.ACT_END = IF status = "completed" THEN clock ELSE @])

\* An order leaves the ERP with its operations, or one operation its order's routing.
DropOrder ==
    /\ Change
    /\ \E r \in served.order :
        served' = [served EXCEPT !.order = @ \ {r}, !.operation = {x \in @ : x.of # r.id}]

RemoveOperation ==
    /\ Change
    /\ \E r \in served.operation : served' = [served EXCEPT !.operation = @ \ {r}]

EditCalendar == \E r \in served.calendar : Touch("calendar", r, [r EXCEPT !.data.SHIFTS = "changed"])

\* A field is exported empty or garbled, and later as it should be.
Spoil ==
    \E e \in Entities : \E r \in served[e], f \in Flaws[e] : Touch(e, r, [r EXCEPT !.raw = [x \in {f[1]} |-> f[2]]])

Repair == \E e \in Entities : \E r \in served[e] : Touch(e, r, [r EXCEPT !.raw = Empty])

IntakeInit ==
    /\ served = FirstRecords
    /\ store = [e \in Entities |-> Empty]
    /\ defaultCalendar = None
    /\ mark = None
    /\ outcome = [mode |-> None, issues |-> {}, grade |-> None]
    /\ doubt = {}
    /\ clock = 1
    /\ changes = 0
    /\ runs = 0

IntakeNext ==
    \/ \E mode \in {"full", "incremental"}, prune \in BOOLEAN : Sync(mode, prune)
    \/ AddOrder \/ SetMachineStatus \/ ReceiveMaterial \/ ReportProgress
    \/ DropOrder \/ RemoveOperation \/ EditCalendar \/ Spoil \/ Repair

IntakeSpec == IntakeInit /\ [][IntakeNext]_intakeVars

-----------------------------------------------------------------------------
FullRun == runs' # runs /\ outcome'.mode = "full"

(* However the slices before went - with lines mixed up, steps dropped, a   *)
(* wrong default calendar, orders closed by mistake - after a full run the  *)
(* store says of every order the ERP serves, its steps, the master data and *)
(* the default calendar what a snapshot built straight from the ERP says,   *)
(* and every other order is closed (SyncService.run against                 *)
(* build_snapshot_from_records).  A fetch without any order closes nothing. *)
PathsAgree ==
    [][FullRun =>
        LET direct == SnapshotFromRecords(served)
            Steps(s, o) == {x \in DOMAIN s.operation : s.operation[x].order = o}
        IN  /\ \A e \in Masters \cup {"order"} : \A k \in DOMAIN direct[e] :
                    k \in DOMAIN store'[e] /\ store'[e][k] = direct[e][k]
            /\ \A o \in DOMAIN direct.order :
                    /\ Steps(store', o) = Steps(direct, o)
                    /\ \A x \in Steps(direct, o) : store'.operation[x] = direct.operation[x]
            /\ DOMAIN direct.order # {} =>
                    \A o \in DOMAIN store'.order \ DOMAIN direct.order :
                        store'.order[o].STATUS \in ClosedStatuses
            /\ served.calendar # {} /\ DOMAIN direct.calendar # {} =>
                    defaultCalendar' = DefaultCalendarId(served, None)]_intakeVars

(* Slices bring everything: after every run each flawless row of the ERP is *)
(* stored as it is, whichever runs brought it - a step may change alone, or *)
(* its progress be reported when its order was stored long before - unless  *)
(* a run since the last full one complained of the row or of its order      *)
(* line, or found the line twice (_watermark, _validate, _upsert).          *)
SlicesSuffice ==
    [][runs' # runs =>
        \A e \in Entities : \A r \in served[e] :
            LET k == IF e = "order" THEN <<r.key, 0>> ELSE r.key
                line == IF e = "operation" THEN OrderId(served, r)[1] ELSE r.key
            IN  r.raw = Empty /\ {r.key, line} \cap doubt' = {}
                    => /\ k \in DOMAIN store'[e]
                       /\ \A f \in DOMAIN r.data \ {"IS_DEFAULT"} : store'[e][k][f] = r.data[f]]_intakeVars

(* A full run that has no complaints and grades the counts "ok" can be      *)
(* trusted: of no entity does the store hold more than the tolerated number *)
(* of objects the ERP does not have - skipped records and stale ones cannot *)
(* make up for each other (reconcile).                                      *)
TrustedRuns ==
    [][FullRun /\ outcome'.issues = {} /\ outcome'.grade = "ok" =>
        \A e \in Entities :
            LET names == IF e = "order" THEN {<<r.key, 0>> : r \in served.order} ELSE {r.key : r \in served[e]}
                stale == Cardinality(DOMAIN store'[e] \ names)
            IN  stale <= Thresholds.tolerance \/ 100 * stale < Thresholds.warning * Cardinality(served[e])]_intakeVars
=============================================================================
