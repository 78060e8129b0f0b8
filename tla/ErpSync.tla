------------------------------- MODULE ErpSync -------------------------------
(***************************************************************************)
(* The mirror of the ERP: SyncService.run and the statements of            *)
(* OrderRepository and SyncRunRepository it issues, against an ERP whose   *)
(* orders are created, changed and removed while a run fetches them.       *)
(*                                                                         *)
(* A run is started by the worker's job or by POST /sync/run.  It commits  *)
(* a "running" row, fetches, and writes everything in one transaction      *)
(* together with its "completed" row; a run that fails, or dies, leaves    *)
(* the store as it was.  The contents of a record are abstracted to its    *)
(* updated_at, an order's routing to one operation record.  Master data    *)
(* and progress reports, which no order is closed or skipped for, are left *)
(* out.                                                                    *)
(***************************************************************************)
EXTENDS Integers

CONSTANTS
    Orders,             \* order_ids
    Runners,            \* who can be running a synchronisation at a time
    MalformedRecords,   \* may the ERP serve an order the normaliser rejects?
    MaxTime             \* bound: the last instant of the clock

ASSUME ConstantsAssumption ==
    /\ MalformedRecords \in BOOLEAN
    /\ MaxTime \in Nat

VARIABLES
    now,        \* the clock of the ERP's updated_at and the runs' started_at
    erp,        \* order_id -> the order as the ERP serves it; at = 0: it does not
    stored,     \* order_id -> the committed rows of the order; at = 0: no row
    watermark,  \* started_at of the newest completed run, 0 without one
    pc,         \* runner -> what its run does next
    run,        \* runner -> the parameters of its run and what it fetched
    existing,   \* runner -> the rows the upsert has read
    writes,     \* runner -> order_id -> its uncommitted row, or NoRow
    missing     \* runner -> the orders the run is about to close

vars == <<now, erp, stored, watermark, pc, run, existing, writes, missing>>

Times == 0 .. MaxTime

(* An order of the ERP: its updated_at, whether every required field is    *)
(* there, and the updated_at of its operation.                             *)
ErpRecords == [at : Times, valid : BOOLEAN, ops : Times]

NotServed == [at |-> 0, valid |-> FALSE, ops |-> 0]

(* The rows of an order: the updated_at of the record its columns come     *)
(* from, cancelled by close_missing or not, and that of its operation.     *)
Rows == [at : Times, closed : BOOLEAN, ops : Times]

Absent == [at |-> 0, closed |-> FALSE, ops |-> 0]

NoRow == [at |-> 0, closed |-> TRUE, ops |-> 0]

NoWrites == [o \in Orders |-> NoRow]

NothingFetched == [o \in Orders |-> 0]

(* A run: its parameters, the ids of the orders in the response, and the   *)
(* batch: the updated_at of each fetched order and operation, or 0.        *)
Runs == [mode : {"none", "full", "incremental"}, prune : BOOLEAN,
         startedAt : Times, since : Times, response : SUBSET Orders,
         orders : [Orders -> Times], ops : [Orders -> Times]]

NoRun == [mode |-> "none", prune |-> FALSE, startedAt |-> 0, since |-> 0,
          response |-> {}, orders |-> NothingFetched, ops |-> NothingFetched]

-----------------------------------------------------------------------------
(* What a statement of runner r sees of order o.                           *)
Visible(r, o) == IF writes[r][o] # NoRow THEN writes[r][o] ELSE stored[o]

(* No other session has an uncommitted write of the rows of o.             *)
CanLock(r, o) == \A q \in Runners \ {r} : writes[q][o] = NoRow

(* Mutant of Touched: operations of orders outside the batch are dropped.  *)
TouchedWithOrder(r, o) == run[r].orders[o] # 0

(* The batch holds an order, or an operation of it.                        *)
Touched(r, o) == run[r].orders[o] # 0 \/ run[r].ops[o] # 0

Running == {"fetchOrders", "fetchOperations", "validate", "upsert",
            "selectMissing", "closeMissing", "complete"}

Goto(r, label) == pc' = [pc EXCEPT ![r] = label]

(* The connector's slice of a feed: the records changed since the          *)
(* watermark (all of them when there is none).                             *)
Changed(r, at) == IF at > run[r].since THEN at ELSE 0

-----------------------------------------------------------------------------
(* The ERP and its users.                                                  *)
Tick ==
    /\ now < MaxTime
    /\ now' = now + 1

CreateOrder(o) ==
    /\ erp[o] = NotServed
    /\ Tick
    /\ \E ok \in BOOLEAN :
        /\ ok \/ MalformedRecords
        /\ erp' = [erp EXCEPT ![o] = [at |-> now', valid |-> ok, ops |-> now']]

ChangeOrder(o) ==
    /\ erp[o] # NotServed
    /\ Tick
    /\ \E ok \in BOOLEAN :
        /\ ok \/ MalformedRecords
        /\ erp' = [erp EXCEPT ![o].at = now', ![o].valid = ok]

ChangeOperation(o) ==
    /\ erp[o] # NotServed
    /\ Tick
    /\ erp' = [erp EXCEPT ![o].ops = now']

RemoveOrder(o) ==
    /\ erp[o] # NotServed
    /\ Tick
    /\ erp' = [erp EXCEPT ![o] = NotServed]

ErpStep ==
    /\ \E o \in Orders :
        CreateOrder(o) \/ ChangeOrder(o) \/ ChangeOperation(o) \/ RemoveOrder(o)
    /\ UNCHANGED <<stored, watermark, pc, run, existing, writes, missing>>

-----------------------------------------------------------------------------
(* Mutant of SinceOf: an overlap of one instant, also without a watermark. *)
SinceWithOverlap(mode) == IF mode = "full" THEN 0 ELSE watermark - 1

(* _watermark: a full run, and one without a completed run, fetch all.     *)
SinceOf(mode) == IF mode = "full" THEN 0 ELSE watermark

(* run, up to the commit of the "running" row.                             *)
Start(r) ==
    /\ pc[r] = "idle"
    /\ Tick
    /\ \E mode \in {"full", "incremental"}, prune \in BOOLEAN :
        run' = [run EXCEPT ![r] = [NoRun EXCEPT !.mode = mode, !.prune = prune,
                                   !.startedAt = now', !.since = SinceOf(mode)]]
    /\ Goto(r, "fetchOrders")
    /\ UNCHANGED <<erp, stored, watermark, existing, writes, missing>>

(* fetch_orders, and what normalize_orders leaves of the response.         *)
FetchOrders(r) ==
    /\ pc[r] = "fetchOrders"
    /\ run' = [run EXCEPT
                 ![r].response = {o \in Orders : Changed(r, erp[o].at) # 0},
                 ![r].orders = [o \in Orders |-> IF erp[o].valid THEN Changed(r, erp[o].at)
                                                 ELSE 0]]
    /\ Goto(r, "fetchOperations")
    /\ UNCHANGED <<now, erp, stored, watermark, existing, writes, missing>>

FetchOperations(r) ==
    /\ pc[r] = "fetchOperations"
    /\ run' = [run EXCEPT ![r].ops = [o \in Orders |-> Changed(r, erp[o].ops)]]
    /\ Goto(r, "validate")
    /\ UNCHANGED <<now, erp, stored, watermark, existing, writes, missing>>

(* _validate drops the operations of orders that are neither in the batch  *)
(* nor stored; the upsert then reads the rows it is going to change.       *)
ReadExisting(r) ==
    /\ pc[r] = "validate"
    /\ existing' = [existing EXCEPT ![r] = stored]
    /\ run' = [run EXCEPT ![r].ops = [o \in Orders |->
                 IF run[r].orders[o] # 0 \/ stored[o] # Absent THEN run[r].ops[o] ELSE 0]]
    /\ Goto(r, "upsert")
    /\ UNCHANGED <<now, erp, stored, watermark, writes, missing>>

(* Mutant of UpsertedRow: the order's status is not written back.          *)
UpsertedKeepingStatus(r, o) ==
    [at     |-> IF run[r].orders[o] # 0 THEN run[r].orders[o] ELSE stored[o].at,
     closed |-> stored[o].closed,
     ops    |-> IF run[r].ops[o] # 0 THEN run[r].ops[o] ELSE stored[o].ops]

(* order_to_row and operation_to_row on the row that was read: the UPDATE  *)
(* carries only the columns that differ from it.  In full mode the routing *)
(* of the ERP is authoritative: an operation that is not served is deleted.*)
UpsertedRow(r, o) ==
    LET was == existing[r][o]
        fetched == run[r].orders[o] # 0
    IN  [at     |-> IF fetched /\ run[r].orders[o] # was.at THEN run[r].orders[o]
                    ELSE stored[o].at,
         closed |-> stored[o].closed /\ ~ (fetched /\ was.closed),
         ops    |-> IF run[r].mode = "full" /\ fetched /\ run[r].ops[o] = 0 THEN 0
                    ELSE IF run[r].ops[o] # was.ops /\ run[r].ops[o] # 0 THEN run[r].ops[o]
                    ELSE stored[o].ops]

AfterUpsert(r) == IF run[r].mode = "full" THEN "selectMissing" ELSE "complete"

(* _upsert.  An order inserted by another run meanwhile is a duplicate key,*)
(* one deleted meanwhile a stale row: both fail the run (see Fail).        *)
Upsert(r) ==
    /\ pc[r] = "upsert"
    /\ \A o \in Orders : Touched(r, o) =>
        /\ CanLock(r, o)
        /\ (existing[r][o] = Absent) = (stored[o] = Absent)
        /\ run[r].ops[o] # 0 => (existing[r][o].ops = 0) = (stored[o].ops = 0)
    /\ writes' = [writes EXCEPT ![r] = [o \in Orders |->
                    IF Touched(r, o) THEN UpsertedRow(r, o) ELSE NoRow]]
    /\ Goto(r, AfterUpsert(r))
    /\ UNCHANGED <<now, erp, stored, watermark, run, existing, missing>>

(* fetched_ids: the orders of the batch.                                   *)
Fetched(r) == {o \in Orders : run[r].orders[o] # 0}

(* The orders _reconcile_missing_orders selects: open ones to close, none  *)
(* when nothing was fetched, or any to delete.                             *)
MissingOrders(r) ==
    {o \in Orders \ Fetched(r) :
        /\ Visible(r, o) # Absent
        /\ run[r].prune \/ (Fetched(r) # {} /\ ~ Visible(r, o).closed)}

SelectMissing(r) ==
    /\ pc[r] = "selectMissing"
    /\ missing' = [missing EXCEPT ![r] = MissingOrders(r)]
    /\ Goto(r, "closeMissing")
    /\ UNCHANGED <<now, erp, stored, watermark, run, existing, writes>>

(* close_missing or delete_missing, the flush.                             *)
CloseMissing(r) ==
    /\ pc[r] = "closeMissing"
    /\ \A o \in missing[r] : CanLock(r, o)
    /\ \A o \in missing[r] : run[r].prune \/ Visible(r, o) # Absent
    /\ writes' = [writes EXCEPT ![r] = [o \in Orders |->
                    IF o \notin missing[r] THEN writes[r][o]
                    ELSE IF run[r].prune THEN Absent
                    ELSE [Visible(r, o) EXCEPT !.closed = TRUE]]]
    /\ missing' = [missing EXCEPT ![r] = {}]
    /\ Goto(r, "complete")
    /\ UNCHANGED <<now, erp, stored, watermark, run, existing>>

(* Mutant of LatestOf: finished_at in the place of started_at.             *)
LatestFinish(t, startedAt) == now

(* latest_successful_started_at: ORDER BY started_at DESC.                 *)
LatestOf(t, startedAt) == IF startedAt > t THEN startedAt ELSE t

End(r) ==
    /\ run' = [run EXCEPT ![r] = NoRun]
    /\ existing' = [existing EXCEPT ![r] = [o \in Orders |-> Absent]]
    /\ writes' = [writes EXCEPT ![r] = NoWrites]
    /\ missing' = [missing EXCEPT ![r] = {}]
    /\ Goto(r, "idle")
    /\ UNCHANGED <<now, erp>>

(* _finish: the data and the "completed" row in one commit.                *)
Complete(r) ==
    /\ pc[r] = "complete"
    /\ stored' = [o \in Orders |-> Visible(r, o)]
    /\ watermark' = LatestOf(watermark, run[r].startedAt)
    /\ End(r)

(* A connector call that failed three times, an error or a deadlock in the *)
(* database: rollback, then the "failed" row.  A process that dies leaves  *)
(* the "running" row, which is just as much not completed.                 *)
Fail(r) ==
    /\ pc[r] # "idle"
    /\ UNCHANGED <<stored, watermark>>
    /\ End(r)

-----------------------------------------------------------------------------
Init ==
    /\ now = 0
    /\ erp = [o \in Orders |-> NotServed]
    /\ stored = [o \in Orders |-> Absent]
    /\ watermark = 0
    /\ pc = [r \in Runners |-> "idle"]
    /\ run = [r \in Runners |-> NoRun]
    /\ existing = [r \in Runners |-> [o \in Orders |-> Absent]]
    /\ writes = [r \in Runners |-> NoWrites]
    /\ missing = [r \in Runners |-> {}]

RunStep(r) ==
    \/ Start(r)
    \/ FetchOrders(r)
    \/ FetchOperations(r)
    \/ ReadExisting(r)
    \/ Upsert(r)
    \/ SelectMissing(r)
    \/ CloseMissing(r)
    \/ Complete(r)
    \/ Fail(r)

Next == ErpStep \/ \E r \in Runners : RunStep(r)

Spec == Init /\ [][Next]_vars

-----------------------------------------------------------------------------
(* Every variable keeps the values the code can give it.                   *)
TypeOK ==
    /\ now \in Times
    /\ erp \in [Orders -> ErpRecords]
    /\ stored \in [Orders -> Rows]
    /\ watermark \in Times
    /\ pc \in [Runners -> {"idle"} \union Running]
    /\ run \in [Runners -> Runs]
    /\ existing \in [Runners -> [Orders -> Rows]]
    /\ writes \in [Runners -> [Orders -> Rows]]
    /\ missing \in [Runners -> SUBSET Orders]

(* No change of an order is lost: one the next incremental run will not    *)
(* ask for (it is not newer than the watermark) is in the store, and the   *)
(* order is open.  Changes made while a run fetches, runs that fail or die *)
(* half-way, full runs and prunings in between leave it so (_watermark).   *)
(* Only runs that overlap break it.                                        *)
NothingLost ==
    \A o \in Orders : erp[o].valid /\ erp[o].at <= watermark =>
        stored[o].at = erp[o].at /\ ~ stored[o].closed

(* The same for the operations: one that was skipped because its order was *)
(* not known yet is fetched again with the order.  Only an order the       *)
(* normaliser rejected can leave its operations behind (_validate).        *)
OperationsNotLost ==
    \A o \in Orders : erp[o].at # 0 /\ erp[o].ops <= watermark =>
        stored[o].ops = erp[o].ops

Completes(r) == pc[r] = "complete" /\ watermark' = run[r].startedAt

Gone(row) == row = Absent \/ row.closed

(* A full run during which the ERP stood still leaves the store an exact   *)
(* mirror: what is served is stored and open, with the ERP's routing, and  *)
(* what is not is closed or deleted.  (A full fetch without a single order *)
(* closes nothing.)                                                        *)
FullRunMirrors ==
    [][\A r \in Runners :
        /\ Completes(r)
        /\ run[r].mode = "full" /\ now = run[r].startedAt
        /\ Fetched(r) # {} \/ run[r].prune
        => \A o \in Orders :
            IF erp[o].valid
            THEN stored'[o] = [at |-> erp[o].at, closed |-> FALSE, ops |-> erp[o].ops]
            ELSE Gone(stored'[o])]_vars

(* An order is closed, or deleted, only by a full run in whose response it *)
(* was absent (_reconcile_missing_orders).                                 *)
ClosedOnlyIfMissing ==
    [][\A o \in Orders : Gone(stored'[o]) /\ ~ Gone(stored[o]) =>
        \E r \in Runners :
            pc[r] = "complete" /\ run[r].mode = "full" /\ o \notin run[r].response]_vars
=============================================================================
