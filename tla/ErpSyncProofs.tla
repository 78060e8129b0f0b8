---------------------------- MODULE ErpSyncProofs ----------------------------
(***************************************************************************)
(* TLAPS proofs about the synchronisation: ErpSync, for every set of       *)
(* orders, every length of the history and with or without malformed       *)
(* records; and, from "The ERP's tables" on, Intake, for every table of    *)
(* records, every flaw of theirs, every order that may arrive, and every   *)
(* bound on the changes and the runs.                                      *)
(***************************************************************************)
EXTENDS ErpSync, Intake, FiniteSetTheorems, FunctionTheorems, WellFoundedInduction, TLAPS

(* Runs do not overlap: the worker's job is the only one to start them.    *)
OneRunner == \A q, r \in Runners : q = r

(* The clock is ahead of what it has stamped.                              *)
ClockInv ==
    /\ watermark <= now
    /\ \A o \in Orders : erp[o].at <= now /\ (erp[o].valid => erp[o].at > 0)

(* A run asks for what changed since the watermark, and completing it      *)
(* moves the watermark forward.                                            *)
SinceInv ==
    \A r \in Runners : pc[r] # "idle" =>
        /\ watermark < run[r].startedAt /\ run[r].startedAt <= now
        /\ run[r].mode \in {"full", "incremental"}
        /\ run[r].since = SinceOf(run[r].mode)

(* The orders a run answers for when it completes.                         *)
Answered(r, o) == erp[o].valid /\ erp[o].at <= run[r].startedAt

(* Every one of them the run asked for is in its batch ...                 *)
BatchInv ==
    \A r \in Runners : pc[r] \in Running \ {"fetchOrders"} =>
        \A o \in Orders : Answered(r, o) => run[r].orders[o] = Changed(r, erp[o].at)

(* ... and, once upserted, an open and current row of its transaction that *)
(* reconciliation leaves alone.                                            *)
UpsertInv ==
    \A r \in Runners :
        /\ pc[r] \in {"idle", "fetchOrders", "fetchOperations", "validate", "upsert"} =>
            writes[r] = NoWrites
        /\ pc[r] = "upsert" => existing[r] = stored
        /\ pc[r] \in {"selectMissing", "closeMissing"} => run[r].mode = "full"
        /\ pc[r] \in {"selectMissing", "closeMissing", "complete"} =>
            \A o \in Orders : Answered(r, o) =>
                Visible(r, o).at = erp[o].at /\ ~ Visible(r, o).closed
        /\ pc[r] = "closeMissing" => \A o \in missing[r] : ~ Answered(r, o)

IInv == ClockInv /\ SinceInv /\ BatchInv /\ UpsertInv /\ NothingLost

-----------------------------------------------------------------------------
LEMMA TickAdvances ==
    ASSUME TypeOK, Tick
    PROVE  now' \in Times /\ now' > now /\ now' > 0
BY ConstantsAssumption DEF TypeOK, Tick, Times

LEMMA ChangedIsTime ==
    ASSUME TypeOK, NEW r \in Runners, NEW t \in Times
    PROVE  Changed(r, t) \in Times
BY ConstantsAssumption DEF TypeOK, Changed, Times

LEMMA SomeRows ==
    /\ 0 \in Times
    /\ NotServed \in ErpRecords
    /\ Absent \in Rows
    /\ NoRow \in Rows
    /\ NoRun \in Runs
BY ConstantsAssumption
   DEF NotServed, ErpRecords, Absent, Rows, NoRow, NoRun, Runs, NothingFetched, Times

(* One record of the ERP changes: it is stamped, or removed, or keeps what *)
(* the runs look at.                                                       *)
LEMMA ErpChange ==
    ASSUME TypeOK, ErpStep
    PROVE  /\ now' \in Times /\ now' > now /\ now' > 0
           /\ \E o \in Orders, rec \in ErpRecords :
                /\ erp' = [erp EXCEPT ![o] = rec]
                /\ \/ rec.at = now'
                   \/ ~ rec.valid /\ rec.at = 0
                   \/ rec.at = erp[o].at /\ rec.valid = erp[o].valid
<1>1. now' \in Times /\ now' > now /\ now' > 0
  BY TickAdvances DEF ErpStep, CreateOrder, ChangeOrder, ChangeOperation, RemoveOrder
<1>2. PICK o \in Orders :
         CreateOrder(o) \/ ChangeOrder(o) \/ ChangeOperation(o) \/ RemoveOrder(o)
  BY DEF ErpStep
<1>3. /\ erp[o] \in ErpRecords
      /\ \A rec : [erp EXCEPT ![o] = rec][o] = rec
  BY DEF TypeOK
<1>4. CASE CreateOrder(o)
  <2>1. PICK ok \in BOOLEAN :
           erp' = [erp EXCEPT ![o] = [at |-> now', valid |-> ok, ops |-> now']]
    BY <1>4 DEF CreateOrder
  <2>2. [at |-> now', valid |-> ok, ops |-> now'] \in ErpRecords
    BY <1>1 DEF ErpRecords
  <2> QED BY <1>1, <2>1, <2>2
<1>5. CASE ChangeOrder(o)
  <2>1. PICK ok \in BOOLEAN : erp' = [erp EXCEPT ![o].at = now', ![o].valid = ok]
    BY <1>5 DEF ChangeOrder
  <2>2. erp' = [erp EXCEPT ![o] = [at |-> now', valid |-> ok, ops |-> erp[o].ops]]
    BY <1>3, <2>1 DEF ErpRecords
  <2>3. [at |-> now', valid |-> ok, ops |-> erp[o].ops] \in ErpRecords
    BY <1>1, <1>3 DEF ErpRecords
  <2> QED BY <1>1, <2>2, <2>3
<1>6. CASE ChangeOperation(o)
  <2>1. erp' = [erp EXCEPT ![o] = [at |-> erp[o].at, valid |-> erp[o].valid, ops |-> now']]
    BY <1>3, <1>6 DEF ChangeOperation, ErpRecords
  <2>2. [at |-> erp[o].at, valid |-> erp[o].valid, ops |-> now'] \in ErpRecords
    BY <1>1, <1>3 DEF ErpRecords
  <2> QED BY <1>1, <2>1, <2>2
<1>7. CASE RemoveOrder(o)
  BY <1>1, <1>7, SomeRows DEF RemoveOrder, NotServed
<1> QED BY <1>2, <1>4, <1>5, <1>6, <1>7

LEMMA VisibleIsRow ==
    ASSUME TypeOK, NEW r \in Runners, NEW o \in Orders
    PROVE  Visible(r, o) \in Rows
BY DEF TypeOK, Visible

LEMMA UpsertedIsRow ==
    ASSUME TypeOK, NEW r \in Runners, NEW o \in Orders
    PROVE  UpsertedRow(r, o) \in Rows
<1>1. stored[o] \in Rows
  BY DEF TypeOK
<1>2. run[r].orders[o] \in Times /\ run[r].ops[o] \in Times
  BY DEF TypeOK, Runs
<1> QED BY <1>1, <1>2, SomeRows DEF UpsertedRow, Rows

LEMMA TypeStep == TypeOK /\ [Next]_vars => TypeOK'
<1> SUFFICES ASSUME TypeOK, [Next]_vars PROVE TypeOK'
  OBVIOUS
<1>1. CASE UNCHANGED vars
  BY <1>1 DEF TypeOK, vars
<1>2. CASE ErpStep
  <2>1. now' \in Times /\ erp' \in [Orders -> ErpRecords]
    BY <1>2, ErpChange DEF TypeOK
  <2> QED BY <1>2, <2>1 DEF ErpStep, TypeOK
<1>3. ASSUME NEW r \in Runners, Start(r) PROVE TypeOK'
  <2>1. now' \in Times
    BY <1>3, TickAdvances DEF Start
  <2>2. PICK mode \in {"full", "incremental"}, prune \in BOOLEAN :
           run' = [run EXCEPT ![r] = [NoRun EXCEPT !.mode = mode, !.prune = prune,
                                      !.startedAt = now', !.since = SinceOf(mode)]]
    BY <1>3 DEF Start
  <2>3. SinceOf(mode) \in Times
    BY SomeRows DEF SinceOf, TypeOK
  <2>4. [NoRun EXCEPT !.mode = mode, !.prune = prune,
                      !.startedAt = now', !.since = SinceOf(mode)] \in Runs
    BY <2>1, <2>3, SomeRows DEF Runs
  <2>5. run' \in [Runners -> Runs]
    BY <2>2, <2>4 DEF TypeOK
  <2> QED BY <1>3, <2>1, <2>5 DEF Start, Goto, TypeOK, Running
<1>4. ASSUME NEW r \in Runners, FetchOrders(r) PROVE TypeOK'
  <2> DEFINE batch == [o \in Orders |-> IF erp[o].valid THEN Changed(r, erp[o].at) ELSE 0]
             ids == {o \in Orders : Changed(r, erp[o].at) # 0}
  <2>1. batch \in [Orders -> Times] /\ ids \in SUBSET Orders
    BY ChangedIsTime, SomeRows DEF TypeOK, ErpRecords
  <2>2. run' = [run EXCEPT ![r] = [run[r] EXCEPT !.response = ids, !.orders = batch]]
    BY <1>4 DEF FetchOrders, TypeOK, Runs
  <2> HIDE DEF batch, ids
  <2>3. [run[r] EXCEPT !.response = ids, !.orders = batch] \in Runs
    <3>1. run[r] \in Runs
      BY DEF TypeOK
    <3> QED BY <2>1, <3>1 DEF Runs
  <2>4. run' \in [Runners -> Runs]
    BY <2>2, <2>3 DEF TypeOK
  <2> QED BY <1>4, <2>4 DEF FetchOrders, Goto, TypeOK, Running
<1>5. ASSUME NEW r \in Runners, FetchOperations(r) PROVE TypeOK'
  <2> DEFINE batch == [o \in Orders |-> Changed(r, erp[o].ops)]
  <2>1. batch \in [Orders -> Times]
    BY ChangedIsTime DEF TypeOK, ErpRecords
  <2>2. run' = [run EXCEPT ![r] = [run[r] EXCEPT !.ops = batch]]
    BY <1>5 DEF FetchOperations, TypeOK, Runs
  <2> HIDE DEF batch
  <2>3. [run[r] EXCEPT !.ops = batch] \in Runs
    <3>1. run[r] \in Runs
      BY DEF TypeOK
    <3> QED BY <2>1, <3>1 DEF Runs
  <2>4. run' \in [Runners -> Runs]
    BY <2>2, <2>3 DEF TypeOK
  <2> QED BY <1>5, <2>4 DEF FetchOperations, Goto, TypeOK, Running
<1>6. ASSUME NEW r \in Runners, ReadExisting(r) PROVE TypeOK'
  <2> DEFINE kept == [o \in Orders |->
               IF run[r].orders[o] # 0 \/ stored[o] # Absent THEN run[r].ops[o] ELSE 0]
  <2>1. kept \in [Orders -> Times]
    BY SomeRows DEF TypeOK, Runs
  <2>2. run' = [run EXCEPT ![r] = [run[r] EXCEPT !.ops = kept]]
    BY <1>6 DEF ReadExisting, TypeOK, Runs
  <2> HIDE DEF kept
  <2>3. [run[r] EXCEPT !.ops = kept] \in Runs
    <3>1. run[r] \in Runs
      BY DEF TypeOK
    <3> QED BY <2>1, <3>1 DEF Runs
  <2>4. run' \in [Runners -> Runs]
    BY <2>2, <2>3 DEF TypeOK
  <2> QED BY <1>6, <2>4 DEF ReadExisting, Goto, TypeOK, Running
<1>7. ASSUME NEW r \in Runners, Upsert(r) PROVE TypeOK'
  BY <1>7, UpsertedIsRow, SomeRows DEF Upsert, AfterUpsert, Goto, TypeOK, Running
<1>8. ASSUME NEW r \in Runners, SelectMissing(r) PROVE TypeOK'
  BY <1>8 DEF SelectMissing, MissingOrders, Goto, TypeOK, Running
<1>9. ASSUME NEW r \in Runners, CloseMissing(r) PROVE TypeOK'
  <2>1. \A o \in Orders : [Visible(r, o) EXCEPT !.closed = TRUE] \in Rows
    BY VisibleIsRow DEF Rows
  <2> QED BY <1>9, <2>1, SomeRows DEF CloseMissing, Goto, TypeOK, Running
<1>10. ASSUME NEW r \in Runners, Complete(r) \/ Fail(r) PROVE TypeOK'
  <2>1. stored' \in [Orders -> Rows]
    BY <1>10, VisibleIsRow DEF Complete, Fail, TypeOK
  <2>2. watermark' \in Times
    <3>1. watermark \in Times /\ run[r].startedAt \in Times
      BY DEF TypeOK, Runs
    <3> QED BY <1>10, <3>1 DEF Complete, Fail, LatestOf
  <2>3. End(r)
    BY <1>10 DEF Complete, Fail
  <2> QED BY <2>1, <2>2, <2>3, SomeRows DEF End, NoWrites, Goto, TypeOK
<1> QED BY <1>1, <1>2, <1>3, <1>4, <1>5, <1>6, <1>7, <1>8, <1>9, <1>10 DEF Next, RunStep

LEMMA InitType == Init => TypeOK
BY SomeRows, ConstantsAssumption DEF Init, TypeOK, NoWrites, Times

-----------------------------------------------------------------------------
(* A change of the ERP is newer than every run: nobody answers for it.     *)
LEMMA ErpStepKeeps ==
    ASSUME TypeOK, IInv, ErpStep
    PROVE  IInv'
<1>1. /\ now' > now /\ now' > 0 /\ now' \in Int /\ now \in Int /\ watermark \in Int
      /\ UNCHANGED <<stored, watermark, pc, run, existing, writes, missing>>
  BY ErpChange, ConstantsAssumption DEF ErpStep, TypeOK, Times
<1>2. \A o \in Orders : /\ erp[o].at \in Int
                        /\ \/ erp'[o].at = now'
                           \/ ~ erp'[o].valid /\ erp'[o].at = 0
                           \/ erp'[o].at = erp[o].at /\ erp'[o].valid = erp[o].valid
  <2>1. \A o \in Orders : erp[o].at \in Int
    BY ConstantsAssumption DEF TypeOK, ErpRecords, Times
  <2> QED BY <2>1, ErpChange DEF TypeOK
<1>3. ClockInv'
  BY <1>1, <1>2 DEF ClockInv, IInv
<1>4. \A r \in Runners, o \in Orders : pc[r] # "idle" /\ Answered(r, o)' =>
          Answered(r, o) /\ erp'[o].at = erp[o].at
  <2>1. \A r \in Runners : pc[r] # "idle" => run[r].startedAt < now' /\ run[r].startedAt \in Int
    BY <1>1, ConstantsAssumption DEF IInv, SinceInv, TypeOK, Runs, Times
  <2> QED BY <1>1, <1>2, <2>1 DEF Answered
<1>5. SinceInv'
  <2>1. \A r \in Runners : run[r].startedAt \in Int
    BY ConstantsAssumption DEF TypeOK, Runs, Times
  <2> QED BY <1>1, <2>1 DEF IInv, SinceInv, SinceOf
<1>6. BatchInv'
  BY <1>1, <1>4 DEF IInv, BatchInv, Changed, Running
<1>7. UpsertInv'
  <2>1. \A r \in Runners, o \in Orders : Visible(r, o)' = Visible(r, o)
    BY <1>1 DEF Visible
  <2> QED BY <1>1, <1>4, <2>1 DEF IInv, UpsertInv, TypeOK
<1>8. NothingLost'
  BY <1>1, <1>2 DEF IInv, NothingLost, ClockInv
<1> QED BY <1>3, <1>5, <1>6, <1>7, <1>8 DEF IInv

(* A new run answers for nothing yet, and its start is the newest instant. *)
LEMMA StartKeeps ==
    ASSUME OneRunner, TypeOK, IInv, NEW r \in Runners, Start(r)
    PROVE  IInv'
<1>1. /\ UNCHANGED <<erp, stored, watermark, writes, missing>>
      /\ pc[r] = "idle" /\ pc'[r] = "fetchOrders"
  BY DEF Start, Goto, TypeOK
<1>2. now' > now /\ now' \in Int /\ now \in Int
  BY TickAdvances, ConstantsAssumption DEF Start, TypeOK, Times
<1>3. watermark' = watermark /\ watermark' < now'
  BY <1>1, <1>2, ConstantsAssumption DEF IInv, ClockInv, TypeOK, Times
<1>4. ClockInv'
  <2>1. ASSUME NEW o \in Orders
        PROVE  erp[o].at <= now' /\ (erp[o].valid => erp[o].at > 0)
    <3>1. erp[o].at \in Int
      BY ConstantsAssumption DEF TypeOK, ErpRecords, Times
    <3>2. erp[o].at <= now /\ (erp[o].valid => erp[o].at > 0)
      BY DEF IInv, ClockInv
    <3> QED BY <1>2, <3>1, <3>2
  <2>2. watermark' <= now'
    BY <1>2, <1>3, ConstantsAssumption DEF TypeOK, Times
  <2> QED BY <1>1, <2>1, <2>2 DEF ClockInv
<1>5. NothingLost'
  BY <1>1 DEF IInv, NothingLost
<1>6. SinceInv'
  <2>1. PICK mode \in {"full", "incremental"}, prune \in BOOLEAN :
           run' = [run EXCEPT ![r] = [NoRun EXCEPT !.mode = mode, !.prune = prune,
                                      !.startedAt = now', !.since = SinceOf(mode)]]
    BY DEF Start
  <2>2. /\ run'[r].startedAt = now'
        /\ run'[r].mode = mode
        /\ run'[r].since = SinceOf(mode)
    BY <2>1 DEF NoRun, TypeOK
  <2> QED BY <1>2, <1>3, <2>2 DEF OneRunner, SinceInv, SinceOf
<1>7. BatchInv'
  <2>1. pc'[r] \notin Running \ {"fetchOrders"}
    BY <1>1
  <2> QED BY <2>1 DEF OneRunner, BatchInv
<1>8. UpsertInv'
  BY <1>1 DEF OneRunner, IInv, UpsertInv
<1> QED BY <1>4, <1>5, <1>6, <1>7, <1>8 DEF IInv

(* The steps of a run up to the upsert: the store is not touched yet.      *)
LEMMA FetchStepKeeps ==
    ASSUME OneRunner, TypeOK, IInv, NEW r \in Runners,
           FetchOrders(r) \/ FetchOperations(r) \/ ReadExisting(r)
    PROVE  IInv'
<1>1. /\ UNCHANGED <<now, erp, stored, watermark, writes, missing>>
      /\ pc[r] \in {"fetchOrders", "fetchOperations", "validate"}
      /\ pc'[r] \in {"fetchOperations", "validate", "upsert"}
      /\ pc'[r] = "upsert" => existing'[r] = stored
  BY DEF FetchOrders, FetchOperations, ReadExisting, Goto, TypeOK
<1>2. /\ run'[r].mode = run[r].mode
      /\ run'[r].since = run[r].since
      /\ run'[r].startedAt = run[r].startedAt
  <2>1. CASE FetchOrders(r)
    BY <2>1 DEF FetchOrders, TypeOK
  <2>2. CASE FetchOperations(r)
    BY <2>2 DEF FetchOperations, TypeOK
  <2>3. CASE ReadExisting(r)
    BY <2>3 DEF ReadExisting, TypeOK
  <2> QED BY <2>1, <2>2, <2>3
<1>3. \A o \in Orders : Answered(r, o) => run'[r].orders[o] = Changed(r, erp[o].at)
  <2>1. CASE FetchOrders(r)
    BY <2>1 DEF FetchOrders, Answered, TypeOK
  <2>2. CASE FetchOperations(r)
    <3>1. run'[r].orders = run[r].orders
      BY <2>2 DEF FetchOperations, TypeOK
    <3>2. pc[r] \in Running \ {"fetchOrders"}
      BY <2>2 DEF FetchOperations, Running
    <3> QED BY <3>1, <3>2 DEF IInv, BatchInv
  <2>3. CASE ReadExisting(r)
    <3>1. run'[r].orders = run[r].orders
      BY <2>3 DEF ReadExisting, TypeOK
    <3>2. pc[r] \in Running \ {"fetchOrders"}
      BY <2>3 DEF ReadExisting, Running
    <3> QED BY <3>1, <3>2 DEF IInv, BatchInv
  <2> QED BY <2>1, <2>2, <2>3
<1>4. ClockInv' /\ NothingLost'
  BY <1>1 DEF IInv, ClockInv, NothingLost
<1>5. SinceInv'
  BY <1>1, <1>2 DEF OneRunner, IInv, SinceInv, SinceOf
<1>6. BatchInv'
  BY <1>1, <1>2, <1>3 DEF OneRunner, BatchInv, Answered, Changed
<1>7. UpsertInv'
  BY <1>1 DEF OneRunner, IInv, UpsertInv
<1> QED BY <1>4, <1>5, <1>6, <1>7 DEF IInv

(* The upsert writes every order the run answers for, or finds it mirrored *)
(* by an earlier run.                                                      *)
LEMMA UpsertKeeps ==
    ASSUME OneRunner, TypeOK, IInv, NEW r \in Runners, Upsert(r)
    PROVE  IInv'
<1>1. ClockInv' /\ SinceInv' /\ BatchInv' /\ NothingLost'
  BY DEF Upsert, AfterUpsert, Goto, OneRunner, IInv, ClockInv, SinceInv, SinceOf, BatchInv,
         Answered, Changed, NothingLost, TypeOK, Running
<1>2. ASSUME NEW o \in Orders, Answered(r, o)
      PROVE  Visible(r, o)'.at = erp[o].at /\ ~ Visible(r, o)'.closed
  <2>1. writes'[r][o] = IF Touched(r, o) THEN UpsertedRow(r, o) ELSE NoRow
    BY DEF Upsert, TypeOK
  <2>2. stored' = stored /\ existing[r] = stored /\ pc[r] = "upsert"
    BY DEF Upsert, IInv, UpsertInv
  <2>3. run[r].orders[o] = Changed(r, erp[o].at) /\ erp[o].at > 0
    BY <1>2, <2>2 DEF IInv, BatchInv, ClockInv, Answered, Running
  <2>4. CASE erp[o].at > run[r].since
    <3>1. run[r].orders[o] = erp[o].at /\ run[r].orders[o] # 0
      BY <2>3, <2>4, ConstantsAssumption DEF Changed, TypeOK, ErpRecords, Times
    <3>2. UpsertedRow(r, o).at = erp[o].at /\ ~ UpsertedRow(r, o).closed
      BY <2>2, <3>1 DEF UpsertedRow
    <3> QED BY <2>1, <3>1, <3>2 DEF Touched, Visible, NoRow
  <2>5. CASE ~ (erp[o].at > run[r].since)
    <3>1. run[r].orders[o] = 0
      BY <2>3, <2>5 DEF Changed
    <3>2. erp[o].at <= watermark
      <4>1. run[r].since = 0 \/ run[r].since = watermark
        BY <2>2 DEF IInv, SinceInv, SinceOf
      <4>2. erp[o].at \in Int /\ watermark \in Int
        BY ConstantsAssumption DEF TypeOK, ErpRecords, Times
      <4> QED BY <2>3, <2>5, <4>1, <4>2
    <3>3. stored[o].at = erp[o].at /\ ~ stored[o].closed
      BY <1>2, <3>2 DEF IInv, NothingLost, Answered
    <3>4. UpsertedRow(r, o).at = erp[o].at /\ ~ UpsertedRow(r, o).closed
      BY <2>2, <3>1, <3>3 DEF UpsertedRow
    <3> QED BY <2>1, <2>2, <3>3, <3>4 DEF Visible, NoRow
  <2> QED BY <2>4, <2>5
<1>3. UpsertInv'
  BY <1>2 DEF Upsert, AfterUpsert, Goto, OneRunner, UpsertInv, Answered, TypeOK
<1> QED BY <1>1, <1>3 DEF IInv

(* A full run has fetched every order it answers for: none is missing.     *)
LEMMA ReconcileKeeps ==
    ASSUME OneRunner, TypeOK, IInv, NEW r \in Runners, SelectMissing(r) \/ CloseMissing(r)
    PROVE  IInv'
<1>1. ClockInv' /\ SinceInv' /\ BatchInv' /\ NothingLost'
  <2>1. /\ UNCHANGED <<now, erp, stored, watermark, run>>
        /\ pc[r] \in {"selectMissing", "closeMissing"}
    BY DEF SelectMissing, CloseMissing
  <2>2. ClockInv' /\ NothingLost'
    BY <2>1 DEF IInv, ClockInv, NothingLost
  <2>3. SinceInv'
    BY <2>1 DEF OneRunner, IInv, SinceInv, SinceOf
  <2>4. BatchInv'
    BY <2>1 DEF OneRunner, IInv, BatchInv, Answered, Changed, Running
  <2> QED BY <2>2, <2>3, <2>4
<1>2. CASE SelectMissing(r)
  <2>1. \A o \in MissingOrders(r) : ~ Answered(r, o)
    <3>1. SUFFICES ASSUME NEW o \in Orders, Answered(r, o)
                   PROVE  o \in Fetched(r)
      BY DEF MissingOrders
    <3>2. run[r].since = 0
      BY <1>2 DEF SelectMissing, IInv, UpsertInv, SinceInv, SinceOf
    <3>3. run[r].orders[o] = Changed(r, erp[o].at) /\ erp[o].at > 0
      BY <1>2, <3>1 DEF SelectMissing, IInv, BatchInv, ClockInv, Answered, Running
    <3> QED BY <3>2, <3>3, ConstantsAssumption DEF Changed, Fetched, TypeOK, ErpRecords, Times
  <2> QED BY <1>1, <1>2, <2>1
          DEF SelectMissing, Goto, OneRunner, IInv, UpsertInv, Answered, Visible, TypeOK
<1>3. CASE CloseMissing(r)
  <2>1. ASSUME NEW o \in Orders, Answered(r, o)
        PROVE  Visible(r, o)' = Visible(r, o)
    BY <1>3, <2>1 DEF CloseMissing, IInv, UpsertInv, Visible, TypeOK
  <2> QED BY <1>1, <1>3, <2>1
          DEF CloseMissing, Goto, OneRunner, IInv, UpsertInv, Answered, TypeOK
<1> QED BY <1>2, <1>3

(* A completed run has answered for every order up to its start, which is  *)
(* the new watermark; a failed one leaves store and watermark.             *)
LEMMA EndKeeps ==
    ASSUME OneRunner, TypeOK, IInv, NEW r \in Runners, Complete(r) \/ Fail(r)
    PROVE  IInv'
<1>1. End(r) /\ pc[r] # "idle"
  BY DEF Complete, Fail
<1>2. pc'[r] = "idle" /\ writes'[r] = NoWrites
  BY <1>1 DEF End, Goto, TypeOK
<1>3. SinceInv' /\ BatchInv' /\ UpsertInv'
  BY <1>2 DEF OneRunner, SinceInv, BatchInv, UpsertInv, Running
<1>4. CASE Complete(r)
  <2>1. watermark' = run[r].startedAt /\ run[r].startedAt <= now
    BY <1>4, ConstantsAssumption DEF Complete, LatestOf, IInv, SinceInv, TypeOK, Times
  <2>2. ClockInv'
    BY <1>1, <2>1 DEF End, IInv, ClockInv
  <2>3. NothingLost'
    BY <1>1, <1>4, <2>1 DEF Complete, End, IInv, UpsertInv, NothingLost, Answered, TypeOK
  <2> QED BY <1>3, <2>2, <2>3 DEF IInv
<1>5. CASE Fail(r)
  <2>1. ClockInv' /\ NothingLost'
    BY <1>1, <1>5 DEF Fail, End, IInv, ClockInv, NothingLost
  <2> QED BY <1>3, <2>1 DEF IInv
<1> QED BY <1>4, <1>5

LEMMA Step ==
    ASSUME OneRunner, TypeOK, IInv, [Next]_vars
    PROVE  IInv'
<1>1. CASE UNCHANGED vars
  BY <1>1 DEF vars, IInv, ClockInv, SinceInv, SinceOf, BatchInv, UpsertInv, NothingLost,
              Answered, Changed, Visible
<1>2. CASE Next
  BY <1>2, ErpStepKeeps, StartKeeps, FetchStepKeeps, UpsertKeeps, ReconcileKeeps, EndKeeps
     DEF Next, RunStep
<1> QED BY <1>1, <1>2

LEMMA InitHolds == Init => IInv
BY ConstantsAssumption
   DEF Init, IInv, ClockInv, SinceInv, BatchInv, UpsertInv, NothingLost, NotServed, Running

(* The store, the runs and the ERP keep the values the code can give them. *)
THEOREM TypeCorrect == Spec => []TypeOK
BY InitType, TypeStep, PTL DEF Spec

(* While runs do not overlap, no change of an order is lost, whatever the  *)
(* ERP does during a run and wherever runs fail.                           *)
THEOREM NoChangeLost ==
    ASSUME OneRunner
    PROVE  Spec => []NothingLost
<1>1. TypeOK /\ IInv /\ [Next]_vars => (TypeOK /\ IInv)'
  BY TypeStep, Step
<1>2. IInv => NothingLost
  BY DEF IInv
<1> QED BY InitType, InitHolds, <1>1, <1>2, PTL DEF Spec
-----------------------------------------------------------------------------
(* Operations.  Unless the normaliser rejects records an order and its     *)
(* operation are served together.                                          *)
WholeRecords == \A o \in Orders :
    /\ erp[o].ops <= now
    /\ erp[o] = NotServed \/ (erp[o].valid /\ erp[o].at > 0 /\ erp[o].ops > 0)

(* The operations a run answers for when it completes; their order was     *)
(* served when the run started.                                            *)
AnsweredOps(r, o) == erp[o].at # 0 /\ erp[o].ops <= run[r].startedAt

(* The order of each of them is in the batch, or stored already, so the    *)
(* validation drops none ...                                               *)
OrderKnown ==
    \A r \in Runners : pc[r] \in Running \ {"fetchOrders"} =>
        \A o \in Orders : AnsweredOps(r, o) =>
            run[r].orders[o] # 0 \/ (run[r].since # 0 /\ stored[o] # Absent)

OpsBatchInv ==
    \A r \in Runners : pc[r] \in Running \ {"fetchOrders", "fetchOperations"} =>
        \A o \in Orders : AnsweredOps(r, o) => run[r].ops[o] = Changed(r, erp[o].ops)

(* ... and it survives the upsert and the reconciliation.                  *)
OpsUpsertInv ==
    \A r \in Runners :
        /\ pc[r] \in {"selectMissing", "closeMissing", "complete"} =>
            \A o \in Orders : AnsweredOps(r, o) => Visible(r, o).ops = erp[o].ops
        /\ pc[r] = "closeMissing" => \A o \in missing[r] : ~ AnsweredOps(r, o)

OpsInv == WholeRecords /\ OrderKnown /\ OpsBatchInv /\ OpsUpsertInv /\ OperationsNotLost

(* An operation keeps its instant, or gets the newest one.                 *)
LEMMA ErpChangeOps ==
    ASSUME ~ MalformedRecords, TypeOK, WholeRecords, ErpStep
    PROVE  /\ WholeRecords'
           /\ \A o \in Orders : erp'[o].at # 0 =>
                 \/ erp'[o].ops = now'
                 \/ erp[o].at # 0 /\ erp'[o].ops = erp[o].ops
<1>1. now' \in Times /\ now' > now /\ now' > 0
  BY ErpChange
<1>2. PICK o \in Orders :
         CreateOrder(o) \/ ChangeOrder(o) \/ ChangeOperation(o) \/ RemoveOrder(o)
  BY DEF ErpStep
<1>3. /\ erp \in [Orders -> ErpRecords] /\ now \in Int /\ now' \in Int
      /\ \A p \in Orders : erp[p].ops \in Int /\ erp[p].at \in Int
  BY <1>1, ConstantsAssumption DEF TypeOK, ErpRecords, Times
<1>4. /\ erp[o] \in ErpRecords
      /\ \A rec : [erp EXCEPT ![o] = rec][o] = rec
  BY <1>3
<1> DEFINE Replaced(rec) == erp' = [erp EXCEPT ![o] = rec]
<1>5. ASSUME NEW rec \in ErpRecords, Replaced(rec),
             rec.ops \in Int, rec.ops <= now',
             \/ rec = NotServed
             \/ /\ rec.valid /\ rec.at > 0 /\ rec.ops > 0
                /\ rec.ops = now' \/ (erp[o].at # 0 /\ rec.ops = erp[o].ops)
      PROVE  /\ WholeRecords'
             /\ \A p \in Orders : erp'[p].at # 0 =>
                   \/ erp'[p].ops = now'
                   \/ erp[p].at # 0 /\ erp'[p].ops = erp[p].ops
  <2>1. erp'[o] = rec /\ \A p \in Orders : p # o => erp'[p] = erp[p]
    BY <1>3, <1>5
  <2>2. \A p \in Orders : p # o => erp[p].ops <= now'
    BY <1>1, <1>3 DEF WholeRecords
  <2> HIDE DEF Replaced
  <2>3. WholeRecords'
    <3>1. rec = NotServed \/ (rec.valid /\ rec.at > 0 /\ rec.ops > 0)
      BY <1>5
    <3>2. ASSUME NEW p \in Orders
          PROVE  /\ erp'[p].ops <= now'
                 /\ erp'[p] = NotServed
                    \/ (erp'[p].valid /\ erp'[p].at > 0 /\ erp'[p].ops > 0)
      BY <1>5, <2>1, <2>2, <3>1 DEF WholeRecords
    <3> QED BY <3>2 DEF WholeRecords, NotServed
  <2>4. rec.at # 0 => rec.ops = now' \/ (erp[o].at # 0 /\ rec.ops = erp[o].ops)
    BY <1>5 DEF NotServed
  <2> QED BY <2>1, <2>3, <2>4
<1>6. CASE CreateOrder(o)
  <2> DEFINE rec == [at |-> now', valid |-> TRUE, ops |-> now']
  <2>1. Replaced(rec)
    BY <1>6 DEF CreateOrder
  <2>2. rec \in ErpRecords
    BY <1>1 DEF ErpRecords
  <2>3. rec.valid /\ rec.at > 0 /\ rec.ops > 0 /\ rec.ops = now'
    BY <1>1
  <2>4. now' <= now' /\ now' \in Int
    BY <1>3
  <2> HIDE DEF rec, Replaced
  <2> QED BY <1>5, <2>1, <2>2, <2>3, <2>4
<1>7. CASE ChangeOrder(o)
  <2> DEFINE rec == [at |-> now', valid |-> TRUE, ops |-> erp[o].ops]
  <2>1. erp[o] # NotServed /\ erp' = [erp EXCEPT ![o].at = now', ![o].valid = TRUE]
    BY <1>7 DEF ChangeOrder
  <2>2. Replaced(rec)
    BY <1>4, <2>1 DEF ErpRecords
  <2>3. rec \in ErpRecords
    BY <1>1, <1>4 DEF ErpRecords
  <2>4. erp[o].at > 0 /\ erp[o].ops > 0 /\ erp[o].ops <= now'
    BY <1>1, <1>3, <2>1 DEF WholeRecords
  <2>5. /\ rec.valid /\ rec.at > 0 /\ rec.ops > 0 /\ rec.ops <= now' /\ rec.ops \in Int
        /\ erp[o].at # 0 /\ rec.ops = erp[o].ops
    BY <1>1, <1>3, <2>4
  <2> HIDE DEF rec, Replaced
  <2> QED BY <1>5, <2>2, <2>3, <2>5
<1>8. CASE ChangeOperation(o)
  <2> DEFINE rec == [at |-> erp[o].at, valid |-> erp[o].valid, ops |-> now']
  <2>1. erp[o] # NotServed
    BY <1>8 DEF ChangeOperation
  <2>2. Replaced(rec)
    BY <1>4, <1>8 DEF ChangeOperation, ErpRecords
  <2>3. rec \in ErpRecords
    BY <1>1, <1>4 DEF ErpRecords
  <2>4. erp[o].valid /\ erp[o].at > 0
    BY <2>1 DEF WholeRecords
  <2>5. rec.valid /\ rec.at > 0 /\ rec.ops > 0 /\ rec.ops = now'
    BY <1>1, <2>4
  <2>6. now' <= now' /\ now' \in Int
    BY <1>3
  <2> HIDE DEF rec, Replaced
  <2> QED BY <1>5, <2>2, <2>3, <2>5, <2>6
<1>9. CASE RemoveOrder(o)
  <2>1. Replaced(NotServed)
    BY <1>9 DEF RemoveOrder
  <2>2. NotServed \in ErpRecords
    BY SomeRows
  <2>3. NotServed.ops = 0
    BY DEF NotServed
  <2>4. NotServed.ops \in Int /\ NotServed.ops <= now'
    BY <1>1, <1>3, <2>3
  <2> HIDE DEF Replaced
  <2> QED BY <1>5, <2>1, <2>2, <2>4
<1> QED BY <1>2, <1>6, <1>7, <1>8, <1>9

(* A change of the ERP is newer than every run.                            *)
LEMMA ErpStepKeepsOps ==
    ASSUME ~ MalformedRecords, TypeOK, IInv, OpsInv, ErpStep
    PROVE  OpsInv'
<1>1. /\ now' > now /\ now' \in Int /\ now \in Int /\ watermark \in Int
      /\ UNCHANGED <<stored, watermark, pc, run, existing, writes, missing>>
  BY ErpChange, ConstantsAssumption DEF ErpStep, TypeOK, Times
<1>2. WholeRecords'
  BY ErpChangeOps DEF OpsInv
<1>3. \A o \in Orders : erp'[o].at # 0 =>
         erp'[o].ops = now' \/ (erp[o].at # 0 /\ erp'[o].ops = erp[o].ops)
  BY ErpChangeOps DEF OpsInv
<1>4. \A r \in Runners, o \in Orders : pc[r] # "idle" /\ AnsweredOps(r, o)' =>
          AnsweredOps(r, o) /\ erp'[o].ops = erp[o].ops
  <2>1. \A r \in Runners : pc[r] # "idle" => run[r].startedAt < now' /\ run[r].startedAt \in Int
    BY <1>1, ConstantsAssumption DEF IInv, SinceInv, TypeOK, Runs, Times
  <2> QED BY <1>1, <1>3, <2>1 DEF AnsweredOps
<1>5. OrderKnown'
  BY <1>1, <1>4 DEF OpsInv, OrderKnown, Running
<1>6. OpsBatchInv'
  BY <1>1, <1>4 DEF OpsInv, OpsBatchInv, Changed, Running
<1>7. OpsUpsertInv'
  <2>1. \A r \in Runners, o \in Orders : Visible(r, o)' = Visible(r, o)
    BY <1>1 DEF Visible
  <2> QED BY <1>1, <1>4, <2>1 DEF OpsInv, OpsUpsertInv, TypeOK
<1>8. OperationsNotLost'
  <2>1. watermark < now'
    BY <1>1 DEF IInv, ClockInv
  <2> QED BY <1>1, <1>3, <2>1 DEF OpsInv, OperationsNotLost
<1> QED BY <1>2, <1>5, <1>6, <1>7, <1>8 DEF OpsInv

LEMMA StartKeepsOps ==
    ASSUME OneRunner, TypeOK, IInv, OpsInv, NEW r \in Runners, Start(r)
    PROVE  OpsInv'
<1>1. /\ UNCHANGED <<erp, stored, watermark>>
      /\ pc'[r] = "fetchOrders"
  BY DEF Start, Goto, TypeOK
<1>2. now' > now /\ now' \in Int /\ now \in Int
  BY TickAdvances, ConstantsAssumption DEF Start, TypeOK, Times
<1>3. \A o \in Orders : erp[o].ops \in Int
  BY ConstantsAssumption DEF TypeOK, ErpRecords, Times
<1>4. WholeRecords' /\ OperationsNotLost'
  BY <1>1, <1>2, <1>3 DEF OpsInv, WholeRecords, OperationsNotLost
<1>5. OrderKnown' /\ OpsBatchInv' /\ OpsUpsertInv'
  BY <1>1 DEF OneRunner, OrderKnown, OpsBatchInv, OpsUpsertInv, Running
<1> QED BY <1>4, <1>5 DEF OpsInv

(* The order of an operation the run answers for is in the response, or it *)
(* is older than the watermark and the store has it.                       *)
LEMMA FetchOrdersKeepsOps ==
    ASSUME OneRunner, TypeOK, IInv, OpsInv, NEW r \in Runners, FetchOrders(r)
    PROVE  OpsInv'
<1>1. /\ UNCHANGED <<now, erp, stored, watermark>>
      /\ pc[r] = "fetchOrders" /\ pc'[r] = "fetchOperations"
  BY DEF FetchOrders, Goto, TypeOK
<1>2. WholeRecords' /\ OperationsNotLost' /\ OpsBatchInv' /\ OpsUpsertInv'
  BY <1>1 DEF OneRunner, OpsInv, WholeRecords, OperationsNotLost, OpsBatchInv, OpsUpsertInv,
              Running
<1>3. /\ run'[r].since = run[r].since
      /\ \A o \in Orders : run'[r].orders[o] =
             IF erp[o].valid THEN Changed(r, erp[o].at) ELSE 0
  BY DEF FetchOrders, TypeOK
<1>4. run[r].since \in {0, watermark}
  BY <1>1 DEF IInv, SinceInv, SinceOf
<1>5. ASSUME NEW o \in Orders, erp[o].at # 0
      PROVE  run'[r].orders[o] # 0 \/ (run'[r].since # 0 /\ stored[o] # Absent)
  <2>1. erp[o].valid /\ erp[o].at > 0 /\ erp[o].at \in Int /\ watermark \in Int
    BY <1>5, ConstantsAssumption
       DEF OpsInv, WholeRecords, NotServed, TypeOK, ErpRecords, Times
  <2>2. CASE erp[o].at > run[r].since
    BY <1>3, <2>1, <2>2 DEF Changed
  <2>3. CASE ~ (erp[o].at > run[r].since)
    <3>1. run[r].since # 0 /\ erp[o].at <= watermark
      BY <1>4, <2>1, <2>3
    <3>2. stored[o].at = erp[o].at
      BY <2>1, <3>1 DEF IInv, NothingLost
    <3>3. stored[o] # Absent
      BY <2>1, <3>2 DEF Absent
    <3> QED BY <1>3, <3>1, <3>3
  <2> QED BY <2>2, <2>3
<1>6. OrderKnown'
  BY <1>1, <1>5 DEF OneRunner, OrderKnown, AnsweredOps
<1> QED BY <1>2, <1>6 DEF OpsInv

LEMMA FetchOperationsKeepsOps ==
    ASSUME OneRunner, TypeOK, IInv, OpsInv, NEW r \in Runners,
           FetchOperations(r) \/ ReadExisting(r)
    PROVE  OpsInv'
<1>1. /\ UNCHANGED <<now, erp, stored, watermark>>
      /\ pc[r] \in {"fetchOperations", "validate"}
      /\ pc'[r] \in {"validate", "upsert"}
  BY DEF FetchOperations, ReadExisting, Goto, TypeOK
<1>2. WholeRecords' /\ OperationsNotLost' /\ OpsUpsertInv'
  BY <1>1 DEF OneRunner, OpsInv, WholeRecords, OperationsNotLost, OpsUpsertInv
<1>3. /\ run'[r].since = run[r].since
      /\ run'[r].startedAt = run[r].startedAt
      /\ run'[r].orders = run[r].orders
  <2>1. CASE FetchOperations(r)
    BY <2>1 DEF FetchOperations, TypeOK
  <2>2. CASE ReadExisting(r)
    BY <2>2 DEF ReadExisting, TypeOK
  <2> QED BY <2>1, <2>2
<1>4. \A o \in Orders : AnsweredOps(r, o) =>
          run[r].orders[o] # 0 \/ (run[r].since # 0 /\ stored[o] # Absent)
  BY <1>1 DEF OpsInv, OrderKnown, Running
<1>5. OrderKnown'
  BY <1>1, <1>3, <1>4 DEF OneRunner, OrderKnown, AnsweredOps
<1>6. \A o \in Orders : AnsweredOps(r, o) => run'[r].ops[o] = Changed(r, erp[o].ops)
  <2>1. CASE FetchOperations(r)
    BY <2>1 DEF FetchOperations, TypeOK
  <2>2. CASE ReadExisting(r)
    <3>1. \A o \in Orders : run'[r].ops[o] =
             IF run[r].orders[o] # 0 \/ stored[o] # Absent THEN run[r].ops[o] ELSE 0
      BY <2>2 DEF ReadExisting, TypeOK
    <3>2. pc[r] \in Running \ {"fetchOrders", "fetchOperations"}
      BY <2>2 DEF ReadExisting, Running
    <3> QED BY <1>4, <3>1, <3>2 DEF OpsInv, OpsBatchInv
  <2> QED BY <2>1, <2>2
<1>7. OpsBatchInv'
  BY <1>1, <1>3, <1>6 DEF OneRunner, OpsBatchInv, AnsweredOps, Changed
<1> QED BY <1>2, <1>5, <1>7 DEF OpsInv

(* The upsert writes every operation the run answers for, or finds it      *)
(* mirrored; full mode deletes none of them.                               *)
LEMMA UpsertKeepsOps ==
    ASSUME OneRunner, TypeOK, IInv, OpsInv, NEW r \in Runners, Upsert(r)
    PROVE  OpsInv'
<1>1. /\ UNCHANGED <<now, erp, stored, watermark, run>>
      /\ pc[r] = "upsert" /\ pc'[r] \in {"selectMissing", "complete"}
  BY DEF Upsert, AfterUpsert, Goto, TypeOK
<1>2. WholeRecords' /\ OperationsNotLost'
  BY <1>1 DEF OpsInv, WholeRecords, OperationsNotLost
<1>3. OrderKnown' /\ OpsBatchInv'
  BY <1>1 DEF OneRunner, OpsInv, OrderKnown, OpsBatchInv, AnsweredOps, Changed, Running
<1>4. ASSUME NEW o \in Orders, AnsweredOps(r, o)
      PROVE  Visible(r, o)'.ops = erp[o].ops
  <2>1. writes'[r][o] = IF Touched(r, o) THEN UpsertedRow(r, o) ELSE NoRow
    BY DEF Upsert, TypeOK
  <2>2. existing[r] = stored
    BY <1>1 DEF IInv, UpsertInv
  <2>3. run[r].ops[o] = Changed(r, erp[o].ops)
    BY <1>1, <1>4 DEF OpsInv, OpsBatchInv, Running
  <2>4. erp[o].ops > 0 /\ erp[o].ops \in Int /\ watermark \in Int
    BY <1>4, ConstantsAssumption
       DEF AnsweredOps, OpsInv, WholeRecords, NotServed, TypeOK, ErpRecords, Times
  <2>5. CASE erp[o].ops > run[r].since
    <3>1. run[r].ops[o] = erp[o].ops /\ run[r].ops[o] # 0
      BY <2>3, <2>4, <2>5 DEF Changed
    <3>2. UpsertedRow(r, o).ops = erp[o].ops
      BY <2>2, <3>1 DEF UpsertedRow
    <3>3. UpsertedRow(r, o) # NoRow
      BY <2>4, <3>2 DEF NoRow
    <3> QED BY <2>1, <3>1, <3>2, <3>3 DEF Touched, Visible
  <2>6. CASE ~ (erp[o].ops > run[r].since)
    <3>1. run[r].ops[o] = 0
      BY <2>3, <2>6 DEF Changed
    <3>2. /\ erp[o].ops <= watermark
          /\ run[r].mode # "full"
      BY <1>1, <2>4, <2>6 DEF IInv, SinceInv, SinceOf
    <3>3. stored[o].ops = erp[o].ops
      BY <1>4, <3>2 DEF OpsInv, OperationsNotLost, AnsweredOps
    <3>4. UpsertedRow(r, o).ops = erp[o].ops
      BY <3>1, <3>2, <3>3 DEF UpsertedRow
    <3> QED BY <1>1, <2>1, <3>3, <3>4 DEF Visible, NoRow
  <2> QED BY <2>5, <2>6
<1>5. OpsUpsertInv'
  BY <1>1, <1>4 DEF OneRunner, OpsUpsertInv, AnsweredOps
<1> QED BY <1>2, <1>3, <1>5 DEF OpsInv

(* The order of such an operation was fetched by a full run: it is not     *)
(* missing.                                                                *)
LEMMA ReconcileKeepsOps ==
    ASSUME OneRunner, TypeOK, IInv, OpsInv, NEW r \in Runners,
           SelectMissing(r) \/ CloseMissing(r)
    PROVE  OpsInv'
<1>1. /\ UNCHANGED <<now, erp, stored, watermark, run>>
      /\ pc[r] \in {"selectMissing", "closeMissing"}
      /\ pc'[r] \in {"closeMissing", "complete"}
  BY DEF SelectMissing, CloseMissing, Goto, TypeOK
<1>2. WholeRecords' /\ OperationsNotLost'
  BY <1>1 DEF OpsInv, WholeRecords, OperationsNotLost
<1>3. OrderKnown' /\ OpsBatchInv'
  BY <1>1 DEF OneRunner, OpsInv, OrderKnown, OpsBatchInv, AnsweredOps, Changed, Running
<1>4. CASE SelectMissing(r)
  <2>1. \A o \in MissingOrders(r) : ~ AnsweredOps(r, o)
    <3>1. SUFFICES ASSUME NEW o \in Orders, AnsweredOps(r, o)
                   PROVE  o \in Fetched(r)
      BY DEF MissingOrders
    <3>2. run[r].since = 0
      BY <1>4 DEF SelectMissing, IInv, UpsertInv, SinceInv, SinceOf
    <3> QED BY <1>1, <3>1, <3>2 DEF OpsInv, OrderKnown, Fetched, Running
  <2> QED BY <1>1, <1>2, <1>3, <1>4, <2>1
          DEF SelectMissing, Goto, OneRunner, OpsInv, OpsUpsertInv, AnsweredOps, Visible, TypeOK
<1>5. CASE CloseMissing(r)
  <2>1. ASSUME NEW o \in Orders, AnsweredOps(r, o)
        PROVE  Visible(r, o)' = Visible(r, o)
    BY <1>5, <2>1 DEF CloseMissing, OpsInv, OpsUpsertInv, Visible, TypeOK
  <2> QED BY <1>1, <1>2, <1>3, <1>5, <2>1
          DEF CloseMissing, Goto, OneRunner, OpsInv, OpsUpsertInv, AnsweredOps, TypeOK
<1> QED BY <1>4, <1>5

LEMMA EndKeepsOps ==
    ASSUME OneRunner, TypeOK, IInv, OpsInv, NEW r \in Runners, Complete(r) \/ Fail(r)
    PROVE  OpsInv'
<1>1. End(r) /\ pc[r] # "idle"
  BY DEF Complete, Fail
<1>2. pc'[r] = "idle"
  BY <1>1 DEF End, Goto, TypeOK
<1>3. WholeRecords' /\ OrderKnown' /\ OpsBatchInv' /\ OpsUpsertInv'
  BY <1>1, <1>2 DEF End, OneRunner, OpsInv, WholeRecords, OrderKnown, OpsBatchInv,
                    OpsUpsertInv, Running
<1>4. CASE Complete(r)
  <2>1. watermark' = run[r].startedAt
    BY <1>4, ConstantsAssumption DEF Complete, LatestOf, IInv, SinceInv, TypeOK, Times
  <2>2. OperationsNotLost'
    <3>1. /\ pc[r] = "complete" /\ erp' = erp
          /\ \A o \in Orders : stored'[o] = Visible(r, o)
      BY <1>1, <1>4 DEF Complete, End
    <3>2. \A o \in Orders : AnsweredOps(r, o) => Visible(r, o).ops = erp[o].ops
      BY <3>1 DEF OpsInv, OpsUpsertInv
    <3> QED BY <2>1, <3>1, <3>2 DEF OperationsNotLost, AnsweredOps
  <2> QED BY <1>3, <2>2 DEF OpsInv
<1>5. CASE Fail(r)
  <2>1. OperationsNotLost'
    BY <1>1, <1>5 DEF Fail, End, OpsInv, OperationsNotLost
  <2> QED BY <1>3, <2>1 DEF OpsInv
<1> QED BY <1>4, <1>5

LEMMA StepOps ==
    ASSUME OneRunner, ~ MalformedRecords, TypeOK, IInv, OpsInv, [Next]_vars
    PROVE  OpsInv'
<1>1. CASE UNCHANGED vars
  BY <1>1 DEF vars, OpsInv, WholeRecords, OrderKnown, OpsBatchInv, OpsUpsertInv,
              OperationsNotLost, AnsweredOps, Changed, Visible
<1>2. CASE Next
  BY <1>2, ErpStepKeepsOps, StartKeepsOps, FetchOrdersKeepsOps, FetchOperationsKeepsOps,
     UpsertKeepsOps, ReconcileKeepsOps, EndKeepsOps
     DEF Next, RunStep
<1> QED BY <1>1, <1>2

LEMMA InitHoldsOps == Init => OpsInv
BY DEF Init, OpsInv, WholeRecords, OrderKnown, OpsBatchInv, OpsUpsertInv, OperationsNotLost,
       AnsweredOps, NotServed, Running

(* While runs do not overlap and the normaliser rejects no order, no       *)
(* change of an operation is lost either: what the next incremental run    *)
(* will not ask for is in the store (_validate drops only what is fetched  *)
(* again with its order).                                                  *)
THEOREM NoOperationLost ==
    ASSUME OneRunner, ~ MalformedRecords
    PROVE  Spec => []OperationsNotLost
<1>1. TypeOK /\ IInv /\ OpsInv /\ [Next]_vars => (TypeOK /\ IInv /\ OpsInv)'
  BY TypeStep, Step, StepOps
<1>2. OpsInv => OperationsNotLost
  BY DEF OpsInv
<1> QED BY InitType, InitHolds, InitHoldsOps, <1>1, <1>2, PTL DEF Spec

-----------------------------------------------------------------------------
(* Full runs.  While the ERP stands still after the start of a full run    *)
(* its batch is exactly what the ERP serves ...                            *)
Still(r) == pc[r] # "idle" /\ run[r].mode = "full" /\ now = run[r].startedAt

StillBatch ==
    \A r \in Runners : Still(r) =>
        /\ pc[r] # "fetchOrders" =>
            \A o \in Orders : run[r].orders[o] = IF erp[o].valid THEN erp[o].at ELSE 0
        /\ pc[r] \notin {"fetchOrders", "fetchOperations"} =>
            \A o \in Orders : erp[o].valid => run[r].ops[o] = erp[o].ops

Mirrored(r, o) ==
    /\ Visible(r, o).at = erp[o].at
    /\ ~ Visible(r, o).closed
    /\ Visible(r, o).ops = erp[o].ops

(* ... its transaction mirrors that, what is to close is what it has not   *)
(* fetched, and once that is closed nothing else is open.                  *)
StillMirror ==
    \A r \in Runners : Still(r) =>
        /\ pc[r] \in {"selectMissing", "closeMissing", "complete"} =>
            \A o \in Orders : erp[o].valid => Mirrored(r, o)
        /\ pc[r] = "closeMissing" => missing[r] = MissingOrders(r)
        /\ pc[r] = "complete" /\ (Fetched(r) # {} \/ run[r].prune) =>
            \A o \in Orders : ~ erp[o].valid => Gone(Visible(r, o))

MirrorInv == StillBatch /\ StillMirror

(* No run of the ERP's clock is still.                                     *)
LEMMA ErpStepMirrors ==
    ASSUME TypeOK, IInv, ErpStep \/ (\E r \in Runners : Start(r)), OneRunner
    PROVE  MirrorInv'
<1>1. CASE ErpStep
  <2>1. ASSUME NEW r \in Runners, pc[r] # "idle"
        PROVE  run[r].startedAt # now'
    <3>1. run[r].startedAt <= now /\ run[r].startedAt \in Int
      BY <2>1, ConstantsAssumption DEF IInv, SinceInv, TypeOK, Runs, Times
    <3>2. now' > now /\ now' \in Int /\ now \in Int
      BY <1>1, ErpChange, ConstantsAssumption DEF TypeOK, Times
    <3> QED BY <3>1, <3>2
  <2>2. \A r \in Runners : ~ Still(r)'
    BY <1>1, <2>1 DEF ErpStep, Still
  <2> QED BY <2>2 DEF MirrorInv, StillBatch, StillMirror
<1>2. ASSUME NEW r \in Runners, Start(r)
      PROVE  MirrorInv'
  <2>1. pc'[r] = "fetchOrders"
    BY <1>2 DEF Start, Goto, TypeOK
  <2> QED BY <2>1 DEF OneRunner, MirrorInv, StillBatch, StillMirror
<1> QED BY <1>1, <1>2

LEMMA ServedAt ==
    ASSUME TypeOK, IInv, NEW o \in Orders
    PROVE  /\ erp[o].at \in Nat /\ erp[o].ops \in Nat
           /\ erp[o].valid => erp[o].at > 0
BY ConstantsAssumption DEF TypeOK, IInv, ClockInv, ErpRecords, Times

LEMMA FullFetchesAll ==
    ASSUME TypeOK, NEW r \in Runners, run[r].since = 0, NEW t \in Nat
    PROVE  Changed(r, t) = t
BY DEF Changed

LEMMA FetchMirrors ==
    ASSUME OneRunner, TypeOK, IInv, MirrorInv, NEW r \in Runners,
           FetchOrders(r) \/ FetchOperations(r) \/ ReadExisting(r)
    PROVE  MirrorInv'
<1>1. /\ UNCHANGED <<now, erp>>
      /\ pc[r] \in {"fetchOrders", "fetchOperations", "validate"}
      /\ pc'[r] \in {"fetchOperations", "validate", "upsert"}
      /\ run'[r].mode = run[r].mode
      /\ run'[r].startedAt = run[r].startedAt
  <2>1. CASE FetchOrders(r)
    BY <2>1 DEF FetchOrders, Goto, TypeOK
  <2>2. CASE FetchOperations(r)
    BY <2>2 DEF FetchOperations, Goto, TypeOK
  <2>3. CASE ReadExisting(r)
    BY <2>3 DEF ReadExisting, Goto, TypeOK
  <2> QED BY <2>1, <2>2, <2>3
<1>2. StillMirror'
  BY <1>1 DEF OneRunner, StillMirror
<1>3. SUFFICES ASSUME Still(r)'
               PROVE  /\ \A o \in Orders : run'[r].orders[o] = IF erp[o].valid THEN erp[o].at
                                                              ELSE 0
                      /\ pc'[r] # "fetchOperations" =>
                          \A o \in Orders : erp[o].valid => run'[r].ops[o] = erp[o].ops
  <2>1. UNCHANGED erp /\ pc'[r] # "fetchOrders"
    BY <1>1
  <2> HIDE DEF Still
  <2> QED BY <1>2, <2>1 DEF OneRunner, MirrorInv, StillBatch
<1>4. Still(r) /\ run[r].since = 0
  BY <1>1, <1>3 DEF Still, IInv, SinceInv, SinceOf
<1>5. \A o \in Orders : Changed(r, erp[o].at) = erp[o].at /\ Changed(r, erp[o].ops) = erp[o].ops
  BY <1>4, ServedAt, FullFetchesAll
<1>6. CASE FetchOrders(r)
  BY <1>5, <1>6 DEF FetchOrders, Goto, TypeOK
<1>7. CASE FetchOperations(r)
  <2>1. run'[r].orders = run[r].orders /\ pc[r] = "fetchOperations"
    BY <1>7 DEF FetchOperations, TypeOK
  <2>2. \A o \in Orders : run'[r].ops[o] = erp[o].ops
    BY <1>5, <1>7 DEF FetchOperations, TypeOK
  <2> QED BY <1>4, <2>1, <2>2 DEF MirrorInv, StillBatch
<1>8. CASE ReadExisting(r)
  <2>1. run'[r].orders = run[r].orders /\ pc[r] = "validate"
    BY <1>8 DEF ReadExisting, TypeOK
  <2>2. \A o \in Orders : run'[r].ops[o] =
             IF run[r].orders[o] # 0 \/ stored[o] # Absent THEN run[r].ops[o] ELSE 0
    BY <1>8 DEF ReadExisting, TypeOK
  <2>3. /\ \A o \in Orders : run[r].orders[o] = IF erp[o].valid THEN erp[o].at ELSE 0
        /\ \A o \in Orders : erp[o].valid => run[r].ops[o] = erp[o].ops
    BY <1>4, <2>1 DEF MirrorInv, StillBatch
  <2>4. \A o \in Orders : erp[o].valid => erp[o].at # 0
    BY ServedAt
  <2> QED BY <2>1, <2>2, <2>3, <2>4
<1> QED BY <1>1, <1>6, <1>7, <1>8

LEMMA UpsertMirrors ==
    ASSUME OneRunner, TypeOK, IInv, MirrorInv, NEW r \in Runners, Upsert(r)
    PROVE  MirrorInv'
<1>1. /\ UNCHANGED <<now, erp, stored, run>>
      /\ pc[r] = "upsert"
      /\ pc'[r] = IF run[r].mode = "full" THEN "selectMissing" ELSE "complete"
      /\ existing[r] = stored
  BY DEF Upsert, AfterUpsert, Goto, TypeOK, IInv, UpsertInv
<1>2. StillBatch'
  BY <1>1 DEF OneRunner, MirrorInv, StillBatch, Still
<1>3. ASSUME Still(r), NEW o \in Orders, erp[o].valid
      PROVE  Mirrored(r, o)'
  <2>1. run[r].orders[o] = erp[o].at /\ run[r].ops[o] = erp[o].ops
    BY <1>1, <1>3 DEF MirrorInv, StillBatch
  <2>2. erp[o].at > 0 /\ erp[o].at \in Nat
    BY <1>3, ServedAt
  <2>3. writes'[r][o] = UpsertedRow(r, o)
    BY <2>1, <2>2 DEF Upsert, Touched, TypeOK
  <2>4. /\ UpsertedRow(r, o).at = erp[o].at
        /\ ~ UpsertedRow(r, o).closed
        /\ UpsertedRow(r, o).ops = erp[o].ops
    <3>1. /\ existing[r][o] = stored[o] /\ run[r].mode = "full"
          /\ run[r].orders[o] # 0
      BY <1>1, <1>3, <2>1, <2>2 DEF Still
    <3>2. UpsertedRow(r, o).at = erp[o].at
      BY <2>1, <3>1 DEF UpsertedRow
    <3>3. ~ UpsertedRow(r, o).closed
      BY <3>1 DEF UpsertedRow
    <3>4. UpsertedRow(r, o).ops = erp[o].ops
      BY <2>1, <3>1 DEF UpsertedRow
    <3> QED BY <3>2, <3>3, <3>4
  <2>5. UpsertedRow(r, o) # NoRow
    BY <2>2, <2>4 DEF NoRow
  <2> QED BY <1>1, <2>3, <2>4, <2>5 DEF Mirrored, Visible
<1>4. StillMirror'
  <2>1. Still(r)' => Still(r) /\ pc'[r] = "selectMissing"
    BY <1>1 DEF Still
  <2> HIDE DEF Still
  <2> QED BY <1>1, <1>3, <2>1 DEF OneRunner, StillMirror
<1> QED BY <1>2, <1>4 DEF MirrorInv

LEMMA ReconcileMirrors ==
    ASSUME OneRunner, TypeOK, IInv, MirrorInv, NEW r \in Runners,
           SelectMissing(r) \/ CloseMissing(r)
    PROVE  MirrorInv'
<1>1. /\ UNCHANGED <<now, erp, stored, run>>
      /\ pc[r] \in {"selectMissing", "closeMissing"}
      /\ pc'[r] \in {"closeMissing", "complete"}
  BY DEF SelectMissing, CloseMissing, Goto, TypeOK
<1>2. StillBatch'
  BY <1>1 DEF OneRunner, MirrorInv, StillBatch, Still
<1>3. CASE SelectMissing(r)
  <2>1. /\ \A o \in Orders : Visible(r, o)' = Visible(r, o)
        /\ pc'[r] = "closeMissing" /\ missing'[r] = MissingOrders(r)
        /\ pc[r] = "selectMissing"
    BY <1>1, <1>3 DEF SelectMissing, Goto, Visible, TypeOK
  <2>2. MissingOrders(r)' = MissingOrders(r)
    BY <1>1, <2>1 DEF MissingOrders, Fetched
  <2>3. StillMirror'
    BY <1>1, <2>1, <2>2 DEF OneRunner, MirrorInv, StillMirror, Still, Mirrored
  <2> QED BY <1>2, <2>3 DEF MirrorInv
<1>4. CASE CloseMissing(r)
  <2>1. /\ pc[r] = "closeMissing" /\ pc'[r] = "complete"
        /\ \A o \in Orders : writes'[r][o] = IF o \notin missing[r] THEN writes[r][o]
                                             ELSE IF run[r].prune THEN Absent
                                             ELSE [Visible(r, o) EXCEPT !.closed = TRUE]
    BY <1>4 DEF CloseMissing, Goto, TypeOK
  <2>2. SUFFICES ASSUME Still(r)
                 PROVE  /\ \A o \in Orders : erp[o].valid => Mirrored(r, o)'
                        /\ Fetched(r) # {} \/ run[r].prune =>
                            \A o \in Orders : ~ erp[o].valid => Gone(Visible(r, o))'
    BY <1>1, <1>2, <2>1 DEF OneRunner, MirrorInv, StillMirror, Still, Fetched
  <2>3. /\ \A o \in Orders : erp[o].valid => Mirrored(r, o)
        /\ missing[r] = MissingOrders(r)
        /\ \A o \in Orders : run[r].orders[o] = IF erp[o].valid THEN erp[o].at ELSE 0
    BY <2>1, <2>2 DEF MirrorInv, StillMirror, StillBatch
  <2>4. ASSUME NEW o \in Orders
        PROVE  /\ erp[o].valid => o \in Fetched(r)
               /\ o \in Fetched(r) => erp[o].valid
    <3>1. erp[o].valid => erp[o].at > 0 /\ erp[o].at \in Nat
      BY ServedAt
    <3> QED BY <2>3, <3>1 DEF Fetched
  <2>5. ASSUME NEW o \in Orders, erp[o].valid
        PROVE  Mirrored(r, o)'
    <3>1. o \notin missing[r]
      BY <2>3, <2>4, <2>5 DEF MissingOrders
    <3>2. Visible(r, o)' = Visible(r, o) /\ erp'[o] = erp[o]
      BY <1>1, <2>1, <3>1 DEF Visible
    <3> QED BY <2>3, <2>5, <3>2 DEF Mirrored
  <2>6. ASSUME Fetched(r) # {} \/ run[r].prune, NEW o \in Orders, ~ erp[o].valid
        PROVE  Gone(Visible(r, o))'
    <3>1. CASE o \in missing[r]
      <4>1. CASE run[r].prune
        BY <2>1, <3>1, <4>1 DEF Gone, Visible, Absent, NoRow
      <4>2. CASE ~ run[r].prune
        <5> DEFINE row == [Visible(r, o) EXCEPT !.closed = TRUE]
        <5>1. row.closed /\ row.at = Visible(r, o).at /\ row.ops = Visible(r, o).ops
          BY VisibleIsRow DEF Rows
        <5>2. writes'[r][o] = row
          BY <2>1, <3>1, <4>2
        <5>3. Visible(r, o) # Absent /\ ~ Visible(r, o).closed
          BY <2>3, <3>1, <4>2 DEF MissingOrders
        <5>4. Visible(r, o).at # 0 \/ Visible(r, o).ops # 0
          BY <5>3, VisibleIsRow DEF Rows, Absent
        <5>5. row # NoRow
          BY <5>1, <5>4 DEF NoRow
        <5> HIDE DEF row
        <5> QED BY <5>1, <5>2, <5>5 DEF Gone, Visible
      <4> QED BY <4>1, <4>2
    <3>2. CASE o \notin missing[r]
      <4>1. Visible(r, o)' = Visible(r, o)
        BY <1>1, <2>1, <3>2 DEF Visible
      <4>2. Gone(Visible(r, o))
        BY <2>3, <2>4, <2>6, <3>2 DEF MissingOrders, Gone
      <4> QED BY <4>1, <4>2 DEF Gone
    <3> QED BY <3>1, <3>2
  <2> QED BY <2>5, <2>6
<1> QED BY <1>3, <1>4

LEMMA EndMirrors ==
    ASSUME OneRunner, TypeOK, NEW r \in Runners, Complete(r) \/ Fail(r)
    PROVE  MirrorInv'
<1>1. pc'[r] = "idle"
  BY DEF Complete, Fail, End, Goto, TypeOK
<1> QED BY <1>1 DEF OneRunner, MirrorInv, StillBatch, StillMirror, Still

LEMMA StepMirrors ==
    ASSUME OneRunner, TypeOK, IInv, MirrorInv, [Next]_vars
    PROVE  MirrorInv'
<1>1. CASE UNCHANGED vars
  BY <1>1 DEF vars, MirrorInv, StillBatch, StillMirror, Still, Mirrored, Visible, Gone,
              MissingOrders, Fetched
<1>2. CASE Next
  BY <1>2, ErpStepMirrors, FetchMirrors, UpsertMirrors, ReconcileMirrors, EndMirrors
     DEF Next, RunStep
<1> QED BY <1>1, <1>2

LEMMA InitMirrors == Init => MirrorInv
BY DEF Init, MirrorInv, StillBatch, StillMirror, Still

LEMMA CompleteMirrors ==
    ASSUME OneRunner, TypeOK, IInv, MirrorInv, [Next]_vars, NEW r \in Runners,
           Completes(r), run[r].mode = "full", now = run[r].startedAt,
           Fetched(r) # {} \/ run[r].prune, NEW o \in Orders
    PROVE  IF erp[o].valid
           THEN stored'[o] = [at |-> erp[o].at, closed |-> FALSE, ops |-> erp[o].ops]
           ELSE Gone(stored'[o])
<1>1. pc[r] = "complete" /\ watermark' # watermark
  BY ConstantsAssumption DEF Completes, IInv, SinceInv, TypeOK, Times
<1>2. Complete(r)
  BY <1>1 DEF OneRunner, Next, RunStep, vars, ErpStep, Start, FetchOrders, FetchOperations,
              ReadExisting, Upsert, SelectMissing, CloseMissing, Fail
<1>3. stored'[o] = Visible(r, o) /\ Still(r)
  BY <1>1, <1>2 DEF Complete, Still
<1>4. CASE erp[o].valid
  <2>1. Mirrored(r, o)
    BY <1>1, <1>3, <1>4 DEF MirrorInv, StillMirror
  <2>2. Visible(r, o).closed = FALSE
    BY <2>1, VisibleIsRow DEF Mirrored, Rows
  <2> QED BY <1>3, <1>4, <2>1, <2>2, VisibleIsRow DEF Mirrored, Rows
<1>5. CASE ~ erp[o].valid
  BY <1>1, <1>3, <1>5 DEF MirrorInv, StillMirror
<1> QED BY <1>4, <1>5

(* While runs do not overlap a full run during which the ERP stands still  *)
(* leaves an exact mirror, whatever was stored before and with or without  *)
(* records the normaliser rejects.                                         *)
THEOREM FullRunsMirror ==
    ASSUME OneRunner
    PROVE  Spec => FullRunMirrors
<1>1. TypeOK /\ IInv /\ MirrorInv /\ [Next]_vars => (TypeOK /\ IInv /\ MirrorInv)'
  BY TypeStep, Step, StepMirrors
<1> DEFINE A == \A r \in Runners :
                   /\ Completes(r)
                   /\ run[r].mode = "full" /\ now = run[r].startedAt
                   /\ Fetched(r) # {} \/ run[r].prune
                   => \A o \in Orders :
                       IF erp[o].valid
                       THEN stored'[o] = [at |-> erp[o].at, closed |-> FALSE,
                                          ops |-> erp[o].ops]
                       ELSE Gone(stored'[o])
<1>2. TypeOK /\ IInv /\ MirrorInv /\ [Next]_vars => [A]_vars
  BY CompleteMirrors
<1> HIDE DEF A
<1>3. Spec => [][A]_vars
  BY InitType, InitHolds, InitMirrors, <1>1, <1>2, PTL DEF Spec
<1> QED BY <1>3 DEF FullRunMirrors, A

-----------------------------------------------------------------------------
(* The ERP's tables.                                                       *)

\* Every operation is one of those the ERP began with or that came with an order.
Original(rows) ==
    \A x \in rows.operation : \E y \in FirstRecords.operation \cup NewOperations :
        y.key = x.key /\ y.of = x.of

Tables(rows) == SoundTables(rows) /\ Original(rows)

\* What an event in the ERP at instant t may do: rows that remain are as they were, those
\* it touches or brings are of that instant, and an order line stays what it is.
Moves(rows, next, t) ==
    /\ Tables(next)
    /\ \A e \in Entities : \A r \in next[e] : r \in rows[e] \/ r.at = t
    /\ \A o \in rows.order, p \in next.order : o.id = p.id => o.key = p.key

\* The same row with other contents.
Alike(e, r, q) ==
    /\ DOMAIN q = DOMAIN r /\ q.id = r.id /\ q.key = r.key /\ q.of = r.of
    /\ e = "order" => "STATUS" \in DOMAIN q.data
    /\ e = "operation" => "order" \notin DOMAIN q.data

LEMMA TouchMoves ==
    ASSUME NEW rows, Tables(rows), NEW t \in Int, NEW e \in Entities, NEW r \in rows[e],
           NEW q, Alike(e, r, q)
    PROVE  Moves(rows, [rows EXCEPT ![e] = (@ \ {r}) \cup {[q EXCEPT !.at = t]}], t)
<1> DEFINE p == [q EXCEPT !.at = t]
           next == [rows EXCEPT ![e] = (@ \ {r}) \cup {p}]
<1>1. /\ SoundRow(e, p) /\ p.at = t /\ p.id = r.id /\ p.key = r.key /\ p.of = r.of
  <2>1. SoundRow(e, r)
    BY DEF Tables, SoundTables
  <2>2. /\ DOMAIN p = DOMAIN q /\ p.at = t /\ p.id = q.id /\ p.key = q.key /\ p.of = q.of
        /\ p.data = q.data
    BY <2>1 DEF Alike, SoundRow
  <2> QED BY <2>1, <2>2 DEF Alike, SoundRow
<1> HIDE DEF p
<1>2. /\ DOMAIN next = Entities /\ next[e] = (rows[e] \ {r}) \cup {p}
      /\ \A d \in Entities \ {e} : next[d] = rows[d]
  BY DEF Tables, SoundTables
<1> HIDE DEF next
<1>3. \A d \in Entities : \A x \in next[d] : x \in rows[d] \/ (d = e /\ x = p)
  BY <1>2
\* Each row stands for one there was.
<1>4. \A d \in Entities : \A x \in next[d] : \E y \in rows[d] :
          /\ y.id = x.id /\ y.key = x.key /\ y.of = x.of
          /\ x = p /\ d = e => y = r
          /\ ~ (x = p /\ d = e) => y = x
  BY <1>1, <1>2
<1>6. \A d \in Entities : IsFiniteSet(next[d]) /\ \A x \in next[d] : SoundRow(d, x)
  <2>1. IsFiniteSet(rows[e]) /\ IsFiniteSet(rows[e] \ {r})
    BY FS_RemoveElement DEF Tables, SoundTables
  <2>2. IsFiniteSet(next[e])
    BY <2>1, <1>2, FS_AddElement
  <2> QED BY <2>2, <1>1, <1>2, <1>3 DEF Tables, SoundTables
<1>7. ASSUME NEW d \in Entities \ {"order"}, NEW x \in next[d], NEW z \in next[d], x.key = z.key
      PROVE  x = z
  <2>1. \A y, w \in rows[d] : y.key = w.key => y = w
    BY DEF Tables, SoundTables
  <2> QED BY <2>1, <1>1, <1>2, <1>7
<1>8. ASSUME NEW x \in next["order"], NEW z \in next["order"], x.id = z.id PROVE x = z
  <2>1. \A y, w \in rows["order"] : y.id = w.id => y = w
    BY DEF Tables, SoundTables
  <2>2. "order" \in Entities
    BY DEF Entities
  <2> QED BY <2>1, <2>2, <1>1, <1>2, <1>8
<1>9. "order" \in Entities /\ "operation" \in Entities
  BY DEF Entities
<1>10. \A x \in next.operation : \E o \in next.order : o.id = x.of
  <2> SUFFICES ASSUME NEW x \in next["operation"] PROVE \E o \in next["order"] : o.id = x.of
    OBVIOUS
  <2>1. PICK y \in rows["operation"] : y.of = x.of
    BY <1>4, <1>9
  <2>2. PICK o \in rows["order"] : o.id = x.of
    BY <2>1 DEF Tables, SoundTables
  <2> QED BY <2>2, <1>1, <1>2, <1>9
<1>11. Original(next)
  <2> SUFFICES ASSUME NEW x \in next["operation"]
               PROVE  \E y \in FirstRecords.operation \cup NewOperations : y.key = x.key /\ y.of = x.of
    BY DEF Original
  <2>1. PICK w \in rows["operation"] : w.key = x.key /\ w.of = x.of
    BY <1>4, <1>9
  <2> QED BY <2>1 DEF Tables, Original
<1>12. Tables(next)
  BY <1>2, <1>6, <1>7, <1>8, <1>10, <1>11 DEF Tables, SoundTables
<1>13. \A o \in rows.order, x \in next.order : o.id = x.id => o.key = x.key
  <2>1. \A y, w \in rows["order"] : y.id = w.id => y = w
    BY DEF Tables, SoundTables
  <2> QED BY <2>1, <1>4, <1>9
<1>14. \A d \in Entities : \A x \in next[d] : x \in rows[d] \/ x.at = t
  BY <1>1, <1>3
<1> QED BY <1>12, <1>13, <1>14 DEF Moves, next, p

LEMMA AddMoves ==
    ASSUME NEW rows, Tables(rows), NEW t \in Int, NEW n \in NewOrders,
           \A o \in rows.order : o.id # n.order.id
    PROVE  Moves(rows, [rows EXCEPT !.order = @ \cup {[n.order EXCEPT !.at = t]},
                                    !.operation = @ \cup {[x EXCEPT !.at = t] : x \in n.operations}], t)
<1> DEFINE p == [n.order EXCEPT !.at = t]
           stamped(x) == [x EXCEPT !.at = t]
           brought == {stamped(x) : x \in n.operations}
           next == [rows EXCEPT !.order = @ \cup {p}, !.operation = @ \cup brought]
<1>1. SoundRow("order", p) /\ p.at = t /\ p.id = n.order.id
  <2>1. SoundRow("order", n.order)
    BY RecordsAssumption
  <2>2. /\ DOMAIN p = DOMAIN n.order /\ p.at = t /\ p.id = n.order.id /\ p.key = n.order.key
        /\ p.data = n.order.data
    BY <2>1 DEF SoundRow
  <2> QED BY <2>1, <2>2 DEF SoundRow
<1>2. \A x \in n.operations :
          /\ SoundRow("operation", stamped(x)) /\ stamped(x).at = t
          /\ stamped(x).key = x.key /\ stamped(x).of = n.order.id
  <2> SUFFICES ASSUME NEW x \in n.operations
               PROVE  /\ SoundRow("operation", stamped(x)) /\ stamped(x).at = t
                      /\ stamped(x).key = x.key /\ stamped(x).of = n.order.id
    OBVIOUS
  <2>1. SoundRow("operation", x) /\ x.of = n.order.id
    BY RecordsAssumption
  <2>2. /\ DOMAIN stamped(x) = DOMAIN x /\ stamped(x).at = t /\ stamped(x).id = x.id
        /\ stamped(x).key = x.key /\ stamped(x).of = x.of /\ stamped(x).data = x.data
    BY <2>1 DEF SoundRow
  <2> QED BY <2>1, <2>2 DEF SoundRow
<1>3. IsFiniteSet(brought)
  <2> DEFINE f == [x \in n.operations |-> stamped(x)]
  <2>1. IsFiniteSet(n.operations)
    BY RecordsAssumption
  <2>2. f \in Surjection(n.operations, brought)
    BY DEF Surjection
  <2> HIDE DEF f, brought
  <2> QED BY <2>1, <2>2, FS_Surjection
<1>4. /\ \A y \in brought : /\ SoundRow("operation", y) /\ y.at = t /\ y.of = n.order.id
                            /\ \E x \in n.operations : x.key = y.key /\ x.of = y.of
      /\ \A y, z \in brought : y.key = z.key => y = z
  <2>1. \A x, y \in n.operations : x.key = y.key => x = y
    BY RecordsAssumption
  <2>2. \A x \in n.operations : x.of = n.order.id
    BY RecordsAssumption
  <2> HIDE DEF stamped
  <2> QED BY <2>1, <2>2, <1>2
<1> HIDE DEF p, brought
<1>5. /\ DOMAIN next = Entities /\ next["order"] = rows["order"] \cup {p}
      /\ next["operation"] = rows["operation"] \cup brought
      /\ \A d \in Entities \ {"order", "operation"} : next[d] = rows[d]
      /\ "order" \in Entities /\ "operation" \in Entities
  BY DEF Tables, SoundTables, Entities
<1> HIDE DEF next
<1>6. \A d \in Entities : IsFiniteSet(next[d]) /\ \A x \in next[d] : SoundRow(d, x)
  <2>1. \A d \in Entities : IsFiniteSet(rows[d]) /\ \A x \in rows[d] : SoundRow(d, x)
    BY DEF Tables, SoundTables
  <2>2. IsFiniteSet(next["order"])
    BY <2>1, <1>5, FS_AddElement
  <2>3. IsFiniteSet(next["operation"])
    <3>1. IsFiniteSet(rows["operation"])
      BY <2>1, <1>5
    <3>2. IsFiniteSet(rows["operation"] \cup brought)
      BY <3>1, <1>3, FS_Union
    <3> QED BY <3>2, <1>5
  <2>4. \A x \in next["order"] : SoundRow("order", x)
    BY <2>1, <1>1, <1>5
  <2>5. \A x \in next["operation"] : SoundRow("operation", x)
    BY <2>1, <1>4, <1>5
  <2> QED BY <2>1, <2>2, <2>3, <2>4, <2>5, <1>5
<1>7. \A x \in rows["operation"], y \in brought : x.key # y.key
  <2> SUFFICES ASSUME NEW x \in rows["operation"], NEW y \in brought, x.key = y.key PROVE FALSE
    OBVIOUS
  <2>1. PICK w \in FirstRecords.operation \cup NewOperations : w.key = x.key /\ w.of = x.of
    BY DEF Tables, Original
  <2>2. PICK z \in n.operations : z.key = y.key /\ z.of = y.of
    BY <1>4
  <2>3. z \in FirstRecords.operation \cup NewOperations
    BY DEF NewOperations
  <2>4. w.of = z.of
    BY <2>1, <2>2, <2>3, RecordsAssumption
  <2>5. PICK o \in rows["order"] : o.id = x.of
    BY DEF Tables, SoundTables
  <2> QED BY <2>1, <2>2, <2>4, <2>5, <1>4
<1>8. \A d \in Entities \ {"order"} : \A x, z \in next[d] : x.key = z.key => x = z
  <2>1. \A d \in Entities \ {"order"} : \A x, z \in rows[d] : x.key = z.key => x = z
    BY DEF Tables, SoundTables
  <2>2. \A x, z \in next["operation"] : x.key = z.key => x = z
    BY <2>1, <1>4, <1>5, <1>7
  <2> QED BY <2>1, <2>2, <1>5
<1>9. /\ \A x, z \in next["order"] : x.id = z.id => x = z
      /\ \A o \in rows["order"], x \in next["order"] : o.id = x.id => o.key = x.key
  <2>1. \A y, w \in rows["order"] : y.id = w.id => y = w
    BY DEF Tables, SoundTables
  <2> QED BY <2>1, <1>1, <1>5
<1>10. \A x \in next["operation"] : \E o \in next["order"] : o.id = x.of
  <2>1. \A x \in rows["operation"] : \E o \in rows["order"] : o.id = x.of
    BY DEF Tables, SoundTables
  <2> QED BY <2>1, <1>1, <1>4, <1>5
<1>11. Original(next)
  <2>1. \A x \in rows["operation"] : \E y \in FirstRecords.operation \cup NewOperations :
            y.key = x.key /\ y.of = x.of
    BY DEF Tables, Original
  <2>2. \A x \in brought : \E y \in NewOperations : y.key = x.key /\ y.of = x.of
    BY <1>4 DEF NewOperations
  <2> QED BY <2>1, <2>2, <1>5 DEF Original
<1>12. Tables(next)
  BY <1>5, <1>6, <1>8, <1>9, <1>10, <1>11 DEF Tables, SoundTables
<1>13. \A d \in Entities : \A x \in next[d] : x \in rows[d] \/ x.at = t
  BY <1>1, <1>4, <1>5
<1> QED BY <1>9, <1>12, <1>13 DEF Moves, next, p, brought

LEMMA DropMoves ==
    ASSUME NEW rows, Tables(rows), NEW t, NEW orders \in SUBSET rows.order,
           NEW operations \in SUBSET rows.operation,
           \A x \in operations : \E o \in orders : o.id = x.of
    PROVE  Moves(rows, [rows EXCEPT !.order = orders, !.operation = operations], t)
<1> DEFINE next == [rows EXCEPT !.order = orders, !.operation = operations]
<1>1. /\ DOMAIN next = Entities /\ next["order"] = orders /\ next["operation"] = operations
      /\ \A d \in Entities \ {"order", "operation"} : next[d] = rows[d]
      /\ "order" \in Entities /\ "operation" \in Entities
  BY DEF Tables, SoundTables, Entities
<1> HIDE DEF next
<1>2. \A d \in Entities : next[d] \subseteq rows[d]
  BY <1>1
<1>3. \A d \in Entities : IsFiniteSet(next[d])
  BY <1>2, FS_Subset DEF Tables, SoundTables
<1>4. SoundTables(next)
  BY <1>1, <1>2, <1>3 DEF Tables, SoundTables
<1>5. Original(next)
  BY <1>1, <1>2 DEF Tables, Original
<1>6. \A o \in rows["order"], p \in next["order"] : o.id = p.id => o.key = p.key
  BY <1>1, <1>2 DEF Tables, SoundTables
<1> QED BY <1>2, <1>4, <1>5, <1>6 DEF Moves, Tables, next

-----------------------------------------------------------------------------
(* Invariants.                                                             *)

\* Rows are older than the clock, and so is the last run.
Clocks ==
    /\ clock \in Int
    /\ \A e \in Entities : \A r \in served[e] : r.at < clock
    /\ mark # None => mark \in Int /\ mark < clock

\* Every stored operation is of a stored order, and every order has its status.
SoundStore(s) ==
    /\ DOMAIN s = Entities
    /\ \A e \in Entities : IsFiniteSet(DOMAIN s[e])
    /\ \A o \in DOMAIN s.order : "STATUS" \in DOMAIN s.order[o]
    /\ \A x \in DOMAIN s.operation :
          "order" \in DOMAIN s.operation[x] /\ s.operation[x].order \in DOMAIN s.order

\* The row r of entity e is stored as it is.
AsServed(s, e, r) ==
    LET k == IF e = "order" THEN <<r.key, 0>> ELSE r.key
    IN  /\ k \in DOMAIN s[e]
        /\ \A f \in DOMAIN r.data \ {"IS_DEFAULT"} : s[e][k][f] = r.data[f]

\* The order line a row is of.
LineOf(rows, e, r) == IF e = "operation" THEN OrderId(rows, r)[1] ELSE r.key

\* A flawless row that no run since the last full one complained of.
Undoubted(rows, doubts, e, r) == r.raw = Empty /\ {r.key, LineOf(rows, e, r)} \cap doubts = {}

\* What the runs so far have seen they have stored: a row that has not changed since the
\* watermark will not be fetched again.
StoreMirrors == mark # None =>
    \A e \in Entities : \A r \in served[e] :
        r.at <= mark /\ Undoubted(served, doubt, e, r) => AsServed(store, e, r)

\* The inductive invariant.
IntakeInv == Tables(served) /\ Clocks /\ SoundStore(store) /\ StoreMirrors

LEMMA LineIs ==
    ASSUME NEW rows, SoundTables(rows), NEW x \in rows.operation
    PROVE  \E o \in rows.order : o.id = x.of /\ OrderId(rows, x) = <<o.key, 0>>
<1>1. PICK o \in rows.order : o.id = x.of
  BY DEF SoundTables
<1>2. (CHOOSE p \in rows.order : p.id = x.of) = o
  BY <1>1 DEF SoundTables
<1> QED BY <1>1, <1>2 DEF OrderId

LEMMA LinesStay ==
    ASSUME NEW rows, NEW next, NEW t, SoundTables(rows), Moves(rows, next, t),
           NEW x, x \in rows.operation, x \in next.operation
    PROVE  OrderId(next, x) = OrderId(rows, x)
<1>1. PICK o \in rows.order : o.id = x.of /\ OrderId(rows, x) = <<o.key, 0>>
  BY LineIs
<1>2. SoundTables(next)
  BY DEF Moves, Tables
<1>3. PICK p \in next.order : p.id = x.of /\ OrderId(next, x) = <<p.key, 0>>
  BY <1>2, LineIs
<1> QED BY <1>1, <1>3 DEF Moves

-----------------------------------------------------------------------------
(* Events in the ERP.                                                      *)

ErpEvent ==
    \/ AddOrder \/ SetMachineStatus \/ ReceiveMaterial \/ ReportProgress
    \/ DropOrder \/ RemoveOperation \/ EditCalendar \/ Spoil \/ Repair

LEMMA TouchIsMove ==
    ASSUME Tables(served), clock \in Int, NEW e \in Entities, NEW r \in served[e], NEW q,
           Alike(e, r, q), Touch(e, r, q)
    PROVE  Moves(served, served', clock)
BY TouchMoves DEF Touch

LEMMA EventsMove ==
    ASSUME Tables(served), clock \in Int, ErpEvent
    PROVE  Change /\ Moves(served, served', clock)
<1>1. Entities = {"customer", "material", "machine", "tooling", "calendar", "order", "operation"}
  BY DEF Entities, Masters
<1>2. \A e \in Entities : \A r \in served[e] :
          /\ DOMAIN r = {"id", "key", "of", "at", "data", "raw"}
          /\ e = "order" => "STATUS" \in DOMAIN r.data
          /\ e = "operation" => "order" \notin DOMAIN r.data
  BY DEF Tables, SoundTables, SoundRow
<1>3. CASE AddOrder
  <2>1. PICK n \in NewOrders :
            /\ \A o \in served.order : o.id # n.order.id
            /\ served' = [served EXCEPT !.order = @ \cup {[n.order EXCEPT !.at = clock]},
                                       !.operation = @ \cup {[x EXCEPT !.at = clock] : x \in n.operations}]
    BY <1>3 DEF AddOrder
  <2>2. Moves(served, [served EXCEPT !.order = @ \cup {[n.order EXCEPT !.at = clock]},
                                     !.operation = @ \cup {[x EXCEPT !.at = clock] : x \in n.operations}],
              clock)
    BY <2>1, AddMoves
  <2> QED BY <2>1, <2>2, <1>3 DEF AddOrder
<1>4. CASE SetMachineStatus
  <2>1. PICK r \in served["machine"], status \in {"down", "running"}, windows \in {0, 1} :
            Touch("machine", r, [r EXCEPT !.data.STATUS = status, !.data.UNPLANNED_DOWN = @ + windows])
    BY <1>4 DEF SetMachineStatus
  <2> DEFINE q == [r EXCEPT !.data.STATUS = status, !.data.UNPLANNED_DOWN = @ + windows]
  <2>2. Alike("machine", r, q)
    BY <1>1, <1>2 DEF Alike
  <2> HIDE DEF q
  <2> QED BY <2>1, <2>2, <1>1, TouchIsMove DEF Touch, q
<1>5. CASE ReceiveMaterial
  <2>1. PICK r \in served["material"], c \in Quantities :
            LET incoming == IF r.data.QTY_INCOMING > c THEN r.data.QTY_INCOMING - c ELSE 0
            IN  Touch("material", r,
                    [r EXCEPT !.data.QTY_ONHAND = @ + c, !.data.QTY_INCOMING = incoming,
                              !.data.EXPECTED_DT = IF incoming = 0 THEN None ELSE @])
    BY <1>5 DEF ReceiveMaterial
  <2> DEFINE incoming == IF r.data.QTY_INCOMING > c THEN r.data.QTY_INCOMING - c ELSE 0
             q == [r EXCEPT !.data.QTY_ONHAND = @ + c, !.data.QTY_INCOMING = incoming,
                            !.data.EXPECTED_DT = IF incoming = 0 THEN None ELSE @]
  <2> HIDE DEF incoming
  <2>2. Alike("material", r, q)
    BY <1>1, <1>2 DEF Alike
  <2>3. Touch("material", r, q)
    BY <2>1 DEF incoming
  <2> HIDE DEF q
  <2> QED BY <2>2, <2>3, <1>1, TouchIsMove DEF Touch
<1>6. CASE ReportProgress
  <2>1. PICK r \in served["operation"], status \in {"in_progress", "completed"}, done \in {None, 1} :
            Touch("operation", r,
                [r EXCEPT !.data.OP_STATUS = status,
                          !.data.QTY_DONE = IF status = "completed" THEN r.data.QTY
                                            ELSE IF done = None THEN @ ELSE done,
                          !.data.ACT_START = IF status = "in_progress" /\ @ = None THEN clock ELSE @,
                          !.data.ACT_END = IF status = "completed" THEN clock ELSE @])
    BY <1>6 DEF ReportProgress
  <2> DEFINE q == [r EXCEPT !.data.OP_STATUS = status,
                            !.data.QTY_DONE = IF status = "completed" THEN r.data.QTY
                                              ELSE IF done = None THEN @ ELSE done,
                            !.data.ACT_START = IF status = "in_progress" /\ @ = None THEN clock ELSE @,
                            !.data.ACT_END = IF status = "completed" THEN clock ELSE @]
  <2>2. Alike("operation", r, q)
    BY <1>1, <1>2 DEF Alike
  <2>3. Touch("operation", r, q)
    BY <2>1
  <2> HIDE DEF q
  <2> QED BY <2>2, <2>3, <1>1, TouchIsMove DEF Touch
<1>7. CASE DropOrder
  <2>1. PICK r \in served["order"] :
            served' = [served EXCEPT !.order = @ \ {r}, !.operation = {x \in @ : x.of # r.id}]
    BY <1>7 DEF DropOrder
  <2> DEFINE orders == served.order \ {r}
             operations == {x \in served.operation : x.of # r.id}
  <2>2. served' = [served EXCEPT !.order = orders, !.operation = operations]
    BY <2>1
  <2>3. \A x \in operations : \E o \in orders : o.id = x.of
    BY DEF Tables, SoundTables
  <2>4. orders \in SUBSET served.order /\ operations \in SUBSET served.operation
    OBVIOUS
  <2> HIDE DEF orders, operations
  <2>5. Moves(served, served', clock)
    BY <2>2, <2>3, <2>4, DropMoves
  <2> QED BY <2>5, <1>7 DEF DropOrder
<1>8. CASE RemoveOperation
  <2>1. PICK r \in served["operation"] : served' = [served EXCEPT !.operation = @ \ {r}]
    BY <1>8 DEF RemoveOperation
  <2> DEFINE orders == served.order
             operations == served.operation \ {r}
  <2>2. served' = [served EXCEPT !.order = orders, !.operation = operations]
    BY <2>1 DEF Tables, SoundTables
  <2>3. \A x \in operations : \E o \in orders : o.id = x.of
    BY DEF Tables, SoundTables
  <2>4. orders \in SUBSET served.order /\ operations \in SUBSET served.operation
    OBVIOUS
  <2> HIDE DEF orders, operations
  <2>5. Moves(served, served', clock)
    BY <2>2, <2>3, <2>4, DropMoves
  <2> QED BY <2>5, <1>8 DEF RemoveOperation
<1>9. CASE EditCalendar
  <2>1. PICK r \in served["calendar"] : Touch("calendar", r, [r EXCEPT !.data.SHIFTS = "changed"])
    BY <1>9 DEF EditCalendar
  <2>2. Alike("calendar", r, [r EXCEPT !.data.SHIFTS = "changed"])
    BY <1>1, <1>2 DEF Alike
  <2> QED BY <2>1, <2>2, <1>1, TouchIsMove DEF Touch
<1>10. CASE Spoil
  <2>1. PICK e \in Entities : \E r \in served[e], f \in Flaws[e] :
            Touch(e, r, [r EXCEPT !.raw = [x \in {f[1]} |-> f[2]]])
    BY <1>10 DEF Spoil
  <2>2. PICK r \in served[e], f \in Flaws[e] : Touch(e, r, [r EXCEPT !.raw = [x \in {f[1]} |-> f[2]]])
    BY <2>1
  <2>3. Alike(e, r, [r EXCEPT !.raw = [x \in {f[1]} |-> f[2]]])
    BY <1>2 DEF Alike
  <2> QED BY <2>2, <2>3, TouchIsMove DEF Touch
<1>11. CASE Repair
  <2>1. PICK e \in Entities : \E r \in served[e] : Touch(e, r, [r EXCEPT !.raw = Empty])
    BY <1>11 DEF Repair
  <2>2. PICK r \in served[e] : Touch(e, r, [r EXCEPT !.raw = Empty])
    BY <2>1
  <2>3. Alike(e, r, [r EXCEPT !.raw = Empty])
    BY <1>2 DEF Alike
  <2> QED BY <2>2, <2>3, TouchIsMove DEF Touch
<1> QED BY <1>3, <1>4, <1>5, <1>6, <1>7, <1>8, <1>9, <1>10, <1>11 DEF ErpEvent

LEMMA EventsKeep == IntakeInv /\ ErpEvent => IntakeInv'
<1> SUFFICES ASSUME IntakeInv, ErpEvent PROVE IntakeInv'
  OBVIOUS
<1>1. Tables(served) /\ Clocks /\ SoundStore(store) /\ StoreMirrors /\ clock \in Int
  BY DEF IntakeInv, Clocks
<1>2. /\ Moves(served, served', clock)
      /\ clock' = clock + 1 /\ store' = store /\ mark' = mark /\ doubt' = doubt
  BY <1>1, EventsMove DEF Change
<1>3. Tables(served)' /\ SoundStore(store)'
  BY <1>1, <1>2 DEF Moves
<1>4. Clocks'
  <2>1. \A e \in Entities : \A r \in served'[e] : r.at < clock'
    <3> SUFFICES ASSUME NEW e \in Entities, NEW r \in served'[e] PROVE r.at < clock + 1
      BY <1>2
    <3>1. r.at < clock \/ r.at = clock
      BY <1>1, <1>2 DEF Moves, Clocks
    <3>2. r.at \in Int
      BY <1>2 DEF Moves, Tables, SoundTables, SoundRow
    <3> QED BY <3>1, <3>2, <1>1
  <2> QED BY <2>1, <1>1, <1>2 DEF Clocks
<1>5. StoreMirrors'
  <2> SUFFICES ASSUME mark # None, NEW e \in Entities, NEW r \in served'[e],
                      r.at <= mark, Undoubted(served', doubt, e, r)
               PROVE  AsServed(store, e, r)
    BY <1>2 DEF StoreMirrors
  <2>1. r \in served[e]
    BY <1>1, <1>2 DEF Moves, Clocks
  <2>2. LineOf(served', e, r) = LineOf(served, e, r)
    BY <2>1, <1>1, <1>2, LinesStay DEF LineOf, Tables
  <2>3. Undoubted(served, doubt, e, r)
    BY <2>2 DEF Undoubted
  <2> QED BY <2>1, <2>3, <1>1 DEF StoreMirrors
<1> QED BY <1>3, <1>4, <1>5 DEF IntakeInv

-----------------------------------------------------------------------------
(* What the normaliser makes of a row.                                     *)

LEMMA OverIs ==
    ASSUME NEW f, NEW g
    PROVE  /\ DOMAIN Over(f, g) = DOMAIN f \cup DOMAIN g
           /\ \A k \in DOMAIN f : Over(f, g)[k] = f[k]
           /\ \A k \in DOMAIN g \ DOMAIN f : Over(f, g)[k] = g[k]
BY DEF Over

LEMMA EmptyIs == DOMAIN Empty = {}
BY DEF Empty

\* A flawless row is usable, and its fields are taken as they are.
LEMMA FlawlessIs ==
    ASSUME NEW e, NEW r, r.raw = Empty
    PROVE  /\ Usable(e, r)
           /\ DOMAIN MapRecord(e, r) = DOMAIN r.data \ {"IS_DEFAULT"}
           /\ \A f \in DOMAIN r.data \ {"IS_DEFAULT"} : MapRecord(e, r)[f] = r.data[f]
<1>1. DOMAIN r.raw = {}
  BY EmptyIs
<1> QED BY <1>1 DEF Usable, MapRecord

LEMMA MappedFields ==
    ASSUME NEW e, NEW r
    PROVE  DOMAIN MapRecord(e, r) = DOMAIN r.data \ {"IS_DEFAULT"}
BY DEF MapRecord

LEMMA ConstructIs ==
    ASSUME NEW rows, NEW e, NEW r, e # "operation"
    PROVE  Construct(rows, e, r) = MapRecord(e, r)
BY DEF Construct

LEMMA OperationConstructed ==
    ASSUME NEW rows, NEW r
    PROVE  LET item == Construct(rows, "operation", r)
               mapped == MapRecord("operation", r)
           IN  /\ DOMAIN item = {"order"} \cup DOMAIN mapped
               /\ item.order = OrderId(rows, r)
               /\ \A f \in DOMAIN mapped \ {"order"} : item[f] = mapped[f]
<1> DEFINE g == [order |-> OrderId(rows, r)]
           h == MapRecord("operation", r)
<1>1. DOMAIN g = {"order"} /\ g["order"] = OrderId(rows, r)
  OBVIOUS
<1>2. Construct(rows, "operation", r) = Over(g, h)
  BY DEF Construct
<1> HIDE DEF g, h
<1>3. /\ DOMAIN Over(g, h) = DOMAIN g \cup DOMAIN h
      /\ \A f \in DOMAIN g : Over(g, h)[f] = g[f]
      /\ \A f \in DOMAIN h \ DOMAIN g : Over(g, h)[f] = h[f]
  BY OverIs
<1>4. "order" \in DOMAIN g
  BY <1>1
<1>5. /\ DOMAIN Over(g, h) = {"order"} \cup DOMAIN h /\ Over(g, h)["order"] = OrderId(rows, r)
      /\ \A f \in DOMAIN h \ {"order"} : Over(g, h)[f] = h[f]
  BY <1>1, <1>3, <1>4
<1> QED BY <1>2, <1>5 DEF h

-----------------------------------------------------------------------------
(* A batch.                                                                *)

Usables(rows, e, since) == {r \in Emit(rows, e, since) : Usable(e, r)}

LEMMA NormalizeIs ==
    ASSUME NEW rows, NEW e, NEW since
    PROVE  LET usable == Usables(rows, e, since)
               kept   == KeptRows(e, usable)
           IN  Normalize(rows, e, since).items =
                  [n \in {Name(e, usable, r) : r \in kept} |->
                      Construct(rows, e, CHOOSE r \in kept : Name(e, usable, r) = n)]
BY DEF Normalize, Usables

LEMMA CountIs ==
    ASSUME NEW rows, NEW e, NEW since
    PROVE  Normalize(rows, e, since).count = Cardinality(Emit(rows, e, since))
BY DEF Normalize

LEMMA IssuesAre ==
    ASSUME NEW rows, NEW e, NEW since
    PROVE  /\ \A r \in Emit(rows, e, since) : FieldIssues(e, r) \subseteq Normalize(rows, e, since).issues
           /\ \A r \in Usables(rows, e, since) :
                 Copy(Usables(rows, e, since), r) > 0 =>
                    Issue(e, r.key, "duplicate_id") \in Normalize(rows, e, since).issues
<1>1. Normalize(rows, e, since).issues =
          (UNION {FieldIssues(e, r) : r \in Emit(rows, e, since)})
             \cup {Issue(e, r.key, "duplicate_id") :
                     r \in {q \in Usables(rows, e, since) : Copy(Usables(rows, e, since), q) > 0}}
  BY DEF Normalize, Usables
<1> QED BY <1>1

\* The rows of a feed are finitely many, and rows of all feeds but orders have keys of
\* their own.
LEMMA FeedsAreSound ==
    ASSUME NEW rows, SoundTables(rows), NEW e \in Feeds, NEW since
    PROVE  /\ IsFiniteSet(Emit(rows, e, since))
           /\ \A r \in Emit(rows, e, since) : r.id \in Nat /\ r.key # None
           /\ e # "order" => \A r, q \in Emit(rows, e, since) : r.key = q.key => r = q
           /\ e # "production_status" => e \in Entities /\ Emit(rows, e, since) \subseteq rows[e]
<1>1. Feeds = {"customer", "material", "machine", "tooling", "calendar", "order", "operation",
               "production_status"}
  BY DEF Feeds, FieldMaps
<1>2. Entities = {"customer", "material", "machine", "tooling", "calendar", "order", "operation"}
  BY DEF Entities, Masters
<1>3. CASE e # "production_status"
  <2>1. e \in Entities /\ Emit(rows, e, since) \subseteq rows[e]
    BY <1>1, <1>2, <1>3 DEF Emit, FeedRows
  <2>2. IsFiniteSet(Emit(rows, e, since))
    BY <2>1, FS_Subset DEF SoundTables
  <2> QED BY <2>1, <2>2 DEF SoundTables, SoundRow
<1>4. CASE e = "production_status"
  <2> DEFINE begun == {o \in rows.operation : o.data.OP_STATUS \in ProgressStatuses \/ o.data.QTY_DONE > 0}
             report(r) == [r EXCEPT !.raw = Empty]
             f == [r \in begun |-> report(r)]
             reports == {report(r) : r \in begun}
  <2>1. FeedRows(rows, e) = reports
    BY <1>4 DEF FeedRows
  <2>2. begun \subseteq rows["operation"] /\ IsFiniteSet(begun)
    <3>1. begun \subseteq rows["operation"] /\ IsFiniteSet(rows["operation"])
      BY <1>2 DEF SoundTables
    <3> QED BY <3>1, FS_Subset
  <2>3. \A r \in begun : /\ report(r).id = r.id /\ report(r).key = r.key
                         /\ r.id \in Nat /\ r.key # None
    <3>1. \A r \in begun : SoundRow("operation", r)
      BY <2>2, <1>2 DEF SoundTables
    <3> QED BY <3>1 DEF SoundRow
  <2>4. f \in Surjection(begun, reports)
    BY DEF Surjection
  <2> HIDE DEF f
  <2>5. IsFiniteSet(reports)
    BY <2>2, <2>4, FS_Surjection
  <2>6. \A r, q \in begun : r.key = q.key => r = q
    BY <2>2, <1>2 DEF SoundTables
  <2> HIDE DEF report, begun
  <2>7. \A r, q \in reports : r.key = q.key => r = q
    BY <2>3, <2>6
  <2>8. \A r \in reports : r.id \in Nat /\ r.key # None
    BY <2>3
  <2> HIDE DEF reports
  <2>9. Emit(rows, e, since) \subseteq reports
    BY <2>1 DEF Emit
  <2>10. IsFiniteSet(Emit(rows, e, since))
    BY <2>5, <2>9, FS_Subset
  <2> QED BY <1>4, <2>7, <2>8, <2>9, <2>10
<1> QED BY <1>3, <1>4

\* Only a row before it makes a row a copy.
LEMMA CopyIs ==
    ASSUME NEW usable, IsFiniteSet(usable), NEW r \in usable
    PROVE  /\ Copy(usable, r) \in Nat
           /\ Copy(usable, r) = 0 <=> \A q \in usable : ~ (q.key = r.key /\ q.id < r.id)
<1> DEFINE before == {q \in usable : q.key = r.key /\ q.id < r.id}
<1>1. IsFiniteSet(before)
  BY FS_Subset
<1>2. Cardinality(before) \in Nat /\ (Cardinality(before) = 0 <=> before = {})
  BY <1>1, FS_CardinalityType, FS_EmptySet
<1> QED BY <1>2 DEF Copy

\* Of every feed but orders, each usable row is kept under its key.
LEMMA ItemsAre ==
    ASSUME NEW rows, SoundTables(rows), NEW e \in Feeds, e # "order", NEW since
    PROVE  /\ DOMAIN Normalize(rows, e, since).items = {r.key : r \in Usables(rows, e, since)}
           /\ \A r \in Usables(rows, e, since) :
                 Normalize(rows, e, since).items[r.key] = Construct(rows, e, r)
           /\ \A r \in Usables(rows, e, since) : Copy(Usables(rows, e, since), r) = 0
<1> DEFINE usable == Usables(rows, e, since)
           kept == KeptRows(e, usable)
           items == Normalize(rows, e, since).items
<1>1. /\ IsFiniteSet(usable) /\ \A r, q \in usable : r.key = q.key => r = q
      /\ \A r \in usable : r.id \in Nat
  <2>1. usable \subseteq Emit(rows, e, since)
    BY DEF Usables
  <2>2. IsFiniteSet(usable)
    BY <2>1, FeedsAreSound, FS_Subset
  <2> QED BY <2>1, <2>2, FeedsAreSound
<1>2. items = [n \in {Name(e, usable, r) : r \in kept} |->
                  Construct(rows, e, CHOOSE r \in kept : Name(e, usable, r) = n)]
  BY NormalizeIs
<1> HIDE DEF usable, items
<1>3. \A r \in usable : Copy(usable, r) = 0
  <2> SUFFICES ASSUME NEW r \in usable PROVE Copy(usable, r) = 0
    OBVIOUS
  <2>1. \A q \in usable : ~ (q.key = r.key /\ q.id < r.id)
    BY <1>1
  <2> QED BY <2>1, <1>1, CopyIs
<1>4. kept = usable
  BY <1>3 DEF KeptRows
<1> HIDE DEF kept
<1>5. \A r \in usable : Name(e, usable, r) = r.key
  BY DEF Name
<1>6. ASSUME NEW r \in usable PROVE items[r.key] = Construct(rows, e, r)
  <2>1. (CHOOSE q \in kept : Name(e, usable, q) = r.key) = r
    BY <1>1, <1>4, <1>5
  <2> QED BY <2>1, <1>2, <1>4, <1>5
<1> QED BY <1>2, <1>3, <1>4, <1>5, <1>6 DEF usable, items

\* An order line that no other row has is kept as the first of its name.
LEMMA OrdersAre ==
    ASSUME NEW rows, SoundTables(rows), NEW since
    PROVE  /\ \A n \in DOMAIN Normalize(rows, "order", since).items :
                 \E r \in Usables(rows, "order", since) :
                    /\ n = <<r.key, Copy(Usables(rows, "order", since), r)>>
                    /\ Normalize(rows, "order", since).items[n] = Construct(rows, "order", r)
           /\ \A r \in Usables(rows, "order", since) :
                 (\A q \in rows.order : q.key = r.key => q = r) =>
                    /\ <<r.key, 0>> \in DOMAIN Normalize(rows, "order", since).items
                    /\ Normalize(rows, "order", since).items[<<r.key, 0>>] = Construct(rows, "order", r)
           /\ IsFiniteSet(DOMAIN Normalize(rows, "order", since).items)
<1> DEFINE usable == Usables(rows, "order", since)
           kept == KeptRows("order", usable)
           name(r) == Name("order", usable, r)
           items == Normalize(rows, "order", since).items
<1>1. "order" \in Feeds
  BY DEF Feeds, FieldMaps
<1>2. /\ usable \subseteq rows["order"] /\ IsFiniteSet(usable)
      /\ \A r \in usable : r.id \in Nat
  <2>1. usable \subseteq Emit(rows, "order", since)
    BY DEF Usables
  <2>2. IsFiniteSet(usable)
    BY <1>1, <2>1, FeedsAreSound, FS_Subset
  <2> QED BY <1>1, <2>1, <2>2, FeedsAreSound
<1>3. kept = usable /\ \A r : name(r) = <<r.key, Copy(usable, r)>>
  BY DEF KeptRows, Name
<1>4. items = [n \in {name(r) : r \in kept} |->
                  Construct(rows, "order", CHOOSE r \in kept : name(r) = n)]
  BY NormalizeIs
<1> HIDE DEF usable, items, kept
<1>6. ASSUME NEW n \in DOMAIN items
      PROVE  \E r \in usable : n = <<r.key, Copy(usable, r)>> /\ items[n] = Construct(rows, "order", r)
  <2> DEFINE r == CHOOSE q \in kept : name(q) = n
  <2> HIDE DEF name
  <2>1. r \in kept /\ name(r) = n
    BY <1>4, <1>6
  <2> QED BY <2>1, <1>3, <1>4, <1>6
<1>7. ASSUME NEW r \in usable, \A q \in rows.order : q.key = r.key => q = r
      PROVE  <<r.key, 0>> \in DOMAIN items /\ items[<<r.key, 0>>] = Construct(rows, "order", r)
  <2>1. \A q \in usable : q.key = r.key => q = r
    BY <1>2, <1>7
  <2>2. Copy(usable, r) = 0
    BY <2>1, <1>2, CopyIs
  <2>3. name(r) = <<r.key, 0>> /\ \A q \in usable : name(q) = <<r.key, 0>> => q.key = r.key
    BY <2>2, <1>3
  <2> HIDE DEF name
  <2>4. (CHOOSE q \in kept : name(q) = <<r.key, 0>>) = r
    BY <2>1, <2>3, <1>3
  <2> QED BY <2>3, <2>4, <1>3, <1>4
<1>8. IsFiniteSet(DOMAIN items)
  <2> DEFINE f == [r \in usable |-> name(r)]
  <2> HIDE DEF name
  <2>1. f \in Surjection(usable, DOMAIN items)
    BY <1>3, <1>4 DEF Surjection
  <2> HIDE DEF f
  <2> QED BY <2>1, <1>2, FS_Surjection
<1> QED BY <1>6, <1>7, <1>8 DEF usable, items

-----------------------------------------------------------------------------
(* What a run stores.                                                      *)

LEMMA AppliedIs ==
    ASSUME NEW operation, NEW progress
    PROVE  /\ DOMAIN Applied(operation, progress) = DOMAIN operation
           /\ "order" \in DOMAIN operation => Applied(operation, progress).order = operation.order
           /\ (\A f \in DOMAIN operation \cap {"OP_STATUS", "QTY_DONE", "MACHINE_NO", "ACT_START", "ACT_END"} :
                  progress[f] = operation[f])
                => \A f \in DOMAIN operation : Applied(operation, progress)[f] = operation[f]
BY DEF Applied

LEMMA StoredIs ==
    ASSUME NEW old, NEW batch, NEW mode, NEW prune, NEW S, S = UpsertAll(old, batch, mode, prune).store
    PROVE  /\ DOMAIN S = Entities
           /\ \A e \in Masters : S[e] = Over(batch[e].items, old[e])
           /\ S.order = StoredOrders(old, batch, mode, prune)
<1>1. /\ "order" \in Entities
      /\ \A e \in Masters : e \in Entities /\ e # "order" /\ e # "operation"
  BY DEF Entities, Masters
<1> QED BY <1>1 DEF UpsertAll

\* Orders: those of the batch as they are in it; a full run closes or drops the others.
OrdersFollow(old, items, mode, prune, orders) ==
    LET fetched == DOMAIN items
    IN  /\ fetched \subseteq DOMAIN orders /\ \A o \in fetched : orders[o] = items[o]
        /\ DOMAIN orders = IF mode = "full" /\ prune THEN fetched ELSE fetched \cup DOMAIN old.order
        /\ mode # "full" => \A o \in DOMAIN old.order \ fetched : orders[o] = old.order[o]
        /\ mode = "full" /\ fetched # {} =>
              \A o \in DOMAIN orders \ fetched : orders[o].STATUS \in ClosedStatuses
        /\ \A o \in DOMAIN orders : "STATUS" \in DOMAIN orders[o]

LEMMA OrdersStored ==
    ASSUME NEW old, SoundStore(old), NEW batch, NEW mode, NEW prune \in BOOLEAN,
           \A o \in DOMAIN batch.order.items : "STATUS" \in DOMAIN batch.order.items[o]
    PROVE  OrdersFollow(old, batch.order.items, mode, prune, StoredOrders(old, batch, mode, prune))
<1> DEFINE items == batch.order.items
           orders == StoredOrders(old, batch, mode, prune)
           fetched == DOMAIN items
           all == Over(items, old.order)
           closed == [o \in DOMAIN all |-> IF o \in fetched \/ all[o].STATUS \in ClosedStatuses THEN all[o]
                                            ELSE [all[o] EXCEPT !.STATUS = "cancelled"]]
<1>1. orders = IF mode = "full" /\ prune THEN items
               ELSE IF mode = "full" /\ fetched # {} THEN closed ELSE all
  BY DEF StoredOrders
<1>2. /\ DOMAIN all = fetched \cup DOMAIN old.order
      /\ \A o \in fetched : all[o] = items[o]
      /\ \A o \in DOMAIN old.order \ fetched : all[o] = old.order[o]
  BY OverIs
<1> HIDE DEF all
<1>3. \A o \in DOMAIN all : "STATUS" \in DOMAIN all[o]
  <2>1. \A o \in fetched : "STATUS" \in DOMAIN items[o]
    OBVIOUS
  <2> QED BY <2>1, <1>2 DEF SoundStore
<1>4. /\ DOMAIN closed = DOMAIN all
      /\ \A o \in fetched : closed[o] = all[o]
      /\ \A o \in DOMAIN all : "STATUS" \in DOMAIN closed[o]
      /\ \A o \in DOMAIN all \ fetched : closed[o].STATUS \in ClosedStatuses
  <2>1. \A o \in DOMAIN all : LET c == [all[o] EXCEPT !.STATUS = "cancelled"]
                              IN  "STATUS" \in DOMAIN c /\ c.STATUS = "cancelled"
    BY <1>3
  <2>2. "cancelled" \in ClosedStatuses
    BY DEF ClosedStatuses
  <2> QED BY <2>1, <2>2, <1>2, <1>3
<1> HIDE DEF closed
<1>5. \A o \in fetched : "STATUS" \in DOMAIN items[o]
  OBVIOUS
<1> HIDE DEF items, orders
<1>6. ASSUME mode = "full" /\ prune
      PROVE  OrdersFollow(old, items, mode, prune, orders)
  BY <1>1, <1>5, <1>6 DEF OrdersFollow
<1>7. ASSUME ~ (mode = "full" /\ prune) /\ mode = "full" /\ fetched # {}
      PROVE  OrdersFollow(old, items, mode, prune, orders)
  BY <1>1, <1>2, <1>4, <1>7 DEF OrdersFollow
<1>8. ASSUME ~ (mode = "full" /\ prune) /\ ~ (mode = "full" /\ fetched # {})
      PROVE  OrdersFollow(old, items, mode, prune, orders)
  BY <1>1, <1>2, <1>3, <1>8 DEF OrdersFollow
<1> QED BY <1>6, <1>7, <1>8 DEF items, orders

\* What becomes of an operation of the batch.
Progressed(batch, x) ==
    LET reports == batch.production_status.items
    IN  IF x \in DOMAIN reports THEN Applied(batch.operation.items[x], reports[x])
        ELSE batch.operation.items[x]

\* Operations: those of the batch that are kept, with their reports, and those that were
\* there, but for those a full run misses in the routings it has.
OperationsFollow(old, batch, mode, S) ==
    LET kept    == KeptOperations(batch, old)
        gone(x) == mode = "full" /\ old.operation[x].order \in DOMAIN batch.order.items
    IN  /\ DOMAIN S.operation \subseteq kept \cup DOMAIN old.operation
        /\ \A x \in DOMAIN S.operation :
              "order" \in DOMAIN S.operation[x] /\ S.operation[x].order \in DOMAIN S.order
        /\ \A x \in kept :
              /\ x \in DOMAIN S.operation <=> batch.operation.items[x].order \in DOMAIN S.order
              /\ x \in DOMAIN S.operation =>
                     /\ S.operation[x] = Progressed(batch, x)
                     /\ S.operation[x].order = batch.operation.items[x].order
        /\ \A x \in DOMAIN old.operation \ kept :
              /\ x \in DOMAIN S.operation <=>
                     ~ gone(x) /\ old.operation[x].order \in DOMAIN S.order
              /\ x \in DOMAIN S.operation =>
                     /\ S.operation[x].order = old.operation[x].order
                     /\ x \notin DOMAIN batch.production_status.items => S.operation[x] = old.operation[x]

LEMMA OperationsStored ==
    ASSUME NEW old, SoundStore(old), NEW batch, NEW mode, NEW prune,
           \A x \in DOMAIN batch.operation.items : "order" \in DOMAIN batch.operation.items[x]
    PROVE  OperationsFollow(old, batch, mode, UpsertAll(old, batch, mode, prune).store)
<1> DEFINE reports == batch.production_status.items
           items == batch.operation.items
           kept == KeptOperations(batch, old)
           fresh == [x \in kept |-> items[x]]
           inBatch == WithProgress(fresh, reports)
           left == {x \in DOMAIN old.operation \ DOMAIN inBatch :
                      mode = "full" /\ old.operation[x].order \in DOMAIN batch.order.items}
           rest == [x \in DOMAIN old.operation \ left |-> old.operation[x]]
           steps == StoredOperations(old, batch, inBatch, mode)
           late == [x \in DOMAIN reports \ kept |-> reports[x]]
           reported == WithProgress(steps, late)
           orders == StoredOrders(old, batch, mode, prune)
           S == UpsertAll(old, batch, mode, prune).store
<1>1. /\ S.order = orders
      /\ S.operation = [x \in {y \in DOMAIN reported : reported[y].order \in DOMAIN orders} |-> reported[x]]
  <2>1. "order" \in Entities /\ "operation" \in Entities
    BY DEF Entities
  <2> QED BY <2>1 DEF UpsertAll
<1>2. kept \subseteq DOMAIN items
  BY DEF KeptOperations
<1>3. /\ DOMAIN inBatch = kept
      /\ \A x \in kept : inBatch[x] = Progressed(batch, x)
  BY DEF WithProgress, Progressed
<1>4. \A x \in kept : "order" \in DOMAIN Progressed(batch, x) /\ Progressed(batch, x).order = items[x].order
  <2>1. \A x \in kept : "order" \in DOMAIN items[x]
    BY <1>2
  <2> QED BY <2>1, AppliedIs DEF Progressed
<1> HIDE DEF inBatch, kept
<1>5. steps = Over(inBatch, rest)
  BY DEF StoredOperations
<1>6. /\ DOMAIN steps = kept \cup (DOMAIN old.operation \ left)
      /\ \A x \in kept : steps[x] = Progressed(batch, x)
      /\ \A x \in DOMAIN old.operation \ left : x \notin kept => steps[x] = old.operation[x]
  <2>1. DOMAIN rest = DOMAIN old.operation \ left /\ \A x \in DOMAIN rest : rest[x] = old.operation[x]
    OBVIOUS
  <2> HIDE DEF rest, left, steps
  <2>2. /\ DOMAIN Over(inBatch, rest) = DOMAIN inBatch \cup DOMAIN rest
        /\ \A x \in DOMAIN inBatch : Over(inBatch, rest)[x] = inBatch[x]
        /\ \A x \in DOMAIN rest \ DOMAIN inBatch : Over(inBatch, rest)[x] = rest[x]
    BY OverIs
  <2> QED BY <2>1, <2>2, <1>3, <1>5 DEF left
<1> HIDE DEF steps
<1>7. \A x \in DOMAIN old.operation \ kept :
          x \in left <=> mode = "full" /\ old.operation[x].order \in DOMAIN batch.order.items
  BY <1>3
<1>8. left \cap kept = {} /\ left \subseteq DOMAIN old.operation
  BY <1>3
<1> HIDE DEF left
<1>9. DOMAIN late = DOMAIN reports \ kept
  OBVIOUS
<1>10. /\ DOMAIN reported = DOMAIN steps
       /\ \A x \in DOMAIN steps \ DOMAIN late : reported[x] = steps[x]
       /\ \A x \in DOMAIN steps \cap DOMAIN late : reported[x] = Applied(steps[x], late[x])
  BY DEF WithProgress
<1> HIDE DEF reported, late
<1>11. \A x \in kept : reported[x] = Progressed(batch, x) /\ x \in DOMAIN reported
  BY <1>6, <1>9, <1>10
<1>12. \A x \in DOMAIN old.operation \ kept :
          /\ x \in DOMAIN reported <=> x \notin left
          /\ x \in DOMAIN reported =>
                /\ "order" \in DOMAIN reported[x] /\ reported[x].order = old.operation[x].order
                /\ x \notin DOMAIN reports => reported[x] = old.operation[x]
  <2>1. \A x \in DOMAIN old.operation : "order" \in DOMAIN old.operation[x]
    BY DEF SoundStore
  <2> SUFFICES ASSUME NEW x \in DOMAIN old.operation \ kept
               PROVE  /\ x \in DOMAIN reported <=> x \notin left
                      /\ x \in DOMAIN reported =>
                            /\ "order" \in DOMAIN reported[x] /\ reported[x].order = old.operation[x].order
                            /\ x \notin DOMAIN reports => reported[x] = old.operation[x]
    OBVIOUS
  <2>2. x \in DOMAIN reported <=> x \notin left
    BY <1>6, <1>10
  <2>3. CASE x \in left
    BY <2>2, <2>3
  <2>4. CASE x \notin left
    <3>1. steps[x] = old.operation[x] /\ x \in DOMAIN steps
      BY <2>4, <1>6
    <3>2. CASE x \in DOMAIN late
      <4>1. reported[x] = Applied(old.operation[x], late[x]) /\ x \in DOMAIN reports
        BY <3>1, <3>2, <1>9, <1>10
      <4> QED BY <4>1, <2>1, <2>2, <2>4, AppliedIs
    <3>3. CASE x \notin DOMAIN late
      BY <3>1, <3>3, <2>1, <2>2, <2>4, <1>10
    <3> QED BY <3>2, <3>3
  <2> QED BY <2>3, <2>4
<1>13. DOMAIN reported \subseteq kept \cup DOMAIN old.operation
  BY <1>6, <1>10
<1> HIDE DEF orders, reports, items, S
<1>14. /\ DOMAIN S.operation = {y \in DOMAIN reported : reported[y].order \in DOMAIN S.order}
       /\ \A x \in DOMAIN S.operation : S.operation[x] = reported[x]
  BY <1>1
<1>15. \A x \in DOMAIN S.operation : "order" \in DOMAIN S.operation[x] /\ S.operation[x].order \in DOMAIN S.order
  BY <1>4, <1>11, <1>12, <1>13, <1>14
<1>16. \A x \in kept :
          /\ x \in DOMAIN S.operation <=> items[x].order \in DOMAIN S.order
          /\ x \in DOMAIN S.operation =>
                S.operation[x] = Progressed(batch, x) /\ S.operation[x].order = items[x].order
  BY <1>4, <1>11, <1>14
<1>17. \A x \in DOMAIN old.operation \ kept :
          /\ x \in DOMAIN S.operation <=> x \notin left /\ old.operation[x].order \in DOMAIN S.order
          /\ x \in DOMAIN S.operation =>
                /\ S.operation[x].order = old.operation[x].order
                /\ x \notin DOMAIN reports => S.operation[x] = old.operation[x]
  BY <1>12, <1>14
<1> QED BY <1>7, <1>13, <1>14, <1>15, <1>16, <1>17 DEF OperationsFollow, kept, items, reports, S

-----------------------------------------------------------------------------
(* A run.                                                                  *)

SinceOfRun(mode) == IF mode = "full" THEN None ELSE mark

IssuesOf(rows, old, batch, result) ==
    (UNION {batch[e].issues : e \in Feeds}) \cup Validate(batch, old)
      \cup {Issue("production_status", x, "unknown_operation") : x \in result.unknown}

\* The effect of a run on what the properties speak of.
LEMMA SyncIs ==
    ASSUME NEW mode \in {"full", "incremental"}, NEW prune \in BOOLEAN, Sync(mode, prune)
    PROVE  LET batch  == Batch(served, SinceOfRun(mode))
               result == UpsertAll(store, batch, mode, prune)
               issues == IssuesOf(served, store, batch, result)
               default == DefaultCalendarId(served, SinceOfRun(mode))
           IN  /\ store' = result.store
               /\ defaultCalendar' = IF default = None THEN defaultCalendar ELSE default
               /\ outcome'.mode = mode /\ outcome'.issues = issues
               /\ outcome'.grade = Grade(batch, result, mode)
               /\ doubt' = (IF mode = "full" THEN {} ELSE doubt) \cup Doubted(served, issues)
               /\ mark' = clock /\ clock' = clock + 1 /\ served' = served
BY DEF Sync, IssuesOf, SinceOfRun

LEMMA BatchIs ==
    ASSUME NEW rows, NEW since, NEW e \in Entities \cup {"production_status"}
    PROVE  Batch(rows, since)[e] = Normalize(rows, e, since)
BY DEF Batch, Feeds, FieldMaps, Entities, Masters

LEMMA EmittedIs ==
    ASSUME NEW rows, NEW since, NEW e \in Entities
    PROVE  /\ e # "production_status" /\ e \in Feeds
           /\ \A r : r \in Emit(rows, e, since) <=> r \in rows[e] /\ (since = None \/ r.at > since)
BY DEF Emit, FeedRows, Entities, Masters, Feeds, FieldMaps

LEMMA ReportedIs ==
    ASSUME NEW rows, SoundTables(rows), NEW since, NEW q \in Emit(rows, "production_status", since)
    PROVE  \E r \in rows.operation :
              /\ q.key = r.key /\ q.data = r.data /\ q.raw = Empty
              /\ since = None \/ r.at > since
<1>1. PICK r \in rows["operation"] : q = [r EXCEPT !.raw = Empty] /\ (since = None \/ q.at > since)
  BY DEF Emit, FeedRows
<1>2. DOMAIN r = {"id", "key", "of", "at", "data", "raw"}
  BY DEF SoundTables, SoundRow, Entities
<1> QED BY <1>1, <1>2

\* An operation of the batch, with or without a report of its progress, is as it is served.
LEMMA OperationIs ==
    ASSUME NEW rows, SoundTables(rows), NEW since, NEW r \in rows.operation, r.raw = Empty,
           since = None \/ r.at > since
    PROVE  LET batch == Batch(rows, since)
           IN  /\ r.key \in DOMAIN batch.operation.items
               /\ batch.operation.items[r.key].order = OrderId(rows, r)
               /\ \A f \in DOMAIN r.data \ {"IS_DEFAULT"} : Progressed(batch, r.key)[f] = r.data[f]
<1> DEFINE batch == Batch(rows, since)
           items == batch.operation.items
           reports == batch.production_status.items
           fields == DOMAIN r.data \ {"IS_DEFAULT"}
<1>1. "operation" \in Entities /\ "operation" \in Feeds /\ "production_status" \in Feeds
  BY DEF Entities, Feeds, FieldMaps
<1>2. items = Normalize(rows, "operation", since).items /\ reports = Normalize(rows, "production_status", since).items
  BY <1>1, BatchIs
<1>3. r \in Usables(rows, "operation", since)
  BY <1>1, EmittedIs, FlawlessIs DEF Usables
<1>4. r.key \in DOMAIN items /\ items[r.key] = Construct(rows, "operation", r)
  BY <1>1, <1>2, <1>3, ItemsAre
<1>5. "order" \notin fields
  BY <1>1 DEF SoundTables, SoundRow
<1>6. /\ DOMAIN items[r.key] = {"order"} \cup fields /\ items[r.key].order = OrderId(rows, r)
      /\ \A f \in fields : items[r.key][f] = r.data[f]
  <2>1. DOMAIN MapRecord("operation", r) = fields /\ \A f \in fields : MapRecord("operation", r)[f] = r.data[f]
    BY FlawlessIs
  <2>2. /\ DOMAIN Construct(rows, "operation", r) = {"order"} \cup DOMAIN MapRecord("operation", r)
        /\ Construct(rows, "operation", r).order = OrderId(rows, r)
        /\ \A f \in DOMAIN MapRecord("operation", r) \ {"order"} :
              Construct(rows, "operation", r)[f] = MapRecord("operation", r)[f]
    BY OperationConstructed
  <2> HIDE DEF items, fields
  <2> QED BY <2>1, <2>2, <1>4, <1>5
<1>7. ASSUME r.key \in DOMAIN reports
      PROVE  \A f \in fields : reports[r.key][f] = r.data[f]
  <2>1. PICK q \in Usables(rows, "production_status", since) : q.key = r.key
    BY <1>1, <1>2, <1>7, ItemsAre
  <2>2. reports[r.key] = Construct(rows, "production_status", q)
    BY <2>1, <1>1, <1>2, ItemsAre
  <2>3. q \in Emit(rows, "production_status", since)
    BY DEF Usables
  <2>4. PICK o \in rows.operation : q.key = o.key /\ q.data = o.data /\ q.raw = Empty
    BY <2>3, ReportedIs
  <2>5. o = r
    BY <2>1, <2>4, <1>1 DEF SoundTables
  <2>6. Construct(rows, "production_status", q) = MapRecord("production_status", q)
    BY ConstructIs
  <2>7. \A f \in DOMAIN q.data \ {"IS_DEFAULT"} : MapRecord("production_status", q)[f] = q.data[f]
    BY <2>4, FlawlessIs
  <2> QED BY <2>2, <2>4, <2>5, <2>6, <2>7
<1> HIDE DEF items, reports, fields
<1>8. Progressed(batch, r.key) = IF r.key \in DOMAIN reports THEN Applied(items[r.key], reports[r.key])
                                 ELSE items[r.key]
  BY DEF Progressed, items, reports
<1>9. \A f \in fields : Progressed(batch, r.key)[f] = r.data[f]
  <2>1. CASE r.key \in DOMAIN reports
    <3>1. \A f \in DOMAIN items[r.key] \cap {"OP_STATUS", "QTY_DONE", "MACHINE_NO", "ACT_START", "ACT_END"} :
             reports[r.key][f] = items[r.key][f]
      BY <2>1, <1>6, <1>7
    <3>2. \A f \in DOMAIN items[r.key] : Applied(items[r.key], reports[r.key])[f] = items[r.key][f]
      BY <3>1, AppliedIs
    <3> QED BY <3>2, <2>1, <1>6, <1>8
  <2>2. CASE r.key \notin DOMAIN reports
    BY <2>2, <1>6, <1>8
  <2> QED BY <2>1, <2>2
<1> QED BY <1>4, <1>6, <1>9 DEF items, fields

\* A row that has not changed is in no feed.
LEMMA UnchangedIs ==
    ASSUME NEW rows, SoundTables(rows), NEW since, NEW e \in Entities \ {"order"}, NEW r \in rows[e],
           ~ (since = None \/ r.at > since)
    PROVE  /\ r.key \notin DOMAIN Batch(rows, since)[e].items
           /\ e = "operation" => r.key \notin DOMAIN Batch(rows, since).production_status.items
<1>1. /\ e \in Feeds /\ e \in Entities /\ e # "order"
      /\ "production_status" \in Feeds /\ "production_status" # "order"
  BY EmittedIs DEF Feeds, FieldMaps
<1>2. \A q \in rows[e] : q.key = r.key => q = r
  BY DEF SoundTables
<1>3. r.key \notin DOMAIN Batch(rows, since)[e].items
  <2> SUFFICES ASSUME r.key \in DOMAIN Batch(rows, since)[e].items PROVE FALSE
    OBVIOUS
  <2>1. PICK q \in Usables(rows, e, since) : q.key = r.key
    BY <1>1, BatchIs, ItemsAre
  <2>2. q \in rows[e] /\ (since = None \/ q.at > since)
    BY EmittedIs DEF Usables
  <2> QED BY <2>1, <2>2, <1>2
<1>4. ASSUME e = "operation", r.key \in DOMAIN Batch(rows, since).production_status.items PROVE FALSE
  <2>1. PICK q \in Usables(rows, "production_status", since) : q.key = r.key
    BY <1>1, <1>4, BatchIs, ItemsAre
  <2>2. q \in Emit(rows, "production_status", since)
    BY DEF Usables
  <2>3. PICK o \in rows.operation : q.key = o.key /\ (since = None \/ o.at > since)
    BY <2>2, ReportedIs
  <2> QED BY <2>1, <2>3, <1>2, <1>4
<1> QED BY <1>3, <1>4

-----------------------------------------------------------------------------
(* Doubts.                                                                 *)

\* Nothing was said of the row r of entity e.
Unissued(issues, e, r) ==
    \A i \in issues : i.key = r.key => i.entity # e /\ (e = "operation" => i.entity # "production_status")

\* A row without doubts has no issue, nor has its order, whose line is its own.
LEMMA UndoubtedIs ==
    ASSUME NEW rows, SoundTables(rows), NEW issues, NEW e \in Entities, NEW r \in rows[e],
           {r.key, LineOf(rows, e, r)} \cap Doubted(rows, issues) = {}
    PROVE  /\ Unissued(issues, e, r)
           /\ e = "order" => \A q \in rows.order : q.key = r.key => q = r
           /\ e = "operation" => \E o \in rows.order :
                 /\ OrderId(rows, r) = <<o.key, 0>>
                 /\ Unissued(issues, "order", o)
                 /\ \A q \in rows.order : q.key = o.key => q = o
<1>1. "order" \in Entities /\ "operation" \in Entities
  BY DEF Entities
<1>2. \A d \in Entities : \A q \in rows[d] : ~ Unissued(issues, d, q) => q.key \in Doubted(rows, issues)
  BY DEF Doubted, Unissued
<1>3. \A q \in rows.order : (\E p \in rows.order \ {q} : p.key = q.key) => q.key \in Doubted(rows, issues)
  BY DEF Doubted
<1>4. Unissued(issues, e, r)
  BY <1>2
<1>5. ASSUME e = "order" PROVE \A q \in rows.order : q.key = r.key => q = r
  BY <1>3, <1>5
<1>6. ASSUME e = "operation"
      PROVE  \E o \in rows.order :
                /\ OrderId(rows, r) = <<o.key, 0>> /\ Unissued(issues, "order", o)
                /\ \A q \in rows.order : q.key = o.key => q = o
  <2>1. PICK o \in rows.order : OrderId(rows, r) = <<o.key, 0>>
    BY <1>6, LineIs
  <2>2. o.key \notin Doubted(rows, issues)
    BY <2>1, <1>6 DEF LineOf
  <2> QED BY <2>1, <2>2, <1>1, <1>2, <1>3
<1> QED BY <1>4, <1>5, <1>6

-----------------------------------------------------------------------------
(* What a run makes of a row nothing was said of.                          *)

\* Orders have a status, operations an order, and a batch is finite.
LEMMA BatchIsSound ==
    ASSUME NEW rows, SoundTables(rows), NEW since
    PROVE  LET batch == Batch(rows, since)
           IN  /\ \A e \in Entities : IsFiniteSet(DOMAIN batch[e].items)
               /\ \A o \in DOMAIN batch.order.items : "STATUS" \in DOMAIN batch.order.items[o]
               /\ \A x \in DOMAIN batch.operation.items : "order" \in DOMAIN batch.operation.items[x]
<1>1. "order" \in Entities /\ "operation" \in Entities
  BY DEF Entities
<1>2. ASSUME NEW o \in DOMAIN Batch(rows, since).order.items
      PROVE  "STATUS" \in DOMAIN Batch(rows, since).order.items[o]
  <2>1. PICK r \in Usables(rows, "order", since) :
            Batch(rows, since).order.items[o] = Construct(rows, "order", r)
    BY <1>1, BatchIs, OrdersAre
  <2>2. r \in rows["order"]
    BY <1>1, EmittedIs DEF Usables
  <2>3. "STATUS" \in DOMAIN r.data
    BY <1>1, <2>2 DEF SoundTables, SoundRow
  <2>4. Construct(rows, "order", r) = MapRecord("order", r)
    BY ConstructIs
  <2> QED BY <2>1, <2>3, <2>4, MappedFields
<1>3. ASSUME NEW x \in DOMAIN Batch(rows, since).operation.items
      PROVE  "order" \in DOMAIN Batch(rows, since).operation.items[x]
  <2>1. "operation" \in Feeds
    BY <1>1, EmittedIs
  <2>2. PICK r \in Usables(rows, "operation", since) :
            Batch(rows, since).operation.items[x] = Construct(rows, "operation", r)
    BY <1>1, <2>1, BatchIs, ItemsAre
  <2>3. "order" \in DOMAIN Construct(rows, "operation", r)
    BY OperationConstructed
  <2> QED BY <2>2, <2>3
<1>4. ASSUME NEW e \in Entities PROVE IsFiniteSet(DOMAIN Batch(rows, since)[e].items)
  <2>1. CASE e = "order"
    BY <2>1, BatchIs, OrdersAre
  <2>2. CASE e # "order"
    <3> DEFINE usable == Usables(rows, e, since)
               f == [r \in usable |-> r.key]
               keys == {r.key : r \in usable}
    <3>1. e \in Feeds
      BY EmittedIs
    <3>2. usable \subseteq Emit(rows, e, since)
      BY DEF Usables
    <3>3. IsFiniteSet(usable)
      BY <3>1, <3>2, FeedsAreSound, FS_Subset
    <3> HIDE DEF usable
    <3>4. f \in Surjection(usable, keys)
      BY DEF Surjection
    <3> HIDE DEF f, keys
    <3>5. IsFiniteSet(keys)
      BY <3>3, <3>4, FS_Surjection
    <3>6. DOMAIN Normalize(rows, e, since).items = keys
      BY <2>2, <3>1, ItemsAre DEF keys, usable
    <3>7. Batch(rows, since)[e] = Normalize(rows, e, since)
      BY BatchIs
    <3> QED BY <3>5, <3>6, <3>7
  <2> QED BY <2>1, <2>2
<1> QED BY <1>2, <1>3, <1>4

LEMMA MasterStored ==
    ASSUME NEW rows, SoundTables(rows), NEW since, NEW old, NEW mode, NEW prune,
           NEW S, S = UpsertAll(old, Batch(rows, since), mode, prune).store,
           NEW e \in Masters, NEW r \in rows[e], r.raw = Empty,
           since = None \/ r.at > since \/ AsServed(old, e, r)
    PROVE  AsServed(S, e, r)
<1> DEFINE items == Batch(rows, since)[e].items
           fields == DOMAIN r.data \ {"IS_DEFAULT"}
<1>1. /\ e \in Entities /\ e # "order" /\ e # "operation" /\ e \in Feeds
      /\ items = Normalize(rows, e, since).items
  BY BatchIs, EmittedIs DEF Entities, Masters
<1>2. S[e] = Over(items, old[e])
  BY StoredIs
<1> HIDE DEF items
<1>3. /\ DOMAIN S[e] = DOMAIN items \cup DOMAIN old[e]
      /\ \A k \in DOMAIN items : S[e][k] = items[k]
      /\ \A k \in DOMAIN old[e] \ DOMAIN items : S[e][k] = old[e][k]
  <2>1. /\ DOMAIN Over(items, old[e]) = DOMAIN items \cup DOMAIN old[e]
        /\ \A k \in DOMAIN items : Over(items, old[e])[k] = items[k]
        /\ \A k \in DOMAIN old[e] \ DOMAIN items : Over(items, old[e])[k] = old[e][k]
    BY OverIs
  <2> QED BY <2>1, <1>2
<1>4. CASE since = None \/ r.at > since
  <2>1. r \in Usables(rows, e, since)
    BY <1>1, <1>4, EmittedIs, FlawlessIs DEF Usables
  <2>2. r.key \in DOMAIN items /\ items[r.key] = Construct(rows, e, r)
    BY <1>1, <2>1, ItemsAre
  <2>3. Construct(rows, e, r) = MapRecord(e, r)
    BY <1>1, ConstructIs
  <2>4. \A f \in fields : MapRecord(e, r)[f] = r.data[f]
    BY FlawlessIs
  <2> QED BY <1>1, <1>3, <2>2, <2>3, <2>4 DEF AsServed
<1>5. CASE ~ (since = None \/ r.at > since)
  <2>1. r.key \notin DOMAIN items
    BY <1>1, <1>5, UnchangedIs DEF items
  <2> QED BY <1>1, <1>3, <1>5, <2>1 DEF AsServed
<1> QED BY <1>4, <1>5

LEMMA OrdersOfRun ==
    ASSUME NEW rows, SoundTables(rows), NEW since, NEW old, SoundStore(old), NEW mode, NEW prune \in BOOLEAN
    PROVE  OrdersFollow(old, Batch(rows, since).order.items, mode, prune,
                        UpsertAll(old, Batch(rows, since), mode, prune).store.order)
<1> DEFINE batch == Batch(rows, since)
<1>1. \A o \in DOMAIN batch.order.items : "STATUS" \in DOMAIN batch.order.items[o]
  BY BatchIsSound
<1> HIDE DEF batch
<1>2. UpsertAll(old, batch, mode, prune).store.order = StoredOrders(old, batch, mode, prune)
  BY StoredIs
<1>3. OrdersFollow(old, batch.order.items, mode, prune, StoredOrders(old, batch, mode, prune))
  BY <1>1, OrdersStored
<1> QED BY <1>2, <1>3 DEF batch

LEMMA OrderStored ==
    ASSUME NEW rows, SoundTables(rows), NEW since, NEW old, SoundStore(old), NEW mode, NEW prune \in BOOLEAN,
           NEW S, S = UpsertAll(old, Batch(rows, since), mode, prune).store,
           NEW r \in rows.order, r.raw = Empty, \A q \in rows.order : q.key = r.key => q = r,
           since = None \/ r.at > since \/ (mode # "full" /\ AsServed(old, "order", r))
    PROVE  AsServed(S, "order", r)
<1> DEFINE batch == Batch(rows, since)
           items == batch.order.items
           fields == DOMAIN r.data \ {"IS_DEFAULT"}
<1>1. "order" \in Entities /\ items = Normalize(rows, "order", since).items
  BY BatchIs DEF Entities
<1>3. /\ DOMAIN items \subseteq DOMAIN S.order /\ \A o \in DOMAIN items : S.order[o] = items[o]
      /\ mode # "full" => /\ DOMAIN S.order = DOMAIN items \cup DOMAIN old.order
                           /\ \A o \in DOMAIN old.order \ DOMAIN items : S.order[o] = old.order[o]
  <2>1. OrdersFollow(old, items, mode, prune, S.order)
    BY OrdersOfRun
  <2> HIDE DEF items
  <2> QED BY <2>1 DEF OrdersFollow
<1> HIDE DEF items
<1>4. CASE since = None \/ r.at > since
  <2>1. r \in Usables(rows, "order", since)
    BY <1>1, <1>4, EmittedIs, FlawlessIs DEF Usables
  <2>2. <<r.key, 0>> \in DOMAIN items /\ items[<<r.key, 0>>] = Construct(rows, "order", r)
    BY <1>1, <2>1, OrdersAre
  <2>3. Construct(rows, "order", r) = MapRecord("order", r)
    BY ConstructIs
  <2>4. /\ Usable("order", r)
        /\ DOMAIN MapRecord("order", r) = DOMAIN r.data \ {"IS_DEFAULT"}
        /\ \A f \in DOMAIN r.data \ {"IS_DEFAULT"} : MapRecord("order", r)[f] = r.data[f]
    BY FlawlessIs
  <2> QED BY <1>3, <2>2, <2>3, <2>4 DEF AsServed
<1>5. CASE ~ (since = None \/ r.at > since)
  <2>1. <<r.key, 0>> \notin DOMAIN items
    <3> SUFFICES ASSUME <<r.key, 0>> \in DOMAIN items PROVE FALSE
      OBVIOUS
    <3>1. PICK q \in Usables(rows, "order", since) :
              <<r.key, 0>> = <<q.key, Copy(Usables(rows, "order", since), q)>>
      BY <1>1, OrdersAre
    <3>2. q \in rows.order /\ (since = None \/ q.at > since) /\ q.key = r.key
      BY <1>1, <3>1, EmittedIs DEF Usables
    <3> QED BY <3>2, <1>5
  <2> QED BY <1>3, <1>5, <2>1 DEF AsServed
<1> QED BY <1>4, <1>5

LEMMA OperationStored ==
    ASSUME NEW rows, SoundTables(rows), NEW since, NEW old, SoundStore(old),
           NEW mode, NEW prune \in BOOLEAN, mode = "full" => since = None,
           NEW result, result = UpsertAll(old, Batch(rows, since), mode, prune),
           NEW r \in rows.operation, r.raw = Empty,
           Unissued(IssuesOf(rows, old, Batch(rows, since), result), "operation", r),
           NEW o \in rows.order, OrderId(rows, r) = <<o.key, 0>>,
           Unissued(IssuesOf(rows, old, Batch(rows, since), result), "order", o),
           \A q \in rows.order : q.key = o.key => q = o,
           since = None \/ r.at > since \/ AsServed(old, "operation", r)
    PROVE  AsServed(result.store, "operation", r)
<1> DEFINE batch == Batch(rows, since)
           items == batch.operation.items
           S == result.store
           kept == KeptOperations(batch, old)
           issues == IssuesOf(rows, old, batch, result)
           fields == DOMAIN r.data \ {"IS_DEFAULT"}
<1>1. "order" \in Entities /\ "operation" \in Entities /\ "order" \in Feeds
  BY EmittedIs DEF Entities
<1>2. DOMAIN S.order = IF mode = "full" /\ prune THEN DOMAIN batch.order.items
                       ELSE DOMAIN batch.order.items \cup DOMAIN old.order
  <2>1. OrdersFollow(old, batch.order.items, mode, prune, S.order)
    BY OrdersOfRun
  <2> QED BY <2>1 DEF OrdersFollow
<1>3. /\ \A x \in kept :
            /\ x \in DOMAIN S.operation <=> items[x].order \in DOMAIN S.order
            /\ x \in DOMAIN S.operation => S.operation[x] = Progressed(batch, x)
      /\ \A x \in DOMAIN old.operation \ kept :
            /\ x \in DOMAIN S.operation <=>
                  /\ ~ (mode = "full" /\ old.operation[x].order \in DOMAIN batch.order.items)
                  /\ old.operation[x].order \in DOMAIN S.order
            /\ x \in DOMAIN S.operation /\ x \notin DOMAIN batch.production_status.items =>
                  S.operation[x] = old.operation[x]
  <2>1. \A x \in DOMAIN batch.operation.items : "order" \in DOMAIN batch.operation.items[x]
    BY BatchIsSound
  <2>2. OperationsFollow(old, batch, mode, S)
    BY <2>1, OperationsStored
  <2> HIDE DEF batch, S
  <2> QED BY <2>2 DEF OperationsFollow, kept, items
<1>4. CASE since = None \/ r.at > since
  <2>1. /\ r.key \in DOMAIN items /\ items[r.key].order = <<o.key, 0>>
        /\ \A f \in fields : Progressed(batch, r.key)[f] = r.data[f]
    BY <1>4, OperationIs
  <2>2. r.key \in kept
    <3> SUFFICES ASSUME r.key \notin kept PROVE FALSE
      OBVIOUS
    <3>1. Issue("operation", r.key, "unknown_order") \in Validate(batch, old)
      BY <2>1 DEF Validate
    <3>2. Issue("operation", r.key, "unknown_order") \in issues
      BY <3>1 DEF IssuesOf
    <3> QED BY <3>2 DEF Unissued, Issue
  <2>3. <<o.key, 0>> \in DOMAIN batch.order.items \cup DOMAIN old.order
    BY <2>1, <2>2 DEF KeptOperations
  <2>4. ASSUME mode = "full" PROVE <<o.key, 0>> \in DOMAIN batch.order.items
    <3>1. o \in Emit(rows, "order", since)
      BY <1>1, <2>4, EmittedIs
    <3>2. FieldIssues("order", o) \subseteq issues
      <4>1. FieldIssues("order", o) \subseteq Normalize(rows, "order", since).issues
        BY <3>1, IssuesAre
      <4>2. batch["order"] = Normalize(rows, "order", since)
        BY <1>1, BatchIs
      <4> QED BY <4>1, <4>2, <1>1 DEF IssuesOf
    <3>3. Usable("order", o)
      <4> SUFFICES ASSUME NEW f \in DOMAIN o.raw,
                          ParseError(FieldMaps["order"], f, o.raw[f]) \in {"missing_required", "invalid_value"}
                   PROVE  FALSE
        BY DEF Usable
      <4> DEFINE error == ParseError(FieldMaps["order"], f, o.raw[f])
      <4>1. error # None => Issue("order", o.key, error) \in FieldIssues("order", o)
        BY DEF FieldIssues
      <4> HIDE DEF error
      <4>2. error = None
        BY <4>1, <3>2 DEF Unissued, Issue
      <4>3. None # "missing_required" /\ None # "invalid_value"
        BY RecordsAssumption
      <4> QED BY <4>2, <4>3 DEF error
    <3>4. o \in Usables(rows, "order", since)
      BY <3>1, <3>3 DEF Usables
    <3>5. <<o.key, 0>> \in DOMAIN Normalize(rows, "order", since).items
      BY <3>4, OrdersAre
    <3> QED BY <3>5, <1>1, BatchIs
  <2>5. <<o.key, 0>> \in DOMAIN S.order
    BY <1>2, <2>3, <2>4
  <2> QED BY <1>3, <2>1, <2>2, <2>5 DEF AsServed
<1>5. CASE ~ (since = None \/ r.at > since)
  <2>1. r.key \notin DOMAIN items /\ r.key \notin DOMAIN batch.production_status.items
    BY <1>1, <1>5, UnchangedIs
  <2>2. r.key \notin kept /\ mode # "full"
    BY <2>1, <1>5 DEF KeptOperations
  <2>3. r.key \in DOMAIN old.operation /\ old.operation[r.key].order \in DOMAIN old.order
    BY <1>5 DEF AsServed, SoundStore
  <2>4. r.key \in DOMAIN S.operation /\ S.operation[r.key] = old.operation[r.key]
    BY <1>2, <1>3, <2>1, <2>2, <2>3
  <2> QED BY <1>5, <2>4 DEF AsServed
<1> QED BY <1>4, <1>5

\* A row is stored as it is whether the run brings it or one before has.
LEMMA RunStores ==
    ASSUME IntakeInv, NEW mode \in {"full", "incremental"}, NEW prune \in BOOLEAN,
           NEW e \in Entities, NEW r \in served[e],
           NEW result, result = UpsertAll(store, Batch(served, SinceOfRun(mode)), mode, prune),
           NEW issues, issues = IssuesOf(served, store, Batch(served, SinceOfRun(mode)), result),
           Undoubted(served, (IF mode = "full" THEN {} ELSE doubt) \cup Doubted(served, issues), e, r)
    PROVE  AsServed(result.store, e, r)
<1> DEFINE since == SinceOfRun(mode)
<1>1. SoundTables(served) /\ Clocks /\ SoundStore(store) /\ StoreMirrors
  BY DEF IntakeInv, Tables
<1>2. /\ r.raw = Empty /\ {r.key, LineOf(served, e, r)} \cap Doubted(served, issues) = {}
      /\ mode # "full" => Undoubted(served, doubt, e, r)
  BY DEF Undoubted
<1>3. since = None \/ r.at > since \/ (mode # "full" /\ AsServed(store, e, r))
  <2> SUFFICES ASSUME since # None, ~ (r.at > since) PROVE mode # "full" /\ AsServed(store, e, r)
    OBVIOUS
  <2>1. mode # "full" /\ since = mark /\ mark \in Int
    BY <1>1 DEF SinceOfRun, Clocks
  <2>2. r.at \in Int
    BY <1>1 DEF SoundTables, SoundRow
  <2>3. r.at <= mark
    BY <2>1, <2>2
  <2> QED BY <2>1, <2>3, <1>1, <1>2 DEF StoreMirrors
<1>4. mode = "full" => since = None
  BY DEF SinceOfRun
<1>5. /\ Unissued(issues, e, r)
      /\ e = "order" => \A q \in served.order : q.key = r.key => q = r
      /\ e = "operation" => \E o \in served.order :
            /\ OrderId(served, r) = <<o.key, 0>>
            /\ Unissued(issues, "order", o)
            /\ \A q \in served.order : q.key = o.key => q = o
  BY <1>1, <1>2, UndoubtedIs
<1> HIDE DEF since
<1>6. CASE e \in Masters
  BY <1>1, <1>2, <1>3, <1>6, MasterStored DEF since
<1>7. CASE e = "order"
  BY <1>1, <1>2, <1>3, <1>5, <1>7, OrderStored DEF since
<1>8. CASE e = "operation"
  <2>1. PICK o \in served.order :
            /\ OrderId(served, r) = <<o.key, 0>>
            /\ Unissued(issues, "order", o)
            /\ \A q \in served.order : q.key = o.key => q = o
    BY <1>5, <1>8
  <2>2. r \in served.operation
    BY <1>8
  <2>3. result = UpsertAll(store, Batch(served, since), mode, prune)
    BY DEF since
  <2>4. /\ Unissued(IssuesOf(served, store, Batch(served, since), result), "operation", r)
        /\ Unissued(IssuesOf(served, store, Batch(served, since), result), "order", o)
    BY <2>1, <1>5, <1>8 DEF since
  <2>5. since = None \/ r.at > since \/ AsServed(store, "operation", r)
    BY <1>3, <1>8
  <2>6. AsServed(result.store, "operation", r)
    BY <2>1, <2>2, <2>3, <2>4, <2>5, <1>1, <1>2, <1>4, OperationStored
  <2> QED BY <2>6, <1>8
<1> QED BY <1>6, <1>7, <1>8 DEF Entities

\* A run leaves orders with a status, and steps whose order is stored.
LEMMA RunIsSound ==
    ASSUME NEW rows, SoundTables(rows), NEW since, NEW old, SoundStore(old), NEW mode, NEW prune \in BOOLEAN,
           NEW S, S = UpsertAll(old, Batch(rows, since), mode, prune).store
    PROVE  SoundStore(S)
<1> DEFINE batch == Batch(rows, since)
<1>1. /\ \A e \in Entities : IsFiniteSet(DOMAIN batch[e].items)
      /\ \A x \in DOMAIN batch.operation.items : "order" \in DOMAIN batch.operation.items[x]
  BY BatchIsSound
<1>2. DOMAIN S = Entities /\ \A e \in Masters : S[e] = Over(batch[e].items, old[e])
  BY StoredIs
<1>3. OrdersFollow(old, batch.order.items, mode, prune, S.order)
  BY OrdersOfRun
<1>4. OperationsFollow(old, batch, mode, S)
  BY <1>1, OperationsStored
<1> HIDE DEF batch
<1>5. KeptOperations(batch, old) \subseteq DOMAIN batch.operation.items
  BY DEF KeptOperations
<1>6. "order" \in Entities /\ "operation" \in Entities /\ Masters \subseteq Entities
  BY DEF Entities
<1>7. ASSUME NEW e \in Entities PROVE DOMAIN S[e] \subseteq DOMAIN batch[e].items \cup DOMAIN old[e]
  <2>1. CASE e \in Masters
    <3>1. DOMAIN Over(batch[e].items, old[e]) = DOMAIN batch[e].items \cup DOMAIN old[e]
      BY OverIs
    <3> QED BY <3>1, <2>1, <1>2
  <2>2. CASE e = "order"
    BY <2>2, <1>3 DEF OrdersFollow
  <2>3. CASE e = "operation"
    BY <2>3, <1>4, <1>5 DEF OperationsFollow
  <2> QED BY <2>1, <2>2, <2>3 DEF Entities
<1>8. ASSUME NEW e \in Entities PROVE IsFiniteSet(DOMAIN S[e])
  <2>1. IsFiniteSet(DOMAIN batch[e].items) /\ IsFiniteSet(DOMAIN old[e])
    BY <1>1 DEF SoundStore
  <2>2. IsFiniteSet(DOMAIN batch[e].items \cup DOMAIN old[e])
    BY <2>1, FS_Union
  <2> QED BY <2>2, <1>7, FS_Subset
<1>9. \A o \in DOMAIN S.order : "STATUS" \in DOMAIN S.order[o]
  BY <1>3 DEF OrdersFollow
<1>10. \A x \in DOMAIN S.operation : "order" \in DOMAIN S.operation[x] /\ S.operation[x].order \in DOMAIN S.order
  BY <1>4 DEF OperationsFollow
<1> QED BY <1>2, <1>8, <1>9, <1>10 DEF SoundStore

LEMMA SyncKeeps ==
    ASSUME IntakeInv, NEW mode \in {"full", "incremental"}, NEW prune \in BOOLEAN, Sync(mode, prune)
    PROVE  IntakeInv'
<1> DEFINE batch == Batch(served, SinceOfRun(mode))
           result == UpsertAll(store, batch, mode, prune)
           issues == IssuesOf(served, store, batch, result)
           doubts == (IF mode = "full" THEN {} ELSE doubt) \cup Doubted(served, issues)
<1>1. Tables(served) /\ SoundTables(served) /\ Clocks /\ SoundStore(store) /\ clock \in Int
  BY DEF IntakeInv, Tables, Clocks
<1>2. /\ store' = result.store /\ doubt' = doubts
      /\ mark' = clock /\ clock' = clock + 1 /\ served' = served
  BY SyncIs
<1>3. SoundStore(result.store)
  BY <1>1, RunIsSound
<1>4. \A e \in Entities : \A r \in served[e] : Undoubted(served, doubts, e, r) => AsServed(result.store, e, r)
  BY RunStores
<1> HIDE DEF result, doubts
<1>5. Clocks'
  <2>1. \A e \in Entities : \A r \in served[e] : r.at \in Int /\ r.at < clock
    BY <1>1 DEF SoundTables, SoundRow, Clocks
  <2>2. \A e \in Entities : \A r \in served[e] : r.at < clock + 1
    BY <2>1, <1>1
  <2> QED BY <2>2, <1>1, <1>2 DEF Clocks
<1>6. StoreMirrors'
  BY <1>2, <1>4 DEF StoreMirrors
<1>7. Tables(served)' /\ SoundStore(store)'
  BY <1>1, <1>2, <1>3
<1> QED BY <1>5, <1>6, <1>7 DEF IntakeInv

LEMMA IntakeBegins == IntakeInit => IntakeInv
<1> SUFFICES ASSUME IntakeInit PROVE IntakeInv
  OBVIOUS
<1>1. Tables(served)
  BY RecordsAssumption DEF IntakeInit, Tables, Original
<1>2. Clocks
  <2>1. \A e \in Entities : \A r \in FirstRecords[e] : r.at \in Int /\ r.at <= 0
    BY RecordsAssumption DEF SoundTables, SoundRow
  <2> QED BY <2>1 DEF IntakeInit, Clocks
<1>3. SoundStore(store)
  <2>1. /\ DOMAIN store = Entities /\ \A e \in Entities : store[e] = Empty
        /\ "order" \in Entities /\ "operation" \in Entities
    BY DEF IntakeInit, Entities
  <2> QED BY <2>1, EmptyIs, FS_EmptySet DEF SoundStore
<1>4. StoreMirrors
  BY DEF IntakeInit, StoreMirrors
<1> QED BY <1>1, <1>2, <1>3, <1>4 DEF IntakeInv

LEMMA IntakeStays == IntakeInv /\ [IntakeNext]_intakeVars => IntakeInv'
<1> SUFFICES ASSUME IntakeInv, [IntakeNext]_intakeVars PROVE IntakeInv'
  OBVIOUS
<1>1. CASE \E mode \in {"full", "incremental"}, prune \in BOOLEAN : Sync(mode, prune)
  BY <1>1, SyncKeeps
<1>2. CASE ErpEvent
  BY <1>2, EventsKeep
<1>3. CASE UNCHANGED intakeVars
  BY <1>3 DEF intakeVars, IntakeInv, Tables, Clocks, SoundStore, StoreMirrors
<1> QED BY <1>1, <1>2, <1>3 DEF IntakeNext, ErpEvent

(* Whatever the ERP does between runs and whichever runs there are, its     *)
(* rows are as its tables have them, older than the clock, every stored     *)
(* step is of a stored order, and each flawless row older than the          *)
(* watermark is stored as it is unless a run complained of it               *)
(* (SyncService._watermark, _upsert).                                       *)
THEOREM IntakeIsSound == IntakeSpec => []IntakeInv
BY IntakeBegins, IntakeStays, PTL DEF IntakeSpec

\* A step that counts a run is one.
LEMMA RunIsASync ==
    ASSUME IntakeInv, [IntakeNext]_intakeVars, runs' # runs
    PROVE  \E mode \in {"full", "incremental"}, prune \in BOOLEAN : Sync(mode, prune)
<1>1. clock \in Int /\ Tables(served)
  BY DEF IntakeInv, Clocks
<1>2. ErpEvent => runs' = runs
  BY <1>1, EventsMove DEF Change
<1> QED BY <1>2 DEF IntakeNext, ErpEvent, intakeVars

(* After every run, full or incremental, each flawless row of the ERP is    *)
(* stored as it is, unless a run since the last full one complained of it   *)
(* or of its order line, or the line is there twice (SyncService.run).      *)
THEOREM SlicesBringEverything == IntakeSpec => SlicesSuffice
<1> DEFINE Sufficient == runs' # runs =>
        \A e \in Entities : \A r \in served[e] :
            LET k == IF e = "order" THEN <<r.key, 0>> ELSE r.key
                line == IF e = "operation" THEN OrderId(served, r)[1] ELSE r.key
            IN  r.raw = Empty /\ {r.key, line} \cap doubt' = {}
                    => /\ k \in DOMAIN store'[e]
                       /\ \A f \in DOMAIN r.data \ {"IS_DEFAULT"} : store'[e][k][f] = r.data[f]
<1>1. IntakeInv /\ [IntakeNext]_intakeVars => [Sufficient]_intakeVars
  <2> SUFFICES ASSUME IntakeInv, [IntakeNext]_intakeVars, runs' # runs,
                      NEW e \in Entities, NEW r \in served[e], Undoubted(served, doubt', e, r)
               PROVE  AsServed(store', e, r)
    BY DEF Undoubted, AsServed, LineOf
  <2>1. PICK mode \in {"full", "incremental"}, prune \in BOOLEAN : Sync(mode, prune)
    BY RunIsASync
  <2> DEFINE batch == Batch(served, SinceOfRun(mode))
             result == UpsertAll(store, batch, mode, prune)
             issues == IssuesOf(served, store, batch, result)
             doubts == (IF mode = "full" THEN {} ELSE doubt) \cup Doubted(served, issues)
  <2>2. store' = result.store /\ doubt' = doubts
    BY <2>1, SyncIs
  <2>3. Undoubted(served, doubts, e, r)
    BY <2>2
  <2>4. AsServed(result.store, e, r)
    BY <2>3, RunStores
  <2> QED BY <2>2, <2>4
<1> HIDE DEF Sufficient
<1>2. IntakeSpec => [][Sufficient]_intakeVars
  BY <1>1, IntakeIsSound, PTL DEF IntakeSpec
<1> QED BY <1>2 DEF SlicesSuffice, Sufficient

-----------------------------------------------------------------------------
(* A full run.                                                             *)

LEMMA FirstIs ==
    ASSUME NEW rows, rows # {}, \A r \in rows : r.id \in Nat
    PROVE  First(rows) \in rows
<1> DEFINE ids == {r.id : r \in rows}
<1>1. ids \subseteq Nat /\ ids # {}
  OBVIOUS
<1>2. PICK m \in ids : \A n \in ids : <<n, m>> \notin OpToRel(<, Nat)
  BY <1>1, NatLessThanWellFounded, WFMin
<1>3. ASSUME NEW n \in ids, n < m PROVE FALSE
  <2>1. <<n, m>> \in OpToRel(<, Nat)
    BY <1>1, <1>3 DEF OpToRel
  <2> QED BY <1>2, <2>1
<1>4. \A n \in ids : m <= n
  <2>1. m \in Nat /\ \A n \in ids : n \in Nat
    BY <1>1
  <2> HIDE DEF ids
  <2> QED BY <2>1, <1>3
<1>5. PICK r \in rows : r.id = m
  OBVIOUS
<1>6. \A q \in rows : r.id <= q.id
  BY <1>4, <1>5
<1> QED BY <1>6 DEF First

\* What a full run fetches is all there is.
LEMMA EverythingIsFetched ==
    ASSUME NEW rows, NEW e \in Entities
    PROVE  Emit(rows, e, None) = rows[e]
BY EmittedIs

\* Once a calendar is usable there is a default one.
LEMMA DefaultIsKnown ==
    ASSUME NEW rows, SoundTables(rows), DOMAIN Batch(rows, None).calendar.items # {}
    PROVE  DefaultCalendarId(rows, None) # None
<1> DEFINE known == {r \in Emit(rows, "calendar", None) : Usable("calendar", r)}
           flagged == {r \in known : r.data.IS_DEFAULT}
<1>1. "calendar" \in Entities /\ "calendar" \in Feeds
  BY DEF Entities, Masters, Feeds, FieldMaps
<1>2. known # {}
  <2>1. DOMAIN Normalize(rows, "calendar", None).items = {r.key : r \in Usables(rows, "calendar", None)}
    BY <1>1, ItemsAre
  <2>2. Batch(rows, None)["calendar"] = Normalize(rows, "calendar", None)
    BY <1>1, BatchIs
  <2> QED BY <2>1, <2>2 DEF Usables
<1>3. \A r \in known : r.id \in Nat /\ r.key # None
  BY <1>1, FeedsAreSound
<1>4. DefaultCalendarId(rows, None) =
          IF flagged # {} THEN First(flagged).key ELSE IF known # {} THEN First(known).key ELSE None
  BY DEF DefaultCalendarId
<1> HIDE DEF known
<1>5. flagged \subseteq known
  OBVIOUS
<1> HIDE DEF flagged
<1>6. flagged # {} => First(flagged) \in known
  BY <1>3, <1>5, FirstIs
<1>7. First(known) \in known
  BY <1>2, <1>3, FirstIs
<1> QED BY <1>2, <1>3, <1>4, <1>6, <1>7

LEMMA SnapshotIs ==
    ASSUME NEW rows, NEW direct, direct = SnapshotFromRecords(rows)
    PROVE  LET batch == Batch(rows, None)
           IN  /\ \A e \in Masters \cup {"order"} : direct[e] = batch[e].items
               /\ DOMAIN direct.operation = DOMAIN batch.operation.items
               /\ \A x \in DOMAIN batch.operation.items : direct.operation[x] = Progressed(batch, x)
<1>1. /\ "operation" \in Entities
      /\ \A e \in Masters \cup {"order"} : e \in Entities /\ e # "operation"
  BY DEF Entities, Masters
<1>2. \A e \in Masters \cup {"order"} : direct[e] = Batch(rows, None)[e].items
  BY <1>1 DEF SnapshotFromRecords
<1>3. direct.operation =
          WithProgress(Batch(rows, None).operation.items, Batch(rows, None).production_status.items)
  BY <1>1 DEF SnapshotFromRecords
<1>4. /\ DOMAIN direct.operation = DOMAIN Batch(rows, None).operation.items
      /\ \A x \in DOMAIN Batch(rows, None).operation.items :
            direct.operation[x] = Progressed(Batch(rows, None), x)
  BY <1>3 DEF WithProgress, Progressed
<1> QED BY <1>2, <1>4

StepsOf(s, o) == {x \in DOMAIN s.operation : s.operation[x].order = o}

\* A full run stores what a snapshot built from the records holds, and closes the rest.
LEMMA FullRunIsDirect ==
    ASSUME NEW rows, SoundTables(rows), NEW old, SoundStore(old), NEW prune \in BOOLEAN,
           NEW S, S = UpsertAll(old, Batch(rows, None), "full", prune).store,
           NEW direct, direct = SnapshotFromRecords(rows)
    PROVE  /\ \A e \in Masters \cup {"order"} : \A k \in DOMAIN direct[e] :
                 k \in DOMAIN S[e] /\ S[e][k] = direct[e][k]
           /\ \A o \in DOMAIN direct.order :
                 /\ StepsOf(S, o) = StepsOf(direct, o)
                 /\ \A x \in StepsOf(direct, o) : S.operation[x] = direct.operation[x]
           /\ DOMAIN direct.order # {} =>
                 \A o \in DOMAIN S.order \ DOMAIN direct.order : S.order[o].STATUS \in ClosedStatuses
<1> DEFINE batch == Batch(rows, None)
           items == batch.operation.items
           kept == KeptOperations(batch, old)
<1>1. /\ \A e \in Masters \cup {"order"} : direct[e] = batch[e].items
      /\ DOMAIN direct.operation = DOMAIN items
      /\ \A x \in DOMAIN items : direct.operation[x] = Progressed(batch, x)
  BY SnapshotIs
<1>2. \A x \in DOMAIN items : "order" \in DOMAIN items[x]
  BY BatchIsSound
<1>3. \A e \in Masters : S[e] = Over(batch[e].items, old[e])
  BY StoredIs
<1>4. OrdersFollow(old, batch.order.items, "full", prune, S.order)
  BY OrdersOfRun
<1>5. OperationsFollow(old, batch, "full", S)
  BY <1>2, OperationsStored
<1> HIDE DEF batch
<1>6. /\ DOMAIN batch.order.items \subseteq DOMAIN S.order
      /\ \A o \in DOMAIN batch.order.items : S.order[o] = batch.order.items[o]
      /\ DOMAIN batch.order.items # {} =>
            \A o \in DOMAIN S.order \ DOMAIN batch.order.items : S.order[o].STATUS \in ClosedStatuses
  BY <1>4 DEF OrdersFollow
<1>7. ASSUME NEW e \in Masters \cup {"order"}, NEW k \in DOMAIN direct[e]
      PROVE  k \in DOMAIN S[e] /\ S[e][k] = direct[e][k]
  <2>1. CASE e = "order"
    BY <2>1, <1>1, <1>6, <1>7
  <2>2. CASE e \in Masters
    <3> DEFINE f == batch[e].items
               g == old[e]
    <3>1. S[e] = Over(f, g) /\ k \in DOMAIN f /\ direct[e] = f
      BY <2>2, <1>1, <1>3, <1>7
    <3> HIDE DEF f, g
    <3>2. DOMAIN Over(f, g) = DOMAIN f \cup DOMAIN g /\ \A n \in DOMAIN f : Over(f, g)[n] = f[n]
      BY OverIs
    <3> QED BY <3>1, <3>2
  <2> QED BY <2>1, <2>2
<1>8. \A x \in DOMAIN items : Progressed(batch, x).order = items[x].order
  BY <1>2, AppliedIs DEF Progressed
<1>9. \A x \in DOMAIN items : items[x].order \in DOMAIN batch.order.items => x \in kept
  BY DEF KeptOperations
<1>10. kept \subseteq DOMAIN items
  BY DEF KeptOperations
<1>11. /\ DOMAIN S.operation \subseteq kept \cup DOMAIN old.operation
       /\ \A x \in kept :
             /\ x \in DOMAIN S.operation <=> items[x].order \in DOMAIN S.order
             /\ x \in DOMAIN S.operation =>
                    S.operation[x] = Progressed(batch, x) /\ S.operation[x].order = items[x].order
       /\ \A x \in DOMAIN old.operation \ kept : x \in DOMAIN S.operation =>
             /\ old.operation[x].order \notin DOMAIN batch.order.items
             /\ S.operation[x].order = old.operation[x].order
  BY <1>5 DEF OperationsFollow
<1> HIDE DEF items, kept
<1>12. ASSUME NEW o \in DOMAIN direct.order
       PROVE  /\ StepsOf(S, o) = StepsOf(direct, o)
              /\ \A x \in StepsOf(direct, o) : S.operation[x] = direct.operation[x]
  <2>1. o \in DOMAIN batch.order.items /\ o \in DOMAIN S.order
    BY <1>1, <1>6
  <2>2. ASSUME NEW x \in StepsOf(S, o) PROVE x \in StepsOf(direct, o)
    <3>1. x \in DOMAIN S.operation /\ S.operation[x].order = o
      BY DEF StepsOf
    <3>2. x \in kept
      BY <3>1, <2>1, <1>11
    <3>3. x \in DOMAIN direct.operation /\ direct.operation[x].order = o
      BY <3>1, <3>2, <1>1, <1>8, <1>10, <1>11
    <3> QED BY <3>3 DEF StepsOf
  <2>3. ASSUME NEW x \in StepsOf(direct, o)
        PROVE  x \in StepsOf(S, o) /\ S.operation[x] = direct.operation[x]
    <3>1. x \in DOMAIN items /\ items[x].order = o
      BY <1>1, <1>8 DEF StepsOf
    <3>2. x \in kept /\ x \in DOMAIN S.operation
      BY <3>1, <2>1, <1>9, <1>11
    <3>3. S.operation[x] = direct.operation[x] /\ S.operation[x].order = o
      BY <3>1, <3>2, <1>1, <1>11
    <3> QED BY <3>2, <3>3 DEF StepsOf
  <2> QED BY <2>2, <2>3
<1>13. DOMAIN direct.order # {} =>
           \A o \in DOMAIN S.order \ DOMAIN direct.order : S.order[o].STATUS \in ClosedStatuses
  BY <1>1, <1>6
<1> QED BY <1>7, <1>12, <1>13

\* A step that counts a full run is one.
LEMMA FullRunIs ==
    ASSUME IntakeInv, [IntakeNext]_intakeVars, FullRun
    PROVE  \E prune \in BOOLEAN :
              LET batch  == Batch(served, None)
                  result == UpsertAll(store, batch, "full", prune)
                  default == DefaultCalendarId(served, None)
              IN  /\ store' = result.store
                  /\ defaultCalendar' = IF default = None THEN defaultCalendar ELSE default
                  /\ outcome'.issues = IssuesOf(served, store, batch, result)
                  /\ outcome'.grade = Grade(batch, result, "full")
<1>1. runs' # runs /\ outcome'.mode = "full"
  BY DEF FullRun
<1>2. PICK mode \in {"full", "incremental"}, prune \in BOOLEAN : Sync(mode, prune)
  BY <1>1, RunIsASync
<1>3. mode = "full"
  BY <1>1, <1>2, SyncIs
<1>4. SinceOfRun(mode) = None
  BY <1>3 DEF SinceOfRun
<1>5. LET batch  == Batch(served, SinceOfRun(mode))
          result == UpsertAll(store, batch, mode, prune)
          default == DefaultCalendarId(served, SinceOfRun(mode))
      IN  /\ store' = result.store
          /\ defaultCalendar' = IF default = None THEN defaultCalendar ELSE default
          /\ outcome'.issues = IssuesOf(served, store, batch, result)
          /\ outcome'.grade = Grade(batch, result, mode)
  BY <1>2, SyncIs
<1> QED BY <1>3, <1>4, <1>5

(* A full run stores of the ERP's orders, steps, master data and default    *)
(* calendar exactly what build_snapshot_from_records plans with, and every  *)
(* other order is closed (SyncService.run, snapshot_builder.py).            *)
THEOREM BothPathsAgree == IntakeSpec => PathsAgree
<1> DEFINE Agree == FullRun =>
        LET direct == SnapshotFromRecords(served)
            Steps(s, o) == {x \in DOMAIN s.operation : s.operation[x].order = o}
        IN  /\ \A e \in Masters \cup {"order"} : \A k \in DOMAIN direct[e] :
                    k \in DOMAIN store'[e] /\ store'[e][k] = direct[e][k]
            /\ \A o \in DOMAIN direct.order :
                    /\ Steps(store', o) = Steps(direct, o)
                    /\ \A x \in Steps(direct, o) : store'.operation[x] = direct.operation[x]
            /\ DOMAIN direct.order # {} =>
                    \A o \in DOMAIN store'.order \ DOMAIN direct.order :
                        store'.order[o].STATUS \in ClosedStatuses
            /\ served.calendar # {} /\ DOMAIN direct.calendar # {} =>
                    defaultCalendar' = DefaultCalendarId(served, None)
<1>1. IntakeInv /\ [IntakeNext]_intakeVars => [Agree]_intakeVars
  <2> SUFFICES ASSUME IntakeInv, [IntakeNext]_intakeVars, FullRun PROVE Agree
    OBVIOUS
  <2> DEFINE direct == SnapshotFromRecords(served)
  <2>1. SoundTables(served) /\ SoundStore(store)
    BY DEF IntakeInv, Tables
  <2>2. PICK prune \in BOOLEAN :
            /\ store' = UpsertAll(store, Batch(served, None), "full", prune).store
            /\ defaultCalendar' = IF DefaultCalendarId(served, None) = None THEN defaultCalendar
                                  ELSE DefaultCalendarId(served, None)
    BY FullRunIs
  <2>3. /\ \A e \in Masters \cup {"order"} : \A k \in DOMAIN direct[e] :
               k \in DOMAIN store'[e] /\ store'[e][k] = direct[e][k]
        /\ \A o \in DOMAIN direct.order :
               /\ StepsOf(store', o) = StepsOf(direct, o)
               /\ \A x \in StepsOf(direct, o) : store'.operation[x] = direct.operation[x]
        /\ DOMAIN direct.order # {} =>
               \A o \in DOMAIN store'.order \ DOMAIN direct.order :
                   store'.order[o].STATUS \in ClosedStatuses
    BY <2>1, <2>2, FullRunIsDirect
  <2>4. DOMAIN direct.calendar # {} => defaultCalendar' = DefaultCalendarId(served, None)
    <3>1. direct.calendar = Batch(served, None).calendar.items
      BY SnapshotIs DEF Masters
    <3> QED BY <2>1, <2>2, <3>1, DefaultIsKnown
  <2> HIDE DEF direct
  <2> QED BY <2>3, <2>4 DEF StepsOf, direct
<1> HIDE DEF Agree
<1>2. IntakeSpec => [][Agree]_intakeVars
  BY <1>1, IntakeIsSound, PTL DEF IntakeSpec
<1> QED BY <1>2, PTL DEF PathsAgree, Agree

\* "ok" bounds what is stored beyond what was fetched.
LEMMA ClassifiedOk ==
    ASSUME NEW fetched \in Nat, NEW kept \in Nat, fetched <= kept, Classify(fetched, kept) = "ok"
    PROVE  kept - fetched <= Thresholds.tolerance
              \/ 100 * (kept - fetched) < Thresholds.warning * fetched
<1> DEFINE t == Thresholds.tolerance
           w == Thresholds.warning * fetched
           m == Thresholds.mismatch * fetched
<1>1. t \in Int /\ w \in Int /\ m \in Int
  <2>1. /\ Thresholds.tolerance \in Int /\ Thresholds.warning \in Int /\ Thresholds.mismatch \in Int
    BY RecordsAssumption
  <2> QED BY <2>1
<1>2. (IF kept > fetched THEN kept - fetched ELSE fetched - kept) = kept - fetched
  OBVIOUS
<1>3. Classify(fetched, kept) =
          IF kept - fetched <= t THEN "ok"
          ELSE IF fetched <= 0 \/ 100 * (kept - fetched) >= m THEN "mismatch"
          ELSE IF 100 * (kept - fetched) >= w THEN "warning" ELSE "ok"
  BY <1>2 DEF Classify
<1> HIDE DEF t, w, m
<1>4. kept - fetched <= t \/ 100 * (kept - fetched) < w
  BY <1>1, <1>3
<1> QED BY <1>4 DEF t, w

\* A run without issues has every row in the batch, each under a name of its own.
LEMMA NothingIsLost ==
    ASSUME NEW rows, SoundTables(rows), NEW e \in Entities,
           Normalize(rows, e, None).issues = {}
    PROVE  /\ DOMAIN Normalize(rows, e, None).items =
                 IF e = "order" THEN {<<r.key, 0>> : r \in rows.order} ELSE {r.key : r \in rows[e]}
           /\ Cardinality(DOMAIN Normalize(rows, e, None).items) = Cardinality(rows[e])
<1> DEFINE items == Normalize(rows, e, None).items
           key(r) == IF e = "order" THEN <<r.key, 0>> ELSE r.key
<1>1. e \in Feeds /\ IsFiniteSet(rows[e]) /\ Emit(rows, e, None) = rows[e]
  BY EmittedIs, EverythingIsFetched DEF SoundTables
<1>2. ASSUME NEW r \in rows[e] PROVE Usable(e, r)
  <2> SUFFICES ASSUME NEW f \in DOMAIN r.raw,
                      ParseError(FieldMaps[e], f, r.raw[f]) \in {"missing_required", "invalid_value"}
               PROVE  FALSE
    BY DEF Usable
  <2> DEFINE error == ParseError(FieldMaps[e], f, r.raw[f])
  <2>1. FieldIssues(e, r) = {}
    BY <1>1, IssuesAre
  <2>2. error # None => Issue(e, r.key, error) \in FieldIssues(e, r)
    BY DEF FieldIssues
  <2>3. None # "missing_required" /\ None # "invalid_value"
    BY RecordsAssumption
  <2> QED BY <2>1, <2>2, <2>3
<1>3. Usables(rows, e, None) = rows[e]
  BY <1>1, <1>2 DEF Usables
<1>4. \A r \in rows[e] : Copy(rows[e], r) = 0
  <2> SUFFICES ASSUME NEW r \in rows[e] PROVE Copy(rows[e], r) = 0
    OBVIOUS
  <2>1. ~ (Copy(rows[e], r) > 0)
    <3>1. Copy(Usables(rows, e, None), r) > 0 =>
              Issue(e, r.key, "duplicate_id") \in Normalize(rows, e, None).issues
      BY <1>3, IssuesAre
    <3> QED BY <3>1, <1>3
  <2>2. Copy(rows[e], r) \in Nat
    BY <1>1, CopyIs
  <2> QED BY <2>1, <2>2
<1>5. \A r, q \in rows[e] : r.key = q.key => r = q
  <2>1. CASE e # "order"
    BY <2>1 DEF SoundTables
  <2>2. CASE e = "order"
    <3> SUFFICES ASSUME NEW r \in rows[e], NEW q \in rows[e], r.key = q.key PROVE r = q
      OBVIOUS
    <3>1. r.id \in Nat /\ q.id \in Nat
      BY DEF SoundTables, SoundRow
    <3>2. ~ (q.id < r.id) /\ ~ (r.id < q.id)
      BY <1>1, <1>4, CopyIs
    <3>3. r.id = q.id
      BY <3>1, <3>2
    <3> QED BY <3>3, <2>2 DEF SoundTables
  <2> QED BY <2>1, <2>2
<1>6. DOMAIN items = {key(r) : r \in rows[e]}
  <2>1. CASE e # "order"
    BY <2>1, <1>1, <1>3, ItemsAre
  <2>2. CASE e = "order"
    <3>1. \A n \in DOMAIN items : \E r \in rows[e] : n = <<r.key, 0>>
      <4>1. \A n \in DOMAIN items : \E r \in rows[e] : n = <<r.key, Copy(rows[e], r)>>
        BY <2>2, <1>3, OrdersAre
      <4> QED BY <4>1, <1>4
    <3>2. \A r \in rows[e] : <<r.key, 0>> \in DOMAIN items
      BY <2>2, <1>3, <1>5, OrdersAre
    <3> HIDE DEF items
    <3> QED BY <3>1, <3>2, <2>2
  <2> QED BY <2>1, <2>2
<1> HIDE DEF items
<1>7. Cardinality(DOMAIN items) = Cardinality(rows[e])
  <2> DEFINE f == [r \in rows[e] |-> key(r)]
  <2>1. \A r, q \in rows[e] : key(r) = key(q) => r = q
    BY <1>5
  <2> HIDE DEF key
  <2>2. f \in Bijection(rows[e], DOMAIN items)
    BY <2>1, <1>6 DEF Bijection, Injection, Surjection, IsInjective
  <2>3. ExistsBijection(rows[e], DOMAIN items)
    BY <2>2 DEF ExistsBijection
  <2> QED BY <2>3, <1>1, FS_Bijection
<1>8. {key(r) : r \in rows[e]} = IF e = "order" THEN {<<r.key, 0>> : r \in rows.order} ELSE {r.key : r \in rows[e]}
  OBVIOUS
<1> QED BY <1>6, <1>7, <1>8 DEF items

\* The store has everything that a run without issues brings.
LEMMA EverythingIsStored ==
    ASSUME NEW rows, SoundTables(rows), NEW old, SoundStore(old), NEW prune \in BOOLEAN,
           NEW result, result = UpsertAll(old, Batch(rows, None), "full", prune),
           IssuesOf(rows, old, Batch(rows, None), result) = {},
           NEW e \in Entities
    PROVE  DOMAIN Batch(rows, None)[e].items \subseteq DOMAIN result.store[e]
<1> DEFINE batch == Batch(rows, None)
           S == result.store
           items == batch.operation.items
<1>1. "order" \in Entities /\ "operation" \in Entities /\ "order" \in Feeds /\ "operation" \in Feeds
  BY EmittedIs DEF Entities
<1>2. DOMAIN batch.order.items \subseteq DOMAIN S.order
  <2>1. OrdersFollow(old, batch.order.items, "full", prune, S.order)
    BY OrdersOfRun
  <2> QED BY <2>1 DEF OrdersFollow
<1>3. CASE e = "order"
  BY <1>2, <1>3
<1>4. CASE e \in Masters
  <2>1. S[e] = Over(batch[e].items, old[e])
    BY <1>4, StoredIs
  <2>2. DOMAIN Over(batch[e].items, old[e]) = DOMAIN batch[e].items \cup DOMAIN old[e]
    BY OverIs
  <2> QED BY <2>1, <2>2
<1>5. CASE e = "operation"
  <2>1. \A x \in DOMAIN items : "order" \in DOMAIN items[x]
    BY BatchIsSound
  <2>2. OperationsFollow(old, batch, "full", S)
    BY <2>1, OperationsStored
  <2>3. \A x \in KeptOperations(batch, old) : items[x].order \in DOMAIN S.order => x \in DOMAIN S.operation
    BY <2>2 DEF OperationsFollow
  <2>4. \A x \in DOMAIN items : items[x].order \in DOMAIN batch.order.items
    <3> SUFFICES ASSUME NEW x \in DOMAIN items PROVE items[x].order \in DOMAIN batch.order.items
      OBVIOUS
    <3>1. PICK r \in Usables(rows, "operation", None) : items[x] = Construct(rows, "operation", r)
      BY <1>1, BatchIs, ItemsAre
    <3>2. r \in rows["operation"]
      BY <1>1, EmittedIs DEF Usables
    <3>3. PICK o \in rows.order : OrderId(rows, r) = <<o.key, 0>>
      BY <3>2, LineIs
    <3>4. items[x].order = <<o.key, 0>>
      BY <3>1, <3>3, OperationConstructed
    <3>5. Normalize(rows, "order", None).issues = {}
      BY <1>1, BatchIs DEF IssuesOf
    <3>6. DOMAIN Normalize(rows, "order", None).items = {<<q.key, 0>> : q \in rows.order}
      BY <3>5, <1>1, NothingIsLost
    <3> QED BY <3>4, <3>6, <1>1, BatchIs
  <2>5. \A x \in DOMAIN items : x \in KeptOperations(batch, old)
    BY <2>4 DEF KeptOperations
  <2> QED BY <2>3, <2>4, <2>5, <1>2, <1>5
<1> QED BY <1>3, <1>4, <1>5 DEF Entities

\* The run is "ok" only if every feed is.
LEMMA GradeIs ==
    ASSUME NEW batch, NEW result, Grade(batch, result, "full") = "ok", NEW e \in Entities
    PROVE  Classify(batch[e].count, Cardinality(DOMAIN result.store[e])) = "ok"
<1>1. e \in Feeds /\ e # "production_status"
  BY EmittedIs
<1> DEFINE count(d) ==
        CASE d = "production_status" -> Cardinality(DOMAIN batch[d].items \ result.unknown)
          [] d # "production_status" /\ "full" = "full" -> Cardinality(DOMAIN result.store[d])
          [] d = "operation" /\ "full" # "full" -> result.steps
          [] OTHER -> Cardinality(DOMAIN batch[d].items)
    grades == {Classify(batch[d].count, count(d)) : d \in Feeds}
<1>2. (IF "mismatch" \in grades THEN "mismatch" ELSE IF "warning" \in grades THEN "warning" ELSE "ok") = "ok"
  BY DEF Grade
<1>3. "mismatch" \notin grades /\ "warning" \notin grades
  <2> HIDE DEF grades
  <2> QED BY <1>2
<1>4. count(e) = Cardinality(DOMAIN result.store[e])
  BY <1>1
<1> HIDE DEF count
<1>5. Classify(batch[e].count, count(e)) \in grades
  BY <1>1
<1>6. Classify(batch[e].count, count(e)) \in {"ok", "mismatch", "warning"}
  BY DEF Classify
<1> HIDE DEF grades
<1> QED BY <1>3, <1>4, <1>5, <1>6

(* A full run without issues that reconcile grades "ok" holds of no entity  *)
(* more than the tolerated number of objects the ERP does not have.         *)
THEOREM TrustIsEarned == IntakeSpec => TrustedRuns
<1> DEFINE Trusted == FullRun /\ outcome'.issues = {} /\ outcome'.grade = "ok" =>
        \A e \in Entities :
            LET names == IF e = "order" THEN {<<r.key, 0>> : r \in served.order} ELSE {r.key : r \in served[e]}
                stale == Cardinality(DOMAIN store'[e] \ names)
            IN  stale <= Thresholds.tolerance \/ 100 * stale < Thresholds.warning * Cardinality(served[e])
<1>1. IntakeInv /\ [IntakeNext]_intakeVars => [Trusted]_intakeVars
  <2> SUFFICES ASSUME IntakeInv, [IntakeNext]_intakeVars, FullRun, outcome'.issues = {}, outcome'.grade = "ok",
                      NEW e \in Entities
               PROVE  LET names == IF e = "order" THEN {<<r.key, 0>> : r \in served.order}
                                   ELSE {r.key : r \in served[e]}
                          stale == Cardinality(DOMAIN store'[e] \ names)
                      IN  stale <= Thresholds.tolerance
                             \/ 100 * stale < Thresholds.warning * Cardinality(served[e])
    OBVIOUS
  <2> DEFINE batch == Batch(served, None)
             names == IF e = "order" THEN {<<r.key, 0>> : r \in served.order} ELSE {r.key : r \in served[e]}
             all == DOMAIN store'[e]
  <2>1. SoundTables(served) /\ SoundStore(store)
    BY DEF IntakeInv, Tables
  <2>2. PICK prune \in BOOLEAN :
            LET result == UpsertAll(store, batch, "full", prune)
            IN  /\ store' = result.store
                /\ outcome'.issues = IssuesOf(served, store, batch, result)
                /\ outcome'.grade = Grade(batch, result, "full")
    BY FullRunIs
  <2> DEFINE result == UpsertAll(store, batch, "full", prune)
  <2>3. store' = result.store /\ IssuesOf(served, store, batch, result) = {} /\ Grade(batch, result, "full") = "ok"
    BY <2>2
  <2>4. batch[e] = Normalize(served, e, None) /\ e \in Feeds
    BY BatchIs, EmittedIs
  <2>5. Normalize(served, e, None).issues = {}
    BY <2>3, <2>4 DEF IssuesOf
  <2>6. DOMAIN batch[e].items = names /\ Cardinality(names) = Cardinality(served[e])
    BY <2>1, <2>4, <2>5, NothingIsLost
  <2>7. names \subseteq all
    BY <2>1, <2>3, <2>6, EverythingIsStored
  <2>8. IsFiniteSet(all) /\ IsFiniteSet(served[e])
    <3>1. SoundStore(result.store)
      BY <2>1, RunIsSound
    <3> QED BY <3>1, <2>1, <2>3 DEF SoundStore, SoundTables
  <2>9. batch[e].count = Cardinality(served[e])
    BY <2>4, CountIs, EverythingIsFetched
  <2>10. Classify(Cardinality(served[e]), Cardinality(all)) = "ok"
    <3>1. Classify(batch[e].count, Cardinality(DOMAIN result.store[e])) = "ok"
      BY <2>3, GradeIs
    <3> QED BY <3>1, <2>3, <2>9
  <2> HIDE DEF batch, result, names, all
  <2>11. /\ Cardinality(all) \in Nat /\ Cardinality(served[e]) \in Nat
         /\ Cardinality(names) <= Cardinality(all)
    BY <2>7, <2>8, FS_CardinalityType, FS_Subset
  <2>12. Cardinality(all \ names) = Cardinality(all) - Cardinality(served[e])
    <3>1. Cardinality(all \ names) = Cardinality(all) - Cardinality(all \cap names)
      BY <2>8, FS_Difference
    <3>2. all \cap names = names
      BY <2>7
    <3> QED BY <3>1, <3>2, <2>6
  <2>13. Cardinality(all) - Cardinality(served[e]) <= Thresholds.tolerance
            \/ 100 * (Cardinality(all) - Cardinality(served[e])) < Thresholds.warning * Cardinality(served[e])
    BY <2>6, <2>10, <2>11, ClassifiedOk
  <2>14. Cardinality(all \ names) <= Thresholds.tolerance
            \/ 100 * Cardinality(all \ names) < Thresholds.warning * Cardinality(served[e])
    BY <2>12, <2>13
  <2> QED BY <2>14 DEF all, names
<1> HIDE DEF Trusted
<1>2. IntakeSpec => [][Trusted]_intakeVars
  BY <1>1, IntakeIsSound, PTL DEF IntakeSpec
<1> QED BY <1>2, PTL DEF TrustedRuns, Trusted
=============================================================================
