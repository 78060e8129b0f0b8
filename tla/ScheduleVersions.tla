-------------------------- MODULE ScheduleVersions --------------------------
(***************************************************************************)
(* The life of a schedule version: ScheduleService (generate, approve,     *)
(* reject, publish), ReplanningService.evaluate and the statements of      *)
(* ScheduleRepository they issue.                                          *)
(*                                                                         *)
(* Every API request and every worker job runs in one transaction of a     *)
(* database at READ COMMITTED, on a thread of its own, so the requests     *)
(* interleave between any two SQL statements.  One action is one statement *)
(* (or the guards of a service method with the SELECT they test):          *)
(*   - a SELECT sees the committed rows and the session's own writes,      *)
(*   - an UPDATE takes the row's lock, waiting for the session that holds  *)
(*     it, and then writes whatever the row has become meanwhile,          *)
(*   - a commit makes the writes visible and frees the rows at once.       *)
(* Audit, alert and run rows are left out: no transition depends on them.  *)
(***************************************************************************)
EXTENDS Integers

CONSTANTS
    Sessions,       \* the database sessions: request threads and worker jobs
    NoSession,      \* nobody holds the row
    MaxVersions,    \* bound: how many schedule versions are ever created
    WritebackMode   \* Settings.writeback_mode

ASSUME ConstantsAssumption ==
    /\ NoSession \notin Sessions
    /\ MaxVersions \in Nat
    /\ WritebackMode \in {"READ_ONLY", "APPROVAL", "WRITEBACK", "CONTROLLED_AUTO"}

VARIABLES
    status,     \* version_number -> committed status; "NONE": no such row
    replanned,  \* the versions whose details.trigger starts with "replan"
    sent,       \* the versions the writeback gateway has handed to the ERP
    holder,     \* version_number -> the session that holds the row's lock
    pending,    \* session -> version_number -> uncommitted status, or "NONE"
    pc,         \* session -> the statement it issues next
    op,         \* session -> the service method it runs
    target,     \* session -> the version_number the method was called with
    todo        \* session -> the listed versions still to be superseded

vars == <<status, replanned, sent, holder, pending, pc, op, target, todo>>

Versions == 1 .. MaxVersions

Statuses == {"DRAFT", "APPROVED", "PUBLISHED", "SUPERSEDED", "REJECTED"}

(* Mutants of LiveStatuses: one of the two statuses is forgotten.          *)
OnlyPublished == {"PUBLISHED"}
OnlyApproved == {"APPROVED"}

(* The two statuses supersede_others looks for.                            *)
LiveStatuses == {"APPROVED", "PUBLISHED"}

(* SCHEDULE_TRANSITIONS; from no row at all there is no transition.        *)
ScheduleTransitions(from) ==
    CASE from = "DRAFT"     -> {"APPROVED", "REJECTED", "SUPERSEDED"}
      [] from = "APPROVED"  -> {"PUBLISHED", "REJECTED", "SUPERSEDED"}
      [] from = "PUBLISHED" -> {"SUPERSEDED"}
      [] OTHER              -> {}

NoWrites == [v \in Versions |-> "NONE"]

AutoPublish == WritebackMode = "CONTROLLED_AUTO"

-----------------------------------------------------------------------------
(* What a statement of session s sees of version v.                        *)
Visible(s, v) == IF pending[s][v] # "NONE" THEN pending[s][v] ELSE status[v]

Listed(s, statuses) == {v \in Versions : Visible(s, v) \in statuses}

(* The row lock of v is free for s: UPDATE v need not wait.                *)
CanLock(s, v) == holder[v] \in {NoSession, s}

Write(s, v, new) ==
    /\ CanLock(s, v)
    /\ holder' = [holder EXCEPT ![v] = s]
    /\ pending' = [pending EXCEPT ![s][v] = new]

(* The row set_status works on: the newest listed version still to be      *)
(* superseded (list_versions sorts by descending number), then the target. *)
InHand(s, v) ==
    \/ v \in todo[s] /\ \A w \in todo[s] : w <= v
    \/ todo[s] = {} /\ v = target[s]

(* The status the method gives to the version it was called with.          *)
Goal(s) == CASE op[s] = "reject"  -> "REJECTED"
             [] op[s] = "publish" -> "PUBLISHED"
             [] OTHER             -> "APPROVED"

NewStatus(s, v) == IF v \in todo[s] THEN "SUPERSEDED" ELSE Goal(s)

Goto(s, label) == pc' = [pc EXCEPT ![s] = label]

Begin(s, method, v, label) ==
    /\ pc[s] = "idle"
    /\ op' = [op EXCEPT ![s] = method]
    /\ target' = [target EXCEPT ![s] = v]
    /\ Goto(s, label)
    /\ UNCHANGED <<status, replanned, sent, holder, pending, todo>>

(* Mutant of Finish: the next transaction inherits the writes.             *)
FinishKeepingWrites(s) ==
    /\ holder' = [v \in Versions |-> IF holder[v] = s THEN NoSession ELSE holder[v]]
    /\ op' = [op EXCEPT ![s] = "none"]
    /\ target' = [target EXCEPT ![s] = 0]
    /\ todo' = [todo EXCEPT ![s] = {}]
    /\ Goto(s, "idle")
    /\ UNCHANGED pending

(* The session is done: its rows are unlocked and its writes forgotten     *)
(* (after a commit they are in status).                                    *)
Finish(s) ==
    /\ holder' = [v \in Versions |-> IF holder[v] = s THEN NoSession ELSE holder[v]]
    /\ pending' = [pending EXCEPT ![s] = NoWrites]
    /\ op' = [op EXCEPT ![s] = "none"]
    /\ target' = [target EXCEPT ![s] = 0]
    /\ todo' = [todo EXCEPT ![s] = {}]
    /\ Goto(s, "idle")

(* session_scope on an exception.  A version inserted by s disappears with *)
(* its details; what the gateway was handed stays handed.                  *)
Rollback(s) ==
    /\ Finish(s)
    /\ replanned' = replanned \ {v \in Versions : status[v] = "NONE" /\ holder[v] = s}
    /\ UNCHANGED <<status, sent>>

-----------------------------------------------------------------------------
(* The requests.  A request whose first check fails changes nothing.       *)

(* next_version_number: one more than the largest number s can see.        *)
NextVersionNumber(s, n) ==
    /\ \A v \in Listed(s, Statuses) : v < n
    /\ n = 1 \/ n - 1 \in Listed(s, Statuses)

Generate(s) ==
    \E n \in Versions : NextVersionNumber(s, n) /\ Begin(s, "generate", n, "insert")

(* ReplanningService.evaluate once should_trigger let it generate.         *)
Replan(s) ==
    \E n \in Versions : NextVersionNumber(s, n) /\ Begin(s, "replan", n, "insert")

(* Mutant of Approve: the approved versions are not listed.                *)
ApproveWithoutList(s, v) ==
    /\ Visible(s, v) = "DRAFT"
    /\ Begin(s, "approve", v, "check")

Approve(s, v) ==
    /\ Visible(s, v) = "DRAFT"
    /\ Begin(s, "approve", v, "list")

(* Mutant of Reject: any version, with enforce_transition=False.           *)
RejectAny(s, v) ==
    /\ Visible(s, v) \in Statuses \ {"REJECTED"}
    /\ Begin(s, "reject", v, "update")

Reject(s, v) ==
    /\ Visible(s, v) \in {"DRAFT", "APPROVED"}
    /\ Begin(s, "reject", v, "check")

(* Mutant of Publish: the receipt is written without asking the gateway.   *)
PublishUnsent(s, v) ==
    /\ Visible(s, v) = "APPROVED"
    /\ Begin(s, "publish", v, "receipt")

Publish(s, v) ==
    /\ Visible(s, v) = "APPROVED"
    /\ Begin(s, "publish", v, "send")

-----------------------------------------------------------------------------
(* Mutant of InsertDraft: version_number has no unique index.              *)
InsertWithoutIndex(s) ==
    /\ pc[s] = "insert"
    /\ Write(s, target[s], "DRAFT")
    /\ Goto(s, "commit")
    /\ UNCHANGED <<status, replanned, sent, op, target, todo>>

(* create_version: INSERT the draft.  The unique index on version_number   *)
(* makes s wait while another session inserts the same number.             *)
InsertDraft(s) ==
    /\ pc[s] = "insert"
    /\ status[target[s]] = "NONE"
    /\ holder[target[s]] = NoSession
    /\ Write(s, target[s], "DRAFT")
    /\ replanned' = IF op[s] = "replan" THEN replanned \union {target[s]} ELSE replanned
    /\ Goto(s, IF op[s] = "replan" THEN "decide" ELSE "commit")
    /\ UNCHANGED <<status, sent, op, target, todo>>

(* The number was taken meanwhile: IntegrityError, the request fails.      *)
NumberTaken(s) ==
    /\ pc[s] = "insert"
    /\ status[target[s]] # "NONE"
    /\ Rollback(s)

(* The replanning decision on the candidate: refuse it, leave it to a      *)
(* planner, or approve it (and publish it when writeback is automatic).    *)
Decide(s) ==
    /\ pc[s] = "decide"
    /\ \E d \in {<<"reject", "check">>, <<"await", "list">>, <<"approveCandidate", "list">>} :
        /\ op' = [op EXCEPT ![s] = d[1]]
        /\ Goto(s, d[2])
    /\ UNCHANGED <<status, replanned, sent, holder, pending, target, todo>>

(* What follows once every listed version is superseded.                   *)
AfterList(s, left) == IF op[s] = "await" /\ left = {} THEN "commit" ELSE "check"

(* list_versions: _supersede lists the approved versions, and              *)
(* _supersede_pending_drafts the drafts of earlier replanning runs.        *)
ListVersions(s) ==
    /\ pc[s] = "list"
    /\ LET found == IF op[s] = "await"
                    THEN Listed(s, {"DRAFT"}) \intersect replanned
                    ELSE Listed(s, {"APPROVED"})
           others == found \ {target[s]}
       IN  /\ todo' = [todo EXCEPT ![s] = others]
           /\ Goto(s, AfterList(s, others))
    /\ UNCHANGED <<status, replanned, sent, holder, pending, op, target>>

(* Mutant of StatusSet: a superseded version is not taken off the list.    *)
StatusSetAgain(s, v) ==
    /\ Goto(s, IF v # target[s] THEN "check" ELSE "commit")
    /\ UNCHANGED <<todo, op>>

(* set_status(v) has returned: on to the next version, the publication of  *)
(* an automatically approved candidate, or the commit.                     *)
StatusSet(s, v) ==
    LET left == todo[s] \ {v}
        auto == op[s] = "approveCandidate" /\ AutoPublish
    IN  /\ todo' = [todo EXCEPT ![s] = left]
        /\ op' = IF v = target[s] /\ auto THEN [op EXCEPT ![s] = "publish"] ELSE op
        /\ Goto(s, IF v # target[s] THEN AfterList(s, left)
                   ELSE IF auto THEN "send" ELSE "commit")

(* set_status, the SELECT: a row that already has the status is left       *)
(* alone, a forbidden transition fails the request, else UPDATE.           *)
CheckStatus(s) ==
    /\ pc[s] = "check"
    /\ \E v \in Versions :
        /\ InHand(s, v)
        /\ \/ /\ Visible(s, v) = NewStatus(s, v)
              /\ StatusSet(s, v)
              /\ UNCHANGED <<status, replanned, sent, holder, pending, target>>
           \/ /\ Visible(s, v) # NewStatus(s, v)
              /\ NewStatus(s, v) \in ScheduleTransitions(Visible(s, v))
              /\ Goto(s, "update")
              /\ UNCHANGED <<status, replanned, sent, holder, pending, op, target, todo>>
           \/ /\ Visible(s, v) # NewStatus(s, v)
              /\ NewStatus(s, v) \notin ScheduleTransitions(Visible(s, v))
              /\ Rollback(s)

(* set_status, the UPDATE: by primary key alone, so it writes over any     *)
(* status committed since the SELECT.                                      *)
UpdateStatus(s) ==
    /\ pc[s] = "update"
    /\ \E v \in Versions :
        /\ InHand(s, v)
        /\ Write(s, v, NewStatus(s, v))
        /\ StatusSet(s, v)
    /\ UNCHANGED <<status, replanned, sent, target>>

(* WritebackService.publish, the gateway: outside the transaction.  In     *)
(* READ_ONLY mode the receipt says skipped and nothing is handed over.     *)
SendToErp(s) ==
    /\ pc[s] = "send"
    /\ sent' = IF WritebackMode = "READ_ONLY" THEN sent ELSE sent \union {target[s]}
    /\ Goto(s, "receipt")
    /\ UNCHANGED <<status, replanned, holder, pending, op, target, todo>>

(* Mutant of StoreReceipt: the receipt is not flushed, so no row is locked.*)
ReceiptWithoutLock(s) ==
    /\ pc[s] = "receipt"
    /\ Goto(s, "select")
    /\ UNCHANGED <<status, replanned, sent, holder, pending, op, target, todo>>

(* WritebackService.publish, the receipt: an UPDATE of the details of the  *)
(* version, which locks its row and leaves its status.                     *)
StoreReceipt(s) ==
    /\ pc[s] = "receipt"
    /\ CanLock(s, target[s])
    /\ holder' = [holder EXCEPT ![target[s]] = s]
    /\ Goto(s, "select")
    /\ UNCHANGED <<status, replanned, sent, pending, op, target, todo>>

(* supersede_others, its one SELECT.                                       *)
SelectOthers(s) ==
    /\ pc[s] = "select"
    /\ todo' = [todo EXCEPT ![s] = Listed(s, LiveStatuses) \ {target[s]}]
    /\ Goto(s, "supersede")
    /\ UNCHANGED <<status, replanned, sent, holder, pending, op, target>>

(* supersede_others, the flush: one UPDATE per selected row, in the order  *)
(* of their primary keys (time-sortable ids, unrelated to the numbers).    *)
SupersedeOther(s) ==
    /\ pc[s] = "supersede"
    /\ \E v \in todo[s] :
        /\ Write(s, v, "SUPERSEDED")
        /\ todo' = [todo EXCEPT ![s] = todo[s] \ {v}]
    /\ UNCHANGED <<status, replanned, sent, pc, op, target>>

OthersSuperseded(s) ==
    /\ pc[s] = "supersede"
    /\ todo[s] = {}
    /\ Goto(s, "check")
    /\ UNCHANGED <<status, replanned, sent, holder, pending, op, target, todo>>

(* session_scope without an exception.                                     *)
Commit(s) ==
    /\ pc[s] = "commit"
    /\ status' = [v \in Versions |-> Visible(s, v)]
    /\ Finish(s)
    /\ UNCHANGED <<replanned, sent>>

-----------------------------------------------------------------------------
(* The row s waits for, when its next statement must lock one.             *)
WantedRows(s) ==
    CASE pc[s] = "update"               -> {v \in Versions : InHand(s, v)}
      [] pc[s] \in {"insert", "receipt"} -> {target[s]}
      [] pc[s] = "supersede"            -> todo[s]
      [] OTHER                          -> {}

WaitsFor(s, t) ==
    /\ s # t
    /\ WantedRows(s) # {}
    /\ \A v \in WantedRows(s) : ~ CanLock(s, v)
    /\ \E v \in WantedRows(s) : holder[v] = t

(* The database aborts one session of a cycle of waiting sessions.         *)
DeadlockVictim(s) ==
    /\ \E C \in SUBSET Sessions :
        /\ s \in C
        /\ \A t \in C : /\ \E u \in C : WaitsFor(t, u)
                        /\ \E u \in C : WaitsFor(u, t)
    /\ Rollback(s)

(* Any error, lost connection or crash before the commit: the pipeline     *)
(* raises, the gateway refuses or fails, the process dies.                 *)
Fail(s) ==
    /\ pc[s] # "idle"
    /\ Rollback(s)

-----------------------------------------------------------------------------
Init ==
    /\ status = [v \in Versions |-> "NONE"]
    /\ replanned = {}
    /\ sent = {}
    /\ holder = [v \in Versions |-> NoSession]
    /\ pending = [s \in Sessions |-> NoWrites]
    /\ pc = [s \in Sessions |-> "idle"]
    /\ op = [s \in Sessions |-> "none"]
    /\ target = [s \in Sessions |-> 0]
    /\ todo = [s \in Sessions |-> {}]

Request(s) ==
    \/ Generate(s)
    \/ Replan(s)
    \/ \E v \in Versions : Approve(s, v) \/ Reject(s, v) \/ Publish(s, v)

Progress(s) ==
    \/ InsertDraft(s)
    \/ NumberTaken(s)
    \/ Decide(s)
    \/ ListVersions(s)
    \/ CheckStatus(s)
    \/ UpdateStatus(s)
    \/ SendToErp(s)
    \/ StoreReceipt(s)
    \/ SelectOthers(s)
    \/ SupersedeOther(s)
    \/ OthersSuperseded(s)
    \/ Commit(s)

Next == \E s \in Sessions :
    Request(s) \/ Progress(s) \/ DeadlockVictim(s) \/ Fail(s)

Spec == Init /\ [][Next]_vars

(* A thread keeps issuing its statements; a waiting statement is granted   *)
(* its row eventually (the queue of a row lock is first come, first        *)
(* served); the deadlock detector looks at every waiting session.          *)
Fairness == \A s \in Sessions :
    SF_vars(Progress(s)) /\ WF_vars(DeadlockVictim(s))

FairSpec == Spec /\ Fairness

-----------------------------------------------------------------------------
(* Every variable keeps the values the code can give it.                   *)
TypeOK ==
    /\ status \in [Versions -> Statuses \union {"NONE"}]
    /\ replanned \subseteq Versions
    /\ sent \subseteq Versions
    /\ holder \in [Versions -> Sessions \union {NoSession}]
    /\ pending \in [Sessions -> [Versions -> Statuses \union {"NONE"}]]
    /\ pc \in [Sessions -> {"idle", "insert", "decide", "list", "check", "update", "send",
                            "receipt", "select", "supersede", "commit"}]
    /\ op \in [Sessions -> {"none", "generate", "replan", "reject", "await", "approve",
                            "approveCandidate", "publish"}]
    /\ target \in [Sessions -> Versions \union {0}]
    /\ todo \in [Sessions -> SUBSET Versions]

(* Publishing supersedes every other live version, so however the requests *)
(* of planners interleave, at most one version is PUBLISHED: the shop      *)
(* floor never has two plans (ScheduleService.publish, supersede_others).  *)
AtMostOnePublished ==
    \A v, w \in Versions : status[v] = "PUBLISHED" /\ status[w] = "PUBLISHED" => v = w

(* A version becomes PUBLISHED only from APPROVED: set_status tests the    *)
(* status again after the receipt has locked the row, so a rejection or a  *)
(* supersession committed during the publication is never overwritten.     *)
PublishedFromApproved ==
    [][\A v \in Versions : status'[v] = "PUBLISHED" /\ status[v] # "PUBLISHED"
                              => status[v] = "APPROVED"]_vars

(* A draft is a new row: two generations that read the same max(number)    *)
(* never end up sharing a version (the unique index of next_version_number *)
(* plus one), and no request takes a decided version back to DRAFT.        *)
DraftIsNew ==
    [][\A v \in Versions : status'[v] = "DRAFT" /\ status[v] # "DRAFT"
                              => status[v] = "NONE"]_vars

(* The ERP holds every version that is PUBLISHED: the gateway has taken it *)
(* over before the transaction commits, whatever failed or was retried in  *)
(* between (not in READ_ONLY mode, where nothing is handed over).          *)
PublishedWasSent ==
    WritebackMode # "READ_ONLY" =>
        \A v \in Versions : status[v] = "PUBLISHED" => v \in sent

(* Every request ends, by commit or by rollback: requests that wait for    *)
(* each other's rows (two publications, a publication and an approval) are *)
(* told apart by the database's deadlock detector.                         *)
RequestsEnd == \A s \in Sessions : pc[s] # "idle" ~> pc[s] = "idle"

(* A status changes only along SCHEDULE_TRANSITIONS.  True of requests that *)
(* do not overlap (ImplementsLifecycle says more of them), not of those     *)
(* that do: set_status updates by primary key what it tested in a SELECT.   *)
TransitionsAllowed ==
    [][\A v \in Versions : status[v] \notin {"NONE", status'[v]}
                              => status'[v] \in ScheduleTransitions(status[v])]_vars

(* An approval supersedes the earlier approved versions: one at a time.    *)
AtMostOneApproved ==
    \A v, w \in Versions : status[v] = "APPROVED" /\ status[w] = "APPROVED" => v = w

(* Requests that do not overlap implement the lifecycle: the statements of *)
(* each add up to its one step, and nothing shows before the commit.  A    *)
(* candidate still being inserted is not replanned yet.                    *)
Lifecycle == INSTANCE PlanLifecycle
    WITH replanned <- {v \in replanned : status[v] # "NONE"}

ImplementsLifecycle == Lifecycle!Spec
=============================================================================
