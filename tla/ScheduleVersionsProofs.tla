----------------------- MODULE ScheduleVersionsProofs -----------------------
(***************************************************************************)
(* TLAPS proofs about ScheduleVersions, for every number of sessions and   *)
(* versions.                                                               *)
(***************************************************************************)
EXTENDS ScheduleVersions, TLAPS

(* Publication is a person's act: no transaction publishes a candidate     *)
(* that other sessions cannot see.                                         *)
ManualWriteback == WritebackMode # "CONTROLLED_AUTO"

(* Each statement belongs to the methods that issue it, and a session that *)
(* is not idle works on a version.                                         *)
MethodInv ==
    \A s \in Sessions :
        /\ pc[s] = "idle" => pending[s] = NoWrites /\ todo[s] = {}
        /\ pc[s] # "idle" => target[s] \in Versions
        /\ pc[s] \in {"send", "receipt", "select", "supersede"} => op[s] = "publish"
        /\ pc[s] \in {"idle", "insert", "decide", "list"} => op[s] # "publish"

(* Uncommitted writes are to locked rows, and a publication keeps the row  *)
(* its receipt has locked.                                                 *)
LockInv ==
    \A s \in Sessions :
        /\ \A v \in Versions : pending[s][v] # "NONE" => holder[v] = s
        /\ op[s] = "publish" /\ pc[s] \notin {"send", "receipt"} => holder[target[s]] = s

(* The writes of a publication: other versions become SUPERSEDED, the      *)
(* target PUBLISHED once it has been seen APPROVED under its lock; nobody  *)
(* else writes PUBLISHED.                                                  *)
PublicationInv ==
    \A s \in Sessions :
        /\ op[s] = "publish" /\ pc[s] # "commit" => pending[s][target[s]] = "NONE"
        /\ op[s] = "publish" /\ pc[s] \in {"check", "update", "commit"} => todo[s] = {}
        /\ op[s] = "publish" => target[s] \notin todo[s]
        /\ op[s] = "publish" /\ pc[s] = "update" => status[target[s]] = "APPROVED"
        /\ \A v \in Versions :
            /\ pending[s][v] = "PUBLISHED" => /\ op[s] = "publish"
                                              /\ pc[s] = "commit"
                                              /\ v = target[s]
                                              /\ status[v] = "APPROVED"
            /\ op[s] = "publish" /\ v # target[s] => pending[s][v] \in {"NONE", "SUPERSEDED"}

(* s has read which other versions are live and will publish its target,   *)
(* unless the target has been decided otherwise.                           *)
Selected(s) == /\ op[s] = "publish"
               /\ pc[s] \in {"supersede", "check", "update", "commit"}
               /\ status[target[s]] \in LiveStatuses

(* The versions s supersedes when it commits.                              *)
Covered(s, v) == v \in todo[s] \/ pending[s][v] = "SUPERSEDED"

(* A publication covers every published version; of two publications the   *)
(* later to select covers the other's target.                              *)
CoverInv ==
    \A s \in Sessions : Selected(s) =>
        /\ \A v \in Versions \ {target[s]} : status[v] = "PUBLISHED" => Covered(s, v)
        /\ \A t \in Sessions \ {s} :
            Selected(t) => Covered(s, target[t]) \/ Covered(t, target[s])

IInv == TypeOK /\ MethodInv /\ LockInv /\ PublicationInv /\ CoverInv /\ AtMostOnePublished

-----------------------------------------------------------------------------
(* The end of a transaction keeps the types of the variables it resets.    *)
LEMMA FinishType ==
    ASSUME TypeOK, NEW s \in Sessions, Finish(s)
    PROVE  /\ holder' \in [Versions -> Sessions \union {NoSession}]
           /\ pending' \in [Sessions -> [Versions -> Statuses \union {"NONE"}]]
           /\ op' \in [Sessions -> {"none", "generate", "replan", "reject", "await", "approve",
                                    "approveCandidate", "publish"}]
           /\ target' \in [Sessions -> Versions \union {0}]
           /\ todo' \in [Sessions -> SUBSET Versions]
           /\ pc' \in [Sessions -> {"idle", "insert", "decide", "list", "check", "update", "send",
                                    "receipt", "select", "supersede", "commit"}]
BY DEF TypeOK, Finish, Goto, NoWrites

LEMMA RollbackType ==
    ASSUME TypeOK, NEW s \in Sessions, Rollback(s)
    PROVE  TypeOK'
<1>1. status' \in [Versions -> Statuses \union {"NONE"}] /\ replanned' \subseteq Versions
      /\ sent' \subseteq Versions
  BY DEF TypeOK, Rollback
<1> QED BY <1>1, FinishType DEF TypeOK, Rollback

LEMMA BeginType ==
    ASSUME TypeOK, NEW s \in Sessions, NEW v \in Versions,
           NEW m \in {"generate", "replan", "approve", "reject", "publish"},
           NEW l \in {"insert", "list", "check", "send"},
           Begin(s, m, v, l)
    PROVE  TypeOK'
BY DEF TypeOK, Begin, Goto

(* set_status moves on to a statement of the same or the following method. *)
LEMMA StatusSetType ==
    ASSUME TypeOK, NEW s \in Sessions, NEW v \in Versions, StatusSet(s, v)
    PROVE  /\ op' \in [Sessions -> {"none", "generate", "replan", "reject", "await", "approve",
                                    "approveCandidate", "publish"}]
           /\ todo' \in [Sessions -> SUBSET Versions]
           /\ pc' \in [Sessions -> {"idle", "insert", "decide", "list", "check", "update", "send",
                                    "receipt", "select", "supersede", "commit"}]
BY DEF TypeOK, StatusSet, Goto, AfterList

LEMMA WriteType ==
    ASSUME TypeOK, NEW s \in Sessions, NEW v \in Versions, NEW new \in Statuses,
           Write(s, v, new)
    PROVE  /\ holder' \in [Versions -> Sessions \union {NoSession}]
           /\ pending' \in [Sessions -> [Versions -> Statuses \union {"NONE"}]]
BY DEF TypeOK, Write

LEMMA NewStatusType ==
    ASSUME NEW s \in Sessions, NEW v \in Versions
    PROVE  NewStatus(s, v) \in Statuses
BY DEF NewStatus, Goal, Statuses

(* The variables keep their types in every step: a version number in       *)
(* target, a known status in every row, a session in every lock.           *)
LEMMA TypeStep ==
    ASSUME TypeOK, MethodInv, [Next]_vars
    PROVE  TypeOK'
<1>1. CASE UNCHANGED vars
  BY <1>1 DEF TypeOK, vars
<1>2. ASSUME NEW s \in Sessions, Request(s)
      PROVE  TypeOK'
  <2>1. CASE Generate(s)
    BY <2>1, BeginType DEF Generate
  <2>2. CASE Replan(s)
    BY <2>2, BeginType DEF Replan
  <2>3. ASSUME NEW v \in Versions, Approve(s, v) \/ Reject(s, v) \/ Publish(s, v)
        PROVE  TypeOK'
    BY <2>3, BeginType DEF Approve, Reject, Publish
  <2> QED BY <1>2, <2>1, <2>2, <2>3 DEF Request
<1>3. ASSUME NEW s \in Sessions, Progress(s)
      PROVE  TypeOK'
  <2>1. CASE InsertDraft(s)
    <3>1. target[s] \in Versions
      BY <2>1 DEF InsertDraft, MethodInv
    <3>2. "DRAFT" \in Statuses
      BY DEF Statuses
    <3>3. /\ holder' \in [Versions -> Sessions \union {NoSession}]
          /\ pending' \in [Sessions -> [Versions -> Statuses \union {"NONE"}]]
      BY <2>1, <3>1, <3>2, WriteType DEF InsertDraft
    <3> QED BY <2>1, <3>1, <3>3 DEF InsertDraft, Goto, TypeOK
  <2>2. CASE NumberTaken(s)
    BY <2>2, RollbackType DEF NumberTaken
  <2>3. CASE Decide(s)
    BY <2>3 DEF Decide, Goto, TypeOK
  <2>4. CASE ListVersions(s)
    BY <2>4 DEF ListVersions, Listed, AfterList, Goto, TypeOK
  <2>5. CASE CheckStatus(s)
    <3>1. PICK v \in Versions :
            \/ /\ StatusSet(s, v)
               /\ UNCHANGED <<status, replanned, sent, holder, pending, target>>
            \/ /\ Goto(s, "update")
               /\ UNCHANGED <<status, replanned, sent, holder, pending, op, target, todo>>
            \/ Rollback(s)
      BY <2>5 DEF CheckStatus
    <3>2. CASE StatusSet(s, v) /\ UNCHANGED <<status, replanned, sent, holder, pending, target>>
      BY <3>2, StatusSetType DEF TypeOK
    <3>3. CASE /\ Goto(s, "update")
               /\ UNCHANGED <<status, replanned, sent, holder, pending, op, target, todo>>
      BY <3>3 DEF TypeOK, Goto
    <3> QED BY <3>1, <3>2, <3>3, RollbackType
  <2>6. CASE UpdateStatus(s)
    <3>1. PICK v \in Versions : Write(s, v, NewStatus(s, v)) /\ StatusSet(s, v)
      BY <2>6 DEF UpdateStatus
    <3> QED BY <2>6, <3>1, NewStatusType, WriteType, StatusSetType DEF UpdateStatus, TypeOK
  <2>7. CASE SendToErp(s)
    <3>1. target[s] \in Versions
      BY <2>7 DEF SendToErp, MethodInv
    <3> QED BY <2>7, <3>1 DEF SendToErp, Goto, TypeOK
  <2>8. CASE StoreReceipt(s)
    BY <2>8 DEF StoreReceipt, Goto, TypeOK
  <2>9. CASE SelectOthers(s)
    BY <2>9 DEF SelectOthers, Listed, Goto, TypeOK
  <2>10. CASE SupersedeOther(s)
    <3>1. PICK v \in todo[s] : /\ Write(s, v, "SUPERSEDED")
                               /\ todo' = [todo EXCEPT ![s] = todo[s] \ {v}]
      BY <2>10 DEF SupersedeOther
    <3>2. v \in Versions /\ "SUPERSEDED" \in Statuses
      BY <3>1 DEF TypeOK, Statuses
    <3> QED BY <2>10, <3>1, <3>2, WriteType DEF SupersedeOther, TypeOK
  <2>11. CASE OthersSuperseded(s)
    BY <2>11 DEF OthersSuperseded, Goto, TypeOK
  <2>12. CASE Commit(s)
    <3>1. status' \in [Versions -> Statuses \union {"NONE"}]
      BY <2>12 DEF Commit, Visible, TypeOK
    <3> QED BY <2>12, <3>1, FinishType DEF Commit, TypeOK
  <2> QED BY <1>3, <2>1, <2>2, <2>3, <2>4, <2>5, <2>6, <2>7, <2>8, <2>9, <2>10, <2>11, <2>12
          DEF Progress
<1>4. ASSUME NEW s \in Sessions, DeadlockVictim(s) \/ Fail(s)
      PROVE  TypeOK'
  BY <1>4, RollbackType DEF DeadlockVictim, Fail
<1> QED BY <1>1, <1>2, <1>3, <1>4 DEF Next

-----------------------------------------------------------------------------
LEMMA FinishResets ==
    ASSUME TypeOK, NEW s \in Sessions, Finish(s)
    PROVE  /\ pc'[s] = "idle" /\ op'[s] = "none" /\ pending'[s] = NoWrites /\ todo'[s] = {}
           /\ \A t \in Sessions \ {s} : /\ pc'[t] = pc[t] /\ op'[t] = op[t]
                                       /\ target'[t] = target[t] /\ todo'[t] = todo[t]
                                       /\ pending'[t] = pending[t]
           /\ \A v \in Versions : holder[v] # s => holder'[v] = holder[v]
BY DEF TypeOK, Finish, Goto

(* One step of one session; the others keep their place in their methods.  *)
LEMMA MethodStep ==
    ASSUME TypeOK, MethodInv, [Next]_vars
    PROVE  MethodInv'
<1>1. CASE UNCHANGED vars
  BY <1>1 DEF MethodInv, vars
<1>2. ASSUME NEW s \in Sessions, Request(s)
      PROVE  MethodInv'
  BY <1>2 DEF Request, Generate, Replan, Approve, Reject, Publish, Begin, Goto, MethodInv, TypeOK
<1>3. ASSUME NEW s \in Sessions, Rollback(s) \/ Commit(s)
      PROVE  MethodInv'
  <2>1. Finish(s)
    BY <1>3 DEF Rollback, Commit
  <2> QED BY <2>1, FinishResets DEF MethodInv, TypeOK
<1>4. ASSUME NEW s \in Sessions, InsertDraft(s)
      PROVE  MethodInv'
  BY <1>4 DEF InsertDraft, Write, Goto, MethodInv, TypeOK
<1>5. ASSUME NEW s \in Sessions,
             Decide(s) \/ ListVersions(s) \/ SendToErp(s) \/ StoreReceipt(s)
              \/ SelectOthers(s) \/ OthersSuperseded(s)
      PROVE  MethodInv'
  BY <1>5 DEF Decide, ListVersions, AfterList, SendToErp, StoreReceipt, SelectOthers,
              OthersSuperseded, Goto, MethodInv, TypeOK
<1>6. ASSUME NEW s \in Sessions, SupersedeOther(s)
      PROVE  MethodInv'
  BY <1>6 DEF SupersedeOther, Write, MethodInv, TypeOK
<1>7. ASSUME NEW s \in Sessions, CheckStatus(s)
      PROVE  MethodInv'
  BY <1>7, <1>3 DEF CheckStatus, StatusSet, AfterList, Goto,
                    MethodInv, TypeOK
<1>8. ASSUME NEW s \in Sessions, UpdateStatus(s)
      PROVE  MethodInv'
  BY <1>8 DEF UpdateStatus, Write, StatusSet, AfterList, Goto,
              MethodInv, TypeOK
<1> QED BY <1>1, <1>2, <1>3, <1>4, <1>5, <1>6, <1>7, <1>8
        DEF Next, Progress, NumberTaken, DeadlockVictim, Fail

(* Locks are taken with the writes and freed at the end, all at once.      *)
LEMMA LockStep ==
    ASSUME TypeOK, MethodInv, LockInv, [Next]_vars
    PROVE  LockInv'
<1>1. CASE UNCHANGED vars
  BY <1>1 DEF LockInv, vars
<1>2. ASSUME NEW s \in Sessions, Request(s)
      PROVE  LockInv'
  BY <1>2 DEF Request, Generate, Replan, Approve, Reject, Publish, Begin, Goto, MethodInv,
              LockInv, NoWrites, TypeOK
<1>3. ASSUME NEW s \in Sessions, Rollback(s) \/ Commit(s)
      PROVE  LockInv'
  <2>1. Finish(s)
    BY <1>3 DEF Rollback, Commit
  <2>2. ASSUME NEW t \in Sessions, NEW v \in Versions, pending'[t][v] # "NONE"
        PROVE  holder'[v] = t
    BY <2>1, <2>2, FinishResets DEF LockInv, NoWrites, TypeOK
  <2>3. ASSUME NEW t \in Sessions, op'[t] = "publish", pc'[t] \notin {"send", "receipt"}
        PROVE  holder'[target'[t]] = t
    BY <2>1, <2>3, FinishResets DEF LockInv, MethodInv, TypeOK
  <2> QED BY <2>2, <2>3 DEF LockInv
<1>4. ASSUME NEW s \in Sessions, InsertDraft(s)
      PROVE  LockInv'
  BY <1>4, ConstantsAssumption DEF InsertDraft, Write, Goto, MethodInv, LockInv, TypeOK
<1>5. ASSUME NEW s \in Sessions,
             Decide(s) \/ ListVersions(s) \/ SendToErp(s) \/ StoreReceipt(s)
              \/ SelectOthers(s) \/ OthersSuperseded(s)
      PROVE  LockInv'
  BY <1>5, ConstantsAssumption
     DEF Decide, ListVersions, AfterList, SendToErp, StoreReceipt, CanLock, SelectOthers,
         OthersSuperseded, Goto, MethodInv, LockInv, TypeOK
<1>6. ASSUME NEW s \in Sessions, SupersedeOther(s)
      PROVE  LockInv'
  BY <1>6, ConstantsAssumption DEF SupersedeOther, Write, CanLock, LockInv, MethodInv, TypeOK
<1>7. ASSUME NEW s \in Sessions, CheckStatus(s)
      PROVE  LockInv'
  BY <1>7, <1>3 DEF CheckStatus, StatusSet, AfterList, Goto,
                    LockInv, MethodInv, TypeOK
<1>8. ASSUME NEW s \in Sessions, UpdateStatus(s)
      PROVE  LockInv'
  BY <1>8, ConstantsAssumption
     DEF UpdateStatus, Write, CanLock, StatusSet, AfterList, Goto,
         LockInv, MethodInv, TypeOK
<1> QED BY <1>1, <1>2, <1>3, <1>4, <1>5, <1>6, <1>7, <1>8
        DEF Next, Progress, NumberTaken, DeadlockVictim, Fail

(* A publication reads its target's status again under the row's lock, so  *)
(* no other session can change it before the commit.                       *)
LEMMA PublicationStep ==
    ASSUME ManualWriteback, TypeOK, MethodInv, LockInv, PublicationInv, [Next]_vars
    PROVE  PublicationInv'
<1>1. CASE UNCHANGED vars
  BY <1>1 DEF PublicationInv, vars
<1>2. ASSUME NEW s \in Sessions, Request(s)
      PROVE  PublicationInv'
  BY <1>2 DEF Request, Generate, Replan, Approve, Reject, Publish, Begin, Goto, MethodInv,
              PublicationInv, NoWrites, TypeOK
<1>3. ASSUME NEW s \in Sessions, Rollback(s)
      PROVE  PublicationInv'
  <2>1. Finish(s)
    BY <1>3 DEF Rollback
  <2> QED BY <1>3, <2>1, FinishResets DEF Rollback, PublicationInv, NoWrites, TypeOK
<1>4. ASSUME NEW s \in Sessions, Commit(s)
      PROVE  PublicationInv'
  <2>1. Finish(s)
    BY <1>4 DEF Commit
  <2>2. ASSUME NEW t \in Sessions \ {s}, NEW v \in Versions, holder[v] = t
        PROVE  status'[v] = status[v]
    BY <1>4, <2>2 DEF Commit, Visible, LockInv, TypeOK
  <2> QED BY <2>1, <2>2, FinishResets DEF PublicationInv, LockInv, MethodInv, NoWrites, TypeOK
<1>5. ASSUME NEW s \in Sessions, InsertDraft(s)
      PROVE  PublicationInv'
  BY <1>5 DEF InsertDraft, Write, Goto, MethodInv, PublicationInv, TypeOK
<1>6. ASSUME NEW s \in Sessions,
             Decide(s) \/ ListVersions(s) \/ SendToErp(s) \/ StoreReceipt(s)
              \/ SelectOthers(s) \/ OthersSuperseded(s)
      PROVE  PublicationInv'
  BY <1>6 DEF Decide, ListVersions, AfterList, SendToErp, StoreReceipt, SelectOthers,
              OthersSuperseded, Goto, MethodInv, PublicationInv, TypeOK
<1>7. ASSUME NEW s \in Sessions, SupersedeOther(s)
      PROVE  PublicationInv'
  BY <1>7 DEF SupersedeOther, Write, PublicationInv, MethodInv, TypeOK
<1>8. ASSUME NEW s \in Sessions, CheckStatus(s)
      PROVE  PublicationInv'
  <2>1. PICK v \in Versions :
          /\ InHand(s, v)
          /\ \/ /\ StatusSet(s, v)
                /\ UNCHANGED <<status, replanned, sent, holder, pending, target>>
             \/ /\ NewStatus(s, v) \in ScheduleTransitions(Visible(s, v))
                /\ Goto(s, "update")
                /\ UNCHANGED <<status, replanned, sent, holder, pending, op, target, todo>>
             \/ Rollback(s)
    BY <1>8 DEF CheckStatus
  <2>2. CASE StatusSet(s, v) /\ UNCHANGED <<status, replanned, sent, holder, pending, target>>
    BY <1>8, <2>2 DEF CheckStatus, StatusSet, AfterList, AutoPublish, ManualWriteback, Goto,
                      PublicationInv, MethodInv, TypeOK
  <2>3. CASE /\ NewStatus(s, v) \in ScheduleTransitions(Visible(s, v))
             /\ Goto(s, "update")
             /\ UNCHANGED <<status, replanned, sent, holder, pending, op, target, todo>>
    <3>1. pc[s] = "check"
      BY <1>8 DEF CheckStatus
    <3>2. ASSUME op[s] = "publish"
          PROVE  status[target[s]] = "APPROVED"
      <4>1. v = target[s] /\ v \notin todo[s] /\ pending[s][v] = "NONE"
        BY <2>1, <3>1, <3>2 DEF InHand, PublicationInv
      <4>2. NewStatus(s, v) = "PUBLISHED" /\ Visible(s, v) = status[v]
        BY <3>2, <4>1 DEF NewStatus, Goal, Visible
      <4>3. "PUBLISHED" \in ScheduleTransitions(status[v])
        BY <2>3, <4>2
      <4> QED BY <4>1, <4>3 DEF ScheduleTransitions
    <3> QED BY <2>3, <3>1, <3>2 DEF Goto, PublicationInv, MethodInv, TypeOK
  <2> QED BY <1>3, <2>1, <2>2, <2>3
<1>9. ASSUME NEW s \in Sessions, UpdateStatus(s)
      PROVE  PublicationInv'
  BY <1>9 DEF UpdateStatus, Write, InHand, NewStatus, Goal, StatusSet, AfterList, AutoPublish,
              ManualWriteback, Goto, PublicationInv, MethodInv, TypeOK
<1> QED BY <1>1, <1>2, <1>3, <1>4, <1>5, <1>6, <1>7, <1>8, <1>9
        DEF Next, Progress, NumberTaken, DeadlockVictim, Fail

(* A step that commits nothing and leaves the publications where they are, *)
(* except one that covers as much as before, keeps the cover.              *)
LEMMA CoverFrame ==
    ASSUME CoverInv, status' = status,
           \A t \in Sessions : Selected(t)' =>
               /\ Selected(t)
               /\ target'[t] = target[t]
               /\ \A v \in Versions \ {target[t]} : Covered(t, v) => Covered(t, v)',
           \A t \in Sessions : Selected(t) => target[t] \in Versions,
           \A t, u \in Sessions : Selected(t) /\ Selected(u) /\ t # u => target[t] # target[u]
    PROVE  CoverInv'
BY DEF CoverInv

(* Two publications that hold their rows work on different versions.       *)
LEMMA DistinctTargets ==
    ASSUME MethodInv, LockInv
    PROVE  /\ \A t \in Sessions : Selected(t) => target[t] \in Versions
           /\ \A t, u \in Sessions : Selected(t) /\ Selected(u) /\ t # u => target[t] # target[u]
BY DEF Selected, MethodInv, LockInv

LEMMA CoverStep ==
    ASSUME ManualWriteback, IInv, [Next]_vars
    PROVE  CoverInv'
<1> USE DEF IInv
<1>1. CASE UNCHANGED vars
  BY <1>1 DEF CoverInv, Selected, Covered, vars
<1>2. ASSUME NEW s \in Sessions, Request(s)
      PROVE  CoverInv'
  <2>1. status' = status /\ pending' = pending /\ todo' = todo /\ ~ Selected(s)'
    BY <1>2 DEF Request, Generate, Replan, Approve, Reject, Publish, Begin, Goto, Selected, TypeOK
  <2>2. \A t \in Sessions \ {s} : pc'[t] = pc[t] /\ op'[t] = op[t] /\ target'[t] = target[t]
    BY <1>2 DEF Request, Generate, Replan, Approve, Reject, Publish, Begin, Goto, TypeOK
  <2> QED BY <2>1, <2>2, CoverFrame, DistinctTargets DEF Selected, Covered
<1>3. ASSUME NEW s \in Sessions, Rollback(s)
      PROVE  CoverInv'
  <2>1. status' = status /\ Finish(s)
    BY <1>3 DEF Rollback
  <2>2. ~ Selected(s)'
    BY <2>1, FinishResets DEF Selected
  <2> QED BY <2>1, <2>2, FinishResets, CoverFrame, DistinctTargets DEF Selected, Covered
<1>4. ASSUME NEW s \in Sessions, Commit(s)
      PROVE  CoverInv'
  <2>1. /\ pc[s] = "commit" /\ Finish(s)
        /\ status' = [v \in Versions |-> Visible(s, v)]
    BY <1>4 DEF Commit
  <2>2. /\ ~ Selected(s)'
        /\ \A t \in Sessions \ {s} : target'[t] = target[t] /\ \A v \in Versions :
                                       Covered(t, v)' = Covered(t, v)
    BY <2>1, FinishResets DEF Selected, Covered
  <2>3. ASSUME NEW t \in Sessions \ {s}, Selected(t)'
        PROVE  Selected(t) /\ target[t] \in Versions /\ pending[s][target[t]] = "NONE"
    <3>1. op[t] = "publish" /\ pc[t] \in {"supersede", "check", "update", "commit"}
          /\ target'[t] = target[t]
      BY <2>1, <2>3, FinishResets DEF Selected
    <3>2. target[t] \in Versions /\ holder[target[t]] = t
      BY <3>1 DEF LockInv, MethodInv
    <3>3. pending[s][target[t]] = "NONE"
      BY <3>2 DEF LockInv
    <3>4. status'[target[t]] = status[target[t]]
      BY <2>1, <3>2, <3>3 DEF Visible
    <3> QED BY <2>3, <3>1, <3>2, <3>3, <3>4 DEF Selected
  <2>4. ASSUME NEW t \in Sessions \ {s}, Selected(t)', NEW v \in Versions \ {target[t]},
               status'[v] = "PUBLISHED"
        PROVE  Covered(t, v)
    <3>1. CASE pending[s][v] = "NONE"
      BY <2>1, <2>3, <2>4, <3>1 DEF Visible, CoverInv
    <3>2. CASE pending[s][v] # "NONE"
      <4>1. pending[s][v] = "PUBLISHED"
        BY <2>1, <2>4, <3>2 DEF Visible
      <4>2. op[s] = "publish" /\ v = target[s] /\ status[v] = "APPROVED" /\ todo[s] = {}
        BY <2>1, <4>1 DEF PublicationInv
      <4>3. Selected(s)
        BY <2>1, <4>2 DEF Selected, LiveStatuses
      <4>4. Selected(t) /\ ~ Covered(s, target[t])
        BY <2>3, <2>4, <4>2 DEF Covered
      <4> QED BY <4>2, <4>3, <4>4 DEF CoverInv
    <3> QED BY <3>1, <3>2
  <2>5. ASSUME NEW t \in Sessions \ {s}, NEW u \in Sessions \ {s}, t # u,
               Selected(t)', Selected(u)'
        PROVE  Covered(t, target[u]) \/ Covered(u, target[t])
    BY <2>3, <2>5 DEF CoverInv
  <2> QED BY <2>2, <2>3, <2>4, <2>5, DistinctTargets DEF CoverInv
<1>5. ASSUME NEW s \in Sessions, InsertDraft(s) \/ Decide(s) \/ ListVersions(s)
      PROVE  CoverInv'
  <2>1. status' = status /\ ~ Selected(s) /\ ~ Selected(s)'
    BY <1>5 DEF InsertDraft, Decide, ListVersions, Goto, AfterList, MethodInv, Selected, TypeOK
  <2>2. \A t \in Sessions \ {s} :
           /\ pc'[t] = pc[t] /\ op'[t] = op[t] /\ target'[t] = target[t]
           /\ todo'[t] = todo[t] /\ pending'[t] = pending[t]
    BY <1>5 DEF InsertDraft, Write, Decide, ListVersions, Goto, TypeOK
  <2> QED BY <2>1, <2>2, CoverFrame, DistinctTargets DEF Selected, Covered
<1>6. ASSUME NEW s \in Sessions, SendToErp(s) \/ StoreReceipt(s) \/ OthersSuperseded(s)
      PROVE  CoverInv'
  <2>1. status' = status /\ op' = op /\ target' = target /\ todo' = todo /\ pending' = pending
    BY <1>6 DEF SendToErp, StoreReceipt, OthersSuperseded
  <2>2. \A t \in Sessions : Selected(t)' => Selected(t)
    BY <1>6, <2>1 DEF SendToErp, StoreReceipt, OthersSuperseded, Goto, Selected, TypeOK
  <2> QED BY <2>1, <2>2, CoverFrame, DistinctTargets DEF Covered
<1>7. ASSUME NEW s \in Sessions, SelectOthers(s)
      PROVE  CoverInv'
  <2>1. /\ status' = status /\ op' = op /\ target' = target /\ pending' = pending
        /\ op[s] = "publish" /\ target[s] \in Versions /\ ~ Selected(s)
        /\ todo'[s] = Listed(s, LiveStatuses) \ {target[s]}
        /\ \A t \in Sessions \ {s} : pc'[t] = pc[t] /\ todo'[t] = todo[t]
    BY <1>7 DEF SelectOthers, MethodInv, Goto, Selected, TypeOK
  <2>2. \A v \in Versions \ {target[s]} : status[v] \in LiveStatuses => Covered(s, v)'
    BY <2>1 DEF Listed, Visible, Covered, PublicationInv, LiveStatuses, TypeOK
  <2>3. \A t \in Sessions \ {s} : /\ Selected(t)' = Selected(t)
                                  /\ \A v \in Versions : Covered(t, v)' = Covered(t, v)
    BY <2>1 DEF Selected, Covered
  <2>4. \A t \in Sessions \ {s} : Selected(t) => /\ target[t] \in Versions \ {target[s]}
                                               /\ status[target[t]] \in LiveStatuses
    <3>1. SUFFICES ASSUME NEW t \in Sessions \ {s}, Selected(t)
                   PROVE  target[t] \in Versions \ {target[s]}
      BY DEF Selected
    <3>2. holder[target[s]] = s
      BY <1>7 DEF SelectOthers, LockInv, MethodInv
    <3>3. holder[target[t]] = t /\ target[t] \in Versions
      BY <3>1 DEF Selected, LockInv, MethodInv
    <3> QED BY <3>2, <3>3
  <2>5. ASSUME NEW t \in Sessions, Selected(t)', NEW v \in Versions \ {target[t]},
               status[v] = "PUBLISHED"
        PROVE  Covered(t, v)'
    BY <2>2, <2>3, <2>5 DEF CoverInv, LiveStatuses
  <2>6. ASSUME NEW t \in Sessions, NEW u \in Sessions \ {t}, Selected(t)', Selected(u)'
        PROVE  Covered(t, target[u])' \/ Covered(u, target[t])'
    <3>1. CASE s \notin {t, u}
      BY <2>1, <2>3, <2>4, <2>6, <3>1, DistinctTargets DEF CoverInv, Covered
    <3>2. CASE s = t
      BY <2>1, <2>2, <2>3, <2>4, <2>6, <3>2 DEF Covered
    <3>3. CASE s = u
      BY <2>1, <2>2, <2>3, <2>4, <2>6, <3>3 DEF Covered
    <3> QED BY <3>1, <3>2, <3>3
  <2> QED BY <2>1, <2>5, <2>6 DEF CoverInv, Covered
<1>8. ASSUME NEW s \in Sessions, SupersedeOther(s)
      PROVE  CoverInv'
  <2>1. PICK v \in todo[s] : /\ pending' = [pending EXCEPT ![s][v] = "SUPERSEDED"]
                             /\ todo' = [todo EXCEPT ![s] = todo[s] \ {v}]
                             /\ UNCHANGED <<status, pc, op, target>>
    BY <1>8 DEF SupersedeOther, Write
  <2>2. \A t \in Sessions, w \in Versions : Covered(t, w) => Covered(t, w)'
    BY <2>1 DEF Covered, TypeOK
  <2> QED BY <2>1, <2>2, CoverFrame, DistinctTargets DEF Selected
<1>9. ASSUME NEW s \in Sessions, CheckStatus(s) \/ UpdateStatus(s), ~ Rollback(s)
      PROVE  CoverInv'
  <2>1. /\ status' = status /\ target' = target
        /\ pc[s] \in {"check", "update"}
        /\ op' = op
    BY <1>9 DEF CheckStatus, UpdateStatus, StatusSet, AutoPublish, ManualWriteback
  <2>2. \A t \in Sessions \ {s} : pc'[t] = pc[t] /\ todo'[t] = todo[t] /\ pending'[t] = pending[t]
    BY <1>9 DEF CheckStatus, UpdateStatus, Write, StatusSet, Goto, TypeOK
  <2>3. Selected(s)' => Selected(s)
    BY <2>1 DEF Selected
  <2>4. ASSUME Selected(s), NEW v \in Versions \ {target[s]}, Covered(s, v)
        PROVE  Covered(s, v)'
    <3>1. op[s] = "publish" /\ todo[s] = {} /\ target[s] \in Versions
      BY <2>1, <2>4 DEF Selected, PublicationInv, MethodInv
    <3>2. pending'[s][v] = pending[s][v]
      BY <1>9, <2>4, <3>1 DEF CheckStatus, UpdateStatus, Write, InHand, TypeOK
    <3> QED BY <2>4, <3>1, <3>2 DEF Covered
  <2> QED BY <2>1, <2>2, <2>3, <2>4, CoverFrame, DistinctTargets DEF Selected, Covered
<1> QED BY <1>1, <1>2, <1>3, <1>4, <1>5, <1>6, <1>7, <1>8, <1>9
        DEF Next, Progress, NumberTaken, DeadlockVictim, Fail

(* Only a commit changes what other transactions see.                      *)
LEMMA OnlyCommitsShow ==
    ASSUME [Next]_vars
    PROVE  status' = status \/ \E s \in Sessions : Commit(s)
<1>1. CASE UNCHANGED vars
  BY <1>1 DEF vars
<1>2. ASSUME NEW s \in Sessions, Request(s)
      PROVE  status' = status
  <2>1. PICK method, v, label : Begin(s, method, v, label)
    BY <1>2 DEF Request, Generate, Replan, Approve, Reject, Publish
  <2> QED BY <2>1 DEF Begin
<1>3. ASSUME NEW s \in Sessions, Rollback(s)
      PROVE  status' = status
  BY <1>3 DEF Rollback
<1>4. ASSUME NEW s \in Sessions, CheckStatus(s)
      PROVE  status' = status
  BY <1>3, <1>4 DEF CheckStatus
<1>5. ASSUME NEW s \in Sessions,
             InsertDraft(s) \/ Decide(s) \/ ListVersions(s) \/ UpdateStatus(s)
      PROVE  status' = status
  BY <1>5 DEF InsertDraft, Decide, ListVersions, UpdateStatus
<1>6. ASSUME NEW s \in Sessions,
             \/ SendToErp(s) \/ StoreReceipt(s) \/ SelectOthers(s)
             \/ SupersedeOther(s) \/ OthersSuperseded(s)
      PROVE  status' = status
  BY <1>6 DEF SendToErp, StoreReceipt, SelectOthers, SupersedeOther, OthersSuperseded
<1>7. ASSUME NEW s \in Sessions, NumberTaken(s) \/ DeadlockVictim(s) \/ Fail(s)
      PROVE  Rollback(s)
  BY <1>7 DEF NumberTaken, DeadlockVictim, Fail
<1>8. CASE Next
  <2>1. PICK s \in Sessions : Request(s) \/ Progress(s) \/ DeadlockVictim(s) \/ Fail(s)
    BY <1>8 DEF Next
  <2>2. CASE Progress(s)
    BY <1>3, <1>4, <1>5, <1>6, <1>7, <2>2 DEF Progress
  <2> QED BY <1>2, <1>3, <1>7, <2>1, <2>2
<1> QED BY <1>1, <1>8

(* A commit that publishes leaves no other published version: the cover    *)
(* has become SUPERSEDED in the same transaction.                          *)
LEMMA UniqueStep ==
    ASSUME IInv, [Next]_vars
    PROVE  AtMostOnePublished'
<1>1. CASE status' = status
  BY <1>1 DEF IInv, AtMostOnePublished
<1>2. ASSUME NEW s \in Sessions, Commit(s)
      PROVE  AtMostOnePublished'
  <2>1. pc[s] = "commit" /\ status' = [v \in Versions |-> Visible(s, v)]
    BY <1>2 DEF Commit
  <2>2. CASE \A v \in Versions : pending[s][v] # "PUBLISHED"
    BY <2>1, <2>2 DEF Visible, IInv, AtMostOnePublished
  <2>3. ASSUME NEW v \in Versions, pending[s][v] = "PUBLISHED"
        PROVE  AtMostOnePublished'
    <3>1. op[s] = "publish" /\ v = target[s] /\ status[v] = "APPROVED" /\ todo[s] = {}
      BY <2>1, <2>3 DEF IInv, PublicationInv
    <3>2. Selected(s)
      BY <2>1, <3>1 DEF Selected, LiveStatuses
    <3>3. ASSUME NEW w \in Versions \ {v}
          PROVE  status'[w] # "PUBLISHED"
      <4>1. CASE status[w] = "PUBLISHED"
        <5>1. pending[s][w] = "SUPERSEDED"
          BY <3>1, <3>2, <4>1 DEF IInv, CoverInv, Covered
        <5> QED BY <2>1, <5>1 DEF Visible
      <4>2. CASE status[w] # "PUBLISHED"
        <5>1. pending[s][w] # "PUBLISHED"
          BY <3>1 DEF IInv, PublicationInv
        <5> QED BY <2>1, <4>2, <5>1 DEF Visible
      <4> QED BY <4>1, <4>2
    <3> QED BY <3>3 DEF AtMostOnePublished
  <2> QED BY <2>2, <2>3
<1> QED BY <1>1, <1>2, OnlyCommitsShow

-----------------------------------------------------------------------------
LEMMA InitInv == Init => TypeOK /\ MethodInv /\ LockInv
BY ConstantsAssumption DEF Init, TypeOK, MethodInv, LockInv, NoWrites, Versions

LEMMA InitPublication == Init => PublicationInv /\ CoverInv /\ AtMostOnePublished
BY DEF Init, PublicationInv, CoverInv, Selected, AtMostOnePublished, NoWrites

(* In every writeback mode the variables keep their types.                 *)
THEOREM TypeCorrect == Spec => []TypeOK
<1>1. TypeOK /\ MethodInv /\ [Next]_vars => TypeOK' /\ MethodInv'
  BY TypeStep, MethodStep
<1> QED BY <1>1, InitInv, PTL DEF Spec

(* The invariant is inductive where publication is a person's act.         *)
THEOREM Inductive == ManualWriteback => (Spec => []IInv)
<1>1. SUFFICES ASSUME ManualWriteback
               PROVE  Spec => []IInv
  OBVIOUS
<1>2. Init => IInv
  BY InitInv, InitPublication DEF IInv
<1>3. IInv /\ [Next]_vars => IInv'
  BY <1>1, TypeStep, MethodStep, LockStep, PublicationStep, CoverStep, UniqueStep DEF IInv
<1> QED BY <1>2, <1>3, PTL DEF Spec

(* However many planners generate, approve, reject and publish at once, at *)
(* most one version is published, unless writeback is automatic.           *)
THEOREM OnePlanPublished == ManualWriteback => (Spec => []AtMostOnePublished)
<1>1. SUFFICES ASSUME ManualWriteback
               PROVE  Spec => []AtMostOnePublished
  OBVIOUS
<1>2. Spec => []IInv
  BY <1>1, Inductive
<1>3. IInv => AtMostOnePublished
  BY DEF IInv
<1> QED BY <1>2, <1>3, PTL

(* A version becomes published only from approved: no rejection or         *)
(* supersession committed during a publication is overwritten by it.       *)
THEOREM PublishedOnlyFromApproved == ManualWriteback => (Spec => PublishedFromApproved)
<1>1. SUFFICES ASSUME ManualWriteback
               PROVE  Spec => PublishedFromApproved
  OBVIOUS
<1>2. Spec => []IInv
  BY <1>1, Inductive
<1>3. ASSUME IInv, [Next]_vars, NEW v \in Versions, status'[v] = "PUBLISHED",
             status[v] # "PUBLISHED"
      PROVE  status[v] = "APPROVED"
  <2>1. PICK s \in Sessions : Commit(s)
    BY <1>3, OnlyCommitsShow
  <2>2. pending[s][v] = "PUBLISHED"
    BY <1>3, <2>1 DEF Commit, Visible
  <2> QED BY <1>3, <2>2 DEF IInv, PublicationInv
<1>4. IInv /\ [Next]_vars => [\A v \in Versions : status'[v] = "PUBLISHED" /\ status[v] # "PUBLISHED"
                                                 => status[v] = "APPROVED"]_vars
  BY <1>3
<1> QED BY <1>2, <1>4, PTL DEF Spec, PublishedFromApproved

-----------------------------------------------------------------------------
(* A draft not yet committed is of a number no committed row has: its      *)
(* index entry keeps the other sessions out.                               *)
DraftInv ==
    \A s \in Sessions, v \in Versions : pending[s][v] = "DRAFT" => status[v] = "NONE"

LEMMA DraftStep ==
    ASSUME TypeOK, MethodInv, LockInv, DraftInv, [Next]_vars
    PROVE  DraftInv'
<1>1. CASE UNCHANGED <<status, pending>>
  BY <1>1 DEF DraftInv
<1>2. ASSUME NEW s \in Sessions, Rollback(s)
      PROVE  DraftInv'
  <2>1. Finish(s)
    BY <1>2 DEF Rollback
  <2> QED BY <1>2, <2>1, FinishResets DEF Rollback, DraftInv, NoWrites
<1>3. ASSUME NEW s \in Sessions, Commit(s)
      PROVE  DraftInv'
  <2>1. Finish(s) /\ status' = [v \in Versions |-> Visible(s, v)]
    BY <1>3 DEF Commit
  <2>2. ASSUME NEW t \in Sessions \ {s}, NEW v \in Versions, pending'[t][v] = "DRAFT"
        PROVE  status'[v] = "NONE"
    <3>1. pending[t][v] = "DRAFT"
      BY <2>1, <2>2, FinishResets
    <3>2. holder[v] = t /\ status[v] = "NONE"
      BY <3>1 DEF LockInv, DraftInv
    <3>3. pending[s][v] = "NONE"
      BY <3>2 DEF LockInv
    <3> QED BY <2>1, <3>2, <3>3 DEF Visible
  <2> QED BY <2>1, <2>2, FinishResets DEF DraftInv, NoWrites
<1>4. ASSUME NEW s \in Sessions, InsertDraft(s)
      PROVE  DraftInv'
  BY <1>4 DEF InsertDraft, Write, MethodInv, DraftInv, TypeOK
<1>5. ASSUME NEW s \in Sessions, UpdateStatus(s)
      PROVE  DraftInv'
  <2>1. PICK v \in Versions : Write(s, v, NewStatus(s, v)) /\ status' = status
    BY <1>5 DEF UpdateStatus
  <2>2. NewStatus(s, v) # "DRAFT"
    BY DEF NewStatus, Goal
  <2> QED BY <2>1, <2>2 DEF Write, DraftInv, TypeOK
<1>6. ASSUME NEW s \in Sessions, SupersedeOther(s)
      PROVE  DraftInv'
  BY <1>6 DEF SupersedeOther, Write, DraftInv, TypeOK
<1> QED BY <1>1, <1>2, <1>3, <1>4, <1>5, <1>6
        DEF Next, vars, Request, Generate, Replan, Approve, Reject, Publish, Begin, Progress,
            NumberTaken, Decide, ListVersions, CheckStatus, SendToErp, StoreReceipt, SelectOthers,
            OthersSuperseded, DeadlockVictim, Fail

(* Two generations never share a version number, and no request takes a    *)
(* version back to DRAFT, in any writeback mode.                           *)
THEOREM DraftsAreNew == Spec => DraftIsNew
<1>1. Init => DraftInv
  BY DEF Init, DraftInv, NoWrites
<1>2. Spec => [](TypeOK /\ MethodInv /\ LockInv /\ DraftInv)
  <2>1. TypeOK /\ MethodInv /\ LockInv /\ DraftInv /\ [Next]_vars
          => (TypeOK /\ MethodInv /\ LockInv /\ DraftInv)'
    BY TypeStep, MethodStep, LockStep, DraftStep
  <2> QED BY <1>1, <2>1, InitInv, PTL DEF Spec
<1>3. ASSUME DraftInv, [Next]_vars, NEW v \in Versions, status'[v] = "DRAFT", status[v] # "DRAFT"
      PROVE  status[v] = "NONE"
  <2>1. PICK s \in Sessions : Commit(s)
    BY <1>3, OnlyCommitsShow
  <2> QED BY <1>3, <2>1 DEF Commit, Visible, DraftInv
<1>4. DraftInv /\ [Next]_vars => [\A v \in Versions : status'[v] = "DRAFT" /\ status[v] # "DRAFT"
                                                     => status[v] = "NONE"]_vars
  BY <1>3
<1> QED BY <1>2, <1>4, PTL DEF Spec, DraftIsNew

-----------------------------------------------------------------------------
(* A publication stores its receipt after the gateway call, and only a     *)
(* publication about to commit has written PUBLISHED, to its target.       *)
SentInv ==
    \A s \in Sessions :
        /\ op[s] = "publish" /\ pc[s] # "send" => target[s] \in sent
        /\ \A v \in Versions : pending[s][v] = "PUBLISHED" =>
                op[s] = "publish" /\ pc[s] = "commit" /\ v = target[s]

LEMMA SentStep ==
    ASSUME WritebackMode # "READ_ONLY", TypeOK, MethodInv, SentInv, PublishedWasSent, [Next]_vars
    PROVE  SentInv' /\ PublishedWasSent'
<1>1. CASE UNCHANGED vars
  BY <1>1 DEF SentInv, PublishedWasSent, vars
<1>2. ASSUME NEW s \in Sessions, Request(s)
      PROVE  SentInv' /\ PublishedWasSent'
  BY <1>2 DEF Request, Generate, Replan, Approve, Reject, Publish, Begin, Goto, MethodInv,
              SentInv, PublishedWasSent, NoWrites, TypeOK
<1>3. ASSUME NEW s \in Sessions, Rollback(s) \/ Commit(s)
      PROVE  SentInv' /\ PublishedWasSent'
  <2>1. Finish(s) /\ sent' = sent
    BY <1>3 DEF Rollback, Commit
  <2>2. SentInv'
    BY <2>1, FinishResets DEF SentInv, NoWrites
  <2>3. \A v \in Versions : status'[v] = "PUBLISHED" =>
            status[v] = "PUBLISHED" \/ pending[s][v] = "PUBLISHED"
    BY <1>3 DEF Rollback, Commit, Visible
  <2> QED BY <2>1, <2>2, <2>3 DEF SentInv, PublishedWasSent
<1>4. ASSUME NEW s \in Sessions,
             InsertDraft(s) \/ Decide(s) \/ ListVersions(s) \/ SendToErp(s)
              \/ StoreReceipt(s) \/ SelectOthers(s) \/ OthersSuperseded(s)
      PROVE  SentInv' /\ PublishedWasSent'
  <2>1. CASE InsertDraft(s)
    BY <2>1 DEF InsertDraft, Write, Goto, MethodInv, SentInv, PublishedWasSent, TypeOK
  <2>2. CASE Decide(s)
    BY <2>2 DEF Decide, Goto, MethodInv, SentInv, PublishedWasSent, TypeOK
  <2>3. CASE ListVersions(s)
    BY <2>3 DEF ListVersions, AfterList, Goto, MethodInv, SentInv, PublishedWasSent, TypeOK
  <2>4. CASE SendToErp(s)
    BY <2>4 DEF SendToErp, Goto, MethodInv, SentInv, PublishedWasSent, TypeOK
  <2>5. CASE StoreReceipt(s) \/ SelectOthers(s) \/ OthersSuperseded(s)
    BY <2>5 DEF StoreReceipt, SelectOthers, OthersSuperseded, Goto, MethodInv, SentInv,
                PublishedWasSent, TypeOK
  <2> QED BY <1>4, <2>1, <2>2, <2>3, <2>4, <2>5
<1>5. ASSUME NEW s \in Sessions, SupersedeOther(s)
      PROVE  SentInv' /\ PublishedWasSent'
  BY <1>5 DEF SupersedeOther, Write, MethodInv, SentInv, PublishedWasSent, TypeOK
<1>6. ASSUME NEW s \in Sessions, CheckStatus(s), ~ Rollback(s)
      PROVE  SentInv' /\ PublishedWasSent'
  BY <1>6 DEF CheckStatus, StatusSet, AfterList, Goto, MethodInv, SentInv, PublishedWasSent,
              TypeOK
<1>7. ASSUME NEW s \in Sessions, UpdateStatus(s)
      PROVE  SentInv' /\ PublishedWasSent'
  BY <1>7 DEF UpdateStatus, Write, InHand, NewStatus, Goal, StatusSet, AfterList, Goto,
              MethodInv, SentInv, PublishedWasSent, TypeOK
<1> QED BY <1>1, <1>2, <1>3, <1>4, <1>5, <1>6, <1>7
        DEF Next, Progress, NumberTaken, DeadlockVictim, Fail

(* The ERP has been handed every published version, whatever failed or was *)
(* rolled back on the way, in every mode that hands over at all.           *)
THEOREM PublishedSent == Spec => []PublishedWasSent
<1>1. CASE WritebackMode = "READ_ONLY"
  <2>1. PublishedWasSent
    BY <1>1 DEF PublishedWasSent
  <2> QED BY <2>1, PTL
<1>2. CASE WritebackMode # "READ_ONLY"
  <2>1. Init => SentInv /\ PublishedWasSent
    BY DEF Init, SentInv, PublishedWasSent, NoWrites
  <2>2. TypeOK /\ MethodInv /\ SentInv /\ PublishedWasSent /\ [Next]_vars
          => (TypeOK /\ MethodInv /\ SentInv /\ PublishedWasSent)'
    BY <1>2, TypeStep, MethodStep, SentStep
  <2> QED BY <2>1, <2>2, InitInv, PTL DEF Spec
<1> QED BY <1>1, <1>2

-----------------------------------------------------------------------------
(* Requests that do not overlap implement the lifecycle                    *)

SerialRequests == \A s, t \in Sessions : s = t

(* The version of s is a row that s inserted and has not committed.        *)
Candidate(s) == status[target[s]] = "NONE"

(* Each method comes to its statements from its own guard: a candidate has *)
(* the next number, any other version has the status that was asked for.   *)
OriginInv ==
    \A s \in Sessions : pc[s] # "idle" =>
        /\ Candidate(s) =>
                /\ op[s] # "approve"
                /\ target[s] = 1 \/ status[target[s] - 1] # "NONE"
                /\ op[s] = "publish" => AutoPublish
                /\ op[s] = "approveCandidate" /\ pc[s] = "commit" => ~ AutoPublish
        /\ ~ Candidate(s) =>
                \/ op[s] = "approve" /\ status[target[s]] = "DRAFT"
                \/ op[s] = "reject" /\ status[target[s]] \in {"DRAFT", "APPROVED"}
                \/ op[s] = "publish" /\ status[target[s]] = "APPROVED"
        /\ pc[s] = "insert" => op[s] \in {"generate", "replan"}
        /\ pc[s] = "decide" => op[s] = "replan"
        /\ pc[s] = "list" => op[s] \in {"await", "approve", "approveCandidate"}
        /\ pc[s] \in {"check", "update"} =>
                \/ op[s] \in {"reject", "approve", "approveCandidate", "publish"}
                \/ op[s] = "await" /\ todo[s] # {}
        /\ pc[s] \in {"send", "receipt", "select", "supersede"} => op[s] = "publish"
        /\ pc[s] = "commit" => op[s] \notin {"none", "replan"}

(* What s has written to its version so far.                               *)
Written(s) ==
    CASE pc[s] = "insert"                     -> "NONE"
      [] pc[s] = "commit"                     -> IF op[s] \in {"generate", "await"} THEN "DRAFT" ELSE Goal(s)
      [] pc[s] \notin {"insert", "commit"} /\ ~ Candidate(s) -> "NONE"
      [] OTHER                                -> IF op[s] = "publish" THEN "APPROVED" ELSE "DRAFT"

(* The other versions s supersedes: has listed or selected so far.         *)
Superseding(s, v) ==
    \/ /\ op[s] = "await" /\ pc[s] # "list"
       /\ status[v] = "DRAFT" /\ v \in replanned
    \/ /\ op[s] \in {"approve", "approveCandidate"} /\ pc[s] # "list"
       /\ status[v] = "APPROVED"
    \/ /\ op[s] = "publish" /\ pc[s] \in {"send", "receipt", "select"}
       /\ Candidate(s) /\ status[v] = "APPROVED"
    \/ /\ op[s] = "publish" /\ pc[s] \notin {"send", "receipt", "select"}
       /\ status[v] \in LiveStatuses

WritesInv ==
    \A s \in Sessions : pc[s] # "idle" =>
        /\ pending[s][target[s]] = Written(s)
        /\ target[s] \notin todo[s]
        /\ pc[s] = "commit" => todo[s] = {}
        /\ \A v \in Versions \ {target[s]} :
            /\ pending[s][v] \in {"NONE", "SUPERSEDED"}
            /\ Superseding(s, v) <=> v \in todo[s] \/ pending[s][v] = "SUPERSEDED"

(* A row of a replanning run that is not committed is the one being        *)
(* decided on.                                                             *)
ReplannedInv ==
    \A s \in Sessions :
        /\ \A v \in replanned : status[v] = "NONE" =>
                pc[s] \notin {"idle", "insert"} /\ op[s] # "generate" /\ v = target[s]
        /\ pc[s] \notin {"idle", "insert"} /\ Candidate(s) /\ op[s] # "generate"
              => target[s] \in replanned

SerialInv == OriginInv /\ WritesInv /\ ReplannedInv

LEMMA SerialBegins ==
    ASSUME SerialRequests, TypeOK, MethodInv, SerialInv, NEW s \in Sessions, Request(s)
    PROVE  SerialInv'
<1>1. pc[s] = "idle" /\ pending[s] = NoWrites /\ todo[s] = {}
  BY DEF Request, Generate, Replan, Approve, Reject, Publish, Begin, MethodInv
<1>2. \A v \in Versions : Visible(s, v) = status[v] /\ pending[s][v] = "NONE"
  BY <1>1 DEF Visible, NoWrites
<1>3. ASSUME NEW n \in Versions, NextVersionNumber(s, n), NEW m \in {"generate", "replan"},
             Begin(s, m, n, "insert")
      PROVE  SerialInv'
  <2>1. status[n] = "NONE"
    BY <1>2, <1>3 DEF NextVersionNumber, Listed, TypeOK, Versions
  <2>2. n = 1 \/ status[n - 1] # "NONE"
    BY <1>2, <1>3 DEF NextVersionNumber, Listed, Statuses
  <2>3. /\ pc'[s] = "insert" /\ op'[s] = m /\ target'[s] = n /\ todo' = todo
        /\ UNCHANGED <<status, replanned, pending>>
    BY <1>3 DEF Begin, Goto, TypeOK
  <2>4. OriginInv'
    BY <2>1, <2>2, <2>3 DEF OriginInv, Candidate, SerialRequests
  <2>5. WritesInv'
    BY <1>1, <1>2, <2>3 DEF WritesInv, Written, Superseding, SerialRequests
  <2>6. ReplannedInv'
    BY <1>1, <2>3 DEF SerialInv, ReplannedInv, SerialRequests
  <2> QED BY <2>4, <2>5, <2>6 DEF SerialInv
<1>4. ASSUME NEW v \in Versions, Approve(s, v) \/ Reject(s, v) \/ Publish(s, v)
      PROVE  SerialInv'
  <2>1. /\ target'[s] = v /\ todo' = todo /\ UNCHANGED <<status, replanned, pending>>
        /\ \/ status[v] = "DRAFT" /\ op'[s] = "approve" /\ pc'[s] = "list"
           \/ status[v] \in {"DRAFT", "APPROVED"} /\ op'[s] = "reject" /\ pc'[s] = "check"
           \/ status[v] = "APPROVED" /\ op'[s] = "publish" /\ pc'[s] = "send"
    BY <1>2, <1>4 DEF Approve, Reject, Publish, Begin, Goto, TypeOK
  <2>2. OriginInv'
    BY <2>1 DEF OriginInv, Candidate, SerialRequests
  <2>3. WritesInv'
    BY <1>1, <1>2, <1>4, <2>1 DEF WritesInv, Written, Superseding, Candidate, SerialRequests
  <2>4. ReplannedInv'
    BY <1>1, <2>1 DEF SerialInv, ReplannedInv, Candidate, SerialRequests
  <2> QED BY <2>2, <2>3, <2>4 DEF SerialInv
<1> QED BY <1>3, <1>4 DEF Request, Generate, Replan

LEMMA SerialEnds ==
    ASSUME SerialRequests, TypeOK, LockInv, SerialInv, NEW s \in Sessions, pc[s] # "idle",
           target[s] \in Versions, Rollback(s)
    PROVE  SerialInv'
<1>1. pc'[s] = "idle" /\ status' = status
  BY FinishResets DEF Rollback
<1>2. OriginInv' /\ WritesInv'
  BY <1>1 DEF OriginInv, WritesInv, SerialRequests
<1>3. ASSUME NEW v \in replanned, status[v] = "NONE" PROVE v \notin replanned'
  <2>1. v = target[s] /\ pc[s] \notin {"idle", "insert"} /\ Candidate(s)
    BY <1>3 DEF SerialInv, ReplannedInv, Candidate
  <2>2. Written(s) # "NONE"
    BY <2>1 DEF Written, Goal
  <2>3. holder[v] = s
    BY <2>1, <2>2 DEF SerialInv, WritesInv, LockInv
  <2> QED BY <1>3, <2>1, <2>3 DEF Rollback
<1>4. ReplannedInv'
  BY <1>1, <1>3 DEF ReplannedInv, Rollback, SerialRequests
<1> QED BY <1>2, <1>4 DEF SerialInv

LEMMA SerialInserts ==
    ASSUME SerialRequests, TypeOK, MethodInv, SerialInv, NEW s \in Sessions, InsertDraft(s) \/ Decide(s)
    PROVE  SerialInv'
<1>1. CASE InsertDraft(s)
  <2>1. target[s] \in Versions /\ op[s] \in {"generate", "replan"}
    BY <1>1 DEF InsertDraft, MethodInv, SerialInv, OriginInv
  <2>2. /\ pending'[s] = [pending[s] EXCEPT ![target[s]] = "DRAFT"]
        /\ pc'[s] = IF op[s] = "replan" THEN "decide" ELSE "commit"
        /\ replanned' = IF op[s] = "replan" THEN replanned \union {target[s]} ELSE replanned
        /\ pc[s] = "insert" /\ status[target[s]] = "NONE"
        /\ UNCHANGED <<status, op, target, todo>>
    BY <1>1 DEF InsertDraft, Write, Goto, TypeOK
  <2>3. pending[s] \in [Versions -> Statuses \union {"NONE"}]
    BY DEF TypeOK
  <2>4. OriginInv'
    BY <2>1, <2>2 DEF SerialInv, OriginInv, Candidate, SerialRequests
  <2>5. WritesInv'
    <3>1. todo[s] = {} /\ \A v \in Versions \ {target[s]} : pending[s][v] = "NONE"
      <4>1. \A v \in Versions : ~ Superseding(s, v)
        BY <2>1 DEF Superseding
      <4>2. todo[s] \subseteq Versions
        BY DEF TypeOK
      <4> QED BY <2>2, <4>1, <4>2 DEF SerialInv, WritesInv
    <3>2. \A v \in Versions \ {target[s]} : ~ Superseding(s, v)'
      BY <2>1, <2>2 DEF Superseding
    <3>3. pending'[s][target[s]] = "DRAFT" /\ \A v \in Versions \ {target[s]} : pending'[s][v] = pending[s][v]
      BY <2>1, <2>2, <2>3
    <3>4. Written(s)' = "DRAFT"
      BY <2>1, <2>2 DEF Written, Candidate
    <3>5. pending'[s][target'[s]] = Written(s)' /\ target'[s] \notin todo'[s] /\ todo'[s] = {}
      BY <2>2, <3>1, <3>3, <3>4
    <3>6. \A v \in Versions \ {target'[s]} :
            pending'[s][v] = "NONE" /\ ~ Superseding(s, v)' /\ v \notin todo'[s]
      BY <2>2, <3>1, <3>2, <3>3
    <3>7. \A r \in Sessions : r = s
      BY DEF SerialRequests
    <3> QED BY <3>5, <3>6, <3>7 DEF WritesInv
  <2>6. ReplannedInv'
    BY <2>1, <2>2 DEF SerialInv, ReplannedInv, Candidate, SerialRequests
  <2> QED BY <2>4, <2>5, <2>6 DEF SerialInv
<1>2. CASE Decide(s)
  <2>1. /\ pc[s] = "decide" /\ op[s] = "replan"
        /\ \/ op'[s] = "reject" /\ pc'[s] = "check"
           \/ op'[s] \in {"await", "approveCandidate"} /\ pc'[s] = "list"
        /\ UNCHANGED <<status, replanned, pending, target, todo>>
    BY <1>2 DEF Decide, Goto, TypeOK, SerialInv, OriginInv
  <2>2. Candidate(s)
    BY <2>1 DEF SerialInv, OriginInv
  <2>3. OriginInv'
    BY <2>1, <2>2 DEF SerialInv, OriginInv, Candidate, SerialRequests
  <2>4. WritesInv'
    BY <2>1, <2>2 DEF SerialInv, WritesInv, Written, Superseding, Candidate, SerialRequests
  <2>5. ReplannedInv'
    BY <2>1, <2>2 DEF SerialInv, ReplannedInv, Candidate, SerialRequests
  <2> QED BY <2>3, <2>4, <2>5 DEF SerialInv
<1> QED BY <1>1, <1>2

LEMMA SerialLists ==
    ASSUME SerialRequests, TypeOK, MethodInv, SerialInv, NEW s \in Sessions, ListVersions(s)
    PROVE  SerialInv'
<1>1. /\ pc[s] = "list" /\ op[s] \in {"await", "approve", "approveCandidate"}
      /\ target[s] \in Versions
      /\ todo'[s] = (IF op[s] = "await" THEN Listed(s, {"DRAFT"}) \intersect replanned
                     ELSE Listed(s, {"APPROVED"})) \ {target[s]}
      /\ pc'[s] = IF op[s] = "await" /\ todo'[s] = {} THEN "commit" ELSE "check"
      /\ UNCHANGED <<status, replanned, pending, op, target>>
  BY DEF ListVersions, AfterList, Goto, TypeOK, SerialInv, OriginInv, MethodInv
<1>2. OriginInv'
  BY <1>1 DEF SerialInv, OriginInv, Candidate, SerialRequests
<1>3. \A v \in Versions \ {target[s]} : ~ Superseding(s, v) /\ pending[s][v] = "NONE"
  <2>1. \A v \in Versions : ~ Superseding(s, v)
    BY <1>1 DEF Superseding
  <2> QED BY <1>1, <2>1 DEF SerialInv, WritesInv
<1>4. \A v \in Versions \ {target[s]} : Superseding(s, v)' <=> v \in todo'[s]
  BY <1>1, <1>3 DEF Superseding, Listed, Visible
<1>5. Written(s)' = Written(s)
  BY <1>1 DEF Written, Candidate, Goal, SerialInv, OriginInv
<1>6. WritesInv'
  BY <1>1, <1>3, <1>4, <1>5 DEF SerialInv, WritesInv, SerialRequests
<1>7. ReplannedInv'
  BY <1>1 DEF SerialInv, ReplannedInv, Candidate, SerialRequests
<1> QED BY <1>2, <1>6, <1>7 DEF SerialInv

(* set_status has returned for v: its status is written, now or before.    *)
LEMMA SerialStatusSet ==
    ASSUME SerialRequests, TypeOK, MethodInv, SerialInv, NEW s \in Sessions, NEW v \in Versions,
           pc[s] \in {"check", "update"}, InHand(s, v), StatusSet(s, v),
           UNCHANGED <<status, replanned, target>>,
           pending' \in [Sessions -> [Versions -> Statuses \union {"NONE"}]],
           pending'[s][v] = NewStatus(s, v),
           \A w \in Versions \ {v} : pending'[s][w] = pending[s][w]
    PROVE  SerialInv'
<1>1. target[s] \in Versions /\ pc[s] # "idle" /\ target[s] \notin todo[s] /\ todo[s] \subseteq Versions
  BY DEF MethodInv, SerialInv, WritesInv, TypeOK
<1>2. todo'[s] = todo[s] \ {v} /\ target'[s] = target[s]
  BY DEF StatusSet, TypeOK
<1>3. CASE v \in todo[s]
  <2>1. v # target[s] /\ NewStatus(s, v) = "SUPERSEDED"
    BY <1>1, <1>3 DEF NewStatus
  <2>2. op' = op /\ pc'[s] = IF op[s] = "await" /\ todo'[s] = {} THEN "commit" ELSE "check"
    BY <1>2, <2>1 DEF StatusSet, AfterList, Goto, TypeOK
  <2>3. OriginInv'
    BY <1>2, <2>2 DEF SerialInv, OriginInv, Candidate, SerialRequests
  <2>4. \A w \in Versions : Superseding(s, w)' <=> Superseding(s, w)
    BY <1>1, <1>2, <2>2 DEF Superseding, Candidate
  <2>5. Written(s)' = Written(s)
    BY <1>1, <1>2, <2>2 DEF Written, Candidate, Goal, SerialInv, OriginInv
  <2>6. WritesInv'
    BY <1>1, <1>2, <1>3, <2>1, <2>2, <2>4, <2>5 DEF SerialInv, WritesInv, SerialRequests
  <2>7. ReplannedInv'
    BY <1>1, <1>2, <2>2 DEF SerialInv, ReplannedInv, Candidate, SerialRequests
  <2> QED BY <2>3, <2>6, <2>7 DEF SerialInv
<1>4. CASE v \notin todo[s]
  <2>1. v = target[s] /\ todo[s] = {} /\ NewStatus(s, v) = Goal(s)
    BY <1>4 DEF InHand, NewStatus
  <2>2. op[s] \in {"reject", "approve", "approveCandidate", "publish"}
    BY <2>1 DEF SerialInv, OriginInv
  <2>3. IF op[s] = "approveCandidate" /\ AutoPublish
        THEN op'[s] = "publish" /\ pc'[s] = "send"
        ELSE op'[s] = op[s] /\ pc'[s] = "commit"
    BY <2>1 DEF StatusSet, Goto, TypeOK
  <2>4. op[s] = "approveCandidate" => Candidate(s)
    BY <1>1 DEF SerialInv, OriginInv
  <2>5. OriginInv'
    BY <1>1, <1>2, <2>2, <2>3, <2>4 DEF SerialInv, OriginInv, Candidate, SerialRequests
  <2>6. \A w \in Versions : Superseding(s, w)' <=> Superseding(s, w)
    BY <1>1, <1>2, <2>2, <2>3, <2>4 DEF Superseding, Candidate
  <2>7. Written(s)' = Goal(s)
    BY <1>1, <1>2, <2>2, <2>3, <2>4 DEF Written, Candidate, Goal
  <2>8. WritesInv'
    BY <1>1, <1>2, <2>1, <2>3, <2>6, <2>7 DEF SerialInv, WritesInv, SerialRequests
  <2>9. ReplannedInv'
    BY <1>1, <1>2, <2>2, <2>3 DEF SerialInv, ReplannedInv, Candidate, SerialRequests
  <2> QED BY <2>5, <2>8, <2>9 DEF SerialInv
<1> QED BY <1>3, <1>4

LEMMA SerialChecks ==
    ASSUME SerialRequests, TypeOK, MethodInv, SerialInv, NEW s \in Sessions,
           CheckStatus(s), ~ Rollback(s)
    PROVE  SerialInv'
<1>1. pc[s] = "check" /\ target[s] \in Versions /\ todo[s] \subseteq Versions /\ target[s] \notin todo[s]
  BY DEF CheckStatus, MethodInv, TypeOK, SerialInv, WritesInv
<1>2. PICK v \in Versions :
        /\ InHand(s, v)
        /\ \/ /\ Visible(s, v) = NewStatus(s, v)
              /\ StatusSet(s, v)
              /\ UNCHANGED <<status, replanned, sent, holder, pending, target>>
           \/ /\ Goto(s, "update")
              /\ UNCHANGED <<status, replanned, sent, holder, pending, op, target, todo>>
  BY DEF CheckStatus
<1>3. CASE Visible(s, v) = NewStatus(s, v) /\ StatusSet(s, v)
             /\ UNCHANGED <<status, replanned, sent, holder, pending, target>>
  <2>1. pending[s][v] = NewStatus(s, v)
    <3>1. CASE v \in todo[s]
      <4>1. Superseding(s, v) /\ NewStatus(s, v) = "SUPERSEDED"
        BY <1>1, <3>1 DEF SerialInv, WritesInv, NewStatus
      <4>2. status[v] # "SUPERSEDED"
        BY <4>1 DEF Superseding, LiveStatuses
      <4> QED BY <1>3, <4>1, <4>2 DEF Visible
    <3>2. CASE v \notin todo[s]
      <4>1. v = target[s] /\ todo[s] = {} /\ NewStatus(s, v) = Goal(s)
        BY <1>2, <3>2 DEF InHand, NewStatus
      <4>2. op[s] \in {"reject", "approve", "approveCandidate", "publish"}
        BY <1>1, <4>1 DEF SerialInv, OriginInv
      <4>3. status[v] # Goal(s)
        BY <1>1, <4>1, <4>2 DEF SerialInv, OriginInv, Candidate, Goal
      <4> QED BY <1>3, <4>1, <4>3 DEF Visible
    <3> QED BY <3>1, <3>2
  <2> QED BY <1>1, <1>2, <1>3, <2>1, SerialStatusSet DEF TypeOK
<1>4. CASE Goto(s, "update")
             /\ UNCHANGED <<status, replanned, sent, holder, pending, op, target, todo>>
  <2>1. pc'[s] = "update" /\ UNCHANGED <<status, replanned, pending, op, target, todo>>
    BY <1>4 DEF Goto, TypeOK
  <2>2. OriginInv'
    BY <1>1, <2>1 DEF SerialInv, OriginInv, Candidate, SerialRequests
  <2>3. WritesInv'
    <3>1. Written(s)' = Written(s) /\ \A w \in Versions : Superseding(s, w)' <=> Superseding(s, w)
      BY <1>1, <2>1 DEF Written, Superseding, Candidate
    <3> QED BY <1>1, <2>1, <3>1 DEF SerialInv, WritesInv, SerialRequests
  <2>4. ReplannedInv'
    BY <1>1, <2>1 DEF SerialInv, ReplannedInv, Candidate, SerialRequests
  <2> QED BY <2>2, <2>3, <2>4 DEF SerialInv
<1> QED BY <1>2, <1>3, <1>4

LEMMA SerialUpdates ==
    ASSUME SerialRequests, TypeOK, MethodInv, SerialInv, NEW s \in Sessions, UpdateStatus(s)
    PROVE  SerialInv'
<1>1. PICK v \in Versions : InHand(s, v) /\ Write(s, v, NewStatus(s, v)) /\ StatusSet(s, v)
  BY DEF UpdateStatus
<1>2. pc[s] = "update" /\ UNCHANGED <<status, replanned, target>>
  BY DEF UpdateStatus
<1>3. pending' \in [Sessions -> [Versions -> Statuses \union {"NONE"}]]
  BY <1>1, WriteType, NewStatusType
<1>4. /\ pending'[s][v] = NewStatus(s, v)
      /\ \A w \in Versions \ {v} : pending'[s][w] = pending[s][w]
  BY <1>1 DEF Write, TypeOK
<1> QED BY <1>1, <1>2, <1>3, <1>4, SerialStatusSet

LEMMA SerialPublishes ==
    ASSUME SerialRequests, TypeOK, MethodInv, SerialInv, NEW s \in Sessions,
           SendToErp(s) \/ StoreReceipt(s) \/ SelectOthers(s) \/ SupersedeOther(s)
            \/ OthersSuperseded(s)
    PROVE  SerialInv'
<1>1. /\ pc[s] \in {"send", "receipt", "select", "supersede"} /\ op[s] = "publish"
      /\ target[s] \in Versions /\ target[s] \notin todo[s] /\ todo[s] \subseteq Versions
  BY DEF SendToErp, StoreReceipt, SelectOthers, SupersedeOther, OthersSuperseded, MethodInv,
         SerialInv, WritesInv, TypeOK
<1>2. /\ pc'[s] \in {"receipt", "select", "supersede", "check"}
      /\ UNCHANGED <<status, replanned, op, target>>
  BY <1>1 DEF SendToErp, StoreReceipt, SelectOthers, SupersedeOther, OthersSuperseded, Goto, TypeOK
<1>3. OriginInv'
  BY <1>1, <1>2 DEF SerialInv, OriginInv, Candidate, SerialRequests
<1>4. ReplannedInv'
  BY <1>1, <1>2 DEF SerialInv, ReplannedInv, Candidate, SerialRequests
<1>5. Written(s)' = Written(s)
  BY <1>1, <1>2 DEF Written, Candidate
<1>6. CASE SendToErp(s) \/ StoreReceipt(s) \/ OthersSuperseded(s)
  <2>1. /\ UNCHANGED <<pending, todo>>
        /\ pc'[s] \in {"send", "receipt", "select"} <=> pc[s] \in {"send", "receipt", "select"}
    BY <1>6 DEF SendToErp, StoreReceipt, OthersSuperseded, Goto, TypeOK
  <2>2. \A v \in Versions : Superseding(s, v)' <=> Superseding(s, v)
    BY <1>1, <1>2, <2>1 DEF Superseding, Candidate
  <2>3. WritesInv'
    BY <1>1, <1>2, <1>5, <2>1, <2>2 DEF SerialInv, WritesInv, SerialRequests
  <2> QED BY <1>3, <1>4, <2>3 DEF SerialInv
<1>7. CASE SelectOthers(s)
  <2>1. /\ pending' = pending /\ todo'[s] = Listed(s, LiveStatuses) \ {target[s]}
        /\ pc[s] = "select" /\ pc'[s] = "supersede"
    BY <1>7 DEF SelectOthers, Goto, TypeOK
  <2>2. ASSUME NEW v \in Versions \ {target[s]}
        PROVE  Superseding(s, v)' <=> v \in todo'[s] \/ pending[s][v] = "SUPERSEDED"
    <3>1. Superseding(s, v)' <=> status[v] \in LiveStatuses
      BY <1>1, <1>2, <2>1 DEF Superseding
    <3>2. pending[s][v] \in {"NONE", "SUPERSEDED"}
      BY <1>1 DEF SerialInv, WritesInv
    <3>3. pending[s][v] = "SUPERSEDED" => status[v] \in LiveStatuses
      BY <1>1 DEF SerialInv, WritesInv, Superseding, LiveStatuses
    <3> QED BY <2>1, <3>1, <3>2, <3>3 DEF Listed, Visible, LiveStatuses
  <2>3. WritesInv'
    BY <1>1, <1>2, <1>5, <2>1, <2>2 DEF SerialInv, WritesInv, SerialRequests
  <2> QED BY <1>3, <1>4, <2>3 DEF SerialInv
<1>8. CASE SupersedeOther(s)
  <2>1. PICK v \in todo[s] : /\ Write(s, v, "SUPERSEDED")
                             /\ todo' = [todo EXCEPT ![s] = todo[s] \ {v}]
    BY <1>8 DEF SupersedeOther
  <2>2. /\ pc' = pc /\ pc[s] = "supersede" /\ todo'[s] = todo[s] \ {v}
        /\ v \in Versions \ {target[s]}
        /\ pending'[s][v] = "SUPERSEDED"
        /\ \A w \in Versions \ {v} : pending'[s][w] = pending[s][w]
    BY <1>1, <1>8, <2>1 DEF SupersedeOther, Write, TypeOK
  <2>3. \A w \in Versions : Superseding(s, w)' <=> Superseding(s, w)
    BY <1>1, <1>2, <2>2 DEF Superseding, Candidate
  <2>4. WritesInv'
    BY <1>1, <1>2, <1>5, <2>2, <2>3 DEF SerialInv, WritesInv, SerialRequests
  <2> QED BY <1>3, <1>4, <2>4 DEF SerialInv
<1> QED BY <1>6, <1>7, <1>8

(* What a commit makes visible: the new status of the version and the      *)
(* supersession of the others, all of them.                                *)
LEMMA SerialCommitWrites ==
    ASSUME TypeOK, MethodInv, SerialInv, NEW s \in Sessions, Commit(s)
    PROVE  /\ target[s] \in Versions
           /\ Written(s) # "NONE"
           /\ status' = [w \in Versions |-> IF w = target[s] THEN Written(s)
                                            ELSE IF Superseding(s, w) THEN "SUPERSEDED"
                                            ELSE status[w]]
<1>1. target[s] \in Versions /\ pc[s] = "commit"
  BY DEF Commit, MethodInv
<1>2. Written(s) # "NONE"
  BY <1>1 DEF Written, Goal
<1>3. pending[s][target[s]] = Written(s) /\ todo[s] = {}
  BY <1>1 DEF SerialInv, WritesInv
<1>4. \A w \in Versions \ {target[s]} :
        Visible(s, w) = IF Superseding(s, w) THEN "SUPERSEDED" ELSE status[w]
  BY <1>1, <1>3 DEF SerialInv, WritesInv, Visible
<1> QED BY <1>1, <1>2, <1>3, <1>4 DEF Commit, Visible

LEMMA SerialCommits ==
    ASSUME SerialRequests, TypeOK, MethodInv, SerialInv, NEW s \in Sessions, Commit(s)
    PROVE  SerialInv'
<1>1. pc'[s] = "idle" /\ replanned' = replanned
  BY FinishResets DEF Commit
<1>2. OriginInv' /\ WritesInv'
  BY <1>1 DEF OriginInv, WritesInv, SerialRequests
<1>3. \A v \in replanned : status'[v] # "NONE"
  BY SerialCommitWrites DEF SerialInv, ReplannedInv, TypeOK
<1>4. ReplannedInv'
  BY <1>1, <1>3 DEF ReplannedInv, SerialRequests
<1> QED BY <1>2, <1>4 DEF SerialInv

LEMMA SerialStep ==
    ASSUME SerialRequests, TypeOK, MethodInv, LockInv, SerialInv, [Next]_vars
    PROVE  SerialInv'
<1>1. CASE UNCHANGED vars
  <2>1. UNCHANGED <<status, replanned, pending, pc, op, target, todo>>
    BY <1>1 DEF vars
  <2> QED BY <2>1 DEF SerialInv, OriginInv, WritesInv, ReplannedInv, Candidate, Written,
                      Superseding, Goal
<1>2. ASSUME NEW s \in Sessions, Rollback(s), pc[s] # "idle"
      PROVE  SerialInv'
  BY <1>2, SerialEnds DEF MethodInv
<1>3. ASSUME NEW s \in Sessions, Fail(s) \/ NumberTaken(s) \/ CheckStatus(s) \/ DeadlockVictim(s)
      PROVE  SerialInv'
  <2>1. CASE Fail(s) \/ NumberTaken(s)
    BY <1>2, <2>1 DEF Fail, NumberTaken
  <2>2. CASE CheckStatus(s)
    BY <1>2, <2>2, SerialChecks DEF CheckStatus
  <2>3. CASE DeadlockVictim(s)
    <3>1. PICK u \in Sessions : WaitsFor(s, u)
      BY <2>3 DEF DeadlockVictim
    <3> QED BY <3>1 DEF WaitsFor, SerialRequests
  <2> QED BY <1>3, <2>1, <2>2, <2>3
<1> QED BY <1>1, <1>3, SerialBegins, SerialInserts, SerialLists, SerialUpdates, SerialPublishes,
           SerialCommits DEF Next, Progress

LEMMA SerialStart == Init => SerialInv
BY DEF Init, SerialInv, OriginInv, WritesInv, ReplannedInv

(* The versions a replanning run has committed.                            *)
ReplannedRows == {v \in replanned : status[v] # "NONE"}

(* Before its commit a transaction shows nothing: the row of a candidate   *)
(* it has inserted is not there for the lifecycle.                         *)
LEMMA StatementsStutter ==
    ASSUME TypeOK, MethodInv, [Next]_vars, \A s \in Sessions : ~ Commit(s)
    PROVE  UNCHANGED Lifecycle!lifecycleVars
<1>1. status' = status
  BY OnlyCommitsShow
<1>2. \/ replanned' = replanned
      \/ \E s \in Sessions : InsertDraft(s)
      \/ \E s \in Sessions : Rollback(s)
  <2>1. CASE UNCHANGED vars
    BY <2>1 DEF vars
  <2>2. ASSUME NEW s \in Sessions, Request(s)
        PROVE  replanned' = replanned
    <3>1. PICK method, v, label : Begin(s, method, v, label)
      BY <2>2 DEF Request, Generate, Replan, Approve, Reject, Publish
    <3> QED BY <3>1 DEF Begin
  <2>3. ASSUME NEW s \in Sessions, CheckStatus(s)
        PROVE  replanned' = replanned \/ Rollback(s)
    BY <2>3 DEF CheckStatus
  <2>4. ASSUME NEW s \in Sessions, Decide(s) \/ ListVersions(s) \/ UpdateStatus(s) \/ SendToErp(s)
        PROVE  replanned' = replanned
    BY <2>4 DEF Decide, ListVersions, UpdateStatus, SendToErp
  <2>5. ASSUME NEW s \in Sessions,
               StoreReceipt(s) \/ SelectOthers(s) \/ SupersedeOther(s) \/ OthersSuperseded(s)
        PROVE  replanned' = replanned
    BY <2>5 DEF StoreReceipt, SelectOthers, SupersedeOther, OthersSuperseded
  <2>6. ASSUME NEW s \in Sessions, NumberTaken(s) \/ DeadlockVictim(s) \/ Fail(s)
        PROVE  Rollback(s)
    BY <2>6 DEF NumberTaken, DeadlockVictim, Fail
  <2>7. CASE Next
    <3>1. PICK s \in Sessions : Request(s) \/ Progress(s) \/ DeadlockVictim(s) \/ Fail(s)
      BY <2>7 DEF Next
    <3>2. CASE Progress(s)
      BY <2>3, <2>4, <2>5, <2>6, <3>2 DEF Progress
    <3> QED BY <2>2, <2>6, <3>1, <3>2
  <2> QED BY <2>1, <2>7
<1>3. ReplannedRows' = ReplannedRows
  <2>1. CASE replanned' = replanned
    BY <1>1, <2>1 DEF ReplannedRows
  <2>2. ASSUME NEW s \in Sessions, InsertDraft(s)
        PROVE  ReplannedRows' = ReplannedRows
    BY <1>1, <2>2 DEF ReplannedRows, InsertDraft
  <2>3. ASSUME NEW s \in Sessions, Rollback(s)
        PROVE  ReplannedRows' = ReplannedRows
    BY <1>1, <2>3 DEF ReplannedRows, Rollback, TypeOK
  <2> QED BY <1>2, <2>1, <2>2, <2>3
<1> QED BY <1>1, <1>3 DEF Lifecycle!lifecycleVars, ReplannedRows

(* The commit of a request is its one step of the lifecycle.               *)
LEMMA CommitIsOneStep ==
    ASSUME TypeOK, MethodInv, SerialInv, NEW s \in Sessions, Commit(s)
    PROVE  Lifecycle!Next
<1> DEFINE n == target[s]
<1>1. /\ n \in Versions /\ pc[s] = "commit"
      /\ op[s] \in {"generate", "reject", "await", "approve", "approveCandidate", "publish"}
  BY DEF Commit, MethodInv, SerialInv, OriginInv, TypeOK
<1>2. status' = [w \in Versions |-> IF w = n THEN Written(s)
                                    ELSE IF Superseding(s, w) THEN "SUPERSEDED"
                                    ELSE status[w]]
  BY SerialCommitWrites
<1>3. Written(s) = (IF op[s] \in {"generate", "await"} THEN "DRAFT" ELSE Goal(s)) /\ Written(s) # "NONE"
  BY <1>1, SerialCommitWrites DEF Written
<1>4. \A w \in Versions : Superseding(s, w) => status[w] # "NONE"
  BY DEF Superseding, LiveStatuses
<1>5. replanned' = replanned /\ replanned \subseteq Versions
  BY DEF Commit, TypeOK
<1>6. CASE Candidate(s)
  <2>1. /\ status[n] = "NONE"
        /\ n = 1 \/ status[n - 1] # "NONE"
    BY <1>1, <1>6 DEF Candidate, SerialInv, OriginInv
  <2>2. Lifecycle!NextNumber(n)
    BY <2>1 DEF Lifecycle!NextNumber
  <2>3. CASE op[s] = "generate"
    <3>1. n \notin replanned
      BY <2>1, <2>3 DEF SerialInv, ReplannedInv
    <3>2. ReplannedRows' = ReplannedRows
      BY <1>1, <1>2, <1>4, <1>5, <3>1 DEF ReplannedRows
    <3>3. Lifecycle!Become(n, "DRAFT", {})
      BY <1>2, <1>3, <2>3 DEF Lifecycle!Become, Lifecycle!Versions, Versions, Superseding
    <3> QED BY <1>1, <2>2, <3>2, <3>3
            DEF Lifecycle!Next, Lifecycle!Generate, Lifecycle!Versions, Versions, ReplannedRows
  <2>4. CASE op[s] # "generate"
    <3>1. n \in replanned
      BY <1>1, <1>6, <2>4 DEF SerialInv, ReplannedInv
    <3>2. ReplannedRows' = ReplannedRows \union {n}
      <4>1. \A v \in replanned : status'[v] # "NONE" <=> v = n \/ status[v] # "NONE"
        BY <1>1, <1>2, <1>3, <1>4, <1>5
      <4> QED BY <1>5, <3>1, <4>1 DEF ReplannedRows
    <3>3. op[s] # "approve"
      BY <1>1, <1>6 DEF SerialInv, OriginInv
    <3>4. CASE op[s] = "reject"
      <4>1. Lifecycle!Become(n, "REJECTED", {})
        BY <1>2, <1>3, <3>4 DEF Lifecycle!Become, Lifecycle!Versions, Versions, Superseding, Goal
      <4> QED BY <1>1, <2>2, <3>2, <4>1
              DEF Lifecycle!Next, Lifecycle!Replan, Lifecycle!Versions, Versions, ReplannedRows
    <3>5. CASE op[s] = "await"
      <4>1. Lifecycle!Become(n, "DRAFT", Lifecycle!Having({"DRAFT"}) \intersect ReplannedRows)
        BY <1>1, <1>2, <1>3, <3>5 DEF Lifecycle!Become, Lifecycle!Having, Lifecycle!Versions,
                                      Versions, Superseding, ReplannedRows
      <4> QED BY <1>1, <2>2, <3>2, <4>1
              DEF Lifecycle!Next, Lifecycle!Replan, Lifecycle!Versions, Versions, ReplannedRows
    <3>6. CASE op[s] = "approveCandidate"
      <4>1. WritebackMode # "CONTROLLED_AUTO"
        BY <1>1, <1>6, <3>6 DEF SerialInv, OriginInv, AutoPublish
      <4>2. Lifecycle!Become(n, "APPROVED", Lifecycle!Having({"APPROVED"}))
        BY <1>1, <1>2, <1>3, <3>6 DEF Lifecycle!Become, Lifecycle!Having, Lifecycle!Versions,
                                      Versions, Superseding, Goal
      <4> QED BY <1>1, <2>2, <3>2, <4>1, <4>2
              DEF Lifecycle!Next, Lifecycle!Replan, Lifecycle!Versions, Versions, ReplannedRows
    <3>7. CASE op[s] = "publish"
      <4>1. WritebackMode = "CONTROLLED_AUTO"
        BY <1>1, <1>6, <3>7 DEF SerialInv, OriginInv, AutoPublish
      <4>2. Lifecycle!Become(n, "PUBLISHED", Lifecycle!Having({"APPROVED", "PUBLISHED"}))
        BY <1>1, <1>2, <1>3, <3>7 DEF Lifecycle!Become, Lifecycle!Having, Lifecycle!Versions,
                                      Versions, Superseding, Goal, LiveStatuses
      <4> QED BY <1>1, <2>2, <3>2, <4>1, <4>2
              DEF Lifecycle!Next, Lifecycle!Replan, Lifecycle!Versions, Versions, ReplannedRows
    <3> QED BY <1>1, <2>4, <3>3, <3>4, <3>5, <3>6, <3>7
  <2> QED BY <2>3, <2>4
<1>7. CASE ~ Candidate(s)
  <2>1. \/ op[s] = "approve" /\ status[n] = "DRAFT"
        \/ op[s] = "reject" /\ status[n] \in {"DRAFT", "APPROVED"}
        \/ op[s] = "publish" /\ status[n] = "APPROVED"
    BY <1>1, <1>7 DEF SerialInv, OriginInv
  <2>2. ReplannedRows' = ReplannedRows
    <3>1. \A v \in replanned : status'[v] # "NONE" <=> status[v] # "NONE"
      BY <1>1, <1>2, <1>3, <1>4, <1>5, <2>1
    <3> QED BY <1>5, <3>1 DEF ReplannedRows
  <2>3. CASE op[s] = "approve" /\ status[n] = "DRAFT"
    <3>1. Lifecycle!Become(n, "APPROVED", Lifecycle!Having({"APPROVED"}))
      BY <1>1, <1>2, <1>3, <2>3 DEF Lifecycle!Become, Lifecycle!Having, Lifecycle!Versions,
                                    Versions, Superseding, Goal
    <3> QED BY <1>1, <2>2, <2>3, <3>1
            DEF Lifecycle!Next, Lifecycle!Approve, Lifecycle!Versions, Versions, ReplannedRows
  <2>4. CASE op[s] = "reject" /\ status[n] \in {"DRAFT", "APPROVED"}
    <3>1. Lifecycle!Become(n, "REJECTED", {})
      BY <1>2, <1>3, <2>4 DEF Lifecycle!Become, Lifecycle!Versions, Versions, Superseding, Goal
    <3> QED BY <1>1, <2>2, <2>4, <3>1
            DEF Lifecycle!Next, Lifecycle!Reject, Lifecycle!Versions, Versions, ReplannedRows
  <2>5. CASE op[s] = "publish" /\ status[n] = "APPROVED"
    <3>1. Lifecycle!Become(n, "PUBLISHED", Lifecycle!Having({"APPROVED", "PUBLISHED"}))
      BY <1>1, <1>2, <1>3, <2>5 DEF Lifecycle!Become, Lifecycle!Having, Lifecycle!Versions,
                                    Versions, Superseding, Goal, LiveStatuses
    <3> QED BY <1>1, <2>2, <2>5, <3>1
            DEF Lifecycle!Next, Lifecycle!Publish, Lifecycle!Versions, Versions, ReplannedRows
  <2> QED BY <2>1, <2>3, <2>4, <2>5
<1> QED BY <1>6, <1>7

(* Requests that do not overlap implement the lifecycle: whatever the      *)
(* statements, the failures and the rollbacks between, each request is one *)
(* step of PlanLifecycle or none (ScheduleService and                      *)
(* ReplanningService.evaluate over ScheduleRepository).                    *)
THEOREM SerialRequestsImplementLifecycle ==
    ASSUME SerialRequests
    PROVE  Spec => ImplementsLifecycle
<1>1. Init => Lifecycle!Init
  BY DEF Init, Lifecycle!Init, Lifecycle!Versions, Versions
<1>2. Init => TypeOK /\ MethodInv /\ LockInv /\ SerialInv
  BY InitInv, SerialStart
<1>3. TypeOK /\ MethodInv /\ LockInv /\ SerialInv /\ [Next]_vars
        => (TypeOK /\ MethodInv /\ LockInv /\ SerialInv)'
  BY TypeStep, MethodStep, LockStep, SerialStep
<1>4. TypeOK /\ MethodInv /\ SerialInv /\ [Next]_vars => [Lifecycle!Next]_Lifecycle!lifecycleVars
  BY StatementsStutter, CommitIsOneStep
<1> QED BY <1>1, <1>2, <1>3, <1>4, PTL DEF Spec, ImplementsLifecycle, Lifecycle!Spec

(* What overlapping requests may break, requests one at a time keep, in    *)
(* every writeback mode: at most one version is approved and one published *)
(* (supersede_others, _supersede).                                         *)
THEOREM SerialRequestsKeepOnePlan ==
    ASSUME SerialRequests
    PROVE  Spec => [](AtMostOneApproved /\ AtMostOnePublished)
<1> DEFINE SInv == TypeOK /\ MethodInv /\ LockInv /\ SerialInv
           One == AtMostOneApproved /\ AtMostOnePublished
<1>1. Init => SInv /\ One
  BY InitInv, SerialStart DEF Init, AtMostOneApproved, AtMostOnePublished
<1>2. SInv /\ [Next]_vars => SInv'
  BY TypeStep, MethodStep, LockStep, SerialStep
<1>3. ASSUME SInv, One, NEW s \in Sessions, Commit(s)
      PROVE  One'
  <2>1. pc[s] = "commit" /\ target[s] \in Versions
    BY <1>3 DEF Commit, MethodInv
  <2>2. Written(s) = IF op[s] \in {"generate", "await"} THEN "DRAFT" ELSE Goal(s)
    BY <2>1 DEF Written
  <2>3. status' = [w \in Versions |-> IF w = target[s] THEN Written(s)
                                      ELSE IF Superseding(s, w) THEN "SUPERSEDED"
                                      ELSE status[w]]
    BY <1>3, SerialCommitWrites
  <2>4. Written(s) = "APPROVED" => \A w \in Versions : status[w] = "APPROVED" => Superseding(s, w)
    BY <1>3, <2>1, <2>2 DEF Goal, Superseding, SerialInv, OriginInv, TypeOK
  <2>5. Written(s) = "PUBLISHED" => \A w \in Versions : status[w] = "PUBLISHED" => Superseding(s, w)
    BY <2>1, <2>2 DEF Goal, Superseding, LiveStatuses
  <2> QED BY <1>3, <2>3, <2>4, <2>5 DEF AtMostOneApproved, AtMostOnePublished
<1>4. ASSUME SInv, One, [Next]_vars, \A s \in Sessions : ~ Commit(s)
      PROVE  One'
  <2>1. status' = status
    BY <1>4, StatementsStutter DEF Lifecycle!lifecycleVars
  <2> QED BY <1>4, <2>1 DEF AtMostOneApproved, AtMostOnePublished
<1>5. SInv /\ One /\ [Next]_vars => One'
  BY <1>3, <1>4
<1> HIDE DEF SInv
<1> QED BY <1>1, <1>2, <1>5, PTL DEF Spec

(* ... and a status changes only along SCHEDULE_TRANSITIONS.               *)
THEOREM SerialRequestsFollowTransitions ==
    ASSUME SerialRequests
    PROVE  Spec => TransitionsAllowed
<1> DEFINE SInv == TypeOK /\ MethodInv /\ LockInv /\ SerialInv
           A == \A v \in Versions : status[v] \notin {"NONE", status'[v]}
                                      => status'[v] \in ScheduleTransitions(status[v])
<1>1. Init => SInv
  BY InitInv, SerialStart
<1>2. SInv /\ [Next]_vars => SInv'
  BY TypeStep, MethodStep, LockStep, SerialStep
<1>3. ASSUME SInv, NEW s \in Sessions, Commit(s)
      PROVE  A
  <2>1. pc[s] = "commit" /\ target[s] \in Versions
    BY <1>3 DEF Commit, MethodInv
  <2>2. Written(s) = IF op[s] \in {"generate", "await"} THEN "DRAFT" ELSE Goal(s)
    BY <2>1 DEF Written
  <2>3. status' = [w \in Versions |-> IF w = target[s] THEN Written(s)
                                      ELSE IF Superseding(s, w) THEN "SUPERSEDED"
                                      ELSE status[w]]
    BY <1>3, SerialCommitWrites
  <2>4. status[target[s]] # "NONE" => Written(s) \in ScheduleTransitions(status[target[s]])
    BY <1>3, <2>1, <2>2 DEF SerialInv, OriginInv, Candidate, Goal, ScheduleTransitions
  <2>5. \A w \in Versions : Superseding(s, w) => "SUPERSEDED" \in ScheduleTransitions(status[w])
    BY DEF Superseding, LiveStatuses, ScheduleTransitions
  <2> QED BY <2>3, <2>4, <2>5
<1>4. ASSUME SInv, [Next]_vars, \A s \in Sessions : ~ Commit(s)
      PROVE  A
  BY <1>4, StatementsStutter DEF Lifecycle!lifecycleVars
<1>5. SInv /\ [Next]_vars => [A]_vars
  BY <1>3, <1>4
<1> HIDE DEF SInv, A
<1>6. Spec => [][A]_vars
  BY <1>1, <1>2, <1>5, PTL DEF Spec
<1> QED BY <1>6, PTL DEF TransitionsAllowed, A
=============================================================================
