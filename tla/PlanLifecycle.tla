---------------------------- MODULE PlanLifecycle ----------------------------
(***************************************************************************)
(* What the version lifecycle promises a planner: each request is one      *)
(* step that moves the versions along DRAFT -> APPROVED -> PUBLISHED ->    *)
(* SUPERSEDED (or REJECTED), with at most one approved and one published   *)
(* version.  ScheduleVersions implements it when requests do not overlap.  *)
(***************************************************************************)
EXTENDS Integers

CONSTANTS
    MaxVersions,    \* bound: how many schedule versions are ever created
    WritebackMode   \* Settings.writeback_mode

VARIABLES
    status,         \* version_number -> status, "NONE" for no such version
    replanned       \* the versions a replanning evaluation generated

lifecycleVars == <<status, replanned>>

Versions == 1 .. MaxVersions

Having(statuses) == {v \in Versions : status[v] \in statuses}

NextNumber(n) ==
    /\ status[n] = "NONE"
    /\ n = 1 \/ status[n - 1] # "NONE"

(* v takes status new and the versions of old become SUPERSEDED.           *)
Become(v, new, old) ==
    status' = [w \in Versions |-> IF w = v THEN new
                                  ELSE IF w \in old THEN "SUPERSEDED"
                                  ELSE status[w]]

Init ==
    /\ status = [v \in Versions |-> "NONE"]
    /\ replanned = {}

Generate ==
    \E n \in Versions :
        /\ NextNumber(n)
        /\ Become(n, "DRAFT", {})
        /\ UNCHANGED replanned

Approve(v) ==
    /\ status[v] = "DRAFT"
    /\ Become(v, "APPROVED", Having({"APPROVED"}))
    /\ UNCHANGED replanned

Reject(v) ==
    /\ status[v] \in {"DRAFT", "APPROVED"}
    /\ Become(v, "REJECTED", {})
    /\ UNCHANGED replanned

Publish(v) ==
    /\ status[v] = "APPROVED"
    /\ Become(v, "PUBLISHED", Having({"APPROVED", "PUBLISHED"}))
    /\ UNCHANGED replanned

(* A replanning candidate is refused, waits for a planner in the place of  *)
(* the earlier candidates, or replaces the approved version; with          *)
(* automatic writeback it is published at once.                            *)
Replan ==
    \E n \in Versions :
        /\ NextNumber(n)
        /\ replanned' = replanned \union {n}
        /\ \/ Become(n, "REJECTED", {})
           \/ Become(n, "DRAFT", Having({"DRAFT"}) \intersect replanned)
           \/ /\ WritebackMode # "CONTROLLED_AUTO"
              /\ Become(n, "APPROVED", Having({"APPROVED"}))
           \/ /\ WritebackMode = "CONTROLLED_AUTO"
              /\ Become(n, "PUBLISHED", Having({"APPROVED", "PUBLISHED"}))

Next ==
    \/ Generate
    \/ Replan
    \/ \E v \in Versions : Approve(v) \/ Reject(v) \/ Publish(v)

Spec == Init /\ [][Next]_lifecycleVars
=============================================================================
