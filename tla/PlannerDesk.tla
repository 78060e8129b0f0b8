---------------------------- MODULE PlannerDesk ----------------------------
(***************************************************************************)
(* What the planner's overlays promise, without rows, flags or expiries:    *)
(* for every order the desk has one register per kind of decision, which    *)
(* is empty or holds the instant of the decision in force.  A register      *)
(* changes in two ways only.  A request of a planner writes a decision      *)
(* that was never there before, and a decision lapses.  A decision that     *)
(* was replaced, cancelled or has expired never comes back.                 *)
(***************************************************************************)
EXTENDS Naturals

CONSTANTS Orders,       \* the orders of the plant
          Slots,        \* the kinds of decision of which one is in force
          Empty         \* no decision in force: not a number

VARIABLES desk,         \* desk[o][s]: the decision in force, or Empty
          clock         \* later than every decision taken so far

vars == <<desk, clock>>

TypeOK == /\ desk \in [Orders -> [Slots -> Nat \cup {Empty}]]
          /\ clock \in Nat

Init == /\ desk = [o \in Orders |-> [s \in Slots |-> Empty]]
        /\ clock = 0

Kept(o, s) == desk'[o][s] \in {desk[o][s], Empty}

\* Time passes; decisions expire, are cancelled or are made void by another.
Lapse == /\ clock' \in {clock, clock + 1}
         /\ \A o \in Orders, s \in Slots : Kept(o, s)

\* A planner decides one thing about one order; other decisions may lapse.
Decide(o, s) ==
    /\ clock' = clock + 1
    /\ desk'[o][s] = clock
    /\ \A p \in Orders, t \in Slots : <<p, t>> # <<o, s>> => Kept(p, t)

Next == \/ Lapse
        \/ \E o \in Orders, s \in Slots : Decide(o, s)

Spec == Init /\ [][Next]_vars
=============================================================================
