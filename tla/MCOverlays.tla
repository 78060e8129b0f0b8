----------------------------- MODULE MCOverlays -----------------------------
(* Two orders that may run on either of two machines.                       *)
EXTENDS Overlays, TLC

CONSTANTS o1, o2, m1, m2, p1, p2

Anywhere == [o \in Orders |-> Machines]
Interchangeable == Permutations(Orders) \cup Permutations(Machines) \cup Permutations(Planners)
=============================================================================
