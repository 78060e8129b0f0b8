------------------------------ MODULE MCErpSync ------------------------------
(* Small instances of ErpSync for TLC.                                     *)
EXTENDS ErpSync, TLC

CONSTANTS o1, o2, r1, r2

TwoOrders == {o1, o2}
OneRunner == {r1}
TwoRunners == {r1, r2}

(* No order and no runner is special.                                      *)
Symmetry == Permutations(Orders) \union Permutations(Runners)
=============================================================================
