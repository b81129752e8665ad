------------------------------ MODULE MCWapFeed ------------------------------
(* Instances of WapFeed for TLC. A rate moves by more than the tolerance    *)
(* when it moves by two, and a row is worth ten of that unit.               *)
EXTENDS WapFeed, TLC

CONSTANTS r1, r2, r3

Three == {r1, r2, r3}

Symmetry == Permutations(Runs)
===============================================================================
