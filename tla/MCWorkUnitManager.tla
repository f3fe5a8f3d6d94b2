------------------------- MODULE MCWorkUnitManager -------------------------
(* Instances of WorkUnitManager for TLC. *)
EXTENDS WorkUnitManager, TLC

(* Shrinks with the position down to 0, as the code's formula does. *)
ShrinkingQuota(d) == IF d = 0 THEN 3 ELSE 3 \div d

ThreadSymmetry == Permutations(Threads) \union Permutations(Workers)
=============================================================================
