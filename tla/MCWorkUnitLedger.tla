-------------------------- MODULE MCWorkUnitLedger --------------------------
(* Instances of WorkUnitLedger for TLC. *)
EXTENDS WorkUnitLedger, TLC

(***************************************************************************)
(* Shrinks with the position as the code's formula does, down to 0, where  *)
(* the code hands out one digit: units of 3, 2, 1, 1, ... digits from 0.   *)
(***************************************************************************)
ShrinkingQuota(d) == IF d = 0 THEN 3 ELSE 6 \div d

WorkerSymmetry == Permutations(Workers)
=============================================================================
