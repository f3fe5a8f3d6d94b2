------------------------------ MODULE MCCluster ------------------------------
EXTENDS Cluster

CONSTANTS w1, w2

(* Units of one digit. *)
OneDigit(d) == 1

(* A thread each, or two threads in one worker and none in the other. *)
TwoThreads == {[w \in Workers |-> 1], [w \in Workers |-> IF w = w1 THEN 2 ELSE 0]}
=============================================================================
