------------------------- MODULE MCWorkUnitCombiner -------------------------
(* Instances of WorkUnitCombiner for TLC. *)
EXTENDS WorkUnitCombiner

(***************************************************************************)
(* Two sessions' boundaries: <<0, 2>>, <<2, 2>>, <<4, 1>> tile the digits  *)
(* as one session cut them, <<2, 1>> and <<3, 2>> as another did.          *)
(***************************************************************************)
TwoSessions ==
    {[start |-> 0, n |-> 2], [start |-> 2, n |-> 1], [start |-> 2, n |-> 2],
     [start |-> 3, n |-> 2], [start |-> 4, n |-> 1]}
=============================================================================
