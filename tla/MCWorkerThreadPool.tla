------------------------- MODULE MCWorkerThreadPool -------------------------
(* WorkerThreadPool for TLC: its constants are numbers, given in the cfg files. *)
EXTENDS WorkerThreadPool
=============================================================================
