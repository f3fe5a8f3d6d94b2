-------------------------- MODULE WorkerThreadPool --------------------------
(***************************************************************************)
(* The worker's WorkerThreadPool with its WorkerThreads, the reader thread *)
(* of the connection, which hands over the work units the coordinator      *)
(* dispatches, and the main thread, which destroys the client and then the *)
(* pool.  The worker asked for one unit per thread at its start and asks   *)
(* for another with each result.                                           *)
(*                                                                         *)
(* thread_mutex is held by the worker thread from its wait() on, and while *)
(* it computes.  The two others take it only to notify: that is one step.  *)
(***************************************************************************)
EXTENDS Integers, FiniteSets

CONSTANTS
    NThreads,    \* number of worker threads
    MaxUnits,    \* bound: units the coordinator dispatches
    MaxSpurious, \* bound: spurious wakeups of wait()
    MaxFailures  \* bound: computations that throw PiComputeError

ASSUME NThreadsAssumption == NThreads \in Nat \ {0}
ASSUME BoundsAssumption ==
    MaxUnits \in Nat /\ MaxSpurious \in Nat /\ MaxFailures \in Nat

VARIABLES
    requests,        \* RequestWorkUnit messages not answered yet
    dispatched,      \* units dispatched so far; they are 1, 2, ...
    net,             \* the reader: where it is, its unit, the thread it is at
    busy,            \* per thread
    next_work_unit,  \* per thread, 0 for none
    pc,              \* where each thread is in worker_function
    run,             \* per thread
    interrupted,     \* per thread: pi_gen was told to stop
    published,       \* number of results published, per unit
    closing,         \* the main thread: where it is, and the thread it is at
    process,         \* up, or ended by an exception or a use after free
    spurious,        \* spurious wakeups so far
    failures         \* failed computations so far

netVars == <<requests, dispatched, net>>
stopVars == <<run, interrupted, closing>>
countVars == <<spurious, failures>>
vars == <<netVars, busy, next_work_unit, pc, published, stopVars, process,
          countVars>>

ThreadIds == 1..NThreads
Units == 1..MaxUnits
Idle == [pc |-> "recv", unit |-> 0, at |-> 1]

Init ==
    /\ requests = NThreads
    /\ dispatched = 0
    /\ net = Idle
    /\ busy = [i \in ThreadIds |-> FALSE]
    /\ next_work_unit = [i \in ThreadIds |-> 0]
    /\ pc = [i \in ThreadIds |-> "test"]
    /\ run = [i \in ThreadIds |-> TRUE]
    /\ interrupted = [i \in ThreadIds |-> FALSE]
    /\ published = [u \in Units |-> 0]
    /\ closing = [pc |-> "running", at |-> 1]
    /\ process = "up"
    /\ spurious = 0
    /\ failures = 0

Up == process = "up"
On(i, p) == Up /\ pc[i] = p
Goto(i, p) == pc' = [pc EXCEPT ![i] = p]
Computing(i) == pc[i] \in {"compute", "reset"}

(* Mutant: the thread keeps its mutex while it waits. *)
MutexFreeUnlessWaiting(i) == pc[i] \in {"test", "lock", "woken", "exited"}

(* thread_mutex is free: wait() releases it. *)
MutexFree(i) == pc[i] \in {"test", "lock", "waiting", "woken", "exited"}

(* notify_one wakes the thread only if it is waiting: nothing remembers it. *)
Notify(i) == pc' = IF pc[i] = "waiting" THEN [pc EXCEPT ![i] = "woken"] ELSE pc

-----------------------------------------------------------------------------
(* worker_function *)

TestRun(i) ==
    /\ On(i, "test")
    /\ Goto(i, IF run[i] THEN "lock" ELSE "exited")
    /\ UNCHANGED <<netVars, busy, next_work_unit, published, stopVars, process,
                   countVars>>

(* The lock, then wait(), which releases it. *)
Wait(i) ==
    /\ On(i, "lock")
    /\ Goto(i, "waiting")
    /\ UNCHANGED <<netVars, busy, next_work_unit, published, stopVars, process,
                   countVars>>

(* wait() has no predicate: it may return without a notification. *)
WakeSpuriously(i) ==
    /\ On(i, "waiting")
    /\ spurious < MaxSpurious
    /\ spurious' = spurious + 1
    /\ Goto(i, "woken")
    /\ UNCHANGED <<netVars, busy, next_work_unit, published, stopVars, process,
                   failures>>

(* wait() returns; an interrupted generator throws at its first check. *)
Wake(i) ==
    /\ On(i, "woken")
    /\ Goto(i, IF next_work_unit[i] # 0 /\ ~interrupted[i] THEN "compute"
               ELSE "unbusy")
    /\ UNCHANGED <<netVars, busy, next_work_unit, published, stopVars, process,
                   countVars>>

(* The result goes to the client, and with it a request for another unit. *)
Publish(i) ==
    /\ On(i, "compute")
    /\ closing.pc = "running"
    /\ published' = [published EXCEPT ![next_work_unit[i]] = @ + 1]
    /\ requests' = requests + 1
    /\ Goto(i, "reset")
    /\ UNCHANGED <<dispatched, net, busy, next_work_unit, stopVars, process,
                   countVars>>

(* The client is destroyed already: the process crashes, or the result is lost. *)
PublishTooLate(i) ==
    /\ On(i, "compute")
    /\ closing.pc # "running"
    /\ \/ process' = "crashed" /\ UNCHANGED pc
       \/ Goto(i, "reset") /\ UNCHANGED process
    /\ UNCHANGED <<netVars, busy, next_work_unit, published, stopVars, countVars>>

(* Mutant: a thread whose computation failed asks for another unit. *)
FailRequesting(i) ==
    /\ On(i, "compute")
    /\ failures < MaxFailures
    /\ failures' = failures + 1
    /\ requests' = requests + 1
    /\ Goto(i, "unbusy")
    /\ UNCHANGED <<dispatched, net, busy, next_work_unit, published, stopVars,
                   process, spurious>>

(* PiComputeError is swallowed: no result, no request, the unit stays. *)
Fail(i) ==
    /\ On(i, "compute")
    /\ failures < MaxFailures
    /\ failures' = failures + 1
    /\ Goto(i, "unbusy")
    /\ UNCHANGED <<netVars, busy, next_work_unit, published, stopVars, process,
                   spurious>>

(* ExecutionInterrupted is swallowed too. *)
StopComputing(i) ==
    /\ On(i, "compute")
    /\ interrupted[i]
    /\ Goto(i, "unbusy")
    /\ UNCHANGED <<netVars, busy, next_work_unit, published, stopVars, process,
                   countVars>>

(* Mutant: the unit is not reset. *)
ResetNothing(i) ==
    /\ On(i, "reset")
    /\ Goto(i, "unbusy")
    /\ UNCHANGED <<netVars, busy, next_work_unit, published, stopVars, process,
                   countVars>>

Reset(i) ==
    /\ On(i, "reset")
    /\ next_work_unit' = [next_work_unit EXCEPT ![i] = 0]
    /\ Goto(i, "unbusy")
    /\ UNCHANGED <<netVars, busy, published, stopVars, process, countVars>>

Unbusy(i) ==
    /\ On(i, "unbusy")
    /\ busy' = [busy EXCEPT ![i] = FALSE]
    /\ Goto(i, "unlock")
    /\ UNCHANGED <<netVars, next_work_unit, published, stopVars, process,
                   countVars>>

Unlock(i) ==
    /\ On(i, "unlock")
    /\ Goto(i, "test")
    /\ UNCHANGED <<netVars, busy, next_work_unit, published, stopVars, process,
                   countVars>>

-----------------------------------------------------------------------------
(* The reader thread of the connection. *)

(* A DispatchWorkUnit message answers a request. *)
Receive ==
    /\ Up
    /\ net.pc = "recv"
    /\ closing.pc = "running"
    /\ requests > 0
    /\ dispatched < MaxUnits
    /\ requests' = requests - 1
    /\ dispatched' = dispatched + 1
    /\ net' = [pc |-> "find", unit |-> dispatched + 1, at |-> 1]
    /\ UNCHANGED <<busy, next_work_unit, pc, published, stopVars, process,
                   countVars>>

(* Mutant: the search goes one thread too far. *)
FindThreadPastEnd ==
    /\ Up
    /\ net.pc = "find"
    /\ net' = IF ~busy[net.at] THEN [net EXCEPT !.pc = "submit"]
                               ELSE [net EXCEPT !.at = @ + 1]
    /\ UNCHANGED <<requests, dispatched, busy, next_work_unit, pc, published,
                   stopVars, process, countVars>>

(***************************************************************************)
(* The pool asks each thread in turn.  When all are busy it throws, and    *)
(* nothing on the way up to the reader's thread function catches that.     *)
(***************************************************************************)
FindThread ==
    /\ Up
    /\ net.pc = "find"
    /\ \/ /\ ~busy[net.at]
          /\ net' = [net EXCEPT !.pc = "submit"]
          /\ UNCHANGED process
       \/ /\ busy[net.at] /\ net.at < NThreads
          /\ net' = [net EXCEPT !.at = @ + 1]
          /\ UNCHANGED process
       \/ /\ busy[net.at] /\ net.at = NThreads
          /\ process' = "all workers busy"
          /\ UNCHANGED net
    /\ UNCHANGED <<requests, dispatched, busy, next_work_unit, pc, published,
                   stopVars, countVars>>

(* submit_work_unit of the thread tests busy again. *)
TestBusy ==
    /\ Up
    /\ net.pc = "submit"
    /\ IF busy[net.at] THEN process' = "worker busy" /\ UNCHANGED net
                       ELSE net' = [net EXCEPT !.pc = "set"] /\ UNCHANGED process
    /\ UNCHANGED <<requests, dispatched, busy, next_work_unit, pc, published,
                   stopVars, countVars>>

(* Mutant: the thread is not marked as busy. *)
SetBusyLater ==
    /\ Up
    /\ net.pc = "set"
    /\ net' = [net EXCEPT !.pc = "pass"]
    /\ UNCHANGED <<requests, dispatched, busy, next_work_unit, pc, published,
                   stopVars, process, countVars>>

SetBusy ==
    /\ Up
    /\ net.pc = "set"
    /\ busy' = [busy EXCEPT ![net.at] = TRUE]
    /\ net' = [net EXCEPT !.pc = "pass"]
    /\ UNCHANGED <<requests, dispatched, next_work_unit, pc, published, stopVars,
                   process, countVars>>

(* With the mutex: the unit is passed on and the thread notified. *)
Pass ==
    /\ Up
    /\ net.pc = "pass"
    /\ MutexFree(net.at)
    /\ next_work_unit' = [next_work_unit EXCEPT ![net.at] = net.unit]
    /\ Notify(net.at)
    /\ net' = Idle
    /\ UNCHANGED <<requests, dispatched, busy, published, stopVars, process,
                   countVars>>

-----------------------------------------------------------------------------
(* The main thread: ~PMGPIeWorker. *)

(* The client is destroyed first; it joins the reader. *)
DestroyClient ==
    /\ Up
    /\ closing.pc = "running"
    /\ net.pc = "recv"
    /\ closing' = [closing EXCEPT !.pc = "interrupt"]
    /\ UNCHANGED <<netVars, busy, next_work_unit, pc, published, run, interrupted,
                   process, countVars>>

(* Then ~WorkerThread runs for each thread. *)
Interrupt ==
    /\ Up
    /\ closing.pc = "interrupt"
    /\ interrupted' = [interrupted EXCEPT ![closing.at] = TRUE]
    /\ closing' = [closing EXCEPT !.pc = "stop"]
    /\ UNCHANGED <<netVars, busy, next_work_unit, pc, published, run, process,
                   countVars>>

StopRunning ==
    /\ Up
    /\ closing.pc = "stop"
    /\ run' = [run EXCEPT ![closing.at] = FALSE]
    /\ closing' = [closing EXCEPT !.pc = "notify"]
    /\ UNCHANGED <<netVars, busy, next_work_unit, pc, published, interrupted,
                   process, countVars>>

NotifyStop ==
    /\ Up
    /\ closing.pc = "notify"
    /\ MutexFree(closing.at)
    /\ Notify(closing.at)
    /\ closing' = [closing EXCEPT !.pc = "join"]
    /\ UNCHANGED <<netVars, busy, next_work_unit, published, run, interrupted,
                   process, countVars>>

Join ==
    /\ Up
    /\ closing.pc = "join"
    /\ pc[closing.at] = "exited"
    /\ closing' = IF closing.at < NThreads
                  THEN [pc |-> "interrupt", at |-> closing.at + 1]
                  ELSE [closing EXCEPT !.pc = "done"]
    /\ UNCHANGED <<netVars, busy, next_work_unit, pc, published, run, interrupted,
                   process, countVars>>

-----------------------------------------------------------------------------

WorkerStep(i) ==
    \/ TestRun(i) \/ Wait(i) \/ Wake(i)
    \/ Publish(i) \/ PublishTooLate(i) \/ StopComputing(i)
    \/ Reset(i) \/ Unbusy(i) \/ Unlock(i)

ReaderStep == FindThread \/ TestBusy \/ SetBusy \/ Pass
MainStep == Interrupt \/ StopRunning \/ NotifyStop \/ Join

Next ==
    \/ \E i \in ThreadIds : WorkerStep(i) \/ WakeSpuriously(i) \/ Fail(i)
    \/ Receive
    \/ ReaderStep
    \/ DestroyClient
    \/ MainStep

Spec == Init /\ [][Next]_vars

(***************************************************************************)
(* Every thread is scheduled, and a computation ends.  Nothing obliges the *)
(* coordinator to dispatch, the user to quit, a computation to fail or     *)
(* wait() to return on its own.                                            *)
(***************************************************************************)
FairSpec ==
    /\ Spec
    /\ \A i \in ThreadIds : WF_vars(WorkerStep(i))
    /\ WF_vars(ReaderStep)
    /\ WF_vars(MainStep)

-----------------------------------------------------------------------------

TypeOK ==
    /\ requests \in Nat
    /\ dispatched \in 0..MaxUnits
    /\ net \in [pc : {"recv", "find", "submit", "set", "pass"},
                unit : 0..MaxUnits, at : ThreadIds]
    /\ busy \in [ThreadIds -> BOOLEAN]
    /\ next_work_unit \in [ThreadIds -> 0..MaxUnits]
    /\ pc \in [ThreadIds -> {"test", "lock", "waiting", "woken", "compute",
                             "reset", "unbusy", "unlock", "exited"}]
    /\ run \in [ThreadIds -> BOOLEAN]
    /\ interrupted \in [ThreadIds -> BOOLEAN]
    /\ published \in [Units -> Nat]
    /\ closing \in [pc : {"running", "interrupt", "stop", "notify", "join", "done"},
                    at : ThreadIds]
    /\ process \in {"up", "crashed", "all workers busy", "worker busy"}
    /\ spurious \in 0..MaxSpurious
    /\ failures \in 0..MaxFailures

(***************************************************************************)
(* A unit is published once at most, although a thread may wake without    *)
(* reason, keeps a unit whose computation failed, and is woken again when  *)
(* the worker exits.                                                       *)
(***************************************************************************)
PublishedOnce == \A u \in Units : published[u] <= 1

(***************************************************************************)
(* "Send bootstrap RequestWorkUnit messages, one for each worker thread"   *)
(* (net_client.hpp:39): the requests not answered and the units without a  *)
(* result are never more than the threads.                                 *)
(***************************************************************************)
Unpublished == {i \in ThreadIds : next_work_unit[i] # 0 /\ pc[i] # "reset"}
Undelivered == IF net.pc = "recv" THEN 0 ELSE 1

AtMostOnePerThread ==
    closing.pc = "running" =>
        requests + Undelivered + Cardinality(Unpublished) <= NThreads

(***************************************************************************)
(* Only a spurious wakeup lets a thread compute while is_busy denies it.   *)
(***************************************************************************)
BusyWhileComputing ==
    spurious = 0 => \A i \in ThreadIds : Computing(i) => busy[i]

(***************************************************************************)
(* Only a spurious wakeup, or a computation that failed, lets the pool     *)
(* give a thread a unit while it holds another, which is then lost.        *)
(***************************************************************************)
NeverReplaced ==
    [][\A i \in ThreadIds :
         spurious = 0 /\ failures = 0 /\ next_work_unit[i] # 0 =>
             next_work_unit'[i] \in {next_work_unit[i], 0}]_vars

(***************************************************************************)
(* The reader, which waits for the mutex of a thread that may be computing,*)
(* always comes back to the connection.                                    *)
(***************************************************************************)
ReaderReturns == (net.pc # "recv") ~> (net.pc = "recv" \/ ~Up)

(***************************************************************************)
(* "Send bootstrap RequestWorkUnit messages, one for each worker thread"   *)
(* (net_client.hpp:39), and one more with each result: a unit that answers *)
(* a request finds a thread for it.                                        *)
(***************************************************************************)
ThreadForEachUnit == process # "all workers busy"

(***************************************************************************)
(* "Tells the thread to start computing a work unit"                       *)
(* (worker_thread.hpp:45): a unit passed to a thread is computed, unless   *)
(* the worker exits.                                                       *)
(***************************************************************************)
SubmittedIsComputed ==
    \A u \in Units :
        (\E i \in ThreadIds : next_work_unit[i] = u)
            ~> (published[u] > 0 \/ closing.pc # "running" \/ ~Up)
=============================================================================
