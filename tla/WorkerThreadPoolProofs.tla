------------------------ MODULE WorkerThreadPoolProofs ------------------------
(***************************************************************************)
(* Theorems about the worker's pool, for any number of threads, of units,  *)
(* of wakeups without notification and of failed computations.             *)
(***************************************************************************)
EXTENDS WorkerThreadPool, FiniteSetTheorems, TLAPS

USE NThreadsAssumption, BoundsAssumption

-----------------------------------------------------------------------------
(* Types *)

Places == {"test", "lock", "waiting", "woken", "compute", "reset", "unbusy",
           "unlock", "exited"}

(* The parts of the type invariant. *)
NetOK ==
    /\ requests \in Nat
    /\ dispatched \in 0..MaxUnits
    /\ net \in [pc : {"recv", "find", "submit", "set", "pass"},
                unit : 0..MaxUnits, at : ThreadIds]

MainOK ==
    /\ closing \in [pc : {"running", "interrupt", "stop", "notify", "join", "done"},
                    at : ThreadIds]
    /\ process \in {"up", "crashed", "all workers busy", "worker busy"}
    /\ spurious \in 0..MaxSpurious
    /\ failures \in 0..MaxFailures

ThreadsOK ==
    /\ busy \in [ThreadIds -> BOOLEAN]
    /\ next_work_unit \in [ThreadIds -> 0..MaxUnits]
    /\ pc \in [ThreadIds -> Places]
    /\ run \in [ThreadIds -> BOOLEAN]
    /\ interrupted \in [ThreadIds -> BOOLEAN]
    /\ published \in [Units -> Nat]

LEMMA Parts == TypeOK <=> NetOK /\ MainOK /\ ThreadsOK
  BY DEF TypeOK, NetOK, MainOK, ThreadsOK, Places

LEMMA NetStep == NetOK /\ [Next]_vars => NetOK'
  <1> SUFFICES ASSUME NetOK, [Next]_vars
               PROVE  NetOK'
    OBVIOUS
  <1> USE DEF NetOK, netVars
  <1>1. CASE UNCHANGED netVars
    BY <1>1
  <1>2. ASSUME NEW i \in ThreadIds, Publish(i)
        PROVE  NetOK'
    BY <1>2 DEF Publish
  <1>3. CASE Receive
    <2>1. requests' \in Nat /\ dispatched' \in 0..MaxUnits
      BY <1>3 DEF Receive
    <2>2. dispatched + 1 \in 0..MaxUnits /\ 1 \in ThreadIds
      BY <1>3 DEF Receive, ThreadIds
    <2> QED
      BY <1>3, <2>1, <2>2 DEF Receive
  <1>4. CASE FindThread
    <2>1. net.at < NThreads => net.at + 1 \in ThreadIds
      BY DEF ThreadIds
    <2> QED
      BY <1>4, <2>1 DEF FindThread
  <1>5. CASE TestBusy \/ SetBusy
    BY <1>5 DEF TestBusy, SetBusy
  <1>6. CASE Pass
    <2>1. 1 \in ThreadIds
      BY DEF ThreadIds
    <2> QED
      BY <1>6, <2>1 DEF Pass, Idle
  <1>7. (~\E i \in ThreadIds : Publish(i)) /\ ~Receive /\ ~ReaderStep
            => UNCHANGED netVars
    BY DEF Next, vars, WorkerStep, TestRun, Wait, Wake, PublishTooLate,
       StopComputing, Reset, Unbusy, Unlock, WakeSpuriously, Fail,
       DestroyClient, MainStep, Interrupt, StopRunning, NotifyStop, Join
  <1> QED
    BY <1>1, <1>2, <1>3, <1>4, <1>5, <1>6, <1>7 DEF ReaderStep

LEMMA MainPartStep == MainOK /\ [Next]_vars => MainOK'
  <1> SUFFICES ASSUME MainOK, [Next]_vars
               PROVE  MainOK'
    OBVIOUS
  <1>0. /\ closing.at \in 1..NThreads
        /\ spurious \in 0..MaxSpurious /\ failures \in 0..MaxFailures
    BY DEF MainOK, ThreadIds
  <1>a. /\ closing.at < NThreads => closing.at + 1 \in ThreadIds
        /\ spurious < MaxSpurious => spurious + 1 \in 0..MaxSpurious
        /\ failures < MaxFailures => failures + 1 \in 0..MaxFailures
    BY <1>0 DEF ThreadIds
  <1> USE DEF MainOK, countVars, stopVars
  <1>1. CASE UNCHANGED vars
    BY <1>1 DEF vars
  <1>2. ASSUME NEW i \in ThreadIds,
               WorkerStep(i) \/ WakeSpuriously(i) \/ Fail(i)
        PROVE  MainOK'
    <2>1. UNCHANGED closing /\ process' \in {process, "crashed"}
      BY <1>2 DEF WorkerStep, TestRun, Wait, Wake, Publish, PublishTooLate,
         StopComputing, Reset, Unbusy, Unlock, WakeSpuriously, Fail
    <2>2. spurious' \in 0..MaxSpurious /\ failures' \in 0..MaxFailures
      <3>1. CASE WakeSpuriously(i) \/ Fail(i)
        BY <1>0, <1>a, <3>1 DEF WakeSpuriously, Fail
      <3>2. CASE WorkerStep(i)
        BY <3>2 DEF WorkerStep, TestRun, Wait, Wake, Publish, PublishTooLate,
           StopComputing, Reset, Unbusy, Unlock
      <3> QED
        BY <1>2, <3>1, <3>2
    <2> QED
      BY <2>1, <2>2
  <1>3. CASE Receive \/ ReaderStep
    BY <1>3 DEF Receive, ReaderStep, FindThread, TestBusy, SetBusy, Pass
  <1>4. CASE DestroyClient \/ Interrupt \/ StopRunning \/ NotifyStop
    BY <1>4 DEF DestroyClient, Interrupt, StopRunning, NotifyStop
  <1>5. CASE Join
    BY <1>5, <1>a DEF Join
  <1> QED
    BY <1>1, <1>2, <1>3, <1>4, <1>5 DEF Next, MainStep

(* What a step of a thread changes at most. *)
LEMMA ThreadEffect ==
    ASSUME NEW i \in ThreadIds, WorkerStep(i) \/ WakeSpuriously(i) \/ Fail(i)
    PROVE  /\ pc' = pc \/ \E p \in Places : pc' = [pc EXCEPT ![i] = p]
           /\ busy' \in {busy, [busy EXCEPT ![i] = FALSE]}
           /\ next_work_unit' \in {next_work_unit, [next_work_unit EXCEPT ![i] = 0]}
           /\ UNCHANGED <<run, interrupted>>
           /\ published' = published \/ Publish(i)
  BY DEF WorkerStep, TestRun, Wait, Wake, Publish, PublishTooLate, Goto,
     StopComputing, Reset, Unbusy, Unlock, WakeSpuriously, Fail, Places, stopVars

(* A thread that computes, or is about to reset its unit, has one.         *)
HasUnit == \A i \in ThreadIds : Computing(i) => next_work_unit[i] # 0

LEMMA ThreadsStep == TypeOK /\ HasUnit /\ [Next]_vars => ThreadsOK'
  <1> SUFFICES ASSUME NetOK, MainOK, ThreadsOK, HasUnit, [Next]_vars
               PROVE  ThreadsOK'
    BY Parts
  <1>1. CASE UNCHANGED vars
    BY <1>1 DEF vars, stopVars, ThreadsOK
  <1>2. ASSUME NEW i \in ThreadIds,
               WorkerStep(i) \/ WakeSpuriously(i) \/ Fail(i)
        PROVE  ThreadsOK'
    <2>1. pc' \in [ThreadIds -> Places] /\ busy' \in [ThreadIds -> BOOLEAN]
      BY <1>2, ThreadEffect DEF ThreadsOK
    <2>2. next_work_unit' \in [ThreadIds -> 0..MaxUnits]
      BY <1>2, ThreadEffect DEF ThreadsOK
    <2>3. published' \in [Units -> Nat]
      <3>1. CASE Publish(i)
        <4>1. next_work_unit[i] \in Units
          BY <3>1 DEF Publish, On, HasUnit, Computing, ThreadsOK, Units
        <4> QED
          BY <3>1, <4>1 DEF Publish, ThreadsOK
      <3> QED
        BY <1>2, <3>1, ThreadEffect DEF ThreadsOK
    <2> QED
      BY <1>2, <2>1, <2>2, <2>3, ThreadEffect DEF ThreadsOK
  <1>3. CASE Receive \/ FindThread \/ TestBusy
    BY <1>3 DEF Receive, FindThread, TestBusy, stopVars, ThreadsOK
  <1>4. CASE SetBusy
    BY <1>4 DEF SetBusy, stopVars, ThreadsOK, NetOK
  <1>5. CASE Pass
    <2>1. net.at \in ThreadIds /\ net.unit \in 0..MaxUnits
      BY DEF NetOK
    <2>2. pc' \in [ThreadIds -> Places]
      BY <1>5, <2>1 DEF Pass, Notify, ThreadsOK, Places
    <2> QED
      BY <1>5, <2>1, <2>2 DEF Pass, stopVars, ThreadsOK
  <1>6. CASE DestroyClient \/ Interrupt \/ StopRunning \/ Join
    BY <1>6 DEF DestroyClient, Interrupt, StopRunning, Join, ThreadsOK
  <1>7. CASE NotifyStop
    <2>1. pc' \in [ThreadIds -> Places]
      BY <1>7 DEF NotifyStop, Notify, ThreadsOK, Places
    <2> QED
      BY <1>7, <2>1 DEF NotifyStop, ThreadsOK
  <1> QED
    BY <1>1, <1>2, <1>3, <1>4, <1>5, <1>6, <1>7 DEF Next, ReaderStep, MainStep

(* Only the reader, with the mutex, and the thread itself touch the unit.  *)
LEMMA HasUnitStep == TypeOK /\ HasUnit /\ [Next]_vars => HasUnit'
  <1> SUFFICES ASSUME NetOK, MainOK, ThreadsOK, HasUnit, [Next]_vars,
                      NEW j \in ThreadIds, pc'[j] \in {"compute", "reset"}
               PROVE  next_work_unit'[j] # 0
    BY Parts DEF HasUnit, Computing
  <1>0. /\ pc \in [ThreadIds -> Places]
        /\ next_work_unit \in [ThreadIds -> 0..MaxUnits]
        /\ pc[j] \in {"compute", "reset"} => next_work_unit[j] # 0
    BY DEF ThreadsOK, HasUnit, Computing
  <1>1. CASE UNCHANGED vars
    BY <1>0, <1>1 DEF vars
  <1>2. ASSUME NEW i \in ThreadIds,
               WorkerStep(i) \/ WakeSpuriously(i) \/ Fail(i)
        PROVE  next_work_unit'[j] # 0
    <2>1. CASE TestRun(i) \/ Wait(i) \/ Wake(i) \/ Unlock(i)
      BY <1>0, <2>1 DEF TestRun, Wait, Wake, Unlock, Goto, On
    <2>2. CASE Publish(i) \/ PublishTooLate(i) \/ StopComputing(i) \/ Fail(i)
      BY <1>0, <2>2 DEF Publish, PublishTooLate, StopComputing, Fail, Goto, On
    <2>3. CASE Reset(i) \/ Unbusy(i) \/ WakeSpuriously(i)
      BY <1>0, <2>3 DEF Reset, Unbusy, WakeSpuriously, Goto, On
    <2> QED
      BY <1>2, <2>1, <2>2, <2>3 DEF WorkerStep
  <1>3. CASE Pass
    <2>1. net.at \in ThreadIds
      BY DEF NetOK
    <2>2. pc'[j] = pc[j] /\ j # net.at
      BY <1>0, <1>3, <2>1 DEF Pass, MutexFree, Notify
    <2> QED
      BY <1>0, <1>3, <2>1, <2>2 DEF Pass
  <1>4. CASE NotifyStop
    BY <1>0, <1>4 DEF NotifyStop, Notify
  <1>5. CASE \/ Receive \/ FindThread \/ TestBusy \/ SetBusy
             \/ DestroyClient \/ Interrupt \/ StopRunning \/ Join
    BY <1>0, <1>5 DEF Receive, FindThread, TestBusy, SetBusy, DestroyClient,
       Interrupt, StopRunning, Join
  <1> QED
    BY <1>1, <1>2, <1>3, <1>4, <1>5 DEF Next, ReaderStep, MainStep

LEMMA Typing == Spec => [](TypeOK /\ HasUnit)
  <1>1. Init => NetOK /\ MainOK /\ ThreadsOK /\ HasUnit
    <2> SUFFICES ASSUME Init
                 PROVE  NetOK /\ MainOK /\ ThreadsOK /\ HasUnit
      OBVIOUS
    <2>1. NetOK /\ MainOK
      BY DEF Init, NetOK, MainOK, Idle, ThreadIds
    <2>2. ThreadsOK /\ HasUnit
      BY DEF Init, ThreadsOK, Places, HasUnit, Computing
    <2> QED
      BY <2>1, <2>2
  <1>2. (NetOK /\ MainOK /\ ThreadsOK /\ HasUnit) /\ [Next]_vars
            => (NetOK /\ MainOK /\ ThreadsOK /\ HasUnit)'
    BY NetStep, MainPartStep, ThreadsStep, HasUnitStep, Parts
  <1> QED
    BY <1>1, <1>2, Parts, PTL DEF Spec

(* The variables keep their types; the search for a thread and the         *)
(* destructors stay within the pool.                                       *)
THEOREM TypeCorrect == Spec => []TypeOK
  BY Typing, PTL
-----------------------------------------------------------------------------
(* One result for each unit *)

(***************************************************************************)
(* A unit is with the reader or with one thread, and once it is published  *)
(* the only thread that can have it is about to reset it.                  *)
(***************************************************************************)
InOnePlace ==
    /\ net.pc # "recv" => net.unit = dispatched /\ net.unit # 0
    /\ \A i \in ThreadIds :
          /\ next_work_unit[i] <= dispatched
          /\ net.pc # "recv" => next_work_unit[i] # net.unit
    /\ \A i, j \in ThreadIds :
          next_work_unit[i] = next_work_unit[j] /\ i # j => next_work_unit[i] = 0

PublishedGone ==
    \A u \in Units :
        published[u] > 0 =>
            /\ u <= dispatched
            /\ net.pc # "recv" => u # net.unit
            /\ \A i \in ThreadIds : next_work_unit[i] = u => pc[i] = "reset"

OnceInv == InOnePlace /\ PublishedGone /\ PublishedOnce

(* Steps that move no unit. *)
SamePlaces ==
    /\ UNCHANGED <<requests, dispatched, published, next_work_unit>>
    /\ net'.pc = "recv" <=> net.pc = "recv"
    /\ net'.unit = net.unit
    /\ \A j \in ThreadIds : pc[j] = "reset" => pc'[j] = "reset"

LEMMA UnitMoves ==
    TypeOK /\ [Next]_vars =>
        \/ SamePlaces
        \/ \E i \in ThreadIds : Publish(i) \/ Reset(i)
        \/ Receive \/ Pass
  <1> SUFFICES ASSUME NetOK, ThreadsOK, [Next]_vars,
                      ~\E i \in ThreadIds : Publish(i) \/ Reset(i),
                      ~Receive, ~Pass
               PROVE  SamePlaces
    BY Parts
  <1>0. pc \in [ThreadIds -> Places]
    BY DEF ThreadsOK
  <1> USE DEF SamePlaces
  <1>1. CASE UNCHANGED vars
    BY <1>1 DEF vars, netVars
  <1>2. ASSUME NEW i \in ThreadIds,
               WorkerStep(i) \/ WakeSpuriously(i) \/ Fail(i)
        PROVE  SamePlaces
    <2>1. CASE TestRun(i) \/ Wait(i) \/ Wake(i) \/ Unlock(i)
      BY <1>0, <2>1 DEF TestRun, Wait, Wake, Unlock, Goto, On, netVars
    <2>2. CASE PublishTooLate(i)
      BY <1>0, <2>2 DEF PublishTooLate, Goto, netVars
    <2>3. CASE StopComputing(i) \/ Fail(i)
      BY <1>0, <2>3 DEF StopComputing, Fail, Goto, On, netVars
    <2>4. CASE Unbusy(i) \/ WakeSpuriously(i)
      BY <1>0, <2>4 DEF Unbusy, WakeSpuriously, Goto, On, netVars
    <2> QED
      BY <1>2, <2>1, <2>2, <2>3, <2>4 DEF WorkerStep
  <1>3. CASE FindThread \/ TestBusy \/ SetBusy
    BY <1>3 DEF FindThread, TestBusy, SetBusy, NetOK
  <1>4. CASE DestroyClient \/ Interrupt \/ StopRunning \/ Join
    BY <1>4 DEF DestroyClient, Interrupt, StopRunning, Join, netVars
  <1>5. CASE NotifyStop
    BY <1>0, <1>5 DEF NotifyStop, Notify, netVars
  <1> QED
    BY <1>1, <1>2, <1>3, <1>4, <1>5 DEF Next, ReaderStep, MainStep

LEMMA OnceStep == TypeOK /\ HasUnit /\ OnceInv /\ [Next]_vars => OnceInv'
  <1> SUFFICES ASSUME TypeOK, NetOK, ThreadsOK, HasUnit, OnceInv, [Next]_vars
               PROVE  OnceInv'
    BY Parts
  <1> USE DEF OnceInv, InOnePlace, PublishedGone, PublishedOnce
  <1>0. /\ pc \in [ThreadIds -> Places]
        /\ next_work_unit \in [ThreadIds -> 0..MaxUnits]
        /\ published \in [Units -> Nat]
        /\ dispatched \in 0..MaxUnits
        /\ Units = 1..MaxUnits
        /\ net.at \in ThreadIds
    BY DEF ThreadsOK, NetOK, Units
  <1>1. CASE SamePlaces
    BY <1>1 DEF SamePlaces
  <1>2. ASSUME NEW i \in ThreadIds, Publish(i)
        PROVE  OnceInv'
    <2> DEFINE u == next_work_unit[i]
    <2>1. /\ u \in Units /\ u <= dispatched
          /\ net.pc # "recv" => u # net.unit
          /\ published[u] = 0
          /\ \A j \in ThreadIds : next_work_unit[j] = u => j = i
      <3>1. pc[i] = "compute" /\ u # 0
        BY <1>2 DEF Publish, On, HasUnit, Computing
      <3> QED
        BY <1>0, <3>1
    <2>2. /\ published' = [published EXCEPT ![u] = 1]
          /\ pc' = [pc EXCEPT ![i] = "reset"]
          /\ UNCHANGED <<dispatched, net, next_work_unit>>
      BY <1>0, <1>2, <2>1 DEF Publish, Goto
    <2>3. InOnePlace'
      BY <2>2
    <2>4. PublishedOnce'
      BY <1>0, <2>1, <2>2
    <2>5. PublishedGone'
      <3> SUFFICES ASSUME NEW v \in Units, published'[v] > 0
                   PROVE  /\ v <= dispatched
                          /\ net.pc # "recv" => v # net.unit
                          /\ \A j \in ThreadIds :
                                 next_work_unit[j] = v => pc'[j] = "reset"
        BY <2>2
      <3>1. CASE v = u
        BY <1>0, <2>1, <2>2, <3>1
      <3>2. CASE v # u
        BY <1>0, <2>1, <2>2, <3>2
      <3> QED
        BY <3>1, <3>2
    <2> QED
      BY <2>3, <2>4, <2>5
  <1>3. ASSUME NEW i \in ThreadIds, Reset(i)
        PROVE  OnceInv'
    <2>1. /\ next_work_unit' = [next_work_unit EXCEPT ![i] = 0]
          /\ pc' = [pc EXCEPT ![i] = "unbusy"]
          /\ UNCHANGED <<dispatched, net, published>>
      BY <1>3 DEF Reset, Goto, netVars
    <2> QED
      BY <1>0, <2>1
  <1>4. CASE Receive
    <2>1. /\ dispatched' = dispatched + 1
          /\ net'.pc = "find" /\ net'.unit = dispatched + 1
          /\ UNCHANGED <<next_work_unit, pc, published>>
      BY <1>4 DEF Receive
    <2> QED
      BY <1>0, <2>1
  <1>5. CASE Pass
    <2>1. /\ next_work_unit' = [next_work_unit EXCEPT ![net.at] = net.unit]
          /\ net'.pc = "recv" /\ net.pc = "pass"
          /\ UNCHANGED <<dispatched, published>>
          /\ pc[net.at] # "reset"
          /\ \A j \in ThreadIds : pc[j] = "reset" => pc'[j] = "reset"
      BY <1>0, <1>5 DEF Pass, Notify, Idle, MutexFree
    <2>2. InOnePlace'
      BY <1>0, <2>1
    <2>3. PublishedGone'
      BY <1>0, <2>1
    <2> QED
      BY <2>1, <2>2, <2>3
  <1> QED
    BY <1>1, <1>2, <1>3, <1>4, <1>5, UnitMoves

(* A unit is published once at most, although a thread may wake without    *)
(* reason, keep a unit whose computation failed and be woken to exit.      *)
THEOREM ReportedOnce == Spec => []PublishedOnce
  <1>1. Init => OnceInv
    <2> SUFFICES ASSUME Init
                 PROVE  OnceInv
      OBVIOUS
    <2>1. /\ net.pc = "recv" /\ dispatched = 0
          /\ \A i \in ThreadIds : next_work_unit[i] = 0
          /\ \A u \in Units : published[u] = 0
      BY DEF Init, Idle
    <2> QED
      BY <2>1 DEF OnceInv, InOnePlace, PublishedGone, PublishedOnce
  <1>2. OnceInv => PublishedOnce
    BY DEF OnceInv
  <1> QED
    BY <1>1, <1>2, OnceStep, Typing, PTL DEF Spec

-----------------------------------------------------------------------------
(* Busy threads *)

Active == {"woken", "compute", "reset", "unbusy"}

(* The main thread joins the reader before it interrupts anything.         *)
ClosingInv ==
    /\ closing.pc # "running" => net.pc = "recv"
    /\ closing.pc = "running" => \A i \in ThreadIds : ~interrupted[i]
    /\ closing.pc \in {"stop", "notify"} => interrupted[closing.at]

LEMMA ClosingStep == TypeOK /\ ClosingInv /\ [Next]_vars => ClosingInv'
  <1> SUFFICES ASSUME MainOK, ThreadsOK, ClosingInv, [Next]_vars
               PROVE  ClosingInv'
    BY Parts
  <1>0. /\ interrupted \in [ThreadIds -> BOOLEAN]
        /\ closing.at \in ThreadIds
    BY DEF ThreadsOK, MainOK
  <1> USE DEF ClosingInv
  <1>1. CASE UNCHANGED vars
    BY <1>1 DEF vars, netVars, stopVars
  <1>2. ASSUME NEW i \in ThreadIds,
               WorkerStep(i) \/ WakeSpuriously(i) \/ Fail(i)
        PROVE  ClosingInv'
    <2>1. UNCHANGED <<net, interrupted, closing>>
      BY <1>2 DEF WorkerStep, TestRun, Wait, Wake, Publish, PublishTooLate,
         StopComputing, Reset, Unbusy, Unlock, WakeSpuriously, Fail, netVars,
         stopVars
    <2> QED
      BY <2>1
  <1>3. CASE Receive \/ ReaderStep
    BY <1>3 DEF Receive, ReaderStep, FindThread, TestBusy, SetBusy, Pass,
       stopVars
  <1>4. CASE DestroyClient \/ StopRunning \/ NotifyStop
    <2>1. CASE DestroyClient
      BY <1>0, <2>1 DEF DestroyClient, netVars, MainOK
    <2>2. CASE StopRunning
      BY <1>0, <2>2 DEF StopRunning, netVars, MainOK
    <2>3. CASE NotifyStop
      BY <1>0, <2>3 DEF NotifyStop, netVars, MainOK
    <2> QED
      BY <1>4, <2>1, <2>2, <2>3
  <1>5. CASE Interrupt
    BY <1>0, <1>5 DEF Interrupt, netVars, MainOK
  <1>6. CASE Join
    BY <1>0, <1>6 DEF Join, netVars, MainOK
  <1> QED
    BY <1>1, <1>2, <1>3, <1>4, <1>5, <1>6 DEF Next, MainStep

(***************************************************************************)
(* As long as wait() returns only when it was notified, a thread that is   *)
(* awake is busy, or was woken to exit; the reader gives a unit only to a  *)
(* thread that is asleep or about to sleep.                                *)
(***************************************************************************)
BusyInv ==
    spurious = 0 =>
        /\ \A i \in ThreadIds :
              /\ Computing(i) => busy[i]
              /\ pc[i] \in Active => busy[i] \/ interrupted[i]
        /\ net.pc = "set" => ~busy[net.at]
        /\ net.pc = "pass" => busy[net.at] /\ pc[net.at] \notin Active

(* The counters of wakeups and failures only grow.                         *)
LEMMA CountsGrow ==
    TypeOK /\ [Next]_vars =>
        /\ spurious' = 0 => spurious = 0 /\ ~\E i \in ThreadIds : WakeSpuriously(i)
        /\ failures' = 0 => failures = 0 /\ ~\E i \in ThreadIds : Fail(i)
  <1> SUFFICES ASSUME MainOK, [Next]_vars
               PROVE  /\ spurious' = 0 =>
                             spurious = 0 /\ ~\E i \in ThreadIds : WakeSpuriously(i)
                      /\ failures' = 0 =>
                             failures = 0 /\ ~\E i \in ThreadIds : Fail(i)
    BY Parts
  <1>a. spurious \in 0..MaxSpurious /\ failures \in 0..MaxFailures
    BY DEF MainOK
  <1>0. spurious \in Nat /\ failures \in Nat
    BY <1>a
  <1>1. CASE \E i \in ThreadIds : WakeSpuriously(i) \/ Fail(i)
    BY <1>0, <1>1 DEF WakeSpuriously, Fail
  <1>2. CASE ~\E i \in ThreadIds : WakeSpuriously(i) \/ Fail(i)
    <2>1. UNCHANGED countVars
      BY <1>2 DEF vars, Next, WorkerStep, TestRun, Wait, Wake, Publish,
         PublishTooLate, StopComputing, Reset, Unbusy, Unlock, Receive,
         ReaderStep, FindThread, TestBusy, SetBusy, Pass, DestroyClient,
         MainStep, Interrupt, StopRunning, NotifyStop, Join
    <2> QED
      BY <1>2, <2>1 DEF countVars
  <1> QED
    BY <1>1, <1>2

LEMMA BusyStep ==
    TypeOK /\ ClosingInv /\ BusyInv /\ [Next]_vars => BusyInv'
  <1> SUFFICES ASSUME TypeOK, NetOK, MainOK, ThreadsOK, ClosingInv, BusyInv,
                      [Next]_vars, spurious' = 0
               PROVE  BusyInv'
    BY Parts DEF BusyInv
  <1>0. /\ pc \in [ThreadIds -> Places]
        /\ busy \in [ThreadIds -> BOOLEAN]
        /\ interrupted \in [ThreadIds -> BOOLEAN]
        /\ net.at \in ThreadIds /\ closing.at \in ThreadIds
        /\ spurious = 0
        /\ ~\E i \in ThreadIds : WakeSpuriously(i)
    BY CountsGrow DEF NetOK, MainOK, ThreadsOK
  <1>a. net.pc # "recv" => ~interrupted[net.at]
    BY <1>0 DEF ClosingInv
  <1> USE DEF BusyInv, Computing, Active
  <1>1. CASE UNCHANGED vars
    BY <1>0, <1>1 DEF vars, netVars, stopVars
  <1>2. ASSUME NEW i \in ThreadIds, WorkerStep(i) \/ Fail(i)
        PROVE  BusyInv'
    <2>1. UNCHANGED <<net.pc, net.at, interrupted>>
      BY <1>2 DEF WorkerStep, TestRun, Wait, Wake, Publish, PublishTooLate,
         StopComputing, Reset, Unbusy, Unlock, Fail, netVars, stopVars
    <2>2. CASE TestRun(i) \/ Wait(i) \/ Unlock(i)
      BY <1>0, <2>1, <2>2 DEF TestRun, Wait, Unlock, Goto
    <2>3. CASE Wake(i)
      BY <1>0, <2>1, <2>3 DEF Wake, Goto, On
    <2>4. CASE Publish(i) \/ PublishTooLate(i) \/ Reset(i)
      BY <1>0, <2>1, <2>4 DEF Publish, PublishTooLate, Reset, Goto, On
    <2>5. CASE StopComputing(i) \/ Fail(i)
      BY <1>0, <2>1, <2>5 DEF StopComputing, Fail, Goto, On
    <2>6. CASE Unbusy(i)
      BY <1>0, <2>1, <2>6 DEF Unbusy, Goto, On
    <2> QED
      BY <1>2, <2>2, <2>3, <2>4, <2>5, <2>6 DEF WorkerStep
  <1>3. CASE Receive \/ FindThread
    <2>1. net'.pc \in {"find", "submit"}
      <3>1. CASE Receive
        BY <3>1 DEF Receive
      <3>2. CASE FindThread
        BY <3>2 DEF FindThread, NetOK
      <3> QED
        BY <1>3, <3>1, <3>2
    <2>2. UNCHANGED <<busy, pc, interrupted>>
      BY <1>3 DEF Receive, FindThread, stopVars
    <2> QED
      BY <1>0, <2>1, <2>2
  <1>4. CASE TestBusy
    BY <1>0, <1>4 DEF TestBusy, stopVars, NetOK
  <1>5. CASE SetBusy
    <2>1. /\ busy' = [busy EXCEPT ![net.at] = TRUE]
          /\ UNCHANGED <<pc, interrupted>>
          /\ net.pc = "set" /\ net'.pc = "pass" /\ net'.at = net.at
      BY <1>5 DEF SetBusy, stopVars, NetOK
    <2>2. pc[net.at] \notin Active
      BY <1>0, <1>a, <2>1
    <2> QED
      BY <1>0, <2>1, <2>2
  <1>6. CASE Pass
    <2>1. /\ net.pc = "pass" /\ net'.pc = "recv"
          /\ UNCHANGED <<busy, interrupted>>
          /\ \A j \in ThreadIds :
                pc'[j] = pc[j] \/ (j = net.at /\ pc'[j] = "woken")
      BY <1>0, <1>6 DEF Pass, Notify, Idle, stopVars
    <2> QED
      BY <1>0, <2>1
  <1>7. CASE DestroyClient \/ StopRunning \/ Join
    BY <1>0, <1>7 DEF DestroyClient, StopRunning, Join, netVars
  <1>8. CASE Interrupt
    BY <1>0, <1>8 DEF Interrupt, netVars
  <1>9. CASE NotifyStop
    <2>1. interrupted[closing.at] /\ net.pc = "recv"
      BY <1>9 DEF NotifyStop, ClosingInv
    <2>2. /\ UNCHANGED <<net, busy, interrupted>>
          /\ \A j \in ThreadIds :
                pc'[j] = pc[j] \/ (j = closing.at /\ pc'[j] = "woken")
      BY <1>0, <1>9 DEF NotifyStop, Notify, netVars
    <2> QED
      BY <1>0, <2>1, <2>2
  <1> QED
    BY <1>0, <1>1, <1>2, <1>3, <1>4, <1>5, <1>6, <1>7, <1>8, <1>9
       DEF Next, ReaderStep, MainStep

LEMMA BusyCorrect == Spec => [](TypeOK /\ ClosingInv /\ BusyInv)
  <1>1. Init => ClosingInv /\ BusyInv
    <2> SUFFICES ASSUME Init
                 PROVE  ClosingInv /\ BusyInv
      OBVIOUS
    <2>1. /\ net.pc = "recv" /\ closing.pc = "running"
          /\ \A i \in ThreadIds : pc[i] = "test" /\ ~interrupted[i]
      BY DEF Init, Idle
    <2> QED
      BY <2>1 DEF ClosingInv, BusyInv, Computing, Active
  <1> QED
    BY <1>1, ClosingStep, BusyStep, Typing, PTL DEF Spec

(* is_busy is true of a thread that computes, unless wait() returned       *)
(* without a notification.                                                 *)
THEOREM ComputingIsBusy == Spec => []BusyWhileComputing
  <1>1. BusyInv => BusyWhileComputing
    BY DEF BusyInv, BusyWhileComputing
  <1> QED
    BY <1>1, BusyCorrect, PTL

(* As long as no computation fails either, a unit is held by busy threads. *)
HeldInv ==
    spurious = 0 /\ failures = 0 =>
        /\ \A i \in ThreadIds :
              /\ next_work_unit[i] # 0 => busy[i] \/ interrupted[i]
              /\ pc[i] = "unbusy" => next_work_unit[i] = 0 \/ interrupted[i]
        /\ net.pc \in {"set", "pass"} => next_work_unit[net.at] = 0

LEMMA HeldStep ==
    TypeOK /\ ClosingInv /\ BusyInv /\ HeldInv /\ [Next]_vars => HeldInv'
  <1> SUFFICES ASSUME TypeOK, NetOK, MainOK, ThreadsOK, ClosingInv, BusyInv,
                      HeldInv, [Next]_vars, spurious' = 0, failures' = 0
               PROVE  HeldInv'
    BY Parts DEF HeldInv
  <1>0. /\ pc \in [ThreadIds -> Places]
        /\ busy \in [ThreadIds -> BOOLEAN]
        /\ next_work_unit \in [ThreadIds -> 0..MaxUnits]
        /\ interrupted \in [ThreadIds -> BOOLEAN]
        /\ net.at \in ThreadIds /\ closing.at \in ThreadIds
        /\ spurious = 0 /\ failures = 0
        /\ ~\E i \in ThreadIds : WakeSpuriously(i) \/ Fail(i)
    BY CountsGrow DEF NetOK, MainOK, ThreadsOK
  <1>a. net.pc # "recv" => ~interrupted[net.at]
    BY <1>0 DEF ClosingInv
  <1> USE DEF HeldInv
  <1>1. CASE UNCHANGED vars
    BY <1>0, <1>1 DEF vars, netVars, stopVars
  <1>2. ASSUME NEW i \in ThreadIds, WorkerStep(i)
        PROVE  HeldInv'
    <2>1. UNCHANGED <<net.pc, net.at, interrupted>>
      BY <1>2 DEF WorkerStep, TestRun, Wait, Wake, Publish, PublishTooLate,
         StopComputing, Reset, Unbusy, Unlock, netVars, stopVars
    <2>2. CASE TestRun(i) \/ Wait(i) \/ Unlock(i)
      BY <1>0, <2>1, <2>2 DEF TestRun, Wait, Unlock, Goto
    <2>3. CASE Wake(i)
      BY <1>0, <2>1, <2>3 DEF Wake, Goto, On
    <2>4. CASE Publish(i) \/ PublishTooLate(i)
      BY <1>0, <2>1, <2>4 DEF Publish, PublishTooLate, Goto
    <2>5. CASE StopComputing(i)
      BY <1>0, <2>1, <2>5 DEF StopComputing, Goto
    <2>6. CASE Reset(i)
      <3>1. /\ next_work_unit' = [next_work_unit EXCEPT ![i] = 0]
            /\ pc' = [pc EXCEPT ![i] = "unbusy"]
            /\ busy' = busy
        BY <2>6 DEF Reset, Goto
      <3> QED
        BY <1>0, <2>1, <3>1
    <2>7. CASE Unbusy(i)
      <3>1. /\ busy' = [busy EXCEPT ![i] = FALSE]
            /\ pc' = [pc EXCEPT ![i] = "unlock"]
            /\ next_work_unit' = next_work_unit
            /\ next_work_unit[i] = 0 \/ interrupted[i]
        BY <1>0, <2>7 DEF Unbusy, Goto, On
      <3> QED
        BY <1>0, <2>1, <3>1
    <2> QED
      BY <1>2, <2>2, <2>3, <2>4, <2>5, <2>6, <2>7 DEF WorkerStep
  <1>3. CASE Receive \/ FindThread
    <2>1. net'.pc \in {"find", "submit"}
      <3>1. CASE Receive
        BY <3>1 DEF Receive
      <3>2. CASE FindThread
        BY <3>2 DEF FindThread, NetOK
      <3> QED
        BY <1>3, <3>1, <3>2
    <2>2. UNCHANGED <<busy, pc, interrupted, next_work_unit>>
      BY <1>3 DEF Receive, FindThread, stopVars
    <2> QED
      BY <1>0, <2>1, <2>2
  <1>4. CASE TestBusy \/ SetBusy
    <2>1. /\ net'.pc \in {"set", "pass", "submit"} /\ net'.at = net.at
          /\ net'.pc \in {"set", "pass"} => net.pc = "set" \/ ~busy[net.at]
          /\ busy' = busy \/ busy' = [busy EXCEPT ![net.at] = TRUE]
          /\ UNCHANGED <<pc, interrupted, next_work_unit>>
          /\ net.pc # "recv"
      BY <1>4 DEF TestBusy, SetBusy, stopVars, NetOK
    <2> QED
      BY <1>0, <1>a, <2>1
  <1>5. CASE Pass
    <2>1. /\ net.pc = "pass" /\ net'.pc = "recv"
          /\ UNCHANGED <<busy, interrupted>>
          /\ next_work_unit' = [next_work_unit EXCEPT ![net.at] = net.unit]
          /\ \A j \in ThreadIds : pc'[j] = "unbusy" => pc[j] = "unbusy"
      BY <1>0, <1>5 DEF Pass, Notify, Idle, stopVars
    <2>2. busy[net.at] /\ pc[net.at] # "unbusy"
      BY <1>0, <2>1 DEF BusyInv, Active
    <2> QED
      BY <1>0, <2>1, <2>2
  <1>6. CASE DestroyClient \/ StopRunning \/ Join
    BY <1>0, <1>6 DEF DestroyClient, StopRunning, Join, netVars
  <1>7. CASE Interrupt
    BY <1>0, <1>7 DEF Interrupt, netVars
  <1>8. CASE NotifyStop
    <2>1. /\ UNCHANGED <<net, busy, interrupted, next_work_unit>>
          /\ \A j \in ThreadIds : pc'[j] = "unbusy" => pc[j] = "unbusy"
      BY <1>0, <1>8 DEF NotifyStop, Notify, netVars
    <2> QED
      BY <1>0, <2>1
  <1> QED
    BY <1>0, <1>1, <1>2, <1>3, <1>4, <1>5, <1>6, <1>7, <1>8
       DEF Next, ReaderStep, MainStep

(* Without spurious wakeup and failed computation no unit is given to a    *)
(* thread that has one.                                                    *)
THEOREM UnitsKept == Spec => NeverReplaced
  <1>1. Init => HeldInv
    <2> SUFFICES ASSUME Init
                 PROVE  HeldInv
      OBVIOUS
    <2>1. /\ net.pc = "recv"
          /\ \A i \in ThreadIds : pc[i] = "test" /\ next_work_unit[i] = 0
      BY DEF Init, Idle
    <2> QED
      BY <2>1 DEF HeldInv
  <1>2. TypeOK /\ HeldInv /\ [Next]_vars =>
            [\A i \in ThreadIds :
               spurious = 0 /\ failures = 0 /\ next_work_unit[i] # 0 =>
                   next_work_unit'[i] \in {next_work_unit[i], 0}]_vars
    <2> SUFFICES ASSUME TypeOK, NetOK, ThreadsOK, HeldInv, Next,
                        NEW i \in ThreadIds,
                        spurious = 0, failures = 0, next_work_unit[i] # 0
                 PROVE  next_work_unit'[i] \in {next_work_unit[i], 0}
      BY Parts
    <2>0. /\ next_work_unit \in [ThreadIds -> 0..MaxUnits]
          /\ net.at \in ThreadIds
      BY DEF ThreadsOK, NetOK
    <2>1. CASE SamePlaces
      BY <2>1 DEF SamePlaces
    <2>2. ASSUME NEW j \in ThreadIds, Publish(j) \/ Reset(j)
          PROVE  next_work_unit'[i] \in {next_work_unit[i], 0}
      BY <2>0, <2>2 DEF Publish, Reset
    <2>3. CASE Receive
      BY <2>3 DEF Receive
    <2>4. CASE Pass
      BY <2>0, <2>4 DEF Pass, HeldInv
    <2> QED
      BY <2>1, <2>2, <2>3, <2>4, UnitMoves
  <1> QED
    BY <1>1, <1>2, HeldStep, BusyCorrect, PTL DEF Spec, NeverReplaced

-----------------------------------------------------------------------------
(* Requests *)

LEMMA UnpublishedFinite ==
    /\ IsFiniteSet(Unpublished)
    /\ Cardinality(Unpublished) \in Nat
  <1>1. IsFiniteSet(ThreadIds)
    BY FS_Interval DEF ThreadIds
  <1>2. Unpublished \in SUBSET ThreadIds
    BY DEF Unpublished
  <1> QED
    BY <1>1, <1>2, FS_Subset, FS_CardinalityType

LEMMA RequestsStep ==
    TypeOK /\ HasUnit /\ AtMostOnePerThread /\ [Next]_vars
        => AtMostOnePerThread'
  <1> SUFFICES ASSUME NetOK, MainOK, ThreadsOK, HasUnit, TypeOK,
                      AtMostOnePerThread, [Next]_vars,
                      closing'.pc = "running"
               PROVE  requests' + Undelivered' + Cardinality(Unpublished')
                          <= NThreads
    BY Parts DEF AtMostOnePerThread
  <1>0. /\ pc \in [ThreadIds -> Places]
        /\ next_work_unit \in [ThreadIds -> 0..MaxUnits]
        /\ net.at \in ThreadIds
        /\ requests \in Nat
    BY DEF ThreadsOK, NetOK
  <1>a. closing.pc = "running"
    <2>1. CASE UNCHANGED closing
      BY <2>1
    <2>2. ASSUME NEW i \in ThreadIds,
                 WorkerStep(i) \/ WakeSpuriously(i) \/ Fail(i)
          PROVE  UNCHANGED closing
      BY <2>2 DEF WorkerStep, TestRun, Wait, Wake, Publish, PublishTooLate,
         StopComputing, Reset, Unbusy, Unlock, WakeSpuriously, Fail, stopVars
    <2>3. CASE Receive \/ ReaderStep
      BY <2>3 DEF Receive, ReaderStep, FindThread, TestBusy, SetBusy, Pass,
         stopVars
    <2>4. ~Interrupt /\ ~StopRunning /\ ~NotifyStop /\ ~Join
      <3>1. \A p : [closing EXCEPT !.pc = p].pc = p
        BY DEF MainOK
      <3>2. ~Interrupt
        BY <3>1 DEF Interrupt
      <3>3. ~StopRunning
        BY <3>1 DEF StopRunning
      <3>4. ~NotifyStop
        BY <3>1 DEF NotifyStop
      <3>5. ~Join
        <4> SUFFICES ASSUME Join
                     PROVE  FALSE
          OBVIOUS
        <4>1. \/ closing' = [pc |-> "interrupt", at |-> closing.at + 1]
              \/ closing' = [closing EXCEPT !.pc = "done"]
          BY DEF Join
        <4>2. CASE closing' = [pc |-> "interrupt", at |-> closing.at + 1]
          <5>1. closing'.pc = "interrupt"
            BY <4>2
          <5> QED
            BY <5>1
        <4>3. CASE closing' = [closing EXCEPT !.pc = "done"]
          BY <3>1, <4>3
        <4> QED
          BY <4>1, <4>2, <4>3
      <3> QED
        BY <3>2, <3>3, <3>4, <3>5
    <2>5. CASE DestroyClient
      BY <2>5 DEF DestroyClient
    <2> QED
      BY <2>1, <2>2, <2>3, <2>4, <2>5 DEF Next, MainStep, vars, stopVars
  <1>b. /\ requests + Undelivered + Cardinality(Unpublished) <= NThreads
        /\ Undelivered \in {0, 1}
        /\ IsFiniteSet(Unpublished) /\ Cardinality(Unpublished) \in Nat
    BY <1>a, UnpublishedFinite DEF AtMostOnePerThread, Undelivered
  <1>1. CASE SamePlaces
    <2>1. requests' = requests
      BY <1>1 DEF SamePlaces
    <2>2. Undelivered' = Undelivered
      BY <1>1 DEF SamePlaces, Undelivered
    <2>3. Unpublished' \in SUBSET Unpublished
      BY <1>1 DEF SamePlaces, Unpublished
    <2>4. Cardinality(Unpublished') <= Cardinality(Unpublished)
          /\ Cardinality(Unpublished') \in Nat
      BY <1>b, <2>3, FS_Subset, FS_CardinalityType
    <2> QED
      BY <1>0, <1>b, <2>1, <2>2, <2>4
  <1>2. ASSUME NEW i \in ThreadIds, Publish(i)
        PROVE  requests' + Undelivered' + Cardinality(Unpublished') <= NThreads
    <2>1. /\ requests' = requests + 1 /\ Undelivered' = Undelivered
          /\ pc' = [pc EXCEPT ![i] = "reset"]
          /\ next_work_unit' = next_work_unit
          /\ pc[i] = "compute" /\ next_work_unit[i] # 0
      BY <1>2 DEF Publish, Undelivered, Goto, On, HasUnit, Computing
    <2>2. i \in Unpublished
      BY <2>1 DEF Unpublished
    <2>3. Unpublished' = Unpublished \ {i}
      BY <1>0, <2>1 DEF Unpublished
    <2>4. Cardinality(Unpublished') = Cardinality(Unpublished) - 1
      BY <1>b, <2>2, <2>3, FS_RemoveElement
    <2> QED
      BY <1>0, <1>b, <2>1, <2>4
  <1>3. ASSUME NEW i \in ThreadIds, Reset(i)
        PROVE  requests' + Undelivered' + Cardinality(Unpublished') <= NThreads
    <2>1. /\ requests' = requests /\ Undelivered' = Undelivered
          /\ pc' = [pc EXCEPT ![i] = "unbusy"]
          /\ next_work_unit' = [next_work_unit EXCEPT ![i] = 0]
          /\ pc[i] = "reset"
      BY <1>3 DEF Reset, Undelivered, Goto, On, netVars
    <2>2. Unpublished' = Unpublished
      BY <1>0, <2>1 DEF Unpublished
    <2> QED
      BY <1>b, <2>1, <2>2
  <1>4. CASE Receive
    <2>1. /\ requests' = requests - 1
          /\ Undelivered = 0 /\ Undelivered' = 1
          /\ Unpublished' = Unpublished
      BY <1>4 DEF Receive, Undelivered, Unpublished
    <2> QED
      BY <1>0, <1>b, <2>1
  <1>5. CASE Pass
    <2>1. /\ requests' = requests
          /\ Undelivered = 1 /\ Undelivered' = 0
      BY <1>5 DEF Pass, Undelivered, Idle
    <2>2. Unpublished' \in SUBSET (Unpublished \union {net.at})
      BY <1>0, <1>5 DEF Pass, Notify, Unpublished, MutexFree
    <2>3. /\ IsFiniteSet(Unpublished \union {net.at})
          /\ Cardinality(Unpublished \union {net.at}) <= Cardinality(Unpublished) + 1
          /\ Cardinality(Unpublished \union {net.at}) \in Nat
      <3>1. /\ IsFiniteSet(Unpublished \union {net.at})
            /\ Cardinality(Unpublished \union {net.at}) =
                   IF net.at \in Unpublished THEN Cardinality(Unpublished)
                                            ELSE Cardinality(Unpublished) + 1
        BY <1>b, FS_AddElement
      <3> QED
        BY <1>b, <3>1
    <2>4. Cardinality(Unpublished') <= Cardinality(Unpublished) + 1
          /\ Cardinality(Unpublished') \in Nat
      BY <1>b, <2>2, <2>3, FS_Subset, FS_CardinalityType
    <2> QED
      BY <1>0, <1>b, <2>1, <2>4
  <1> QED
    BY <1>1, <1>2, <1>3, <1>4, <1>5, UnitMoves

(* The requests not answered and the units without a result are never      *)
(* more than the threads, whatever fails or wakes without reason.          *)
THEOREM OneRequestPerThread == Spec => []AtMostOnePerThread
  <1>1. Init => AtMostOnePerThread
    <2> SUFFICES ASSUME Init
                 PROVE  AtMostOnePerThread
      OBVIOUS
    <2>1. requests = NThreads /\ Undelivered = 0 /\ Unpublished = {}
      BY DEF Init, Idle, Undelivered, Unpublished
    <2> QED
      BY <2>1, FS_EmptySet DEF AtMostOnePerThread
  <1> QED
    BY <1>1, RequestsStep, Typing, PTL DEF Spec

=============================================================================
