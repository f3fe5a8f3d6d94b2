------------------------ MODULE ClientConnectionProofs ------------------------
(***************************************************************************)
(* Theorems about the worker's connection, for any number of messages and  *)
(* of broken connections: nothing that was sent is dropped, doubled or     *)
(* reordered, and a destructor that waited leaves no result behind.        *)
(***************************************************************************)
EXTENDS ClientConnection, TLAPS

USE BoundsAssumption

-----------------------------------------------------------------------------
(* Types *)

(* A queue with one message more. *)
LEMMA PushType ==
    ASSUME pushed \in Nat, outgoing \in Seq(1..pushed), Push
    PROVE  /\ pushed' \in Nat
           /\ pushed' = pushed + 1
           /\ outgoing' \in Seq(1..pushed')
           /\ written' = written
           /\ 1..pushed \subseteq 1..pushed'
  <1>1. pushed' = pushed + 1 /\ written' = written
        /\ outgoing' = Append(outgoing, pushed + 1)
    BY DEF Push, push
  <1>2. outgoing \in Seq(1..(pushed + 1))
    <2>1. \A i \in 1..Len(outgoing) : outgoing[i] \in 1..(pushed + 1)
      OBVIOUS
    <2> QED
      BY <2>1
  <1> QED
    BY <1>1, <1>2

(* The two halves of the type invariant. *)
PlacesOK ==
    /\ is_connected \in BOOLEAN /\ run \in BOOLEAN
    /\ socket \in {"closed", "up", "down", "shut"}
    /\ reader \in {"test", "mode", "read", "lost", "close", "attempt",
                   "connected", "helo", "again", "exited"}
    /\ main \in {"constructing", "running", "destroying", "wait", "stop",
                 "mode", "shutdown", "join_reader", "join_writer", "done",
                 "terminated"}
    /\ waited \in BOOLEAN /\ reachable \in BOOLEAN
    /\ sends \in 0..MaxSends /\ cuts \in 0..MaxCuts
    /\ connects \in Nat

QueueOK ==
    /\ pushed \in Nat
    /\ outgoing \in Seq(1..pushed)
    /\ written \subseteq 1..pushed
    /\ writer \in [pc : {"test", "pop", "mode", "write", "lost", "back", "exited"},
                   msg : 0..pushed]
    /\ Holding => writer.msg # 0
    /\ goodbye \in 0..pushed

LEMMA Halves == TypeOK <=> PlacesOK /\ QueueOK
  BY DEF TypeOK, PlacesOK, QueueOK

LEMMA PlacesStep == PlacesOK /\ [Next]_vars => PlacesOK'
  <1> SUFFICES ASSUME PlacesOK, [Next]_vars
               PROVE  PlacesOK'
    OBVIOUS
  <1> USE DEF PlacesOK, flags, destruction, counts
  <1>1. CASE UNCHANGED vars
    BY <1>1 DEF vars
  <1>2. CASE Reader
    <2>1. CASE ReaderTest \/ ReaderMode \/ Read \/ ReadFails \/ ReaderLost
      BY <2>1 DEF ReaderTest, ReaderMode, Read, ReadFails, ReaderLost
    <2>2. CASE CloseSocket \/ ConnectFails
      BY <2>2 DEF CloseSocket, ConnectFails
    <2>4. CASE ConnectSucceeds
      <3>1. connects' \in Nat /\ sends' = sends /\ cuts' = cuts
        BY <2>4 DEF ConnectSucceeds
      <3> QED
        BY <2>4, <3>1 DEF ConnectSucceeds
    <2>3. CASE SetConnected \/ SendHelo \/ ConnectAgain
      BY <2>3 DEF SetConnected, SendHelo, ConnectAgain
    <2> QED
      BY <1>2, <2>1, <2>2, <2>3, <2>4 DEF Reader
  <1>3. CASE Writer
    <2>1. CASE WriterTest \/ Pop \/ WriterMode
      BY <2>1 DEF WriterTest, Pop, WriterMode
    <2>2. CASE Write \/ WriteFails
      BY <2>2 DEF Write, WriteFails
    <2>3. CASE WriterLost \/ PushBack
      BY <2>3 DEF WriterLost, PushBack
    <2> QED
      BY <1>3, <2>1, <2>2, <2>3 DEF Writer
  <1>4. CASE Main
    <2>1. CASE EndConstructor \/ TestOpen \/ WaitSent \/ Stop
      BY <2>1 DEF EndConstructor, TestOpen, WaitSent, Stop
    <2>2. CASE MainMode \/ Shutdown \/ ShutdownThrows \/ JoinReader \/ JoinWriter
      BY <2>2 DEF MainMode, Shutdown, ShutdownThrows, JoinReader, JoinWriter
    <2> QED
      BY <1>4, <2>1, <2>2 DEF Main
  <1>5. CASE Send \/ SendGoodbye
    BY <1>5 DEF Send, SendGoodbye
  <1>6. CASE Cut \/ GoAway
    <2>1. CASE Cut
      <3>1. cuts' \in 0..MaxCuts
        BY <2>1 DEF Cut
      <3> QED
        BY <2>1, <3>1 DEF Cut
    <2>2. CASE GoAway
      BY <2>2 DEF GoAway
    <2> QED
      BY <1>6, <2>1, <2>2
  <1> QED
    BY <1>1, <1>2, <1>3, <1>4, <1>5, <1>6 DEF Next

(* What a step does to queue, writer and GoodBye, told by its kind. *)
Quiet == UNCHANGED <<queue, writer, goodbye>>
Pushing ==
    /\ Push
    /\ UNCHANGED writer
    /\ goodbye' \in {goodbye, pushed + 1}

LEMMA StepKinds ==
    [Next]_vars => \/ Quiet \/ Pushing
                   \/ WriterTest \/ Pop \/ WriterMode \/ Write \/ WriteFails
                   \/ WriterLost \/ PushBack
  <1> SUFFICES ASSUME [Next]_vars, ~Writer
               PROVE  Quiet \/ Pushing
    BY DEF Writer
  <1> USE DEF Quiet, Pushing, destruction
  <1>1. CASE UNCHANGED vars
    BY <1>1 DEF vars
  <1>2. CASE Reader
    BY <1>2 DEF Reader, ReaderTest, ReaderMode, Read, ReadFails, ReaderLost,
       CloseSocket, ConnectFails, ConnectSucceeds, SetConnected, SendHelo,
       ConnectAgain
  <1>3. CASE Main
    BY <1>3 DEF Main, EndConstructor, TestOpen, WaitSent, Stop, MainMode,
       Shutdown, ShutdownThrows, JoinReader, JoinWriter
  <1>4. CASE Send \/ SendGoodbye
    BY <1>4 DEF Send, SendGoodbye
  <1>5. CASE Cut \/ GoAway
    BY <1>5 DEF Cut, GoAway
  <1> QED
    BY <1>1, <1>2, <1>3, <1>4, <1>5 DEF Next

LEMMA QueueStep == QueueOK /\ [Next]_vars => QueueOK'
  <1> SUFFICES ASSUME QueueOK, [Next]_vars
               PROVE  QueueOK'
    OBVIOUS
  <1> USE DEF QueueOK, Holding
  <1>1. CASE Quiet
    BY <1>1 DEF Quiet, queue
  <1>2. CASE Pushing
    <2>1. /\ pushed' \in Nat /\ pushed' = pushed + 1
          /\ outgoing' \in Seq(1..pushed') /\ written' = written
      BY <1>2, PushType DEF Pushing
    <2> QED
      BY <1>2, <2>1 DEF Pushing
  <1>3. CASE Pop
    <2>1. outgoing # <<>> /\ outgoing' = Tail(outgoing)
          /\ writer' = [pc |-> "mode", msg |-> Head(outgoing)]
      BY <1>3 DEF Pop, empty, front, pop
    <2>2. Head(outgoing) \in 1..pushed /\ Tail(outgoing) \in Seq(1..pushed)
      BY <2>1
    <2> QED
      BY <1>3, <2>1, <2>2 DEF Pop, destruction
  <1>4. CASE PushBack
    <2>1. writer.msg \in 1..pushed /\ outgoing' = <<writer.msg>> \o outgoing
      BY <1>4 DEF PushBack, push_front, WriterAt
    <2>2. outgoing' \in Seq(1..pushed)
      BY <2>1
    <2> QED
      BY <1>4, <2>2 DEF PushBack, WriterGoto, destruction
  <1>5. CASE WriterTest \/ WriterMode \/ WriteFails \/ WriterLost
    BY <1>5 DEF WriterTest, WriterMode, WriteFails, WriterLost, WriterAt,
       WriterGoto, queue, destruction
  <1>6. CASE Write
    BY <1>6 DEF Write, WriterAt, WriterGoto, destruction
  <1> QED
    BY <1>1, <1>2, <1>3, <1>4, <1>5, <1>6, StepKinds

(* The variables keep their types. *)
THEOREM TypeCorrect == Spec => []TypeOK
  <1>1. Init => PlacesOK /\ QueueOK
    <2> SUFFICES ASSUME Init
                 PROVE  PlacesOK /\ QueueOK
      OBVIOUS
    <2>1. PlacesOK
      <3>1. sends \in 0..MaxSends /\ cuts \in 0..MaxCuts /\ connects \in Nat
        BY DEF Init
      <3>2. is_connected \in BOOLEAN /\ run \in BOOLEAN
            /\ waited \in BOOLEAN /\ reachable \in BOOLEAN
        BY DEF Init
      <3> QED
        BY <3>1, <3>2 DEF Init, PlacesOK
    <2>2. outgoing \in Seq(1..pushed)
      BY DEF Init
    <2>3. QueueOK
      BY <2>2 DEF Init, QueueOK, Holding
    <2> QED
      BY <2>1, <2>3
  <1>2. (PlacesOK /\ QueueOK) /\ [Next]_vars => (PlacesOK /\ QueueOK)'
    BY PlacesStep, QueueStep
  <1> QED
    BY <1>1, <1>2, Halves, PTL DEF Spec

-----------------------------------------------------------------------------
(* Order *)

(***************************************************************************)
(* The queue holds the last messages pushed, in their order; the writer    *)
(* has the one before them, and those before that are written.             *)
(***************************************************************************)
Before == pushed - Len(outgoing)

InOrder ==
    /\ Len(outgoing) <= pushed
    /\ \A i \in 1..Len(outgoing) : outgoing[i] = Before + i
    /\ Holding => writer.msg = Before
    /\ written = 1..(IF Holding THEN Before - 1 ELSE Before)

LEMMA OrderStep == QueueOK /\ InOrder /\ [Next]_vars => InOrder'
  <1> SUFFICES ASSUME QueueOK, InOrder, [Next]_vars
               PROVE  InOrder'
    OBVIOUS
  <1>0. /\ Before \in Nat /\ Len(outgoing) \in Nat /\ pushed \in Nat
        /\ Len(outgoing) = pushed - Before
    BY DEF QueueOK, InOrder, Before
  <1>1. CASE Quiet
    BY <1>1 DEF Quiet, queue, InOrder, Before, Holding
  <1>2. CASE Pushing
    <2>1. outgoing' = Append(outgoing, pushed + 1) /\ pushed' = pushed + 1
          /\ UNCHANGED <<written, writer>>
      BY <1>2 DEF Pushing, Push, push
    <2>2. Len(outgoing') = Len(outgoing) + 1 /\ Before' = Before
      BY <1>0, <2>1 DEF QueueOK, Before
    <2>3. ASSUME NEW i \in 1..Len(outgoing')
          PROVE  outgoing'[i] = Before + i
      <3>1. CASE i \in 1..Len(outgoing)
        BY <2>1, <3>1 DEF QueueOK, InOrder
      <3>2. CASE i = Len(outgoing) + 1
        BY <1>0, <2>1, <3>2 DEF QueueOK
      <3> QED
        BY <1>0, <2>2, <3>1, <3>2
    <2> QED
      BY <1>0, <2>1, <2>2, <2>3 DEF InOrder, Holding
  <1>3. CASE Pop
    <2>1. outgoing # <<>> /\ outgoing' = Tail(outgoing)
          /\ writer' = [pc |-> "mode", msg |-> Head(outgoing)]
          /\ UNCHANGED <<pushed, written>> /\ ~Holding
      BY <1>3 DEF Pop, empty, front, pop, Holding, WriterAt
    <2>2. Len(outgoing') = Len(outgoing) - 1 /\ Before' = Before + 1
      BY <1>0, <2>1 DEF QueueOK, Before
    <2>3. Head(outgoing) = Before + 1
      BY <1>0, <2>1 DEF QueueOK, InOrder
    <2>4. \A i \in 1..Len(outgoing') : outgoing'[i] = Before' + i
      BY <1>0, <2>1, <2>2 DEF QueueOK, InOrder
    <2>5. Holding' /\ writer'.msg = Before'
      BY <2>1, <2>2, <2>3 DEF Holding
    <2>6. written' = 1..(Before' - 1)
      BY <1>0, <2>1, <2>2 DEF InOrder
    <2> QED
      BY <1>0, <2>1, <2>2, <2>4, <2>5, <2>6 DEF InOrder
  <1>4. CASE PushBack
    <2>1. /\ outgoing' = <<writer.msg>> \o outgoing
          /\ UNCHANGED <<pushed, written>>
          /\ Holding /\ ~Holding'
      BY <1>4 DEF PushBack, push_front, Holding, WriterAt, WriterGoto, QueueOK
    <2>2. writer.msg = Before /\ Before # 0
      BY <2>1 DEF InOrder, QueueOK
    <2>3. Len(outgoing') = Len(outgoing) + 1 /\ Before' = Before - 1
      BY <1>0, <2>1 DEF QueueOK, Before
    <2>4. ASSUME NEW i \in 1..Len(outgoing')
          PROVE  outgoing'[i] = Before' + i
      <3>1. CASE i = 1
        BY <1>0, <2>1, <2>2, <2>3, <3>1 DEF QueueOK
      <3>2. CASE i # 1
        <4>1. i - 1 \in 1..Len(outgoing) /\ outgoing'[i] = outgoing[i - 1]
          BY <1>0, <2>1, <2>3, <3>2 DEF QueueOK
        <4> QED
          BY <1>0, <2>3, <4>1 DEF InOrder
      <3> QED
        BY <3>1, <3>2
    <2>5. written' = 1..Before'
      BY <1>0, <2>1, <2>3 DEF InOrder
    <2> QED
      BY <1>0, <2>1, <2>2, <2>3, <2>4, <2>5 DEF InOrder
  <1>5. CASE WriterTest \/ WriterMode \/ WriteFails \/ WriterLost
    <2>1. UNCHANGED queue /\ writer'.msg = writer.msg /\ (Holding <=> Holding')
      BY <1>5 DEF WriterTest, WriterMode, WriteFails, WriterLost, WriterAt,
         WriterGoto, Holding, queue, QueueOK
    <2> QED
      BY <2>1 DEF InOrder, Before, queue
  <1>6. CASE Write
    <2>1. /\ written' = written \union {writer.msg}
          /\ UNCHANGED <<outgoing, pushed>>
          /\ Holding /\ ~Holding'
      BY <1>6 DEF Write, WriterAt, WriterGoto, Holding, QueueOK
    <2>2. writer.msg = Before /\ Before # 0 /\ Before' = Before
      BY <2>1 DEF InOrder, QueueOK, Before
    <2>3. written' = 1..Before
      BY <1>0, <2>1, <2>2 DEF InOrder
    <2> QED
      BY <2>1, <2>2, <2>3 DEF InOrder
  <1> QED
    BY <1>1, <1>2, <1>3, <1>4, <1>5, <1>6, StepKinds

LEMMA OrderCorrect == Spec => [](TypeOK /\ InOrder)
  <1>1. Init => InOrder
    <2> SUFFICES ASSUME Init
                 PROVE  InOrder
      OBVIOUS
    <2>1. Len(outgoing) = 0 /\ pushed = 0 /\ written = {} /\ ~Holding
      BY DEF Init, Holding
    <2> QED
      BY <2>1 DEF InOrder, Before
  <1>2. TypeOK /\ InOrder /\ [Next]_vars => InOrder'
    BY OrderStep, Halves
  <1> QED
    BY <1>1, <1>2, TypeCorrect, PTL DEF Spec

(* No message is forgotten and none is in two places, or twice in one.     *)
(* (ClientConnection's reader, writer and main thread in any order.)       *)
THEOREM NoneDropped == Spec => []NothingDropped
  <1>1. TypeOK /\ InOrder => NothingDropped
    <2> SUFFICES ASSUME TypeOK, InOrder, NEW n \in 1..pushed
                 PROVE  /\ n \in written \/ InQueue(n) \/ InHand(n)
                        /\ n \in written => ~InQueue(n) /\ ~InHand(n)
                        /\ InQueue(n) => ~InHand(n)
                        /\ \A i, j \in DOMAIN outgoing :
                               outgoing[i] = n /\ outgoing[j] = n => i = j
      BY DEF NothingDropped
    <2>1. /\ Before \in Nat /\ pushed = Before + Len(outgoing)
          /\ Len(outgoing) \in Nat /\ DOMAIN outgoing = 1..Len(outgoing)
          /\ n \in Nat /\ n >= 1 /\ n <= pushed
      BY DEF InOrder, Before, TypeOK
    <2>2. InQueue(n) <=> n > Before
      <3>1. ASSUME n > Before
            PROVE  InQueue(n)
        <4>1. n - Before \in 1..Len(outgoing)
          BY <2>1, <3>1
        <4>2. outgoing[n - Before] = n
          BY <2>1, <4>1 DEF InOrder
        <4> QED
          BY <2>1, <4>1, <4>2 DEF InQueue
      <3>2. ASSUME InQueue(n)
            PROVE  n > Before
        BY <2>1, <3>2 DEF InQueue, InOrder
      <3> QED
        BY <3>1, <3>2
    <2>3. InHand(n) <=> Holding /\ n = Before
      BY DEF InHand, InOrder
    <2>4. n \in written <=> (n < Before \/ (n = Before /\ ~Holding))
      <3>1. CASE Holding
        BY <2>1, <3>1 DEF InOrder
      <3>2. CASE ~Holding
        BY <2>1, <3>2 DEF InOrder
      <3> QED
        BY <3>1, <3>2
    <2>5. \A i, j \in DOMAIN outgoing :
              outgoing[i] = n /\ outgoing[j] = n => i = j
      BY <2>1 DEF InOrder
    <2> QED
      BY <2>1, <2>2, <2>3, <2>4, <2>5
  <1> QED
    BY <1>1, OrderCorrect, PTL

(* A message is written after all that were sent before it, also when its  *)
(* first write failed and it went back to the front of the queue.          *)
THEOREM WrittenInOrder == Spec => SentInOrder
  <1>1. TypeOK /\ InOrder /\ [Next]_vars
          => [\A n \in written' \ written : \A m \in written : m < n]_vars
    <2> SUFFICES ASSUME TypeOK, InOrder, [Next]_vars,
                        NEW n \in written' \ written, NEW m \in written
                 PROVE  m < n
      OBVIOUS
    <2>1. Write
      BY StepKinds DEF Quiet, queue, Pushing, Push, WriterTest, Pop, WriterMode,
         WriteFails, WriterLost, PushBack
    <2>2. n = writer.msg /\ Holding
      BY <2>1 DEF Write, WriterAt, Holding
    <2>3. n = Before /\ Before \in Int /\ written = 1..(Before - 1)
      BY <2>2 DEF InOrder, Before, TypeOK
    <2> QED
      BY <2>3
  <1> QED
    BY <1>1, OrderCorrect, PTL DEF Spec, SentInOrder

-----------------------------------------------------------------------------
(* The destructor *)

(* It has not waited before it has begun. *)
DestructorInv ==
    /\ main \in {"constructing", "running", "destroying"} => ~waited
    /\ ResultsSentBeforeClose

LEMMA WrittenGrows == [Next]_vars => written \subseteq written'
  BY StepKinds DEF Quiet, queue, Pushing, Push, WriterTest, Pop, WriterMode,
     Write, WriteFails, WriterLost, PushBack

LEMMA DestructorStep ==
    TypeOK /\ InOrder /\ DestructorInv /\ [Next]_vars => DestructorInv'
  <1> SUFFICES ASSUME TypeOK, InOrder, DestructorInv, [Next]_vars
               PROVE  DestructorInv'
    OBVIOUS
  <1>0. written \subseteq written'
    BY WrittenGrows
  <1>1. CASE UNCHANGED destruction /\ main' = main
    BY <1>0, <1>1 DEF destruction, DestructorInv, ResultsSentBeforeClose
  <1>2. CASE Main
    <2>1. CASE WaitSent
      <3>1. outgoing = <<>> /\ main' = "stop" /\ goodbye' = goodbye
            /\ written' = written
        BY <2>1 DEF WaitSent, empty, destruction, queue
      <3>2. 1..(pushed - 1) \subseteq written
        BY <3>1 DEF InOrder, Before, TypeOK
      <3>3. 1..(goodbye - 1) \subseteq 1..(pushed - 1)
        BY DEF TypeOK
      <3> QED
        BY <3>1, <3>2, <3>3 DEF DestructorInv, ResultsSentBeforeClose
    <2>2. CASE EndConstructor
      BY <2>2 DEF EndConstructor, MainAt, destruction, DestructorInv,
         ResultsSentBeforeClose
    <2>3. CASE TestOpen
      BY <2>3 DEF TestOpen, MainAt, DestructorInv, ResultsSentBeforeClose
    <2>4. CASE Stop \/ MainMode \/ Shutdown \/ ShutdownThrows \/ JoinReader
               \/ JoinWriter
      BY <1>0, <2>4 DEF Stop, MainMode, Shutdown, ShutdownThrows, JoinReader,
         JoinWriter, MainAt, destruction, DestructorInv, ResultsSentBeforeClose
    <2> QED
      BY <1>2, <2>1, <2>2, <2>3, <2>4 DEF Main
  <1>3. CASE SendGoodbye
    BY <1>3 DEF SendGoodbye, MainAt, DestructorInv, ResultsSentBeforeClose
  <1>4. CASE ~Main /\ ~SendGoodbye
    <2>1. UNCHANGED destruction /\ main' = main
      BY <1>4 DEF Next, vars, Reader, ReaderTest, ReaderMode, Read, ReadFails,
         ReaderLost, CloseSocket, ConnectFails, ConnectSucceeds, SetConnected,
         SendHelo, ConnectAgain, Writer, WriterTest, Pop, WriterMode, Write,
         WriteFails, WriterLost, PushBack, Send, Cut, GoAway
    <2> QED
      BY <1>1, <2>1
  <1> QED
    BY <1>2, <1>3, <1>4

(* A destructor that waited leaves no message before GoodBye unwritten. *)
THEOREM ResultsSent == Spec => []ResultsSentBeforeClose
  <1>1. Init => DestructorInv
    BY DEF Init, DestructorInv, ResultsSentBeforeClose
  <1>2. DestructorInv => ResultsSentBeforeClose
    BY DEF DestructorInv
  <1> QED
    BY <1>1, <1>2, DestructorStep, OrderCorrect, PTL DEF Spec
=============================================================================
