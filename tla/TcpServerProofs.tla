---------------------------- MODULE TcpServerProofs ----------------------------
(***************************************************************************)
(* Theorems about the coordinator's connections, for any number of them,   *)
(* of messages and of losses.                                              *)
(*                                                                         *)
(* A step changes the owners of one connection at most, or none.  So most  *)
(* of what is proved is about one connection c and is stated for each: its *)
(* destructor begins when nobody owns it, and nobody ever does again.      *)
(***************************************************************************)
EXTENDS TcpServer, SequenceTheorems, TLAPS

USE BoundsAssumption

-----------------------------------------------------------------------------
(* Types *)

Names == (Sides \X Connections)
             \union ({"acceptor", "remover", "main", "nobody"} \X {None})
Places == {"none", "test", "read", "handle", "pop", "write", "lost", "report",
           "reported", "enqueue", "enqueued", "exited"}
DestructorPlaces == {"none", "test", "wait", "shutdown", "join_reader",
                     "join_writer", "done"}

MainPlaces == {"running", "send", "join_acceptor", "queue", "push_null",
               "join_remover", "clear_list", "clear_queue", "stopped"}

(* The server's threads, and which connections there are. *)
MainOK ==
    /\ main \in [pc : MainPlaces, con : 0..accepted, held : BOOLEAN]
    /\ main.held => main.con # None
QueueOK ==
    /\ con_removal_queue \in Seq(0..accepted)
    /\ active_connections \subseteq 1..accepted
ServerOK ==
    /\ process \in {"up", "bad_weak_ptr", "joined_itself", "use_after_free",
                    "list_corrupted"}
    /\ accepted \in 0..MaxChanges
    /\ losses \in Nat
    /\ run_acceptor \in BOOLEAN /\ run_con_remover \in BOOLEAN
    /\ acceptor \in [pc : {"accept", "link", "start", "drop", "test", "exited"},
                     con : 0..accepted]
    /\ acceptor.con # None <=> acceptor.pc \in {"link", "start", "drop"}
    /\ remover \in [pc : {"pop", "remove", "drop", "empty", "test", "exited"},
                    con : 0..accepted]
    /\ remover.con # None <=> remover.pc \in {"remove", "drop"}
    /\ QueueOK /\ MainOK

(* The connections' threads and destructors, and what they write. *)
ConnectionsOK ==
    /\ is_connected \in [Connections -> BOOLEAN]
    /\ destructor \in [Connections -> [pc : DestructorPlaces, by : Names]]
    /\ threads \in [Sides -> [Connections -> Places]]
    /\ \A c \in Connections :
          c > accepted => \A s \in Sides : threads[s][c] = "none"
    /\ shut \in [Connections -> BOOLEAN]
    /\ peer \in [Connections -> BOOLEAN]

MessagesOK ==
    /\ outgoing \in [Connections -> Seq(Messages)]
    /\ writing \in [Connections -> Messages]
    /\ messages \in 0..MaxMessages
    /\ inbox \in [Connections -> 0..messages]
    /\ reports \in [Connections -> Nat]
    /\ owed \subseteq 1..accepted

Shape == ServerOK /\ ConnectionsOK /\ MessagesOK

(* A GoodBye is written only where send_all put it. *)
Says(c, m) == \E i \in DOMAIN outgoing[c] : outgoing[c][i] = m
GoodbyesOwed ==
    /\ \A c \in Connections :
          Says(c, "goodbye") \/ writing[c] = "goodbye" => c \in owed
    /\ told \subseteq owed

(* The destructor has joined the threads, and runs only without owners. *)
Unowned(c) == Dying(c) => Owners(c) = {} /\ c <= accepted
Joined(c) ==
    /\ destructor[c].pc \in {"join_writer", "done"} =>
          threads["reader"][c] = "exited"
    /\ destructor[c].pc = "done" => threads["writer"][c] = "exited"
LifeInv == \A c \in Connections : Unowned(c) /\ Joined(c)

(* A thread of c may still report its loss. *)
May(s, c) ==
    IF \/ threads[s][c] \in {"none", "read", "handle", "pop", "write", "lost",
                             "report"}
       \/ threads[s][c] = "test" /\ is_connected[c]
    THEN 1 ELSE 0
AtMostTwo(c) ==
    /\ reports[c] + May("reader", c) + May("writer", c) <= 2
    /\ \A s \in Sides :
          /\ threads[s][c] \in {"report", "reported", "enqueue", "enqueued"}
                => ~is_connected[c]
          /\ acceptor.pc \in {"link", "start"} /\ acceptor.con = c
                => threads[s][c] = "none"

(* Who deals with the loss of c. *)
Going(c) ==
    \/ \E s \in Sides : threads[s][c] \in {"reported", "enqueue", "enqueued"}
    \/ /\ main.pc \in {"running", "send", "join_acceptor"}
       /\ \/ InQueue(c)
          \/ remover.con = c
          \/ c <= accepted /\ c \notin active_connections
             /\ ~(acceptor.con = c /\ acceptor.pc = "link")
Known(c) == Going(c) => reports[c] >= 1
ReportInv == \A c \in Connections : AtMostTwo(c) /\ Known(c)

(* A connection whose client is there. *)
LateThreads == {"lost", "report", "reported", "enqueue", "enqueued"}
Sound(c) ==
    /\ shut[c] => destructor[c].pc \in {"join_reader", "join_writer", "done"}
    /\ peer[c] /\ ~shut[c] =>
          is_connected[c] /\ \A s \in Sides : threads[s][c] \notin LateThreads
    /\ peer[c] => threads["writer"][c] # "lost"
Emptied(c) ==
    peer[c] /\ destructor[c].pc \in {"shutdown", "join_reader", "join_writer", "done"}
        => \A m : Says(c, m) => m = Wake
ToldLater(c) ==
    peer[c] /\ c \in owed /\ c \notin told =>
        \/ Says(c, "goodbye")
        \/ writing[c] = "goodbye" /\ threads["writer"][c] = "write"
SentInv == \A c \in Connections : Sound(c) /\ Emptied(c) /\ ToldLater(c)

LEMMA ShapeTypes == Shape /\ GoodbyesOwed => TypeOK
  <1> SUFFICES ASSUME Shape, GoodbyesOwed
               PROVE  TypeOK
    OBVIOUS
  <1>1. inbox \in [Connections -> 0..MaxMessages]
    BY DEF Shape, MessagesOK
  <1> QED
    BY <1>1 DEF Shape, ServerOK, QueueOK, MainOK, ConnectionsOK, MessagesOK,
                GoodbyesOwed, TypeOK

(* A step of a reader or a writer, of a destructor, of the acceptor, of    *)
(* the remover, of the main thread, or of the network.                     *)
LEMMA Steps ==
    ASSUME [Next]_vars
    PROVE  \/ \E c \in Connections, s \in Sides : Side(s, c)
           \/ \E c \in Connections : \/ Read(c) \/ Handle(c) \/ ReadFails(c)
                                     \/ Pop(c) \/ Write(c) \/ WriteFails(c)
           \/ \E c \in Connections : Destructor(c)
           \/ Link \/ Start \/ DropNew \/ TestAcceptor \/ AcceptThrows \/ Accept
           \/ Remover
           \/ Stopping \/ BeginStop
           \/ ListRace
           \/ \E c \in Connections : ClientSends(c) \/ ClientLost(c)
           \/ UNCHANGED vars
  BY DEF Next, Program, ReaderThread, WriterThread, Sides

ServerVars == <<accepted, active_connections, con_removal_queue, run_acceptor,
                run_con_remover, acceptor, remover, main, losses>>

LEMMA ServerSame ==
    ASSUME ServerOK, UNCHANGED ServerVars,
           \/ UNCHANGED process
           \/ process' \in {"bad_weak_ptr", "joined_itself", "use_after_free",
                            "list_corrupted"}
    PROVE  ServerOK'
  BY DEF ServerOK, QueueOK, MainOK, ServerVars

LEMMA ServerStep == Shape /\ [Next]_vars => ServerOK'
  <1> SUFFICES ASSUME ServerOK, ConnectionsOK, [Next]_vars
               PROVE  ServerOK'
    BY DEF Shape
  <1> USE DEF server, network, history, coordinator, messaging, connection,
              outside, vars
  <1>1. ASSUME NEW c \in Connections, NEW s \in Sides, Side(s, c)
        PROVE  ServerOK'
    <2>1. CASE Enqueue(s, c)
      <3>1. c \in 0..accepted
        BY <2>1 DEF Enqueue, At, ConnectionsOK, ServerOK, Connections
      <3>2. /\ con_removal_queue' = Append(con_removal_queue, c)
               \/ con_removal_queue' = con_removal_queue
            /\ UNCHANGED <<accepted, active_connections, run_acceptor,
                           run_con_remover, acceptor, remover, main, losses>>
            /\ process' \in {process, "bad_weak_ptr"}
        BY <2>1 DEF Enqueue, push
      <3>3. con_removal_queue' \in Seq(0..accepted)
        <4>1. con_removal_queue \in Seq(0..accepted)
          BY DEF ServerOK, QueueOK
        <4>2. Append(con_removal_queue, c) \in Seq(0..accepted)
          BY <3>1, <4>1, AppendProperties
        <4> QED
          BY <3>2, <4>1, <4>2
      <3> QED
        BY <3>2, <3>3 DEF ServerOK, QueueOK, MainOK
    <2>2. CASE \/ LoopTest(s, c) \/ Lost(s, c) \/ Report(s, c) \/ Reported(s, c)
               \/ EnqueueLate(s, c) \/ Enqueued(s, c)
      <3>1. UNCHANGED ServerVars
            /\ process' \in {process, "bad_weak_ptr", "use_after_free"}
        BY <2>2 DEF LoopTest, Lost, Report, Reported, EnqueueLate, Enqueued,
                    Moves, Ends, ServerVars
      <3> QED
        BY <3>1, ServerSame
    <2> QED
      BY <1>1, <2>1, <2>2 DEF Side
  <1>2. ASSUME NEW c \in Connections,
               \/ Read(c) \/ Handle(c) \/ ReadFails(c)
               \/ Pop(c) \/ Write(c) \/ WriteFails(c)
        PROVE  ServerOK'
    <2>1. UNCHANGED ServerVars /\ process' \in {process, "bad_weak_ptr"}
      BY <1>2 DEF Read, Handle, ReadFails, Pop, Write, WriteFails, Moves,
                  ServerVars
    <2> QED
      BY <2>1, ServerSame
  <1>3. ASSUME NEW c \in Connections, Destructor(c)
        PROVE  ServerOK'
    <2>1. UNCHANGED ServerVars /\ process' \in {process, "joined_itself"}
      BY <1>3 DEF Destructor, TestConnected, WaitSent, ShutdownReceive,
                  JoinReader, JoinWriter, JoinSelf, DestructorMoves, Ends,
                  ServerVars
    <2> QED
      BY <2>1, ServerSame
  <1>4. CASE Accept
    BY <1>4 DEF ServerOK, QueueOK, MainOK, Accept, AcceptorAt, None
  <1>5. CASE Link \/ Start \/ DropNew \/ TestAcceptor \/ AcceptThrows
    BY <1>5 DEF ServerOK, QueueOK, MainOK, Link, Start, DropNew, TestAcceptor, AcceptThrows,
                AcceptorAt, AcceptorMoves, None
  <1>6. CASE PopRemoved
    <2>1. con_removal_queue # <<>>
      BY <1>6 DEF PopRemoved, empty
    <2>2. Head(con_removal_queue) \in 0..accepted
          /\ Tail(con_removal_queue) \in Seq(0..accepted)
      BY <2>1 DEF ServerOK, QueueOK, MainOK
    <2> QED
      BY <1>6, <2>2 DEF ServerOK, QueueOK, MainOK, PopRemoved, front, pop, None
  <1>7. CASE Remove \/ DropRemoved \/ TestEmpty \/ TestRemover
    BY <1>7 DEF ServerOK, QueueOK, MainOK, Remove, DropRemoved, TestEmpty, TestRemover,
                RemoverAt, RemoverMoves, None
  <1>8. ASSUME UNCHANGED <<accepted, losses, acceptor, remover>>,
               run_acceptor' \in BOOLEAN, run_con_remover' \in BOOLEAN,
               process' = process, MainOK', QueueOK'
        PROVE  ServerOK'
    BY <1>8 DEF ServerOK
  <1>9. CASE EndOfSendAll \/ StopRemover
    <2>1. MainOK'
      <3>1. /\ main' = [main EXCEPT !.pc = "join_acceptor", !.con = 0]
               \/ main' = [main EXCEPT !.pc = "push_null", !.con = 0]
            /\ ~main.held /\ accepted' = accepted
        BY <1>9 DEF EndOfSendAll, StopRemover, None
      <3>2. /\ main'.pc \in MainPlaces /\ main'.con = 0 /\ main'.held = FALSE
            /\ main' = [pc |-> main'.pc, con |-> 0, held |-> FALSE]
        BY <3>1 DEF ServerOK, MainOK, MainPlaces
      <3>3. 0 \in 0..accepted
        BY DEF ServerOK
      <3> QED
        BY <3>1, <3>2, <3>3 DEF MainOK
    <2>2. QueueOK'
      BY <1>9 DEF EndOfSendAll, StopRemover, ServerOK, QueueOK
    <2> QED
      BY <1>8, <1>9, <2>1, <2>2 DEF EndOfSendAll, StopRemover, ServerOK
  <1>10. CASE DropVisited \/ JoinAcceptor \/ JoinRemover \/ ListCleared
              \/ QueueCleared \/ BeginStop
    <2>1. MainOK'
      BY <1>10 DEF DropVisited, JoinAcceptor, JoinRemover, ListCleared,
                   QueueCleared, BeginStop, MainMoves, ServerOK, MainOK,
                   MainPlaces, None
    <2>2. UNCHANGED <<process, server, accepted, losses, acceptor, remover>>
      BY <1>10 DEF DropVisited, JoinAcceptor, JoinRemover, ListCleared,
                   QueueCleared, BeginStop, MainMoves
    <2>3. QueueOK'
      BY <2>2 DEF ServerOK, QueueOK
    <2> QED
      BY <1>8, <2>1, <2>2, <2>3 DEF ServerOK
  <1>11. CASE SendGoodbye \/ QueueConnection
    <2>1. PICK c \in active_connections :
             /\ main' = [main EXCEPT !.con = c, !.held = TRUE]
             /\ \/ con_removal_queue' = con_removal_queue
                \/ con_removal_queue' = Append(con_removal_queue, c)
      BY <1>11 DEF SendGoodbye, QueueConnection, push
    <2>2. UNCHANGED <<process, active_connections, run_acceptor, run_con_remover,
                      accepted, losses, acceptor, remover>>
      BY <1>11 DEF SendGoodbye, QueueConnection
    <2>3. c \in 1..accepted /\ c \in 0..accepted
      BY DEF ServerOK, QueueOK
    <2>4. QueueOK'
      <3>1. con_removal_queue \in Seq(0..accepted)
        BY DEF ServerOK, QueueOK
      <3>2. Append(con_removal_queue, c) \in Seq(0..accepted)
        BY <2>3, <3>1, AppendProperties
      <3> QED
        BY <2>1, <2>2, <3>1, <3>2 DEF ServerOK, QueueOK
    <2>5. MainOK'
      <3>1. main' = [pc |-> main.pc, con |-> c, held |-> TRUE]
            /\ main.pc \in MainPlaces
        BY <2>1 DEF ServerOK, MainOK
      <3> QED
        BY <2>2, <2>3, <3>1 DEF MainOK, None
    <2> QED
      BY <1>8, <2>2, <2>4, <2>5 DEF ServerOK
  <1>12. CASE PushNull
    <2>1. QueueOK' /\ MainOK'
      BY <1>12 DEF PushNull, push, ServerOK, QueueOK, MainOK, MainPlaces, None
    <2> QED
      BY <1>8, <1>12, <2>1 DEF ServerOK, PushNull
  <1>13. CASE ClearList
    BY <1>13 DEF ServerOK, QueueOK, MainOK, ClearList
  <1>14. CASE ClearQueue
    <2>1. con_removal_queue # <<>>
      BY <1>14 DEF ClearQueue, empty
    <2>2. Tail(con_removal_queue) \in Seq(0..accepted)
      BY <2>1 DEF ServerOK, QueueOK, MainOK
    <2> QED
      BY <1>14, <2>2 DEF ServerOK, QueueOK, MainOK, ClearQueue, pop
  <1>15. CASE ListRace \/ IteratorFreed \/ UNCHANGED vars
    <2>1. UNCHANGED ServerVars
          /\ process' \in {process, "list_corrupted", "use_after_free"}
      BY <1>15 DEF ListRace, IteratorFreed, Ends, ServerVars
    <2> QED
      BY <2>1, ServerSame
  <1>16. ASSUME NEW c \in Connections, ClientSends(c)
         PROVE  ServerOK'
    BY <1>16, ServerSame DEF ClientSends, ServerVars
  <1>17. ASSUME NEW c \in Connections, ClientLost(c)
         PROVE  ServerOK'
    <2>1. UNCHANGED <<process, accepted, active_connections, con_removal_queue,
                      run_acceptor, run_con_remover, acceptor, remover, main>>
          /\ losses' = losses + 1
      BY <1>17 DEF ClientLost
    <2> QED
      BY <2>1 DEF ServerOK, QueueOK, MainOK
  <1> QED
    BY Steps, <1>1, <1>2, <1>3, <1>4, <1>5, <1>6, <1>7, <1>9, <1>10, <1>11,
       <1>12, <1>13, <1>14, <1>15, <1>16, <1>17 DEF Remover, Stopping

LEMMA NamesType ==
    /\ \A s \in Sides, c \in Connections : ThreadName(s, c) \in Names
    /\ ThreadName("acceptor", None) \in Names
    /\ ThreadName("remover", None) \in Names /\ MainThread \in Names
  BY DEF ThreadName, MainThread, Names, Sides

LEMMA ReleaseType ==
    ASSUME destructor \in [Connections -> [pc : DestructorPlaces, by : Names]],
           NEW c, NEW o, NEW t \in Names, Release(c, o, t)
    PROVE  destructor' \in [Connections -> [pc : DestructorPlaces, by : Names]]
  BY DEF Release, DestructorPlaces

LEMMA DestructorGotoType ==
    ASSUME destructor \in [Connections -> [pc : DestructorPlaces, by : Names]],
           NEW c \in Connections, NEW p \in DestructorPlaces, DestructorGoto(c, p)
    PROVE  /\ destructor' \in [Connections -> [pc : DestructorPlaces, by : Names]]
           /\ destructor'[c].pc = p
           /\ \A d \in Connections : d # c => destructor'[d] = destructor[d]
  <1>1. destructor' = [destructor EXCEPT ![c] = [@ EXCEPT !.pc = p]]
    BY DEF DestructorGoto
  <1>2. destructor[c] \in [pc : DestructorPlaces, by : Names]
    OBVIOUS
  <1>3. /\ [destructor[c] EXCEPT !.pc = p] \in [pc : DestructorPlaces, by : Names]
        /\ [destructor[c] EXCEPT !.pc = p].pc = p
    BY <1>2
  <1> QED
    BY <1>1, <1>3

LEMMA GotoType ==
    ASSUME threads \in [Sides -> [Connections -> Places]],
           NEW s \in Sides, NEW c \in Connections, NEW p \in Places, Goto(s, c, p)
    PROVE  /\ threads' \in [Sides -> [Connections -> Places]]
           /\ threads'[s][c] = p
           /\ \A r \in Sides, d \in Connections :
                 r # s \/ d # c => threads'[r][d] = threads[r][d]
  BY DEF Goto

(* What the steps of a reader, a writer and a destructor change.           *)
LEMMA SideMoves ==
    ASSUME NEW s \in Sides, NEW c \in Connections,
           \/ Side(s, c)
           \/ s = "reader" /\ (Read(c) \/ Handle(c) \/ ReadFails(c))
           \/ s = "writer" /\ (Pop(c) \/ Write(c) \/ WriteFails(c))
    PROVE  /\ Up /\ threads[s][c] \notin {"none", "exited"}
           /\ \/ threads' = threads
              \/ \E p \in Places \ {"none"} : Goto(s, c, p)
           /\ destructor' = destructor \/ Release(c, s, ThreadName(s, c))
           /\ \/ is_connected' = is_connected
              \/ is_connected' = [is_connected EXCEPT ![c] = FALSE]
           /\ UNCHANGED <<accepted, shut, peer, acceptor, active_connections,
                          main, remover, messages, owed>>
  <1> USE DEF server, network, history, coordinator, messaging, connection,
              outside, vars
  <1>1. CASE LoopTest(s, c)
    BY <1>1 DEF LoopTest, At, Moves, Places
  <1>2. CASE Lost(s, c)
    BY <1>2 DEF Lost, At, Places
  <1>3. CASE Report(s, c)
    BY <1>3 DEF Report, At, Places
  <1>4. CASE Reported(s, c) \/ Enqueued(s, c)
    BY <1>4 DEF Reported, Enqueued, At, Places
  <1>5. CASE Enqueue(s, c)
    BY <1>5 DEF Enqueue, At, Places
  <1>6. CASE EnqueueLate(s, c)
    BY <1>6 DEF EnqueueLate, At, Ends
  <1>7. CASE s = "reader" /\ (Read(c) \/ Handle(c) \/ ReadFails(c))
    BY <1>7 DEF Read, Handle, ReadFails, At, Moves, Places
  <1>8. CASE s = "writer" /\ (Pop(c) \/ Write(c) \/ WriteFails(c))
    BY <1>8 DEF Pop, Write, WriteFails, At, Moves, Places
  <1> QED
    BY <1>1, <1>2, <1>3, <1>4, <1>5, <1>6, <1>7, <1>8 DEF Side

LEMMA DestructorMove ==
    ASSUME NEW c \in Connections, Destructor(c)
    PROVE  /\ Up /\ destructor[c].pc # "none"
           /\ UNCHANGED <<accepted, peer, threads, is_connected, server,
                          acceptor, remover, main, inbox, messages, writing,
                          history>>
           /\ \/ destructor' = destructor
              \/ \E p \in DestructorPlaces \ {"none"} : DestructorGoto(c, p)
           /\ shut' = shut \/ shut' = [shut EXCEPT ![c] = TRUE]
  <1> USE DEF server, network, history, coordinator, messaging, connection,
              outside, vars, DestructorPlaces
  <1>1. CASE TestConnected(c) \/ WaitSent(c)
    BY <1>1 DEF TestConnected, WaitSent, DestructorAt, DestructorMoves
  <1>2. CASE ShutdownReceive(c)
    BY <1>2 DEF ShutdownReceive, DestructorAt
  <1>3. CASE JoinReader(c) \/ JoinWriter(c)
    BY <1>3 DEF JoinReader, JoinWriter, DestructorAt, DestructorMoves
  <1>4. CASE JoinSelf(c)
    BY <1>4 DEF JoinSelf, DestructorAt, Ends
  <1> QED
    BY <1>1, <1>2, <1>3, <1>4 DEF Destructor

(* The server's steps leave the connections' threads as they are, but for  *)
(* Start; a shared_ptr may be dropped.                                     *)
LEMMA ServerMoves ==
    ASSUME \/ Link \/ DropNew \/ TestAcceptor \/ AcceptThrows \/ Accept
           \/ Remover \/ Stopping \/ BeginStop \/ ListRace \/ UNCHANGED vars
    PROVE  /\ UNCHANGED <<threads, is_connected, shut, peer, reports, inbox,
                          messages, writing, told>>
           /\ \/ destructor' = destructor
              \/ \E o \in {"acceptor", "remover", "main", "list", "queue"} :
                 \E t \in {ThreadName("acceptor", None), MainThread,
                           ThreadName("remover", None)} :
                 \E c \in {acceptor.con, remover.con, main.con}
                              \union active_connections
                              \union {front(con_removal_queue)} :
                    Release(c, o, t)
           /\ accepted' = accepted \/ accepted' = accepted + 1
           /\ outgoing' = outgoing \/ SendGoodbye
           /\ owed' = owed \/ SendGoodbye
  <1> USE DEF server, network, history, coordinator, messaging, connection,
              outside, vars
  <1>1. CASE Link \/ DropNew \/ TestAcceptor \/ AcceptThrows \/ Accept
    BY <1>1 DEF Link, DropNew, TestAcceptor, AcceptThrows, Accept, AcceptorMoves
  <1>2. CASE Remover
    BY <1>2 DEF Remover, PopRemoved, Remove, DropRemoved, TestEmpty,
                TestRemover, RemoverMoves
  <1>3. CASE BeginStop \/ IteratorFreed \/ EndOfSendAll \/ JoinAcceptor
             \/ StopRemover \/ PushNull \/ JoinRemover \/ ListCleared
             \/ QueueCleared \/ ListRace \/ UNCHANGED vars
    BY <1>3 DEF BeginStop, IteratorFreed, EndOfSendAll, JoinAcceptor,
                StopRemover, PushNull, JoinRemover, ListCleared, QueueCleared,
                ListRace, MainMoves, Ends
  <1>4. CASE SendGoodbye \/ QueueConnection
    BY <1>4 DEF SendGoodbye, QueueConnection
  <1>5. CASE DropVisited
    BY <1>5 DEF DropVisited
  <1>6. CASE ClearList
    BY <1>6 DEF ClearList
  <1>7. CASE ClearQueue
    BY <1>7 DEF ClearQueue
  <1> QED
    BY <1>1, <1>2, <1>3, <1>4, <1>5, <1>6, <1>7 DEF Stopping

(* Every step is of one of these kinds. *)
LEMMA StepKinds ==
    ASSUME [Next]_vars
    PROVE  \/ \E c \in Connections, s \in Sides :
                \/ Side(s, c)
                \/ s = "reader" /\ (Read(c) \/ Handle(c) \/ ReadFails(c))
                \/ s = "writer" /\ (Pop(c) \/ Write(c) \/ WriteFails(c))
           \/ \E c \in Connections : Destructor(c)
           \/ \/ Link \/ DropNew \/ TestAcceptor \/ AcceptThrows \/ Accept
              \/ Remover \/ Stopping \/ BeginStop \/ ListRace \/ UNCHANGED vars
           \/ Start
           \/ \E c \in Connections : ClientSends(c) \/ ClientLost(c)
  BY Steps DEF Sides

LEMMA ConnectionsStep == Shape /\ [Next]_vars => ConnectionsOK'
  <1> SUFFICES ASSUME ServerOK, ConnectionsOK, [Next]_vars
               PROVE  ConnectionsOK'
    BY DEF Shape
  <1> USE DEF ConnectionsOK
  <1>1. ASSUME NEW c \in Connections, NEW s \in Sides,
               \/ Side(s, c)
               \/ s = "reader" /\ (Read(c) \/ Handle(c) \/ ReadFails(c))
               \/ s = "writer" /\ (Pop(c) \/ Write(c) \/ WriteFails(c))
        PROVE  ConnectionsOK'
    <2>1. destructor' \in [Connections -> [pc : DestructorPlaces, by : Names]]
      BY <1>1, SideMoves, ReleaseType, NamesType
    <2>2. is_connected' \in [Connections -> BOOLEAN]
          /\ UNCHANGED <<shut, peer, accepted>>
      BY <1>1, SideMoves
    <2>3. threads' = threads \/ \E p \in Places : Goto(s, c, p)
      BY <1>1, SideMoves
    <2>4. ~(c > accepted)
      BY <1>1, SideMoves
    <2>5. /\ threads' \in [Sides -> [Connections -> Places]]
          /\ \A d \in Connections :
               d > accepted' => \A r \in Sides : threads'[r][d] = "none"
      <3>1. CASE threads' = threads
        BY <2>2, <3>1
      <3>2. ASSUME NEW p \in Places, Goto(s, c, p)
            PROVE  /\ threads' \in [Sides -> [Connections -> Places]]
                   /\ \A d \in Connections : d > accepted =>
                        \A r \in Sides : threads'[r][d] = "none"
        <4>1. /\ threads' \in [Sides -> [Connections -> Places]]
              /\ \A r \in Sides, d \in Connections :
                   r # s \/ d # c => threads'[r][d] = threads[r][d]
          BY <3>2, GotoType
        <4> QED
          BY <2>4, <4>1
      <3> QED
        BY <2>2, <2>3, <3>1, <3>2
    <2> QED
      BY <2>1, <2>2, <2>5
  <1>2. ASSUME NEW c \in Connections, Destructor(c)
        PROVE  ConnectionsOK'
    <2>1. destructor' \in [Connections -> [pc : DestructorPlaces, by : Names]]
      BY <1>2, DestructorMove, DestructorGotoType
    <2>2. shut' \in [Connections -> BOOLEAN]
          /\ UNCHANGED <<accepted, peer, threads, is_connected>>
      BY <1>2, DestructorMove
    <2> QED
      BY <2>1, <2>2
  <1>3. CASE \/ Link \/ DropNew \/ TestAcceptor \/ AcceptThrows \/ Accept
             \/ Remover \/ Stopping \/ BeginStop \/ ListRace \/ UNCHANGED vars
    <2>1. destructor' \in [Connections -> [pc : DestructorPlaces, by : Names]]
      BY <1>3, ServerMoves, ReleaseType, NamesType
    <2>2. UNCHANGED <<threads, is_connected, shut, peer>>
          /\ (accepted' = accepted \/ accepted' = accepted + 1)
      BY <1>3, ServerMoves
    <2>3. \A c \in Connections : c > accepted' => c > accepted
      BY <2>2 DEF ServerOK, Connections
    <2> QED
      BY <2>1, <2>2, <2>3
  <1>4. CASE Start
    <2>1. /\ threads' = [r \in Sides |-> [threads[r] EXCEPT ![acceptor.con] = "test"]]
          /\ UNCHANGED <<destructor, is_connected, shut, peer, accepted>>
      BY <1>4 DEF Start, messaging, outside, network
    <2>2. ~(acceptor.con > accepted)
      BY DEF ServerOK
    <2>3. /\ threads' \in [Sides -> [Connections -> Places]]
          /\ \A d \in Connections :
               d > accepted => \A r \in Sides : threads'[r][d] = "none"
      BY <2>1, <2>2 DEF Places
    <2> QED
      BY <2>1, <2>3
  <1>5. ASSUME NEW c \in Connections, ClientSends(c) \/ ClientLost(c)
        PROVE  ConnectionsOK'
    <2>1. UNCHANGED <<destructor, is_connected, shut, threads, accepted>>
      BY <1>5 DEF ClientSends, ClientLost, connection
    <2>2. peer' = peer \/ peer' = [peer EXCEPT ![c] = FALSE]
      BY <1>5 DEF ClientSends, ClientLost
    <2> QED
      BY <2>1, <2>2
  <1> QED
    BY StepKinds, <1>1, <1>2, <1>3, <1>4, <1>5

(* A message more, or less, or the same. *)
LEMMA MessagesStep == Shape /\ [Next]_vars => MessagesOK'
  <1> SUFFICES ASSUME ServerOK, ConnectionsOK, MessagesOK, [Next]_vars
               PROVE  MessagesOK'
    BY DEF Shape
  <1> USE DEF server, network, history, coordinator, messaging, connection,
              outside, vars
  <1> DEFINE Rest == <<messages, writing, inbox, reports, owed, accepted>>
  <1>1. ASSUME UNCHANGED Rest, UNCHANGED outgoing
        PROVE  MessagesOK'
    BY <1>1 DEF MessagesOK
  <1>2. ASSUME NEW c \in Connections, NEW m \in Messages,
               outgoing' = [outgoing EXCEPT ![c] = push(@, m)],
               UNCHANGED <<messages, writing, inbox, reports>>,
               accepted' = accepted, owed' \subseteq 1..accepted
        PROVE  MessagesOK'
    <2>1. outgoing' \in [Connections -> Seq(Messages)]
      BY <1>2 DEF MessagesOK, push
    <2> QED
      BY <1>2, <2>1 DEF MessagesOK
  <1>3. ASSUME NEW c \in Connections, NEW s \in Sides, Side(s, c)
        PROVE  MessagesOK'
    <2>1. CASE Report(s, c)
      <3>1. UNCHANGED <<messages, writing, inbox, owed, accepted, outgoing>>
            /\ (reports' = reports \/ reports' = [reports EXCEPT ![c] = @ + 1])
        BY <2>1 DEF Report
      <3>2. reports \in [Connections -> Nat]
        BY DEF MessagesOK
      <3>3. reports' \in [Connections -> Nat]
        BY <3>1, <3>2
      <3> QED
        BY <3>1, <3>3 DEF MessagesOK
    <2>2. CASE \/ LoopTest(s, c) \/ Lost(s, c) \/ Reported(s, c) \/ Enqueue(s, c)
               \/ EnqueueLate(s, c) \/ Enqueued(s, c)
      BY <1>1, <2>2 DEF LoopTest, Lost, Reported, Enqueue, EnqueueLate,
                        Enqueued, Moves, Ends
    <2> QED
      BY <1>3, <2>1, <2>2 DEF Side
  <1>4. ASSUME NEW c \in Connections, Read(c)
        PROVE  MessagesOK'
    <2>1. /\ inbox[c] > 0 /\ inbox' = [inbox EXCEPT ![c] = @ - 1]
          /\ UNCHANGED <<messages, writing, reports, owed, accepted, outgoing>>
      BY <1>4 DEF Read
    <2>2. inbox' \in [Connections -> 0..messages]
      BY <2>1 DEF MessagesOK
    <2> QED
      BY <2>1, <2>2 DEF MessagesOK
  <1>5. ASSUME NEW c \in Connections, Handle(c)
        PROVE  MessagesOK'
    BY <1>2, <1>5 DEF Handle, Messages, MessagesOK
  <1>6. ASSUME NEW c \in Connections, Pop(c)
        PROVE  MessagesOK'
    <2>1. /\ outgoing[c] # <<>>
          /\ writing' = [writing EXCEPT ![c] = Head(outgoing[c])]
          /\ outgoing' = [outgoing EXCEPT ![c] = Tail(@)]
          /\ UNCHANGED <<messages, inbox, reports, owed, accepted>>
      BY <1>6 DEF Pop, front, pop, empty
    <2>2. outgoing[c] \in Seq(Messages)
      BY DEF MessagesOK
    <2>3. Head(outgoing[c]) \in Messages /\ Tail(outgoing[c]) \in Seq(Messages)
      BY <2>1, <2>2
    <2> QED
      BY <2>1, <2>3 DEF MessagesOK
  <1>7. ASSUME NEW c \in Connections, ReadFails(c) \/ Write(c) \/ WriteFails(c)
        PROVE  MessagesOK'
    BY <1>1, <1>7 DEF ReadFails, Write, WriteFails, Moves
  <1>8. ASSUME NEW c \in Connections, JoinReader(c)
        PROVE  MessagesOK'
    BY <1>2, <1>8 DEF JoinReader, Messages, MessagesOK
  <1>9. ASSUME NEW c \in Connections,
               \/ TestConnected(c) \/ WaitSent(c) \/ ShutdownReceive(c)
               \/ JoinWriter(c) \/ JoinSelf(c)
        PROVE  MessagesOK'
    BY <1>1, <1>9 DEF TestConnected, WaitSent, ShutdownReceive, JoinWriter,
                      JoinSelf, DestructorMoves, Ends
  <1>10. CASE SendGoodbye
    <2>1. PICK c \in active_connections :
            /\ outgoing' = [outgoing EXCEPT ![c] = push(@, "goodbye")]
            /\ owed' = owed \union {c}
      BY <1>10 DEF SendGoodbye
    <2>2. UNCHANGED <<messages, writing, inbox, reports, accepted>>
      BY <1>10 DEF SendGoodbye
    <2>3. c \in 1..accepted /\ c \in Connections
      BY DEF ServerOK, QueueOK, Connections
    <2> QED
      BY <1>2, <2>1, <2>2, <2>3 DEF Messages, MessagesOK
  <1>11. CASE ~SendGoodbye /\
              \/ Link \/ DropNew \/ TestAcceptor \/ AcceptThrows \/ Accept
              \/ Remover \/ Stopping \/ BeginStop \/ ListRace \/ UNCHANGED vars
    <2>1. UNCHANGED <<messages, writing, inbox, reports, outgoing, owed>>
          /\ (accepted' = accepted \/ accepted' = accepted + 1)
      BY <1>11, ServerMoves
    <2>2. 1..accepted \subseteq 1..accepted'
      BY <2>1 DEF ServerOK
    <2> QED
      BY <2>1, <2>2 DEF MessagesOK
  <1>12. CASE Start
    BY <1>1, <1>12 DEF Start
  <1>13. ASSUME NEW c \in Connections, ClientSends(c)
         PROVE  MessagesOK'
    <2>1. /\ messages < MaxMessages /\ messages' = messages + 1
          /\ inbox' = [inbox EXCEPT ![c] = @ + 1]
          /\ UNCHANGED <<writing, reports, owed, accepted, outgoing>>
      BY <1>13 DEF ClientSends
    <2>2. messages' \in 0..MaxMessages /\ inbox' \in [Connections -> 0..messages']
      BY <2>1 DEF MessagesOK
    <2> QED
      BY <2>1, <2>2 DEF MessagesOK
  <1>14. ASSUME NEW c \in Connections, ClientLost(c)
         PROVE  MessagesOK'
    BY <1>1, <1>14 DEF ClientLost
  <1> QED
    BY StepKinds, <1>3, <1>4, <1>5, <1>6, <1>7, <1>8, <1>9, <1>10, <1>11,
       <1>12, <1>13, <1>14 DEF Destructor

(* What a queue says after a push and after a pop. *)
LEMMA SaysPush ==
    ASSUME outgoing \in [Connections -> Seq(Messages)],
           NEW c \in Connections, NEW m \in Messages,
           outgoing' = [outgoing EXCEPT ![c] = push(@, m)]
    PROVE  /\ \A x : Says(c, x)' <=> Says(c, x) \/ x = m
           /\ \A d \in Connections : d # c => outgoing'[d] = outgoing[d]
  <1>1. outgoing[c] \in Seq(Messages) /\ outgoing'[c] = Append(outgoing[c], m)
    BY DEF push
  <1>2. /\ DOMAIN outgoing[c] = 1..Len(outgoing[c]) /\ Len(outgoing[c]) \in Nat
        /\ DOMAIN outgoing'[c] = 1..(Len(outgoing[c]) + 1)
        /\ \A i \in 1..Len(outgoing[c]) : outgoing'[c][i] = outgoing[c][i]
        /\ outgoing'[c][Len(outgoing[c]) + 1] = m
    BY <1>1, AppendProperties, LenProperties
  <1>3. \A x : Says(c, x)' <=> Says(c, x) \/ x = m
    BY <1>2 DEF Says
  <1> QED
    BY <1>3

LEMMA SaysPop ==
    ASSUME outgoing \in [Connections -> Seq(Messages)],
           NEW c \in Connections, outgoing[c] # <<>>,
           outgoing' = [outgoing EXCEPT ![c] = pop(@)]
    PROVE  /\ \A x : Says(c, x) => Says(c, x)' \/ x = front(outgoing[c])
           /\ \A x : Says(c, x)' => Says(c, x)
           /\ Says(c, front(outgoing[c]))
           /\ \A d \in Connections : d # c => outgoing'[d] = outgoing[d]
  <1>1. outgoing[c] \in Seq(Messages) /\ outgoing'[c] = Tail(outgoing[c])
    BY DEF pop
  <1>2. /\ DOMAIN outgoing[c] = 1..Len(outgoing[c])
        /\ Len(outgoing[c]) \in Nat /\ Len(outgoing[c]) > 0
        /\ DOMAIN outgoing'[c] = 1..(Len(outgoing[c]) - 1)
        /\ \A i \in 1..(Len(outgoing[c]) - 1) : outgoing'[c][i] = outgoing[c][i + 1]
        /\ front(outgoing[c]) = outgoing[c][1]
    <2> DEFINE q == outgoing[c]
    <2>1. /\ Tail(q) \in Seq(Messages) /\ Len(Tail(q)) = Len(q) - 1
          /\ \A i \in 1..Len(Tail(q)) : Tail(q)[i] = q[i + 1]
      BY <1>1, HeadTailProperties
    <2>2. DOMAIN q = 1..Len(q) /\ Len(q) \in Nat
          /\ DOMAIN Tail(q) = 1..Len(Tail(q)) /\ Len(Tail(q)) \in Nat
      BY <1>1, <2>1, LenProperties
    <2>3. Head(q) = q[1]
      BY <1>1
    <2>4. Len(q) > 0
      BY <2>1, <2>2
    <2> QED
      BY <1>1, <2>1, <2>2, <2>3, <2>4 DEF front
  <1>3. ASSUME NEW x, Says(c, x)'
        PROVE  Says(c, x)
    <2>1. PICK i \in 1..(Len(outgoing[c]) - 1) : outgoing'[c][i] = x
      BY <1>2, <1>3 DEF Says
    <2>2. i + 1 \in DOMAIN outgoing[c] /\ outgoing[c][i + 1] = x
      BY <1>2, <2>1
    <2> QED
      BY <2>2 DEF Says
  <1>4. ASSUME NEW x, Says(c, x), x # front(outgoing[c])
        PROVE  Says(c, x)'
    <2>1. PICK i \in 1..Len(outgoing[c]) : outgoing[c][i] = x
      BY <1>2, <1>4 DEF Says
    <2>2. i # 1
      BY <1>2, <1>4, <2>1
    <2>3. i - 1 \in DOMAIN outgoing'[c] /\ outgoing'[c][i - 1] = x
      <3>1. i - 1 \in 1..(Len(outgoing[c]) - 1)
        BY <1>2, <2>1, <2>2
      <3>2. outgoing'[c][i - 1] = outgoing[c][(i - 1) + 1] /\ (i - 1) + 1 = i
        BY <1>2, <3>1
      <3> QED
        BY <1>2, <2>1, <3>1, <3>2
    <2> QED
      BY <2>3 DEF Says
  <1>5. Says(c, front(outgoing[c]))
    BY <1>2 DEF Says
  <1> QED
    BY <1>3, <1>4, <1>5

(* The steps that change what connection c has to say. *)
LEMMA QueueMoves ==
    ASSUME Shape, [Next]_vars, NEW c \in Connections
    PROVE  \/ outgoing'[c] = outgoing[c] /\ writing'[c] = writing[c]
           \/ Handle(c) \/ Pop(c) \/ JoinReader(c)
           \/ /\ SendGoodbye /\ main'.con = c /\ c \in active_connections
              /\ outgoing' = [outgoing EXCEPT ![c] = push(@, "goodbye")]
              /\ writing' = writing /\ owed' = owed \union {c}
  <1> USE DEF server, network, history, coordinator, messaging, connection,
              outside, vars
  <1>0. outgoing \in [Connections -> Seq(Messages)]
        /\ writing \in [Connections -> Messages]
    BY DEF Shape, MessagesOK
  <1>1. ASSUME NEW d \in Connections, d # c, Handle(d) \/ Pop(d) \/ JoinReader(d)
        PROVE  outgoing'[c] = outgoing[c] /\ writing'[c] = writing[c]
    BY <1>0, <1>1 DEF Handle, Pop, JoinReader
  <1>2. ASSUME NEW d \in Connections, NEW s \in Sides, Side(s, d)
        PROVE  UNCHANGED <<outgoing, writing>>
    BY <1>2 DEF Side, LoopTest, Lost, Report, Reported, Enqueue, EnqueueLate,
                Enqueued, Moves, Ends
  <1>3. ASSUME NEW d \in Connections,
               \/ Read(d) \/ ReadFails(d) \/ Write(d) \/ WriteFails(d)
               \/ TestConnected(d) \/ WaitSent(d) \/ ShutdownReceive(d)
               \/ JoinWriter(d) \/ JoinSelf(d)
               \/ ClientSends(d) \/ ClientLost(d)
        PROVE  UNCHANGED <<outgoing, writing>>
    BY <1>3 DEF Read, ReadFails, Write, WriteFails, TestConnected, WaitSent,
                ShutdownReceive, JoinWriter, JoinSelf, DestructorMoves,
                ClientSends, ClientLost, Moves, Ends
  <1>4. CASE SendGoodbye
    <2>1. PICK d \in active_connections :
             /\ main' = [main EXCEPT !.con = d, !.held = TRUE]
             /\ outgoing' = [outgoing EXCEPT ![d] = push(@, "goodbye")]
             /\ owed' = owed \union {d}
             /\ writing' = writing
      BY <1>4 DEF SendGoodbye
    <2>2. main'.con = d
      BY <2>1 DEF Shape, ServerOK, MainOK
    <2> QED
      BY <1>0, <1>4, <2>1, <2>2
  <1>5. CASE ~SendGoodbye /\
             \/ Link \/ DropNew \/ TestAcceptor \/ AcceptThrows \/ Accept
             \/ Remover \/ Stopping \/ BeginStop \/ ListRace \/ UNCHANGED vars
    BY <1>5, ServerMoves
  <1>6. CASE Start
    BY <1>6 DEF Start
  <1> QED
    BY StepKinds, <1>1, <1>2, <1>3, <1>4, <1>5, <1>6 DEF Destructor

(* Only a write is told of, and only send_all owes. *)
LEMMA ToldMoves ==
    ASSUME Shape, [Next]_vars
    PROVE  /\ \/ told' = told
              \/ \E c \in Connections : Write(c)
           /\ owed \subseteq owed'
  <1> USE DEF server, network, history, coordinator, messaging, connection,
              outside, vars
  <1>1. ASSUME NEW d \in Connections, NEW s \in Sides, Side(s, d)
        PROVE  UNCHANGED <<told, owed>>
    BY <1>1 DEF Side, LoopTest, Lost, Report, Reported, Enqueue, EnqueueLate,
                Enqueued, Moves, Ends
  <1>2. ASSUME NEW d \in Connections,
               \/ Read(d) \/ Handle(d) \/ ReadFails(d) \/ Pop(d) \/ WriteFails(d)
               \/ ClientSends(d) \/ ClientLost(d)
        PROVE  UNCHANGED <<told, owed>>
    BY <1>2 DEF Read, Handle, ReadFails, Pop, WriteFails, ClientSends,
                ClientLost, Moves
  <1>3. ASSUME NEW d \in Connections, Destructor(d)
        PROVE  UNCHANGED <<told, owed>>
    BY <1>3, DestructorMove
  <1>4. ASSUME NEW d \in Connections, Write(d)
        PROVE  UNCHANGED owed
    BY <1>4 DEF Write
  <1>5. CASE SendGoodbye
    BY <1>5 DEF SendGoodbye
  <1>6. CASE ~SendGoodbye /\
             \/ Link \/ DropNew \/ TestAcceptor \/ AcceptThrows \/ Accept
             \/ Remover \/ Stopping \/ BeginStop \/ ListRace \/ UNCHANGED vars
    BY <1>6, ServerMoves
  <1>7. CASE Start
    BY <1>7 DEF Start
  <1> QED
    BY StepKinds, <1>1, <1>2, <1>3, <1>4, <1>5, <1>6, <1>7

LEMMA GoodbyesStep == Shape /\ GoodbyesOwed /\ [Next]_vars => GoodbyesOwed'
  <1> SUFFICES ASSUME Shape, GoodbyesOwed, [Next]_vars
               PROVE  GoodbyesOwed'
    OBVIOUS
  <1>0. /\ outgoing \in [Connections -> Seq(Messages)]
        /\ writing \in [Connections -> Messages]
        /\ owed \subseteq owed'
    BY ToldMoves DEF Shape, MessagesOK
  <1>1. ASSUME NEW c \in Connections, Says(c, "goodbye")' \/ writing'[c] = "goodbye"
        PROVE  c \in owed'
    <2>1. CASE outgoing'[c] = outgoing[c] /\ writing'[c] = writing[c]
      BY <1>0, <1>1, <2>1 DEF GoodbyesOwed, Says
    <2>2. ASSUME NEW m \in {"reply", Wake}, writing'[c] = writing[c],
                 outgoing' = [outgoing EXCEPT ![c] = push(@, m)]
          PROVE  c \in owed'
      <3>1. Says(c, "goodbye")' <=> Says(c, "goodbye") \/ "goodbye" = m
        BY <1>0, <2>2, SaysPush DEF Messages
      <3> QED
        BY <1>0, <1>1, <2>2, <3>1 DEF GoodbyesOwed, Wake
    <2>3. CASE Handle(c)
      <3>1. writing' = writing /\ outgoing' = [outgoing EXCEPT ![c] = push(@, "reply")]
        BY <2>3 DEF Handle
      <3> QED
        BY <2>2, <3>1
    <2>4. CASE JoinReader(c)
      <3>1. writing' = writing /\ outgoing' = [outgoing EXCEPT ![c] = push(@, Wake)]
        BY <2>4 DEF JoinReader
      <3> QED
        BY <2>2, <3>1
    <2>5. CASE Pop(c)
      <3>1. /\ outgoing[c] # <<>> /\ outgoing' = [outgoing EXCEPT ![c] = pop(@)]
            /\ writing' = [writing EXCEPT ![c] = front(outgoing[c])]
        BY <2>5 DEF Pop, empty
      <3>2. /\ Says(c, "goodbye")' => Says(c, "goodbye")
            /\ Says(c, front(outgoing[c]))
        BY <1>0, <3>1, SaysPop
      <3> QED
        BY <1>0, <1>1, <3>1, <3>2 DEF GoodbyesOwed
    <2>6. CASE owed' = owed \union {c}
      BY <2>6
    <2> QED
      BY <2>1, <2>3, <2>4, <2>5, <2>6, QueueMoves
  <1>2. told' \subseteq owed'
    <2>1. ASSUME NEW c \in Connections, Write(c)
          PROVE  told' \subseteq owed'
      BY <1>0, <2>1 DEF Write, GoodbyesOwed
    <2> QED
      BY <1>0, <2>1, ToldMoves DEF GoodbyesOwed
  <1> QED
    BY <1>1, <1>2 DEF GoodbyesOwed

(* The types of what the server and its connections keep. *)
LEMMA ShapeInit == Init => Shape /\ GoodbyesOwed
  <1> SUFFICES ASSUME Init
               PROVE  Shape /\ GoodbyesOwed
    OBVIOUS
  <1>1. ServerOK
    <2>1. con_removal_queue \in Seq(0..accepted)
      BY EmptySeq DEF Init
    <2> QED
      BY <2>1 DEF Init, ServerOK, QueueOK, MainOK, MainPlaces, None
  <1>2. ConnectionsOK
    BY DEF Init, ConnectionsOK, Places, DestructorPlaces, Names, Sides
  <1>3. MessagesOK /\ GoodbyesOwed
    <2>1. /\ outgoing = [c \in Connections |-> <<>>]
          /\ writing = [c \in Connections |-> Wake]
          /\ <<>> \in Seq(Messages)
      BY EmptySeq DEF Init
    <2>2. \A c \in Connections : ~Says(c, "goodbye")
      BY <2>1 DEF Says
    <2> QED
      BY <2>1, <2>2 DEF Init, MessagesOK, GoodbyesOwed, Wake, Messages
  <1> QED
    BY <1>1, <1>2, <1>3 DEF Shape

LEMMA ShapeCorrect == Spec => [](Shape /\ GoodbyesOwed)
  <1>1. Shape /\ GoodbyesOwed /\ [Next]_vars => (Shape /\ GoodbyesOwed)'
    BY ServerStep, ConnectionsStep, MessagesStep, GoodbyesStep DEF Shape
  <1> QED
    BY <1>1, ShapeInit, PTL DEF Spec

(* For any number of connections, messages and losses, every variable      *)
(* keeps its type, and GoodBye is written only where it is owed.           *)
THEOREM TypeCorrect == Spec => []TypeOK
  BY ShapeCorrect, ShapeTypes, PTL

-----------------------------------------------------------------------------
(* Owners *)

(* Who owns c, place by place, before and after a step. *)
LEMMA OwnersAre ==
    ASSUME NEW c
    PROVE  /\ "reader" \in Owners(c) <=> threads["reader"][c] \in Holding
           /\ "writer" \in Owners(c) <=> threads["writer"][c] \in Holding
           /\ "list" \in Owners(c) <=> c \in active_connections
           /\ "queue" \in Owners(c) <=> InQueue(c)
           /\ "acceptor" \in Owners(c) <=> acceptor.con = c
           /\ "remover" \in Owners(c) <=> remover.con = c
           /\ "main" \in Owners(c) <=> main.held /\ main.con = c
           /\ Owners(c) \subseteq {"reader", "writer", "list", "queue",
                                   "acceptor", "remover", "main"}
  BY DEF Owners, Sides

LEMMA OwnersAreNext ==
    ASSUME NEW c
    PROVE  /\ "reader" \in Owners(c)' <=> threads'["reader"][c] \in Holding
           /\ "writer" \in Owners(c)' <=> threads'["writer"][c] \in Holding
           /\ "list" \in Owners(c)' <=> c \in active_connections'
           /\ "queue" \in Owners(c)' <=> InQueue(c)'
           /\ "acceptor" \in Owners(c)' <=> acceptor'.con = c
           /\ "remover" \in Owners(c)' <=> remover'.con = c
           /\ "main" \in Owners(c)' <=> main'.held /\ main'.con = c
           /\ Owners(c)' \subseteq {"reader", "writer", "list", "queue",
                                    "acceptor", "remover", "main"}
  BY DEF Owners, Sides, Holding

(* A queue of connections after a push and after a pop. *)
LEMMA QueuePush ==
    ASSUME ServerOK, NEW d \in 0..accepted,
           con_removal_queue' = push(con_removal_queue, d)
    PROVE  \A c : InQueue(c)' <=> InQueue(c) \/ c = d
  <1>1. con_removal_queue \in Seq(0..accepted)
    BY DEF ServerOK, QueueOK
  <1>2. con_removal_queue' = Append(con_removal_queue, d)
    BY DEF push
  <1>3. /\ DOMAIN con_removal_queue = 1..Len(con_removal_queue)
        /\ Len(con_removal_queue) \in Nat
        /\ DOMAIN con_removal_queue' = 1..(Len(con_removal_queue) + 1)
        /\ \A i \in 1..Len(con_removal_queue) :
              con_removal_queue'[i] = con_removal_queue[i]
        /\ con_removal_queue'[Len(con_removal_queue) + 1] = d
    BY <1>1, <1>2, AppendProperties, LenProperties
  <1> QED
    BY <1>3 DEF InQueue

LEMMA QueuePop ==
    ASSUME ServerOK, con_removal_queue # <<>>,
           con_removal_queue' = pop(con_removal_queue)
    PROVE  /\ InQueue(front(con_removal_queue))
           /\ \A c : InQueue(c)' <=>
                       \E i \in 2..Len(con_removal_queue) :
                           con_removal_queue[i] = c
           /\ \A c : InQueue(c) <=> InQueue(c)' \/ c = front(con_removal_queue)
  <1> DEFINE q == con_removal_queue
  <1>1. q \in Seq(0..accepted)
    BY DEF ServerOK, QueueOK
  <1>2. q' = Tail(q)
    BY DEF pop
  <1>3. /\ Tail(q) \in Seq(0..accepted) /\ Len(Tail(q)) = Len(q) - 1
        /\ \A i \in 1..Len(Tail(q)) : Tail(q)[i] = q[i + 1]
    BY <1>1, HeadTailProperties
  <1>4. DOMAIN q = 1..Len(q) /\ Len(q) \in Nat
        /\ DOMAIN Tail(q) = 1..Len(Tail(q)) /\ Len(Tail(q)) \in Nat
    BY <1>1, <1>3, LenProperties
  <1>5. front(q) = q[1]
    BY <1>1 DEF front
  <1>6. Len(q) > 0
    BY <1>3, <1>4
  <1>7. ASSUME NEW c
        PROVE  InQueue(c)' <=> \E i \in 2..Len(q) : q[i] = c
    <2>1. ASSUME InQueue(c)'
          PROVE  \E i \in 2..Len(q) : q[i] = c
      <3>1. PICK i \in 1..(Len(q) - 1) : q[i + 1] = c
        BY <1>2, <1>3, <1>4, <2>1 DEF InQueue
      <3>2. i + 1 \in 2..Len(q)
        BY <1>4
      <3> QED
        BY <3>1, <3>2
    <2>2. ASSUME NEW i \in 2..Len(q), q[i] = c
          PROVE  InQueue(c)'
      <3>1. i - 1 \in 1..(Len(q) - 1) /\ (i - 1) + 1 = i
        BY <1>4
      <3>2. Tail(q)[i - 1] = c /\ i - 1 \in DOMAIN Tail(q)
        BY <1>3, <1>4, <2>2, <3>1
      <3> QED
        BY <1>2, <3>2 DEF InQueue
    <2> QED
      BY <2>1, <2>2
  <1>8. ASSUME NEW c
        PROVE  InQueue(c) <=> (\E i \in 2..Len(q) : q[i] = c) \/ c = front(q)
    BY <1>4, <1>5, <1>6 DEF InQueue
  <1> QED
    BY <1>7, <1>8

(* The three ways in which the owners of c and its destructor change. *)
LEMMA OwnersFewer ==
    ASSUME NEW c, Unowned(c), Owners(c)' \subseteq Owners(c),
           Dying(c)' => Dying(c), accepted \in Nat, accepted' \in Nat,
           accepted' >= accepted, c \in Int
    PROVE  Unowned(c)'
  BY DEF Unowned

LEMMA OwnersMore ==
    ASSUME NEW c, Dying(c)' => Dying(c), ~Dying(c)
    PROVE  Unowned(c)'
  BY DEF Unowned

LEMMA OwnerDropped ==
    ASSUME NEW c \in Connections, Unowned(c), NEW o, NEW t \in Names,
           NEW d, Release(d, o, t), ConnectionsOK,
           d = c => o \in Owners(c) /\ Owners(c)' = Owners(c) \ {o},
           d # c => Owners(c)' \subseteq Owners(c),
           c <= accepted \/ d # c, accepted' = accepted
    PROVE  Unowned(c)'
  <1>1. CASE d = c /\ Owners(c) = {o}
    BY <1>1 DEF Unowned
  <1>2. CASE ~(d = c /\ Owners(c) = {o})
    <2>1. destructor'[c] = destructor[c]
      BY <1>2 DEF Release, ConnectionsOK
    <2>2. Owners(c) = {} => Owners(c)' = {}
      OBVIOUS
    <2> QED
      BY <2>1, <2>2 DEF Unowned, Dying
  <1> QED
    BY <1>1, <1>2

LEMMA UnownedStep ==
    ASSUME Shape, [Next]_vars, NEW c \in Connections, Unowned(c)
    PROVE  Unowned(c)'
  <1>0. /\ ServerOK /\ ConnectionsOK /\ ServerOK' /\ ConnectionsOK'
        /\ accepted \in Nat /\ accepted' \in Nat /\ c \in Int
    BY ServerStep, ConnectionsStep DEF Shape, ServerOK, Connections
  <1> USE DEF server, network, history, coordinator, messaging, connection,
              outside, vars
  (* Reader and writer of any connection d. *)
  <1>1. ASSUME NEW d \in Connections, NEW s \in Sides, NEW p \in Places,
               Goto(s, d, p),
               UNCHANGED <<active_connections, acceptor, remover, main>>,
               InQueue(c)' => InQueue(c)
        PROVE  /\ p \notin Holding => Owners(c)' \subseteq Owners(c)
               /\ d # c => Owners(c)' \subseteq Owners(c)
               /\ p \notin Holding /\ threads[s][d] \in Holding /\ d = c
                    /\ InQueue(c)' = InQueue(c)
                  => s \in Owners(c) /\ Owners(c)' = Owners(c) \ {s}
    <2>1. \A r \in Sides : threads'[r][c] = IF r = s /\ d = c THEN p
                                            ELSE threads[r][c]
      BY <1>0, <1>1, GotoType DEF ConnectionsOK
    <2> QED
      BY <1>1, <2>1, OwnersAre, OwnersAreNext DEF Sides
  <1>2. ASSUME NEW d \in Connections, NEW s \in Sides, NEW p \in Places,
               Goto(s, d, p), threads[s][d] \in Holding, p \notin Holding,
               Release(d, s, ThreadName(s, d)),
               UNCHANGED <<server, accepted, acceptor, remover, main>>
        PROVE  Unowned(c)'
    <2>1. /\ d = c => s \in Owners(c) /\ Owners(c)' = Owners(c) \ {s}
          /\ d # c => Owners(c)' \subseteq Owners(c)
      BY <1>1, <1>2 DEF InQueue
    <2>2. c <= accepted \/ d # c
      BY <1>0, <1>2 DEF ConnectionsOK, Holding
    <2> QED
      BY <1>0, <1>2, <2>1, <2>2, OwnerDropped, NamesType
  <1>3. ASSUME NEW d \in Connections, NEW s \in Sides, NEW p \in Places,
               threads' = threads \/ Goto(s, d, p),
               p \in Holding => d # c \/ ~Dying(c),
               UNCHANGED <<server, accepted, acceptor, remover, main, destructor>>
        PROVE  Unowned(c)'
    <2>1. CASE threads' = threads \/ p \notin Holding \/ d # c
      <3>1. Owners(c)' \subseteq Owners(c)
        BY <1>1, <1>3, <2>1 DEF Owners, InQueue
      <3> QED
        BY <1>0, <1>3, <3>1, OwnersFewer DEF Dying
    <2>2. CASE p \in Holding /\ d = c
      BY <1>3, <2>2, OwnersMore DEF Dying
    <2> QED
      BY <2>1, <2>2
  <1>4. ASSUME NEW d \in Connections, NEW s \in Sides, Side(s, d)
        PROVE  Unowned(c)'
    <2>1. CASE LoopTest(s, d)
      <3>1. \E p \in {"read", "pop", "exited"} : Goto(s, d, p)
            /\ UNCHANGED <<server, accepted, acceptor, remover, main, destructor>>
        BY <2>1 DEF LoopTest, Moves
      <3> QED
        BY <1>3, <3>1 DEF Places, Holding
    <2>2. CASE Lost(s, d)
      <3>1. \E p \in {"test", "report"} : Goto(s, d, p)
            /\ UNCHANGED <<server, accepted, acceptor, remover, main, destructor>>
        BY <2>2 DEF Lost
      <3> QED
        BY <1>3, <3>1 DEF Places, Holding
    <2>3. CASE Report(s, d)
      <3>1. /\ threads' = threads \/ (Goto(s, d, "reported") /\ ~Dying(d))
            /\ UNCHANGED <<server, accepted, acceptor, remover, main, destructor>>
        BY <2>3 DEF Report
      <3>2. threads' = threads \/ (Goto(s, d, "reported") /\ (d # c \/ ~Dying(c)))
        BY <3>1
      <3>3. "reported" \in Places /\ "test" \in Places /\ "test" \notin Holding
        BY DEF Places, Holding
      <3> QED
        BY <1>3, <3>1, <3>2, <3>3
    <2>4. CASE Reported(s, d) \/ Enqueued(s, d)
      <3>1. \E p \in {"enqueue", "test"} : Goto(s, d, p)
        BY <2>4 DEF Reported, Enqueued
      <3>2. /\ threads[s][d] \in Holding
            /\ Release(d, s, ThreadName(s, d))
            /\ UNCHANGED <<server, accepted, acceptor, remover, main>>
        BY <2>4 DEF Reported, Enqueued, At, Holding
      <3> QED
        BY <1>2, <3>1, <3>2 DEF Places, Holding
    <2>5. CASE Enqueue(s, d)
      <3>1. CASE d = c /\ ~Dying(c)
        BY <2>5, <3>1, OwnersMore DEF Enqueue, Dying
      <3>2. CASE Dying(d)
        <4>1. threads' = threads
              /\ UNCHANGED <<server, accepted, acceptor, remover, main, destructor>>
          BY <2>5, <3>2 DEF Enqueue
        <4> QED
          BY <1>3, <4>1 DEF Places, Holding
      <3>3. CASE d # c /\ ~Dying(d)
        <4>1. /\ Goto(s, d, "enqueued")
              /\ con_removal_queue' = push(con_removal_queue, d)
              /\ UNCHANGED <<active_connections, accepted, acceptor, remover,
                             main, destructor>>
          BY <2>5, <3>3 DEF Enqueue
        <4>2. d \in 0..accepted
          BY <1>0, <2>5 DEF Enqueue, At, ConnectionsOK, Connections
        <4>3. InQueue(c)' <=> InQueue(c)
          BY <1>0, <3>3, <4>1, <4>2, QueuePush
        <4>4. Owners(c)' \subseteq Owners(c)
          BY <1>1, <3>3, <4>1, <4>3 DEF Places
        <4> QED
          BY <1>0, <4>1, <4>4, OwnersFewer DEF Dying
      <3> QED
        BY <3>1, <3>2, <3>3
    <2>6. CASE EnqueueLate(s, d)
      <3>1. threads' = threads
            /\ UNCHANGED <<server, accepted, acceptor, remover, main, destructor>>
        BY <2>6 DEF EnqueueLate, Ends
      <3> QED
        BY <1>3, <3>1 DEF Places, Holding
    <2> QED
      BY <1>4, <2>1, <2>2, <2>3, <2>4, <2>5, <2>6 DEF Side
  <1>5. ASSUME NEW d \in Connections, Read(d)
        PROVE  Unowned(c)'
    <2>1. /\ threads' = threads \/ (Goto("reader", d, "handle") /\ (d # c \/ ~Dying(c)))
          /\ UNCHANGED <<server, accepted, acceptor, remover, main, destructor>>
      BY <1>5 DEF Read
    <2>2. "handle" \in Places /\ "test" \in Places /\ "test" \notin Holding
          /\ "reader" \in Sides
      BY DEF Places, Holding, Sides
    <2> QED
      BY <1>3, <2>1, <2>2
  <1>6. ASSUME NEW d \in Connections, Handle(d)
        PROVE  Unowned(c)'
    <2>1. /\ Goto("reader", d, "test") /\ threads["reader"][d] \in Holding
          /\ Release(d, "reader", ThreadName("reader", d))
          /\ UNCHANGED <<server, accepted, acceptor, remover, main>>
      BY <1>6 DEF Handle, At, Holding
    <2> QED
      BY <1>2, <2>1 DEF Places, Holding, Sides
  <1>7. ASSUME NEW d \in Connections,
               ReadFails(d) \/ Pop(d) \/ Write(d) \/ WriteFails(d)
        PROVE  Unowned(c)'
    <2>1. /\ \E s \in Sides, p \in {"lost", "write", "test"} : Goto(s, d, p)
          /\ UNCHANGED <<server, accepted, acceptor, remover, main, destructor>>
      BY <1>7 DEF ReadFails, Pop, Write, WriteFails, Moves, Sides
    <2> QED
      BY <1>3, <2>1 DEF Places, Holding
  <1>8. ASSUME UNCHANGED <<threads, active_connections, accepted>>,
               Dying(c)' => Dying(c), InQueue(c)' => InQueue(c),
               acceptor'.con \in {acceptor.con, None},
               remover'.con \in {remover.con, None},
               main'.held = FALSE \/ main' = main
                 \/ (main'.held = main.held /\ main'.con = main.con)
        PROVE  Unowned(c)'
    <2>1. Owners(c)' \subseteq Owners(c)
      BY <1>8, OwnersAre, OwnersAreNext DEF None, Connections
    <2> QED
      BY <1>0, <1>8, <2>1, OwnersFewer
  <1>9. ASSUME NEW d \in Connections, Destructor(d)
        PROVE  Unowned(c)'
    <2>1. UNCHANGED <<threads, server, accepted, acceptor, remover, main>>
      BY <1>9, DestructorMove
    <2>2. Dying(c)' => Dying(c)
      BY <1>0, <1>9, DestructorMove, DestructorGotoType DEF Dying, ConnectionsOK
    <2> QED
      BY <1>8, <2>1, <2>2 DEF InQueue
  <1>10. ASSUME NEW d \in Connections, ClientSends(d) \/ ClientLost(d)
         PROVE  Unowned(c)'
    <2>1. UNCHANGED <<threads, server, accepted, acceptor, remover, main,
                      destructor>>
      BY <1>10 DEF ClientSends, ClientLost
    <2> QED
      BY <1>8, <2>1 DEF InQueue, Dying
  (* The acceptor. *)
  <1>11. CASE Accept
    <2>1. CASE c = accepted + 1
      <3>1. ~Dying(c) /\ destructor' = destructor
        BY <1>0, <1>11, <2>1 DEF Accept, Unowned
      <3> QED
        BY <3>1, OwnersMore DEF Dying
    <2>2. CASE c # accepted + 1
      <3>1. /\ UNCHANGED <<threads, server, remover, main, destructor>>
            /\ acceptor'.con = accepted + 1 /\ accepted' = accepted + 1
        BY <1>11 DEF Accept
      <3>2. Owners(c)' \subseteq Owners(c)
        BY <2>2, <3>1, OwnersAre, OwnersAreNext DEF InQueue
      <3> QED
        BY <1>0, <3>1, <3>2, OwnersFewer DEF Dying
    <2> QED
      BY <2>1, <2>2
  <1>12. CASE Link
    <2>1. CASE c = acceptor.con
      <3>1. ~Dying(c)
        BY <2>1, OwnersAre DEF Unowned
      <3> QED
        BY <1>12, <3>1, OwnersMore DEF Link, Dying
    <2>2. CASE c # acceptor.con
      <3>1. /\ UNCHANGED <<threads, con_removal_queue, remover, main, destructor,
                           accepted>>
            /\ active_connections' = active_connections \union {acceptor.con}
        BY <1>12 DEF Link
      <3>2. acceptor'.con = acceptor.con
        BY <1>0, <1>12 DEF Link, ServerOK
      <3>3. Owners(c)' \subseteq Owners(c)
        BY <2>2, <3>1, <3>2, OwnersAre, OwnersAreNext DEF InQueue
      <3> QED
        BY <1>0, <3>1, <3>3, OwnersFewer DEF Dying
    <2> QED
      BY <2>1, <2>2
  <1>13. CASE Start
    <2>1. /\ threads' = [r \in Sides |-> [threads[r] EXCEPT ![acceptor.con] = "test"]]
          /\ UNCHANGED <<server, accepted, remover, main, destructor>>
      BY <1>13 DEF Start
    <2>2. acceptor'.con = acceptor.con
      BY <1>0, <1>13 DEF Start, ServerOK
    <2>3. \A r \in Sides : threads'[r][c] \in {threads[r][c], "test"}
      BY <1>0, <2>1 DEF ConnectionsOK
    <2>4. Owners(c)' \subseteq Owners(c)
      BY <2>1, <2>2, <2>3, OwnersAre, OwnersAreNext DEF InQueue, Holding, Sides
    <2> QED
      BY <1>0, <2>1, <2>4, OwnersFewer DEF Dying
  <1>14. CASE DropNew
    <2>1. /\ Release(acceptor.con, "acceptor", ThreadName("acceptor", None))
          /\ UNCHANGED <<server, accepted, remover, main, threads>>
          /\ acceptor'.con = None
      BY <1>14 DEF DropNew
    <2>2. /\ acceptor.con = c => /\ "acceptor" \in Owners(c)
                                 /\ Owners(c)' = Owners(c) \ {"acceptor"}
          /\ acceptor.con # c => Owners(c)' \subseteq Owners(c)
      BY <2>1, OwnersAre, OwnersAreNext DEF InQueue, None, Connections
    <2>3. c <= accepted \/ acceptor.con # c
      BY <1>0 DEF ServerOK
    <2> QED
      BY <1>0, <2>1, <2>2, <2>3, OwnerDropped, NamesType
  <1>15. CASE TestAcceptor \/ AcceptThrows
    <2>1. /\ UNCHANGED <<server, accepted, remover, main, threads, destructor>>
          /\ \E p : acceptor' = [acceptor EXCEPT !.pc = p]
      BY <1>15 DEF TestAcceptor, AcceptThrows, AcceptorMoves
    <2>2. acceptor'.con = acceptor.con
      BY <1>0, <2>1 DEF ServerOK
    <2> QED
      BY <1>8, <2>1, <2>2 DEF InQueue, Dying
  (* The remover. *)
  <1>16. CASE PopRemoved
    <2>1. /\ con_removal_queue # <<>>
          /\ con_removal_queue' = pop(con_removal_queue)
          /\ remover'.con = front(con_removal_queue)
          /\ UNCHANGED <<active_connections, accepted, acceptor, main, threads,
                         destructor>>
      BY <1>16 DEF PopRemoved, empty
    <2>2. CASE c = front(con_removal_queue)
      <3>1. ~Dying(c)
        BY <1>0, <2>1, <2>2, QueuePop, OwnersAre DEF Unowned
      <3> QED
        BY <2>1, <3>1, OwnersMore DEF Dying
    <2>3. CASE c # front(con_removal_queue)
      <3>1. InQueue(c)' => InQueue(c)
        BY <1>0, <2>1, QueuePop
      <3>2. Owners(c)' \subseteq Owners(c)
        BY <2>1, <2>3, <3>1, OwnersAre, OwnersAreNext
      <3> QED
        BY <1>0, <2>1, <3>2, OwnersFewer DEF Dying
    <2> QED
      BY <2>2, <2>3
  <1>17. CASE Remove
    <2>1. /\ active_connections' \subseteq active_connections
          /\ UNCHANGED <<con_removal_queue, accepted, acceptor, main, threads,
                         destructor>>
      BY <1>17 DEF Remove
    <2>2. remover'.con = remover.con
      BY <1>0, <1>17 DEF Remove, ServerOK
    <2>3. Owners(c)' \subseteq Owners(c)
      BY <2>1, <2>2, OwnersAre, OwnersAreNext DEF InQueue
    <2> QED
      BY <1>0, <2>1, <2>3, OwnersFewer DEF Dying
  <1>18. CASE DropRemoved
    <2>1. /\ Release(remover.con, "remover", ThreadName("remover", None))
          /\ UNCHANGED <<server, accepted, acceptor, main, threads>>
          /\ remover'.con = None
      BY <1>18 DEF DropRemoved
    <2>2. /\ remover.con = c => /\ "remover" \in Owners(c)
                                /\ Owners(c)' = Owners(c) \ {"remover"}
          /\ remover.con # c => Owners(c)' \subseteq Owners(c)
      BY <2>1, OwnersAre, OwnersAreNext DEF InQueue, None, Connections
    <2>3. c <= accepted \/ remover.con # c
      BY <1>0 DEF ServerOK
    <2> QED
      BY <1>0, <2>1, <2>2, <2>3, OwnerDropped, NamesType
  <1>19. CASE TestEmpty \/ TestRemover
    <2>1. /\ UNCHANGED <<server, accepted, acceptor, main, threads, destructor>>
          /\ \E p : remover' = [remover EXCEPT !.pc = p]
      BY <1>19 DEF TestEmpty, TestRemover, RemoverMoves
    <2>2. remover'.con = remover.con
      BY <1>0, <2>1 DEF ServerOK
    <2> QED
      BY <1>8, <2>1, <2>2 DEF InQueue, Dying
  (* The main thread. *)
  <1>20. CASE SendGoodbye \/ QueueConnection
    <2>1. PICK d \in active_connections :
             /\ main' = [main EXCEPT !.con = d, !.held = TRUE]
             /\ \/ con_removal_queue' = con_removal_queue
                \/ con_removal_queue' = push(con_removal_queue, d)
      BY <1>20 DEF SendGoodbye, QueueConnection
    <2>2. UNCHANGED <<active_connections, accepted, acceptor, remover, threads,
                      destructor>>
      BY <1>20 DEF SendGoodbye, QueueConnection
    <2>3. CASE d = c
      <3>1. ~Dying(c)
        BY <2>3, OwnersAre DEF Unowned
      <3> QED
        BY <2>2, <3>1, OwnersMore DEF Dying
    <2>4. CASE d # c
      <3>1. d \in 0..accepted
        BY <1>0 DEF ServerOK, QueueOK
      <3>2. InQueue(c)' => InQueue(c)
        BY <1>0, <2>1, <2>4, <3>1, QueuePush DEF InQueue
      <3>3. main'.con = d
        BY <1>0, <2>1 DEF ServerOK, MainOK
      <3>4. Owners(c)' \subseteq Owners(c)
        BY <2>2, <2>4, <3>2, <3>3, OwnersAre, OwnersAreNext
      <3> QED
        BY <1>0, <2>2, <3>4, OwnersFewer DEF Dying
    <2> QED
      BY <2>3, <2>4
  <1>21. CASE DropVisited
    <2>1. /\ Release(main.con, "main", MainThread) /\ main.held
          /\ UNCHANGED <<server, accepted, acceptor, remover, threads>>
      BY <1>21 DEF DropVisited
    <2>2. main'.held = FALSE
      BY <1>0, <1>21 DEF DropVisited, ServerOK, MainOK
    <2>3. /\ main.con = c => /\ "main" \in Owners(c)
                             /\ Owners(c)' = Owners(c) \ {"main"}
          /\ main.con # c => Owners(c)' \subseteq Owners(c)
      BY <2>1, <2>2, OwnersAre, OwnersAreNext DEF InQueue
    <2>4. c <= accepted \/ main.con # c
      BY <1>0 DEF ServerOK, MainOK
    <2> QED
      BY <1>0, <2>1, <2>3, <2>4, OwnerDropped, NamesType
  <1>22. CASE EndOfSendAll \/ StopRemover
    <2>1. /\ ~main.held
          /\ \E p : main' = [main EXCEPT !.pc = p, !.con = None]
          /\ UNCHANGED <<active_connections, con_removal_queue, accepted,
                         acceptor, remover, threads, destructor>>
      BY <1>22 DEF EndOfSendAll, StopRemover
    <2>2. main'.held = FALSE
      BY <1>0, <2>1 DEF ServerOK, MainOK
    <2> QED
      BY <1>8, <2>1, <2>2 DEF InQueue, Dying
  <1>23. CASE JoinAcceptor \/ JoinRemover \/ ListCleared \/ QueueCleared
              \/ BeginStop \/ PushNull
    <2>1. /\ \E p : main' = [main EXCEPT !.pc = p]
          /\ UNCHANGED <<active_connections, accepted, acceptor, remover,
                         threads, destructor>>
          /\ con_removal_queue' = con_removal_queue
               \/ con_removal_queue' = push(con_removal_queue, None)
      BY <1>23 DEF JoinAcceptor, JoinRemover, ListCleared, QueueCleared,
                   BeginStop, PushNull, MainMoves
    <2>2. main'.held = main.held /\ main'.con = main.con
      BY <1>0, <2>1 DEF ServerOK, MainOK
    <2>3. None \in 0..accepted /\ None # c
      BY <1>0 DEF None, Connections
    <2>4. InQueue(c)' => InQueue(c)
      BY <1>0, <2>1, <2>3, QueuePush DEF InQueue
    <2> QED
      BY <1>8, <2>1, <2>2, <2>4 DEF Dying
  <1>24. CASE ClearList
    <2>1. PICK d \in active_connections :
             /\ active_connections' = active_connections \ {d}
             /\ Release(d, "list", MainThread)
      BY <1>24 DEF ClearList
    <2>2. UNCHANGED <<con_removal_queue, accepted, acceptor, remover, main,
                      threads>>
      BY <1>24 DEF ClearList
    <2>3. /\ d = c => /\ "list" \in Owners(c)
                      /\ Owners(c)' = Owners(c) \ {"list"}
          /\ d # c => Owners(c)' \subseteq Owners(c)
      BY <2>1, <2>2, OwnersAre, OwnersAreNext DEF InQueue
    <2>4. c <= accepted \/ d # c
      BY <1>0 DEF ServerOK, QueueOK
    <2> QED
      BY <1>0, <2>1, <2>2, <2>3, <2>4, OwnerDropped, NamesType
  <1>25. CASE ClearQueue
    <2>0. PICK d : d = front(con_removal_queue)
      OBVIOUS
    <2> DEFINE more == \E i \in 2..Len(con_removal_queue) :
                           con_removal_queue[i] = d
    <2>1. /\ con_removal_queue # <<>>
          /\ con_removal_queue' = pop(con_removal_queue)
          /\ UNCHANGED <<active_connections, accepted, acceptor, remover, main,
                         threads>>
          /\ IF d = None \/ more THEN UNCHANGED destructor
             ELSE Release(d, "queue", MainThread)
      BY <1>25, <2>0 DEF ClearQueue, empty
    <2>2. /\ InQueue(d)
          /\ InQueue(d)' <=> more
          /\ InQueue(c) <=> InQueue(c)' \/ c = d
      <3>1. /\ InQueue(front(con_removal_queue))
            /\ \A e : InQueue(e)' <=>
                        \E i \in 2..Len(con_removal_queue) :
                            con_removal_queue[i] = e
            /\ \A e : InQueue(e) <=> InQueue(e)' \/ e = front(con_removal_queue)
        BY <1>0, <2>1, QueuePop
      <3> QED
        BY <2>0, <3>1
    <2> HIDE DEF more
    <2>3. CASE d = None \/ more
      <3>1. Owners(c)' \subseteq Owners(c)
        BY <2>1, <2>2, OwnersAre, OwnersAreNext
      <3> QED
        BY <1>0, <2>1, <2>3, <3>1, OwnersFewer DEF Dying
    <2>4. CASE ~(d = None \/ more)
      <3>1. /\ d = c => /\ "queue" \in Owners(c)
                        /\ Owners(c)' = Owners(c) \ {"queue"}
            /\ d # c => Owners(c)' \subseteq Owners(c)
        <4>1. CASE d = c
          <5>1. InQueue(c) /\ ~InQueue(c)'
            BY <2>2, <2>4, <4>1
          <5> QED
            BY <2>1, <4>1, <5>1, OwnersAre, OwnersAreNext
        <4>2. CASE d # c
          <5>1. InQueue(c)' => InQueue(c)
            BY <2>2
          <5> QED
            BY <2>1, <4>2, <5>1, OwnersAre, OwnersAreNext
        <4> QED
          BY <4>1, <4>2
      <3>2. c <= accepted \/ d # c
        <4>1. con_removal_queue \in Seq(0..accepted)
          BY <1>0 DEF ServerOK, QueueOK
        <4>2. d \in 0..accepted
          BY <2>0, <2>1, <4>1, HeadTailProperties DEF front
        <4> QED
          BY <1>0, <4>2
      <3>3. Release(d, "queue", MainThread)
        BY <2>1, <2>4
      <3> QED
        BY <1>0, <2>1, <3>1, <3>2, <3>3, OwnerDropped, NamesType
    <2> QED
      BY <2>3, <2>4
  <1>26. CASE ListRace \/ IteratorFreed \/ UNCHANGED vars
    <2>1. UNCHANGED <<threads, server, accepted, acceptor, remover, main,
                      destructor>>
      BY <1>26 DEF ListRace, IteratorFreed, Ends
    <2> QED
      BY <1>8, <2>1 DEF InQueue, Dying
  <1> QED
    BY StepKinds, <1>4, <1>5, <1>6, <1>7, <1>9, <1>10, <1>11, <1>12, <1>13,
       <1>14, <1>15, <1>16, <1>17, <1>18, <1>19, <1>20, <1>21, <1>22, <1>23,
       <1>24, <1>25, <1>26 DEF Remover, Stopping


(* What a step does to the threads and the destructor of c. *)
SideOf(s, c) ==
    \/ Side(s, c)
    \/ s = "reader" /\ (Read(c) \/ Handle(c) \/ ReadFails(c))
    \/ s = "writer" /\ (Pop(c) \/ Write(c) \/ WriteFails(c))

StartOf(c) ==
    /\ acceptor.con = c /\ acceptor.pc = "start" /\ ~Dying(c)
    /\ acceptor'.pc = "drop"
    /\ \A r \in Sides : threads'[r][c] = "test"
    /\ destructor'[c] = destructor[c]
    /\ is_connected' = is_connected

Moved(c) ==
    /\ \/ \A r \in Sides : threads'[r][c] = threads[r][c]
       \/ StartOf(c)
       \/ \E s \in Sides :
          /\ SideOf(s, c)
          /\ threads[s][c] \notin {"none", "exited"}
          /\ threads'[s][c] \in Places \ {"none"}
          /\ \A r \in Sides : r # s => threads'[r][c] = threads[r][c]
    /\ \/ destructor'[c] = destructor[c]
       \/ destructor'[c].pc = "test" /\ ~Dying(c)
       \/ Destructor(c) /\ Dying(c) /\ Dying(c)'
    /\ peer'[c] => peer[c]
    /\ shut[c] => shut'[c]

LEMMA ConnectionMoves ==
    ASSUME Shape, [Next]_vars, NEW c \in Connections, Unowned(c)
    PROVE  Moved(c)
  <1>0. /\ ServerOK /\ ConnectionsOK
        /\ destructor \in [Connections -> [pc : DestructorPlaces, by : Names]]
        /\ threads \in [Sides -> [Connections -> Places]]
        /\ shut \in [Connections -> BOOLEAN] /\ peer \in [Connections -> BOOLEAN]
    BY DEF Shape, ConnectionsOK
  <1> USE DEF server, network, history, coordinator, messaging, connection,
              outside, vars
  <1>1. ASSUME NEW d, NEW o, NEW t, Release(d, o, t)
        PROVE  \/ destructor'[c] = destructor[c]
               \/ destructor'[c].pc = "test" /\ ~Dying(c)
    <2>1. CASE Owners(d) = {o} /\ d = c
      <3>1. destructor'[c] = [pc |-> "test", by |-> t]
        BY <1>0, <1>1, <2>1 DEF Release
      <3> QED
        BY <2>1, <3>1 DEF Unowned
    <2>2. CASE ~(Owners(d) = {o} /\ d = c)
      BY <1>0, <1>1, <2>2 DEF Release
    <2> QED
      BY <2>1, <2>2
  <1>2. ASSUME NEW d \in Connections, NEW s \in Sides,
               SideOf(s, d)
        PROVE  Moved(c)
    <2>1. /\ threads[s][d] \notin {"none", "exited"}
          /\ \/ threads' = threads
             \/ \E p \in Places \ {"none"} : Goto(s, d, p)
          /\ UNCHANGED <<shut, peer>>
      BY <1>2, SideMoves DEF SideOf
    <2>2. \/ destructor'[c] = destructor[c]
          \/ destructor'[c].pc = "test" /\ ~Dying(c)
      <3>1. destructor' = destructor \/ Release(d, s, ThreadName(s, d))
        BY <1>2, SideMoves DEF SideOf
      <3> QED
        BY <1>1, <3>1
    <2>3. CASE threads' = threads
      BY <2>1, <2>2, <2>3 DEF Moved
    <2>4. ASSUME NEW p \in Places \ {"none"}, Goto(s, d, p)
          PROVE  Moved(c)
      <3>1. /\ threads'[s][d] = p
            /\ \A r \in Sides, e \in Connections :
                  r # s \/ e # d => threads'[r][e] = threads[r][e]
        BY <1>0, <2>4, GotoType
      <3>2. CASE d = c
        BY <1>2, <2>1, <2>2, <3>1, <3>2 DEF Moved, SideOf, StartOf
      <3>3. CASE d # c
        BY <2>1, <2>2, <3>1, <3>3 DEF Moved, Sides, SideOf
      <3> QED
        BY <3>2, <3>3
    <2> QED
      BY <2>1, <2>3, <2>4
  <1>3. ASSUME NEW d \in Connections, Destructor(d)
        PROVE  Moved(c)
    <2>1. /\ UNCHANGED <<threads, peer>> /\ Dying(d)
          /\ \/ destructor' = destructor
             \/ \E p \in DestructorPlaces \ {"none"} : DestructorGoto(d, p)
          /\ shut' = shut \/ shut' = [shut EXCEPT ![d] = TRUE]
      BY <1>3, DestructorMove DEF Dying
    <2>2. shut[c] => shut'[c]
      BY <1>0, <2>1
    <2>3. destructor'[c] = destructor[c] \/ (d = c /\ Dying(c)')
      BY <1>0, <2>1, DestructorGotoType DEF Dying
    <2> QED
      BY <1>3, <2>1, <2>2, <2>3 DEF Moved, SideOf, StartOf
  <1>4. ASSUME \/ Link \/ DropNew \/ TestAcceptor \/ AcceptThrows \/ Accept
               \/ Remover \/ Stopping \/ BeginStop \/ ListRace
               \/ UNCHANGED vars
        PROVE  Moved(c)
    <2>1. UNCHANGED <<threads, shut, peer>>
      BY <1>4, ServerMoves
    <2>2. \/ destructor'[c] = destructor[c]
          \/ destructor'[c].pc = "test" /\ ~Dying(c)
      BY <1>1, <1>4, ServerMoves
    <2> QED
      BY <2>1, <2>2 DEF Moved, SideOf, StartOf
  <1>5. ASSUME Start
        PROVE  Moved(c)
    <2>1. /\ threads' = [r \in Sides |-> [threads[r] EXCEPT ![acceptor.con] = "test"]]
          /\ acceptor.pc = "start" /\ acceptor' = [acceptor EXCEPT !.pc = "drop"]
          /\ UNCHANGED <<is_connected, destructor, shut, peer>>
      BY <1>5 DEF Start, AcceptorAt
    <2>2. acceptor'.pc = "drop"
      BY <1>0, <2>1 DEF ServerOK
    <2>3. CASE acceptor.con = c
      <3>1. ~Dying(c)
        BY <2>3, OwnersAre DEF Unowned
      <3>2. \A r \in Sides : threads'[r][c] = "test"
        BY <1>0, <2>1, <2>3
      <3> QED
        BY <2>1, <2>2, <2>3, <3>1, <3>2 DEF Moved, SideOf, StartOf
    <2>4. CASE acceptor.con # c
      <3>1. \A r \in Sides : threads'[r][c] = threads[r][c]
        BY <1>0, <2>1, <2>4
      <3> QED
        BY <2>1, <3>1 DEF Moved, Sides, SideOf
    <2> QED
      BY <2>3, <2>4
  <1>6. ASSUME NEW d \in Connections, ClientSends(d) \/ ClientLost(d)
        PROVE  Moved(c)
    <2>1. UNCHANGED <<threads, destructor, shut>>
      BY <1>6 DEF ClientSends, ClientLost
    <2>2. peer'[c] => peer[c]
      BY <1>0, <1>6 DEF ClientSends, ClientLost
    <2> QED
      BY <2>1, <2>2 DEF Moved, SideOf, StartOf
  <1> QED
    BY <1>2, <1>3, <1>4, <1>5, <1>6, StepKinds DEF SideOf

(* The destructor's way, from joining to done. *)
LEMMA DestructorJoins ==
    ASSUME ConnectionsOK, NEW c \in Connections, Destructor(c)
    PROVE  /\ threads' = threads
           /\ \/ destructor'[c].pc \notin {"join_writer", "done"}
              \/ destructor'[c] = destructor[c]
              \/ destructor'[c].pc = "join_writer" /\ threads["reader"][c] = "exited"
              \/ destructor[c].pc = "join_writer" /\ threads["writer"][c] = "exited"
  <1>0. /\ destructor \in [Connections -> [pc : DestructorPlaces, by : Names]]
        /\ threads' = threads
    BY DestructorMove DEF ConnectionsOK
  <1>1. ASSUME NEW p \in DestructorPlaces \ {"join_writer", "done"},
               DestructorGoto(c, p)
        PROVE  destructor'[c].pc \notin {"join_writer", "done"}
    BY <1>0, <1>1, DestructorGotoType
  <1>2. CASE TestConnected(c) \/ WaitSent(c)
    <2>1. \E p \in {"wait", "shutdown"} : DestructorGoto(c, p)
      BY <1>2 DEF TestConnected, WaitSent, DestructorMoves
    <2> QED
      BY <1>0, <1>1, <2>1 DEF DestructorPlaces
  <1>3. CASE ShutdownReceive(c)
    BY <1>0, <1>1, <1>3 DEF ShutdownReceive, DestructorPlaces
  <1>4. CASE JoinReader(c)
    BY <1>0, <1>4, DestructorGotoType DEF JoinReader, DestructorPlaces
  <1>5. CASE JoinWriter(c)
    BY <1>0, <1>5 DEF JoinWriter, DestructorAt
  <1>6. CASE JoinSelf(c)
    BY <1>0, <1>6 DEF JoinSelf, Ends, connection
  <1> QED
    BY <1>2, <1>3, <1>4, <1>5, <1>6 DEF Destructor

LEMMA JoinedStep ==
    ASSUME Shape, [Next]_vars, NEW c \in Connections, Unowned(c), Joined(c)
    PROVE  Joined(c)'
  <1>1. Moved(c) /\ ConnectionsOK
    BY ConnectionMoves DEF Shape
  (* A thread that has exited is not started again. *)
  <1>2. ASSUME NEW r \in Sides, threads[r][c] = "exited", Dying(c)
        PROVE  threads'[r][c] = "exited"
    BY <1>1, <1>2 DEF Moved, StartOf
  <1>3. CASE destructor'[c] = destructor[c]
    BY <1>2, <1>3 DEF Joined, Dying, Sides
  <1>4. CASE destructor'[c].pc = "test"
    BY <1>4 DEF Joined
  <1>5. CASE Destructor(c)
    BY <1>1, <1>5, DestructorJoins DEF Joined
  <1> QED
    BY <1>1, <1>3, <1>4, <1>5 DEF Moved

LEMMA LifeInit == Init => LifeInv
  BY DEF Init, LifeInv, Unowned, Joined, Dying

LEMMA LifeStep == Shape /\ LifeInv /\ [Next]_vars => LifeInv'
  <1> SUFFICES ASSUME Shape, LifeInv, [Next]_vars, NEW c \in Connections
               PROVE  Unowned(c)' /\ Joined(c)'
    BY DEF LifeInv
  <1> QED
    BY UnownedStep, JoinedStep DEF LifeInv

LEMMA LifeCorrect == Spec => []LifeInv
  <1>1. Shape /\ LifeInv /\ [Next]_vars => LifeInv'
    BY LifeStep
  <1> QED
    BY <1>1, LifeInit, ShapeCorrect, PTL DEF Spec

(* A connection is destroyed once its threads have ended and nobody owns   *)
(* it, and nobody owns it again: the shared_ptrs work.                     *)
THEOREM NoneUsed == Spec => []DestroyedUnused
  <1>1. LifeInv => DestroyedUnused
    BY DEF LifeInv, Unowned, Joined, Dying, DestroyedUnused, Destroyed, Sides
  <1> QED
    BY <1>1, LifeCorrect, PTL

-----------------------------------------------------------------------------
(* Reports *)

(* Where a thread of c goes, and what it does to reports and is_connected. *)
Goes(s, c) ==
    LET from == threads[s][c] to == threads'[s][c] same == is_connected' = is_connected
    IN  \/ /\ from = "report" /\ to = "reported" /\ same
           /\ reports' = [reports EXCEPT ![c] = @ + 1]
        \/ /\ reports' = reports
           /\ \/ to = from /\ same
              \/ from = "test" /\ to = "exited" /\ same
              \/ from = "test" /\ to \in {"read", "pop"} /\ same /\ is_connected[c]
              \/ /\ from \in {"read", "handle", "pop", "write"}
                 /\ to \in {"test", "handle", "write", "lost"} /\ same
              \/ /\ from = "lost" /\ to \in {"test", "report"}
                 /\ is_connected' = [is_connected EXCEPT ![c] = FALSE]
              \/ /\ from \in {"reported", "enqueue", "enqueued"}
                 /\ to \in {"enqueue", "enqueued", "test"} /\ same

LEMMA SideGoes ==
    ASSUME ConnectionsOK, NEW s \in Sides, NEW c \in Connections, SideOf(s, c)
    PROVE  Goes(s, c)
  <1>0. threads \in [Sides -> [Connections -> Places]]
    BY DEF ConnectionsOK
  <1>1. ASSUME NEW p \in Places, Goto(s, c, p)
        PROVE  threads'[s][c] = p
    BY <1>0, <1>1, GotoType
  <1> USE DEF coordinator, outside, history, Places
  <1>2. CASE LoopTest(s, c)
    <2>1. /\ threads[s][c] = "test"
          /\ \/ Goto(s, c, "exited")
             \/ is_connected[c] /\ \E p \in {"read", "pop"} : Goto(s, c, p)
          /\ UNCHANGED <<reports, is_connected>>
      BY <1>2 DEF LoopTest, At, Moves
    <2>2. \/ threads'[s][c] = "exited"
          \/ is_connected[c] /\ threads'[s][c] \in {"read", "pop"}
      BY <2>1, <1>1
    <2> QED
      BY <2>1, <2>2 DEF Goes
  <1>3. CASE Lost(s, c)
    <2>1. /\ threads[s][c] = "lost"
          /\ \E p \in {"test", "report"} : Goto(s, c, p)
          /\ is_connected' = [is_connected EXCEPT ![c] = FALSE]
          /\ reports' = reports
      BY <1>3 DEF Lost, At
    <2>2. threads'[s][c] \in {"test", "report"}
      BY <2>1, <1>1
    <2> QED
      BY <2>1, <2>2 DEF Goes
  <1>4. CASE Report(s, c)
    <2>1. /\ threads[s][c] = "report" /\ is_connected' = is_connected
          /\ \/ threads' = threads /\ reports' = reports
             \/ /\ Goto(s, c, "reported")
                /\ reports' = [reports EXCEPT ![c] = @ + 1]
      BY <1>4 DEF Report, At
    <2> QED
      BY <2>1, <1>1 DEF Goes
  <1>5. CASE Reported(s, c) \/ Enqueued(s, c)
    <2>1. /\ threads[s][c] \in {"reported", "enqueued"}
          /\ \E p \in {"enqueue", "test"} : Goto(s, c, p)
          /\ UNCHANGED <<is_connected, reports>>
      BY <1>5 DEF Reported, Enqueued, At
    <2>2. threads'[s][c] \in {"enqueue", "test"}
      BY <2>1, <1>1
    <2> QED
      BY <2>1, <2>2 DEF Goes
  <1>6. CASE Enqueue(s, c)
    <2>1. /\ threads[s][c] = "enqueue"
          /\ threads' = threads \/ Goto(s, c, "enqueued")
          /\ UNCHANGED <<is_connected, reports>>
      BY <1>6 DEF Enqueue, At
    <2> QED
      BY <2>1, <1>1 DEF Goes
  <1>7. CASE EnqueueLate(s, c)
    BY <1>7 DEF EnqueueLate, Ends, connection, Goes
  <1>8. CASE s = "reader" /\ (Read(c) \/ Handle(c) \/ ReadFails(c))
    <2>1. /\ threads[s][c] \in {"read", "handle"}
          /\ threads' = threads
               \/ \E p \in {"handle", "test", "lost"} : Goto(s, c, p)
          /\ UNCHANGED <<is_connected, reports>>
      BY <1>8 DEF Read, Handle, ReadFails, At, Moves
    <2>2. threads'[s][c] \in {"handle", "test", "lost", threads[s][c]}
      BY <2>1, <1>1
    <2> QED
      BY <2>1, <2>2 DEF Goes
  <1>9. CASE s = "writer" /\ (Pop(c) \/ Write(c) \/ WriteFails(c))
    <2>1. /\ threads[s][c] \in {"pop", "write"}
          /\ \E p \in {"write", "test", "lost"} : Goto(s, c, p)
          /\ UNCHANGED <<is_connected, reports>>
      BY <1>9 DEF Pop, Write, WriteFails, At, Moves
    <2>2. threads'[s][c] \in {"write", "test", "lost"}
      BY <2>1, <1>1
    <2> QED
      BY <2>1, <2>2 DEF Goes
  <1> QED
    BY <1>2, <1>3, <1>4, <1>5, <1>6, <1>7, <1>8, <1>9 DEF SideOf, Side

(* Nobody else reports a loss of c, or marks it. *)
LEMMA NoneElse ==
    ASSUME Shape, [Next]_vars, NEW c \in Connections
    PROVE  \/ \E s \in Sides : SideOf(s, c)
           \/ reports'[c] = reports[c] /\ is_connected'[c] = is_connected[c]
  <1>0. is_connected \in [Connections -> BOOLEAN] /\ reports \in [Connections -> Nat]
    BY DEF Shape, ConnectionsOK, MessagesOK
  <1>1. ASSUME NEW d \in Connections, NEW s \in Sides, SideOf(s, d)
        PROVE  \/ d = c
               \/ reports'[c] = reports[c] /\ is_connected'[c] = is_connected[c]
    BY <1>0, <1>1, SideGoes DEF Goes, Shape
  <1>2. ASSUME NEW d \in Connections, Destructor(d)
        PROVE  UNCHANGED <<reports, is_connected>>
    BY <1>2, DestructorMove DEF history
  <1>3. CASE Start \/ \E d \in Connections : ClientSends(d) \/ ClientLost(d)
    BY <1>3 DEF Start, ClientSends, ClientLost, history, outside, connection
  <1>4. CASE \/ Link \/ DropNew \/ TestAcceptor \/ AcceptThrows \/ Accept
             \/ Remover \/ Stopping \/ BeginStop \/ ListRace \/ UNCHANGED vars
    BY <1>4, ServerMoves
  <1> QED
    BY <1>1, <1>2, <1>3, <1>4, StepKinds DEF SideOf

(* A connection comes to the acceptor by accept(), with no thread. *)
LEMMA AcceptorSteps ==
    ASSUME [Next]_vars
    PROVE  \/ acceptor' = acceptor
           \/ Accept
           \/ Link /\ acceptor.pc = "link" /\ acceptor' = [acceptor EXCEPT !.pc = "start"]
           \/ Start \/ DropNew \/ TestAcceptor \/ AcceptThrows
  <1> USE DEF server, network, history, coordinator, messaging, connection,
              outside, vars
  <1>1. ASSUME NEW c \in Connections, NEW s \in Sides, SideOf(s, c)
        PROVE  acceptor' = acceptor
    BY <1>1, SideMoves DEF SideOf
  <1>2. ASSUME NEW c \in Connections, Destructor(c)
        PROVE  acceptor' = acceptor
    BY <1>2, DestructorMove
  <1>3. ASSUME NEW c \in Connections, ClientSends(c) \/ ClientLost(c)
        PROVE  acceptor' = acceptor
    BY <1>3 DEF ClientSends, ClientLost
  <1>4. CASE Remover \/ BeginStop \/ ListRace \/ UNCHANGED vars
    BY <1>4 DEF Remover, PopRemoved, Remove, DropRemoved, TestEmpty,
                TestRemover, RemoverMoves, BeginStop, MainMoves, ListRace, Ends
  <1>5. CASE Stopping
    <2>1. CASE SendGoodbye \/ QueueConnection \/ DropVisited \/ IteratorFreed
                 \/ EndOfSendAll \/ JoinAcceptor \/ StopRemover
      BY <2>1 DEF SendGoodbye, QueueConnection, DropVisited, IteratorFreed,
                  EndOfSendAll, JoinAcceptor, StopRemover, MainMoves, Ends
    <2>2. CASE PushNull \/ JoinRemover \/ ClearList \/ ListCleared
                 \/ ClearQueue \/ QueueCleared
      BY <2>2 DEF PushNull, JoinRemover, ClearList, ListCleared, ClearQueue,
                  QueueCleared, MainMoves
    <2> QED
      BY <1>5, <2>1, <2>2 DEF Stopping
  <1>6. CASE Link
    BY <1>6 DEF Link, AcceptorAt
  <1> QED
    BY <1>1, <1>2, <1>3, <1>4, <1>5, <1>6, StepKinds DEF SideOf

(* The acceptor still has c, and no thread of c has started. *)
LEMMA NotStarted ==
    ASSUME Shape, [Next]_vars, NEW c \in Connections, Unowned(c), AtMostTwo(c),
           acceptor'.pc \in {"link", "start"}, acceptor'.con = c,
           NEW s \in Sides
    PROVE  threads'[s][c] = "none"
  <1>0. ServerOK /\ ConnectionsOK /\ Moved(c)
    BY ConnectionMoves DEF Shape
  <1>1. CASE Accept
    <2>1. c = accepted + 1 /\ UNCHANGED <<threads>>
      BY <1>1 DEF Accept, connection
    <2> QED
      BY <1>0, <2>1 DEF ConnectionsOK, ServerOK
  <1>2. CASE acceptor.pc \in {"link", "start"} /\ acceptor.con = c
             /\ acceptor'.pc # "drop"
    <2>1. \A r \in Sides : threads[r][c] = "none"
      BY <1>2 DEF AtMostTwo
    <2> QED
      BY <1>0, <1>2, <2>1 DEF Moved, StartOf
  <1>3. CASE Start \/ DropNew \/ TestAcceptor \/ AcceptThrows
    <2>1. \/ \E p \in {"drop", "accept", "exited", "test"} :
                acceptor' = [acceptor EXCEPT !.pc = p]
          \/ acceptor' = [pc |-> "test", con |-> None]
      BY <1>3 DEF Start, DropNew, TestAcceptor, AcceptThrows, AcceptorMoves
    <2>2. acceptor'.pc \in {"drop", "accept", "exited", "test"}
      BY <1>0, <2>1 DEF ServerOK
    <2> QED
      BY <2>2
  <1>4. CASE Link /\ acceptor.pc = "link"
             /\ acceptor' = [acceptor EXCEPT !.pc = "start"]
    <2>1. acceptor'.con = acceptor.con /\ acceptor'.pc = "start"
      BY <1>0, <1>4 DEF ServerOK
    <2> QED
      BY <1>2, <1>4, <2>1
  <1>5. CASE acceptor' = acceptor
    BY <1>2, <1>5
  <1> QED
    BY <1>1, <1>3, <1>4, <1>5, AcceptorSteps

(* Each thread reports a loss once at most. *)
LEMMA AtMostTwoStep ==
    ASSUME Shape, [Next]_vars, NEW c \in Connections, Unowned(c), AtMostTwo(c)
    PROVE  AtMostTwo(c)'
  <1>0. /\ ConnectionsOK /\ Moved(c)
        /\ is_connected \in [Connections -> BOOLEAN]
        /\ reports \in [Connections -> Nat]
        /\ reports'[c] \in Nat
    BY ConnectionMoves, MessagesStep DEF Shape, ConnectionsOK, MessagesOK
  <1> DEFINE Marked(s) == threads[s][c] \in {"report", "reported", "enqueue", "enqueued"}
                              => ~is_connected[c]
  <1>1. \A s \in Sides : Marked(s)
    BY DEF AtMostTwo
  <1>2. \A s \in Sides : May(s, c) \in 0..1 /\ May(s, c)' \in 0..1
    BY DEF May
  (* A thread that stays where it is. *)
  <1>3. ASSUME NEW s \in Sides, threads'[s][c] = threads[s][c],
               is_connected'[c] => is_connected[c]
        PROVE  Marked(s)' /\ May(s, c)' <= May(s, c)
    BY <1>1, <1>3 DEF May
  (* A thread that goes on. *)
  <1>4. ASSUME NEW s \in Sides, SideOf(s, c)
        PROVE  AtMostTwo(c)'
    <2>1. /\ Goes(s, c)
          /\ is_connected'[c] => is_connected[c]
      BY <1>0, <1>4, SideGoes DEF Goes
    <2>2. Marked(s)'
      BY <1>0, <1>1, <2>1 DEF Goes
    <2>3. \/ reports'[c] = reports[c] /\ May(s, c)' <= May(s, c)
          \/ /\ reports'[c] = reports[c] + 1
             /\ May(s, c) = 1 /\ May(s, c)' = 0
      <3>1. CASE threads[s][c] = "report" /\ threads'[s][c] = "reported"
                 /\ reports' = [reports EXCEPT ![c] = @ + 1]
        BY <1>0, <3>1 DEF May
      <3>2. CASE reports' = reports /\ threads'[s][c] = threads[s][c]
        BY <1>3, <2>1, <3>2
      <3>3. CASE reports' = reports /\ threads'[s][c] # threads[s][c]
        <4>1. May(s, c)' = 1 => May(s, c) = 1
          BY <1>0, <1>1, <2>1, <3>3 DEF Goes, May
        <4> QED
          BY <1>2, <3>3, <4>1
      <3> QED
        BY <2>1, <3>1, <3>2, <3>3 DEF Goes
    <2>4. PICK o \in Sides : Sides = {s, o} /\ o # s
      BY DEF Sides
    <2>5. threads'[o][c] = threads[o][c]
      <3>1. \/ threads' = threads \/ \E p \in Places : Goto(s, c, p)
        BY <1>4, SideMoves DEF SideOf
      <3> QED
        BY <1>0, <2>4, <3>1, GotoType DEF ConnectionsOK
    <2>6. Marked(o)' /\ May(o, c)' <= May(o, c)
      BY <1>3, <2>1, <2>4, <2>5
    <2>7. reports'[c] + May("reader", c)' + May("writer", c)' <= 2
      <3>1. reports[c] + May("reader", c) + May("writer", c) <= 2
        BY DEF AtMostTwo
      <3>2. {s, o} = {"reader", "writer"}
        BY <2>4 DEF Sides
      <3> HIDE DEF May
      <3> QED
        BY <1>0, <1>2, <2>3, <2>6, <3>1, <3>2, <2>4 DEF Sides
    <2> QED
      BY <2>2, <2>4, <2>6, <2>7, NotStarted DEF AtMostTwo
  <1>5. ASSUME ~\E s \in Sides : SideOf(s, c)
        PROVE  AtMostTwo(c)'
    <2>1. reports'[c] = reports[c] /\ is_connected'[c] = is_connected[c]
      BY <1>5, NoneElse
    <2>2. \A s \in Sides : Marked(s)' /\ May(s, c)' <= May(s, c)
      <3>1. CASE \A s \in Sides : threads'[s][c] = threads[s][c]
        BY <1>3, <2>1, <3>1
      <3>2. CASE StartOf(c)
        <4>1. \A s \in Sides : threads[s][c] = "none" /\ threads'[s][c] = "test"
          BY <3>2 DEF StartOf, AtMostTwo
        <4> QED
          BY <4>1 DEF May
      <3> QED
        BY <1>0, <1>5, <3>1, <3>2 DEF Moved
    <2>3. reports'[c] + May("reader", c)' + May("writer", c)' <= 2
      <3>1. reports[c] + May("reader", c) + May("writer", c) <= 2
        BY DEF AtMostTwo
      <3> HIDE DEF May
      <3> QED
        BY <1>0, <1>2, <2>1, <2>2, <3>1 DEF Sides
    <2> QED
      BY <2>2, <2>3, NotStarted DEF AtMostTwo
  <1> QED
    BY <1>4, <1>5

(* As long as ~TCPServer does not queue the connections, only they do.     *)
Early == main.pc \in {"running", "send", "join_acceptor"}
Same == UNCHANGED <<accepted, active_connections, con_removal_queue>>

LEMMA EarlySteps ==
    ASSUME Shape, [Next]_vars, Early'
    PROVE  /\ Early
           /\ \/ Same /\ remover'.con \in {remover.con, None}
                 /\ acceptor' = acceptor
              \/ Same /\ remover' = remover
                 /\ (Start \/ DropNew \/ TestAcceptor \/ AcceptThrows)
              \/ /\ \E s \in Sides, d \in Connections : Enqueue(s, d)
                 /\ UNCHANGED <<accepted, active_connections, remover, acceptor>>
              \/ Accept \/ Link \/ PopRemoved \/ Remove
  <1>0. ServerOK
    BY DEF Shape
  <1> USE DEF server, network, history, coordinator, messaging, connection,
              outside, vars, Early
  <1>1. ASSUME NEW d \in Connections, NEW s \in Sides, SideOf(s, d)
        PROVE  /\ UNCHANGED <<accepted, active_connections, remover, acceptor, main>>
               /\ Enqueue(s, d) \/ con_removal_queue' = con_removal_queue
    <2>1. UNCHANGED <<accepted, active_connections, remover, acceptor, main>>
      BY <1>1, SideMoves DEF SideOf
    <2>2. CASE LoopTest(s, d) \/ Lost(s, d) \/ Report(s, d) \/ Reported(s, d)
               \/ EnqueueLate(s, d) \/ Enqueued(s, d)
      BY <2>2 DEF LoopTest, Lost, Report, Reported, EnqueueLate, Enqueued,
                  Moves, Ends
    <2>3. CASE \/ Read(d) \/ Handle(d) \/ ReadFails(d) \/ Pop(d) \/ Write(d)
               \/ WriteFails(d)
      BY <2>3 DEF Read, Handle, ReadFails, Pop, Write, WriteFails, Moves
    <2> QED
      BY <1>1, <2>1, <2>2, <2>3 DEF SideOf, Side
  <1>2. ASSUME NEW d \in Connections,
               Destructor(d) \/ ClientSends(d) \/ ClientLost(d)
        PROVE  Same /\ UNCHANGED <<remover, acceptor, main>>
    <2>1. CASE Destructor(d)
      BY <2>1, DestructorMove DEF Same
    <2>2. CASE ClientSends(d) \/ ClientLost(d)
      BY <2>2 DEF ClientSends, ClientLost, Same
    <2> QED
      BY <1>2, <2>1, <2>2
  <1>3. CASE Start \/ DropNew \/ TestAcceptor \/ AcceptThrows
    BY <1>3 DEF Start, DropNew, TestAcceptor, AcceptThrows, AcceptorMoves, Same
  <1>4. CASE Accept \/ Link \/ PopRemoved \/ Remove
    BY <1>4 DEF Accept, Link, PopRemoved, Remove
  <1>5. CASE DropRemoved \/ TestEmpty \/ TestRemover
    <2>1. /\ Same /\ UNCHANGED <<acceptor, main>>
          /\ \/ remover' = [pc |-> "empty", con |-> None]
             \/ \E p : remover' = [remover EXCEPT !.pc = p]
      BY <1>5 DEF DropRemoved, TestEmpty, TestRemover, RemoverMoves, Same
    <2>2. remover'.con \in {remover.con, None}
      BY <1>0, <2>1 DEF ServerOK
    <2> QED
      BY <2>1, <2>2
  <1>6. CASE ListRace \/ IteratorFreed \/ UNCHANGED vars
    BY <1>6 DEF ListRace, IteratorFreed, Ends, Same
  <1>7. CASE SendGoodbye \/ DropVisited \/ EndOfSendAll \/ BeginStop
    <2>1. Same /\ UNCHANGED <<remover, acceptor>>
      BY <1>7 DEF SendGoodbye, DropVisited, EndOfSendAll, BeginStop, MainMoves,
                  Same
    <2>2. Early
      <3>1. CASE SendGoodbye \/ EndOfSendAll \/ BeginStop
        BY <3>1 DEF SendGoodbye, EndOfSendAll, BeginStop, MainAt
      <3>2. CASE DropVisited
        <4>1. main'.pc = main.pc
          BY <1>0, <3>2 DEF DropVisited, ServerOK, MainOK
        <4> QED
          BY <4>1
      <3> QED
        BY <1>7, <3>1, <3>2
    <2> QED
      BY <2>1, <2>2
  <1>8. CASE QueueConnection \/ JoinAcceptor \/ StopRemover \/ PushNull
             \/ JoinRemover \/ ClearList \/ ListCleared \/ ClearQueue
             \/ QueueCleared
    <2>1. CASE QueueConnection
      <3>1. main.pc = "queue" /\ \E d : main' = [main EXCEPT !.con = d, !.held = TRUE]
        BY <2>1 DEF QueueConnection, MainAt
      <3> QED
        BY <1>0, <3>1 DEF ServerOK, MainOK
    <2>2. CASE StopRemover \/ PushNull
      <3>1. \E p \in {"push_null", "join_remover"} :
               \/ main' = [main EXCEPT !.pc = p]
               \/ main' = [main EXCEPT !.pc = p, !.con = None]
        BY <2>2 DEF StopRemover, PushNull
      <3> QED
        BY <1>0, <3>1 DEF ServerOK, MainOK
    <2>3. CASE JoinAcceptor \/ JoinRemover \/ ListCleared \/ QueueCleared
      <3>1. \E p \in {"queue", "clear_list", "clear_queue", "stopped"} :
               main' = [main EXCEPT !.pc = p]
        BY <2>3 DEF JoinAcceptor, JoinRemover, ListCleared, QueueCleared,
                    MainMoves
      <3> QED
        BY <1>0, <3>1 DEF ServerOK, MainOK
    <2>4. CASE ClearList \/ ClearQueue
      BY <2>4 DEF ClearList, ClearQueue, MainAt
    <2> QED
      BY <1>8, <2>1, <2>2, <2>3, <2>4
  <1>9. Accept \/ Link \/ PopRemoved \/ Remove
          \/ Start \/ DropNew \/ TestAcceptor \/ AcceptThrows => main' = main
    BY DEF Accept, Link, PopRemoved, Remove, Start, DropNew, TestAcceptor,
           AcceptThrows, AcceptorMoves
  <1>10. ASSUME main' = main
         PROVE  Early
    BY <1>10
  <1>11. CASE \E d \in Connections, s \in Sides : SideOf(s, d)
    <2>1. PICK d \in Connections, s \in Sides : SideOf(s, d)
      BY <1>11
    <2>2. CASE Enqueue(s, d)
      BY <1>1, <1>10, <2>1, <2>2
    <2>3. CASE con_removal_queue' = con_removal_queue
      BY <1>1, <1>10, <2>1, <2>3 DEF Same
    <2> QED
      BY <1>1, <2>1, <2>2, <2>3
  <1>12. CASE \E d \in Connections :
                 Destructor(d) \/ ClientSends(d) \/ ClientLost(d)
    BY <1>2, <1>10, <1>12
  <1>13. CASE \/ Accept \/ Link \/ PopRemoved \/ Remove
              \/ Start \/ DropNew \/ TestAcceptor \/ AcceptThrows
    BY <1>3, <1>9, <1>10, <1>13
  <1>14. CASE \/ DropRemoved \/ TestEmpty \/ TestRemover
              \/ ListRace \/ IteratorFreed \/ UNCHANGED vars
    BY <1>5, <1>6, <1>10, <1>14
  <1> HIDE DEF Early
  <1> QED
    BY <1>7, <1>8, <1>11, <1>12, <1>13, <1>14, StepKinds
    DEF SideOf, Stopping, Remover

(* What the server begins to do about c, it does after a report. *)
LEMMA GoingStep ==
    ASSUME Shape, [Next]_vars, NEW c \in Connections, Unowned(c), Going(c)'
    PROVE  Going(c) \/ reports'[c] = reports[c] + 1
  <1>0. /\ ServerOK /\ ConnectionsOK /\ Moved(c)
        /\ reports \in [Connections -> Nat]
        /\ c \in Int /\ c # None /\ None \in 0..accepted
    <2>1. ServerOK /\ ConnectionsOK /\ MessagesOK /\ Moved(c)
      BY ConnectionMoves DEF Shape
    <2>2. accepted \in Nat
      BY <2>1 DEF ServerOK
    <2> QED
      BY <2>1, <2>2 DEF MessagesOK, Connections, None
  <1>1. ASSUME NEW s \in Sides,
               threads'[s][c] \in {"reported", "enqueue", "enqueued"}
        PROVE  \/ threads[s][c] \in {"reported", "enqueue", "enqueued"}
               \/ reports'[c] = reports[c] + 1
    <2>1. CASE threads'[s][c] = threads[s][c]
      BY <1>1, <2>1
    <2>2. CASE SideOf(s, c)
      BY <1>0, <1>1, <2>2, SideGoes DEF Goes
    <2> QED
      BY <1>0, <1>1, <2>1, <2>2 DEF Moved, StartOf
  <1>2. ASSUME Early',
               \/ InQueue(c)'
               \/ remover'.con = c
               \/ c <= accepted' /\ c \notin active_connections'
                  /\ ~(acceptor'.con = c /\ acceptor'.pc = "link")
        PROVE  Going(c)
    <2>1. Early
      BY <1>2, EarlySteps
    <2>2. CASE Same /\ remover'.con \in {remover.con, None} /\ acceptor' = acceptor
      BY <1>0, <1>2, <2>1, <2>2 DEF Going, Early, Same, InQueue
    <2>3. CASE Same /\ remover' = remover
               /\ (Start \/ DropNew \/ TestAcceptor \/ AcceptThrows)
      <3>1. acceptor.pc # "link"
        BY <2>3 DEF Start, DropNew, TestAcceptor, AcceptThrows, AcceptorAt
      <3> QED
        BY <1>2, <2>1, <2>3, <3>1 DEF Going, Early, Same, InQueue
    <2>4. CASE /\ \E s \in Sides, d \in Connections : Enqueue(s, d)
               /\ UNCHANGED <<accepted, active_connections, remover, acceptor>>
      <3>1. PICK s \in Sides, d \in Connections : Enqueue(s, d)
        BY <2>4
      <3>2. /\ threads[s][d] = "enqueue"
            /\ \/ con_removal_queue' = con_removal_queue
               \/ con_removal_queue' = push(con_removal_queue, d)
        BY <3>1 DEF Enqueue, At
      <3>3. d \in 0..accepted
        BY <1>0, <3>2 DEF ConnectionsOK, Connections, ServerOK
      <3>4. InQueue(c)' => InQueue(c) \/ c = d
        BY <1>0, <3>2, <3>3, QueuePush DEF InQueue
      <3> QED
        BY <1>2, <2>1, <2>4, <3>2, <3>4 DEF Going, Early
    <2>5. CASE Accept
      <3>1. /\ UNCHANGED <<active_connections, con_removal_queue, remover>>
            /\ accepted' = accepted + 1
            /\ acceptor' = [pc |-> "link", con |-> accepted + 1]
            /\ acceptor.pc = "accept"
        BY <2>5 DEF Accept, server, AcceptorAt
      <3>2. accepted \in Nat
        BY <1>0 DEF ServerOK
      <3> QED
        BY <1>0, <1>2, <2>1, <3>1, <3>2 DEF Going, Early, InQueue
    <2>6. CASE Link
      <3>1. /\ UNCHANGED <<con_removal_queue, remover>> /\ accepted' = accepted
            /\ active_connections' = active_connections \union {acceptor.con}
        BY <2>6 DEF Link, outside, network
      <3> QED
        BY <1>2, <2>1, <3>1 DEF Going, Early, InQueue
    <2>7. CASE PopRemoved
      <3>1. /\ UNCHANGED <<active_connections, accepted, acceptor>>
            /\ con_removal_queue # <<>>
            /\ con_removal_queue' = pop(con_removal_queue)
            /\ remover'.con = front(con_removal_queue)
        BY <2>7 DEF PopRemoved, outside, network, empty
      <3>2. /\ InQueue(front(con_removal_queue))
            /\ InQueue(c)' => InQueue(c)
        BY <1>0, <3>1, QueuePop
      <3> QED
        BY <1>2, <2>1, <3>1, <3>2 DEF Going, Early
    <2>8. CASE Remove
      <3>1. /\ UNCHANGED <<con_removal_queue, acceptor, accepted>>
            /\ remover' = [remover EXCEPT !.pc = "drop"]
            /\ active_connections' = active_connections \ {remover.con}
        BY <2>8 DEF Remove, outside, network
      <3>2. remover'.con = remover.con
        BY <1>0, <3>1 DEF ServerOK
      <3> QED
        BY <1>2, <2>1, <3>1, <3>2 DEF Going, Early, InQueue
    <2> QED
      BY <1>2, <2>2, <2>3, <2>4, <2>5, <2>6, <2>7, <2>8, EarlySteps
  <1> QED
    BY <1>1, <1>2 DEF Going, Early

LEMMA KnownStep ==
    ASSUME Shape, [Next]_vars, NEW c \in Connections, Unowned(c), Known(c)
    PROVE  Known(c)'
  <1>1. reports \in [Connections -> Nat] /\ ConnectionsOK
    BY DEF Shape, MessagesOK
  <1>2. reports'[c] >= reports[c]
    <2>1. CASE reports'[c] = reports[c]
      BY <1>1, <2>1
    <2>2. ASSUME NEW s \in Sides, SideOf(s, c)
          PROVE  reports'[c] >= reports[c]
      BY <1>1, <2>2, SideGoes DEF Goes
    <2> QED
      BY <2>1, <2>2, NoneElse
  <1>3. reports'[c] \in Nat
    BY MessagesStep DEF MessagesOK
  <1> QED
    BY <1>1, <1>2, <1>3, GoingStep DEF Known

LEMMA ReportInit == Init => ReportInv
  <1> SUFFICES ASSUME Init, NEW c \in Connections
               PROVE  AtMostTwo(c) /\ Known(c)
    BY DEF ReportInv
  <1>1. AtMostTwo(c)
    BY DEF Init, AtMostTwo, May, None, Connections, Sides
  <1>2. ~Going(c)
    BY DEF Init, Going, InQueue, None, Connections, Sides
  <1> QED
    BY <1>1, <1>2 DEF Known

LEMMA ReportCorrect == Spec => []ReportInv
  <1>1. Shape /\ LifeInv /\ ReportInv /\ [Next]_vars => ReportInv'
    BY AtMostTwoStep, KnownStep DEF LifeInv, ReportInv
  <1> QED
    BY <1>1, ReportInit, ShapeCorrect, LifeCorrect, PTL DEF Spec

(* A connection leaves the list only after its loss was reported, and its  *)
(* threads report it once each at most.                                    *)
THEOREM LossesReported == Spec => []LossReported
  <1>1. Shape /\ ReportInv => LossReported
    <2> SUFFICES ASSUME Shape, ReportInv, NEW c \in Connections
                 PROVE  /\ reports[c] <= 2
                        /\ (main.pc \in {"running", "send", "join_acceptor"}
                            /\ c <= accepted /\ c \notin active_connections
                            /\ acceptor.con # c) => reports[c] >= 1
      BY DEF LossReported
    <2>1. AtMostTwo(c) /\ Known(c) /\ reports[c] \in Nat
      BY DEF ReportInv, Shape, MessagesOK
    <2>2. May("reader", c) \in Nat /\ May("writer", c) \in Nat
      BY DEF May
    <2>3. reports[c] <= 2
      BY <2>1, <2>2 DEF AtMostTwo
    <2> QED
      BY <2>1, <2>3 DEF Known, Going
  <1> QED
    BY <1>1, ShapeCorrect, ReportCorrect, PTL

-----------------------------------------------------------------------------
(* Messages *)

(* The destructor's way, from the test of is_connected to the end.         *)
LEMMA DestructorWay ==
    ASSUME ConnectionsOK, NEW c \in Connections, Destructor(c)
    PROVE  LET from == destructor[c].pc to == destructor'[c].pc
               quiet == shut' = shut /\ outgoing' = outgoing
           IN  \/ destructor' = destructor /\ quiet
               \/ from = "test" /\ to = "wait" /\ quiet
               \/ from = "test" /\ to = "shutdown" /\ quiet /\ ~is_connected[c]
               \/ from = "wait" /\ to = "shutdown" /\ quiet /\ outgoing[c] = <<>>
               \/ /\ from = "shutdown" /\ to = "join_reader"
                  /\ outgoing' = outgoing /\ shut' = [shut EXCEPT ![c] = TRUE]
               \/ /\ from = "join_reader" /\ to = "join_writer" /\ shut' = shut
                  /\ outgoing' = [outgoing EXCEPT ![c] = push(@, Wake)]
               \/ from = "join_writer" /\ to = "done" /\ quiet
  <1>0. destructor \in [Connections -> [pc : DestructorPlaces, by : Names]]
    BY DEF ConnectionsOK
  <1>1. ASSUME NEW p \in DestructorPlaces, DestructorGoto(c, p)
        PROVE  destructor'[c].pc = p
    BY <1>0, <1>1, DestructorGotoType
  <1>2. {"wait", "shutdown", "join_reader", "join_writer", "done"}
            \subseteq DestructorPlaces
    BY DEF DestructorPlaces
  <1> USE DEF messaging, connection, DestructorAt
  <1>3. CASE TestConnected(c)
    <2>1. /\ destructor[c].pc = "test" /\ UNCHANGED <<shut, outgoing>>
          /\ \/ DestructorGoto(c, "wait")
             \/ DestructorGoto(c, "shutdown") /\ ~is_connected[c]
      BY <1>3 DEF TestConnected, DestructorMoves
    <2> QED
      BY <1>1, <1>2, <2>1
  <1>4. CASE WaitSent(c)
    <2>1. /\ destructor[c].pc = "wait" /\ outgoing[c] = <<>>
          /\ DestructorGoto(c, "shutdown") /\ UNCHANGED <<shut, outgoing>>
      BY <1>4 DEF WaitSent, DestructorMoves, empty
    <2> QED
      BY <1>1, <1>2, <2>1
  <1>5. CASE ShutdownReceive(c)
    BY <1>1, <1>2, <1>5 DEF ShutdownReceive
  <1>6. CASE JoinReader(c)
    BY <1>1, <1>2, <1>6 DEF JoinReader
  <1>7. CASE JoinWriter(c)
    <2>1. /\ destructor[c].pc = "join_writer"
          /\ DestructorGoto(c, "done") /\ UNCHANGED <<shut, outgoing>>
      BY <1>7 DEF JoinWriter, DestructorMoves
    <2> QED
      BY <1>1, <1>2, <2>1
  <1>8. CASE JoinSelf(c)
    BY <1>8 DEF JoinSelf, Ends
  <1> QED
    BY <1>3, <1>4, <1>5, <1>6, <1>7, <1>8 DEF Destructor

(* Only its destructor shuts a connection down. *)
LEMMA ShutMoves ==
    ASSUME Shape, [Next]_vars, NEW c \in Connections
    PROVE  shut'[c] = shut[c] \/ Destructor(c)
  <1>0. ConnectionsOK /\ shut \in [Connections -> BOOLEAN]
    BY DEF Shape, ConnectionsOK
  <1>1. ASSUME NEW d \in Connections, NEW s \in Sides, SideOf(s, d)
        PROVE  shut' = shut
    BY <1>1, SideMoves DEF SideOf
  <1>2. ASSUME NEW d \in Connections, Destructor(d), d # c
        PROVE  shut'[c] = shut[c]
    BY <1>0, <1>2, DestructorMove
  <1>3. CASE Start \/ \E d \in Connections : ClientSends(d) \/ ClientLost(d)
    BY <1>3 DEF Start, ClientSends, ClientLost, connection, messaging
  <1>4. CASE \/ Link \/ DropNew \/ TestAcceptor \/ AcceptThrows \/ Accept
             \/ Remover \/ Stopping \/ BeginStop \/ ListRace \/ UNCHANGED vars
    BY <1>4, ServerMoves
  <1> QED
    BY <1>1, <1>2, <1>3, <1>4, StepKinds DEF SideOf

(* A client that is there is lost to the reader only, after the shutdown.  *)
LEMMA LostHow ==
    ASSUME ConnectionsOK, NEW s \in Sides, NEW c \in Connections, SideOf(s, c),
           threads'[s][c] = "lost", threads[s][c] # "lost"
    PROVE  ~peer[c] \/ (s = "reader" /\ shut[c])
  <1>1. CASE ReadFails(c) \/ WriteFails(c)
    <2>1. CASE s = "reader"
      BY <1>1, <2>1 DEF ReadFails, WriteFails
    <2>2. CASE s = "writer" /\ WriteFails(c)
      BY <2>2 DEF WriteFails
    <2>3. CASE s = "writer" /\ ReadFails(c)
      <3>1. threads' = [threads EXCEPT !["reader"][c] = "lost"]
        BY <2>3 DEF ReadFails, Moves, Goto
      <3>2. threads'[s][c] = threads[s][c]
        BY <2>3, <3>1 DEF ConnectionsOK, Sides
      <3> QED
        BY <3>2
    <2> QED
      BY <1>1, <2>1, <2>2, <2>3 DEF Sides
  <1>2. ASSUME ~(ReadFails(c) \/ WriteFails(c))
        PROVE  FALSE
    <2>1. \/ threads' = threads
          \/ \E p \in Places \ {"none", "lost"} : Goto(s, c, p)
      <3>1. CASE LoopTest(s, c) \/ Lost(s, c) \/ Report(s, c)
        BY <3>1 DEF LoopTest, Lost, Report, Moves, Places
      <3>2. CASE \/ Reported(s, c) \/ Enqueue(s, c) \/ EnqueueLate(s, c)
                 \/ Enqueued(s, c)
        BY <3>2 DEF Reported, Enqueue, EnqueueLate, Enqueued, Ends, connection,
                    Places
      <3>3. CASE s = "reader" /\ (Read(c) \/ Handle(c))
        BY <3>3 DEF Read, Handle, Places
      <3>4. CASE s = "writer" /\ (Pop(c) \/ Write(c))
        BY <3>4 DEF Pop, Write, Places
      <3> QED
        BY <1>2, <3>1, <3>2, <3>3, <3>4 DEF SideOf, Side
    <2>2. threads \in [Sides -> [Connections -> Places]]
      BY DEF ConnectionsOK
    <2>3. ASSUME NEW p \in Places \ {"none", "lost"}, Goto(s, c, p)
          PROVE  threads'[s][c] = p
      BY <2>2, <2>3, GotoType
    <2> QED
      BY <2>1, <2>3
  <1> QED
    BY <1>1, <1>2

LEMMA SoundStep ==
    ASSUME Shape, [Next]_vars, NEW c \in Connections, Unowned(c), Sound(c)
    PROVE  Sound(c)'
  <1>0. /\ ConnectionsOK /\ Moved(c)
        /\ shut \in [Connections -> BOOLEAN]
        /\ is_connected \in [Connections -> BOOLEAN]
    BY ConnectionMoves DEF Shape, ConnectionsOK
  <1> DEFINE Shutting == {"join_reader", "join_writer", "done"}
  <1>1. ASSUME shut'[c]
        PROVE  destructor'[c].pc \in Shutting
    <2>1. CASE Destructor(c)
      BY <1>0, <1>1, <2>1, DestructorWay DEF Sound
    <2>2. CASE ~Destructor(c)
      <3>1. shut[c]
        BY <1>1, <2>2, ShutMoves
      <3>2. destructor[c].pc \in Shutting
        BY <3>1 DEF Sound
      <3> QED
        BY <1>0, <2>2, <3>2 DEF Moved, Dying
    <2> QED
      BY <2>1, <2>2
  <1>2. ASSUME NEW s \in Sides, peer'[c], SideOf(s, c),
               threads'[s][c] = "lost", threads[s][c] # "lost"
        PROVE  s = "reader" /\ shut[c]
    BY <1>0, <1>2, LostHow DEF Moved
  <1>3. ASSUME peer'[c], ~shut'[c]
        PROVE  is_connected'[c] /\ \A s \in Sides : threads'[s][c] \notin LateThreads
    <2>1. /\ peer[c] /\ ~shut[c] /\ is_connected[c]
          /\ \A s \in Sides : threads[s][c] \notin LateThreads
      BY <1>0, <1>3 DEF Moved, Sound
    <2>2. ASSUME NEW s \in Sides, SideOf(s, c)
          PROVE  is_connected' = is_connected /\ threads'[s][c] \notin LateThreads
      <3>1. Goes(s, c) /\ threads[s][c] \notin LateThreads
        BY <1>0, <2>1, <2>2, SideGoes
      <3>2. threads'[s][c] # "lost"
        BY <1>2, <1>3, <2>1, <2>2 DEF LateThreads
      <3> QED
        BY <3>1, <3>2 DEF Goes, LateThreads
    <2>3. is_connected'[c]
      BY <2>1, <2>2, NoneElse
    <2>4. ASSUME NEW s \in Sides
          PROVE  threads'[s][c] \notin LateThreads
      <3>1. CASE threads'[s][c] = threads[s][c]
        BY <2>1, <3>1
      <3>2. CASE StartOf(c)
        BY <3>2 DEF StartOf, LateThreads
      <3>3. CASE SideOf(s, c)
        BY <2>2, <3>3
      <3> QED
        BY <1>0, <3>1, <3>2, <3>3 DEF Moved
    <2> QED
      BY <2>3, <2>4
  <1>4. ASSUME peer'[c]
        PROVE  threads'["writer"][c] # "lost"
    <2>1. threads["writer"][c] # "lost"
      BY <1>0, <1>4 DEF Moved, Sound
    <2>2. CASE SideOf("writer", c)
      BY <1>2, <1>4, <2>1, <2>2 DEF Sides
    <2> QED
      BY <1>0, <2>1, <2>2 DEF Moved, StartOf, Sides
  <1> QED
    BY <1>1, <1>3, <1>4 DEF Sound

(* Nobody but its destructor queues a message for a connection without     *)
(* owners.                                                                 *)
LEMMA NoneQueued ==
    ASSUME Shape, [Next]_vars, NEW c \in Connections, Unowned(c), Dying(c)
    PROVE  \/ outgoing'[c] = outgoing[c]
           \/ Pop(c)
           \/ JoinReader(c)
  <1>1. ~Handle(c)
    BY OwnersAre DEF Handle, At, Unowned, Holding
  <1>2. c \notin active_connections
    BY OwnersAre DEF Unowned
  <1> QED
    BY <1>1, <1>2, QueueMoves

LEMMA EmptiedStep ==
    ASSUME Shape, [Next]_vars, NEW c \in Connections, Unowned(c), Sound(c),
           Emptied(c)
    PROVE  Emptied(c)'
  <1>0. /\ ConnectionsOK /\ Moved(c)
        /\ outgoing \in [Connections -> Seq(Messages)]
    BY ConnectionMoves DEF Shape, MessagesOK
  <1> DEFINE Late == {"shutdown", "join_reader", "join_writer", "done"}
             OnlyWake == \A m : Says(c, m) => m = Wake
  <1> SUFFICES ASSUME peer'[c], destructor'[c].pc \in Late
               PROVE  OnlyWake'
    BY DEF Emptied
  <1>1. peer[c] /\ (destructor[c].pc \in Late => OnlyWake)
    BY <1>0 DEF Moved, Emptied
  <1>2. CASE Destructor(c)
    <2>1. OnlyWake
      <3>1. CASE destructor[c].pc \in Late
        BY <1>1, <3>1
      <3>2. CASE destructor[c].pc = "wait" /\ outgoing[c] = <<>>
        BY <3>2 DEF Says
      <3>3. CASE destructor[c].pc = "test" /\ ~is_connected[c]
        BY <1>1, <3>3 DEF Sound
      <3> QED
        BY <1>0, <1>2, <3>1, <3>2, <3>3, DestructorWay
    <2>2. CASE outgoing' = outgoing
      BY <2>1, <2>2 DEF Says
    <2>3. CASE outgoing' = [outgoing EXCEPT ![c] = push(@, Wake)]
      <3>1. \A x : Says(c, x)' <=> Says(c, x) \/ x = Wake
        BY <1>0, <2>3, SaysPush DEF Messages
      <3> QED
        BY <2>1, <3>1
    <2> QED
      BY <1>0, <1>2, <2>2, <2>3, DestructorWay
  <1>3. CASE ~Destructor(c)
    <2>1. destructor[c].pc \in Late /\ Dying(c)
      BY <1>0, <1>3 DEF Moved, Dying
    <2>2. CASE outgoing'[c] = outgoing[c]
      BY <1>1, <2>1, <2>2 DEF Says
    <2>3. CASE Pop(c)
      <3>1. outgoing[c] # <<>> /\ outgoing' = [outgoing EXCEPT ![c] = pop(@)]
        BY <2>3 DEF Pop, empty
      <3>2. \A x : Says(c, x)' => Says(c, x)
        BY <1>0, <3>1, SaysPop
      <3> QED
        BY <1>1, <2>1, <3>2
    <2>4. ~JoinReader(c)
      BY <1>3 DEF Destructor
    <2> QED
      BY <2>1, <2>2, <2>3, <2>4, NoneQueued
  <1> QED
    BY <1>2, <1>3

(* Who owes a GoodBye has just queued it, or owed it before. *)
LEMMA OwedMoves ==
    ASSUME Shape, [Next]_vars, NEW c \in Connections, c \in owed'
    PROVE  \/ c \in owed
           \/ outgoing' = [outgoing EXCEPT ![c] = push(@, "goodbye")]
  <1> USE DEF server, network, history, coordinator, messaging, connection,
              outside, vars
  <1>1. ASSUME NEW d \in Connections, NEW s \in Sides, SideOf(s, d)
        PROVE  owed' = owed
    BY <1>1, SideMoves DEF SideOf
  <1>2. ASSUME NEW d \in Connections, Destructor(d)
        PROVE  owed' = owed
    BY <1>2, DestructorMove
  <1>3. CASE Start \/ \E d \in Connections : ClientSends(d) \/ ClientLost(d)
    BY <1>3 DEF Start, ClientSends, ClientLost
  <1>4. CASE SendGoodbye
    BY <1>4 DEF SendGoodbye
  <1>5. CASE \/ Link \/ DropNew \/ TestAcceptor \/ AcceptThrows \/ Accept
             \/ Remover \/ BeginStop \/ ListRace \/ UNCHANGED vars
    BY <1>5 DEF Link, DropNew, TestAcceptor, AcceptThrows, Accept,
                AcceptorMoves, Remover, PopRemoved, Remove, DropRemoved,
                TestEmpty, TestRemover, RemoverMoves, BeginStop, MainMoves,
                ListRace, Ends
  <1>6. CASE QueueConnection \/ DropVisited \/ IteratorFreed
             \/ EndOfSendAll \/ JoinAcceptor \/ StopRemover
    BY <1>6 DEF QueueConnection, DropVisited, IteratorFreed,
                EndOfSendAll, JoinAcceptor, StopRemover, MainMoves, Ends
  <1>7. CASE PushNull \/ JoinRemover \/ ClearList \/ ListCleared
             \/ ClearQueue \/ QueueCleared
    BY <1>7 DEF PushNull, JoinRemover, ClearList, ListCleared, ClearQueue,
                QueueCleared, MainMoves
  <1> QED
    BY <1>1, <1>2, <1>3, <1>4, <1>5, <1>6, <1>7, StepKinds DEF SideOf, Stopping

LEMMA ToldLaterStep ==
    ASSUME Shape, [Next]_vars, NEW c \in Connections, Unowned(c), AtMostTwo(c),
           ToldLater(c)
    PROVE  ToldLater(c)'
  <1>0. /\ ConnectionsOK /\ Moved(c) /\ ConnectionsOK'
        /\ threads \in [Sides -> [Connections -> Places]]
        /\ outgoing \in [Connections -> Seq(Messages)]
        /\ writing \in [Connections -> Messages]
    BY ConnectionMoves, ConnectionsStep DEF Shape, MessagesOK, ConnectionsOK
  <1> DEFINE Pending == writing[c] = "goodbye" /\ threads["writer"][c] = "write"
  <1> SUFFICES ASSUME peer'[c], c \in owed', c \notin told'
               PROVE  Says(c, "goodbye")' \/ Pending'
    BY DEF ToldLater
  <1>1. peer[c]
    BY <1>0 DEF Moved
  <1>2. CASE c \notin owed
    <2>1. outgoing' = [outgoing EXCEPT ![c] = push(@, "goodbye")]
      BY <1>2, OwedMoves
    <2>2. Says(c, "goodbye")'
      BY <1>0, <2>1, SaysPush DEF Messages
    <2> QED
      BY <2>2
  <1>3. CASE c \in owed
    <2>1. c \notin told
      <3>1. ASSUME NEW d \in Connections, Write(d)
            PROVE  told \subseteq told'
        BY <3>1 DEF Write
      <3> QED
        BY <3>1, ToldMoves
    <2>2. CASE Says(c, "goodbye")
      <3>1. CASE outgoing'[c] = outgoing[c]
        BY <2>2, <3>1 DEF Says
      <3>2. ASSUME NEW m \in Messages, outgoing' = [outgoing EXCEPT ![c] = push(@, m)]
            PROVE  Says(c, "goodbye")'
        BY <1>0, <2>2, <3>2, SaysPush
      <3>3. CASE Handle(c) \/ JoinReader(c)
        BY <3>2, <3>3 DEF Handle, JoinReader, Messages
      <3>4. CASE Pop(c)
        <4>1. /\ outgoing[c] # <<>> /\ outgoing' = [outgoing EXCEPT ![c] = pop(@)]
              /\ writing' = [writing EXCEPT ![c] = front(outgoing[c])]
              /\ Goto("writer", c, "write")
          BY <3>4 DEF Pop, empty
        <4>2. Says(c, "goodbye")' \/ "goodbye" = front(outgoing[c])
          BY <1>0, <2>2, <4>1, SaysPop
        <4>3. /\ writing'[c] = front(outgoing[c])
              /\ threads'["writer"][c] = "write"
          <5>1. "writer" \in Sides /\ "write" \in Places
            BY DEF Sides, Places
          <5> QED
            BY <1>0, <4>1, <5>1, GotoType
        <4> QED
          BY <4>2, <4>3
      <3> QED
        BY <3>1, <3>2, <3>3, <3>4, QueueMoves DEF Messages
    <2>3. CASE Pending
      <3>1. ~Pop(c)
        BY <2>3 DEF Pop, At
      <3>2. writing'[c] = writing[c]
        BY <3>1, QueueMoves DEF Handle, JoinReader
      <3>3. ~SideOf("writer", c)
        <4>1. ~(LoopTest("writer", c) \/ Lost("writer", c) \/ Report("writer", c)
                \/ Reported("writer", c) \/ Enqueue("writer", c)
                \/ EnqueueLate("writer", c) \/ Enqueued("writer", c))
          BY <2>3 DEF LoopTest, Lost, Report, Reported, Enqueue, EnqueueLate,
                      Enqueued, At
        <4>2. ~Write(c)
          BY <2>3 DEF Write
        <4>3. ~WriteFails(c)
          BY <1>1 DEF WriteFails
        <4> QED
          BY <3>1, <4>1, <4>2, <4>3 DEF SideOf, Side
      <3>4. threads'["writer"][c] = "write"
        <4>1. ~StartOf(c)
          BY <2>3 DEF StartOf, AtMostTwo, Sides
        <4> QED
          BY <1>0, <2>3, <3>3, <4>1 DEF Moved, Sides
      <3> QED
        BY <2>3, <3>2, <3>4
    <2> QED
      BY <1>1, <1>3, <2>1, <2>2, <2>3 DEF ToldLater
  <1> QED
    BY <1>2, <1>3

LEMMA SentInit == Init => SentInv
  BY DEF Init, SentInv, Sound, Emptied, ToldLater, LateThreads, Sides

LEMMA SentCorrect == Spec => []SentInv
  <1>1. Shape /\ LifeInv /\ ReportInv /\ SentInv /\ [Next]_vars => SentInv'
    BY SoundStep, EmptiedStep, ToldLaterStep DEF LifeInv, ReportInv, SentInv
  <1> QED
    BY <1>1, SentInit, ShapeCorrect, LifeCorrect, ReportCorrect, PTL DEF Spec

(* A connection whose client is there is not destroyed with a message      *)
(* queued, and not before its GoodBye was written.                         *)
THEOREM SentFirst == Spec => []SentBeforeDestroyed
  <1>1. LifeInv /\ SentInv => SentBeforeDestroyed
    <2> SUFFICES ASSUME LifeInv, SentInv, NEW c \in Connections,
                        Destroyed(c), peer[c]
                 PROVE  /\ \A i \in DOMAIN outgoing[c] : outgoing[c][i] = Wake
                        /\ c \in owed => c \in told
      BY DEF SentBeforeDestroyed
    <2>1. Joined(c) /\ Emptied(c) /\ ToldLater(c)
      BY DEF LifeInv, SentInv
    <2>2. \A m : Says(c, m) => m = Wake
      BY <2>1 DEF Emptied, Destroyed
    <2>3. threads["writer"][c] = "exited"
      BY <2>1 DEF Joined, Destroyed
    <2> QED
      BY <2>1, <2>2, <2>3 DEF ToldLater, Says, Wake
  <1> QED
    BY <1>1, LifeCorrect, SentCorrect, PTL
=============================================================================
