------------------------------- MODULE TcpServer -------------------------------
(***************************************************************************)
(* The coordinator's TCPServer and its TCPServerConnections: the acceptor  *)
(* thread, the connection remover thread, the main thread, which sends     *)
(* GoodBye to all and destroys the server, and a reader and a writer       *)
(* thread for each connection.                                             *)
(*                                                                         *)
(* A connection lives as long as a shared_ptr to it: in active_connections,*)
(* in con_removal_queue, or in a variable of a thread.  The thread that    *)
(* drops the last one runs the destructor.  Connections are numbered as    *)
(* they are accepted, which is their order in the list, too.               *)
(***************************************************************************)
EXTENDS Integers, FiniteSets, TSQueue

CONSTANTS
    MaxChanges, \* bound: connections accepted and connections lost, together
    MaxMessages \* bound: messages the clients send

ASSUME BoundsAssumption == MaxChanges \in Nat /\ MaxMessages \in Nat

Connections == 1..MaxChanges
None == 0             \* no connection: the NULL that ends the remover, too
Sides == {"reader", "writer"}
Wake == "empty"       \* the message "" that makes the writer come back
Messages == {"reply", "goodbye", Wake}

VARIABLES
    process,            \* "up", or what ended it
    accepted,           \* connections accepted so far
    active_connections,
    con_removal_queue,
    run_acceptor, run_con_remover,
    acceptor,           \* the acceptor thread and its new_tcp_connection
    remover,            \* the remover thread and its to_remove
    main,               \* the main thread and the con of its loop
    is_connected,       \* per connection
    outgoing,           \* per connection
    destructor,         \* per connection: where it is, and who runs it
    threads,            \* per side and connection: where the thread is
    writing,            \* per connection: the writer's msg
    inbox,              \* per connection: messages not read yet
    peer,               \* per connection: the client is there
    shut,               \* per connection: shutdown_receive was done
    reports,            \* per connection: calls of disconnected_callback
    owed,               \* connections send_all sends GoodBye to
    told,               \* connections it was written to
    messages, losses    \* counts

server == <<active_connections, con_removal_queue, run_acceptor,
            run_con_remover>>
network == <<accepted, inbox, peer, messages, losses>>
history == <<reports, owed, told>>
coordinator == <<process, server, acceptor, remover, main>>
messaging == <<outgoing, writing, shut>>
connection == <<is_connected, outgoing, destructor, threads, writing, shut>>
outside == <<network, history>>
vars == <<coordinator, connection, outside>>

Init ==
    /\ process = "up"
    /\ accepted = 0
    /\ active_connections = {}
    /\ con_removal_queue = <<>>
    /\ run_acceptor = TRUE /\ run_con_remover = TRUE
    /\ acceptor = [pc |-> "accept", con |-> None]
    /\ remover = [pc |-> "pop", con |-> None]
    /\ main = [pc |-> "running", con |-> None, held |-> FALSE]
    /\ is_connected = [c \in Connections |-> TRUE]
    /\ outgoing = [c \in Connections |-> <<>>]
    /\ destructor = [c \in Connections |-> [pc |-> "none", by |-> <<"nobody", None>>]]
    /\ threads = [s \in Sides |-> [c \in Connections |-> "none"]]
    /\ writing = [c \in Connections |-> Wake]
    /\ inbox = [c \in Connections |-> 0]
    /\ peer = [c \in Connections |-> TRUE]
    /\ shut = [c \in Connections |-> FALSE]
    /\ reports = [c \in Connections |-> 0]
    /\ owed = {} /\ told = {}
    /\ messages = 0 /\ losses = 0

Up == process = "up"

Ends(how) ==
    /\ process' = how
    /\ UNCHANGED <<server, acceptor, remover, main, connection, outside>>

(* Places of a reader or writer that hold a shared_from_this(). *)
Holding == {"handle", "reported", "enqueued"}

InQueue(c) == \E i \in DOMAIN con_removal_queue : con_removal_queue[i] = c

(* The shared_ptrs to c, named after who holds them. *)
Owners(c) ==
    {s \in Sides : threads[s][c] \in Holding}
    \union (IF c \in active_connections THEN {"list"} ELSE {})
    \union (IF InQueue(c) THEN {"queue"} ELSE {})
    \union (IF acceptor.con = c THEN {"acceptor"} ELSE {})
    \union (IF remover.con = c THEN {"remover"} ELSE {})
    \union (IF main.held /\ main.con = c THEN {"main"} ELSE {})

(* Its destructor has begun: in_destructor is set, shared_from_this throws. *)
Dying(c) == destructor[c].pc # "none"

(* Threads are named by what they run and, if any, their connection. *)
ThreadName(s, c) == <<s, c>>

(* Thread t runs a destructor. *)
Destroying(t) ==
    \E c \in Connections :
        destructor[c].by = t /\ destructor[c].pc \notin {"none", "done"}

(* Thread t drops the shared_ptr that owner o is: the last one destroys c. *)
Release(c, o, t) ==
    destructor' =
        IF Owners(c) = {o}
        THEN [destructor EXCEPT ![c] = [pc |-> "test", by |-> t]]
        ELSE destructor

-----------------------------------------------------------------------------
(* Reader and writer of a connection *)

At(s, c, p) == Up /\ threads[s][c] = p /\ ~Destroying(ThreadName(s, c))
Goto(s, c, p) == threads' = [threads EXCEPT ![s][c] = p]

(* Nothing but the place of the thread changes. *)
Moves(s, c, p) ==
    /\ Goto(s, c, p)
    /\ UNCHANGED <<coordinator, is_connected, messaging, destructor, outside>>

(* The condition of both loops. *)
LoopTest(s, c) ==
    /\ At(s, c, "test")
    /\ Moves(s, c, IF is_connected[c] /\ ~Dying(c)
                   THEN (IF s = "reader" THEN "read" ELSE "pop")
                   ELSE "exited")

(* Mutant: the callback is called without a message. *)
ReadNothing(c) ==
    /\ At("reader", c, "read")
    /\ inbox' = [inbox EXCEPT ![c] = @ - 1]
    /\ IF Dying(c)
       THEN process' = "bad_weak_ptr" /\ UNCHANGED threads
       ELSE Goto("reader", c, "handle") /\ UNCHANGED process
    /\ UNCHANGED <<server, acceptor, remover, main, is_connected, messaging,
                   destructor, accepted, peer, messages, losses, history>>

(* A message: the callback gets a shared_ptr, or the process ends. *)
Read(c) ==
    /\ At("reader", c, "read")
    /\ inbox[c] > 0
    /\ inbox' = [inbox EXCEPT ![c] = @ - 1]
    /\ IF Dying(c)
       THEN process' = "bad_weak_ptr" /\ UNCHANGED threads
       ELSE Goto("reader", c, "handle") /\ UNCHANGED process
    /\ UNCHANGED <<server, acceptor, remover, main, is_connected, messaging,
                   destructor, accepted, peer, messages, losses, history>>

(* message_received_callback: a request is answered. *)
Handle(c) ==
    /\ At("reader", c, "handle")
    /\ outgoing' = [outgoing EXCEPT ![c] = push(@, "reply")]
    /\ Goto("reader", c, "test")
    /\ Release(c, "reader", ThreadName("reader", c))
    /\ UNCHANGED <<coordinator, is_connected, writing, shut, outside>>

(* The client is gone, or shutdown_receive was done and nothing is left. *)
ReadFails(c) ==
    /\ At("reader", c, "read")
    /\ ~peer[c] \/ (shut[c] /\ inbox[c] = 0)
    /\ Moves("reader", c, "lost")

Pop(c) ==
    /\ At("writer", c, "pop")
    /\ ~empty(outgoing[c])
    /\ writing' = [writing EXCEPT ![c] = front(outgoing[c])]
    /\ outgoing' = [outgoing EXCEPT ![c] = pop(@)]
    /\ Goto("writer", c, "write")
    /\ UNCHANGED <<coordinator, is_connected, destructor, shut, outside>>

(* A write to a client that is gone may still be taken. *)
Write(c) ==
    /\ At("writer", c, "write")
    /\ told' = IF writing[c] = "goodbye" THEN told \union {c} ELSE told
    /\ Goto("writer", c, "test")
    /\ UNCHANGED <<coordinator, is_connected, messaging, destructor, network,
                   reports, owed>>

WriteFails(c) ==
    /\ At("writer", c, "write")
    /\ writing[c] # Wake
    /\ ~peer[c]
    /\ Moves("writer", c, "lost")

(* Mutant: the connection goes on as if it was not lost. *)
LostUnmarked(s, c) ==
    /\ At(s, c, "lost")
    /\ Moves(s, c, IF Dying(c) THEN "test" ELSE "report")

(* The error: nothing is reported once the destructor has begun. *)
Lost(s, c) ==
    /\ At(s, c, "lost")
    /\ is_connected' = [is_connected EXCEPT ![c] = FALSE]
    /\ Goto(s, c, IF Dying(c) THEN "test" ELSE "report")
    /\ UNCHANGED <<coordinator, messaging, destructor, outside>>

(* disconnected_callback(shared_from_this()): the destructor may have begun. *)
Report(s, c) ==
    /\ At(s, c, "report")
    /\ IF Dying(c)
       THEN process' = "bad_weak_ptr" /\ UNCHANGED <<threads, reports>>
       ELSE /\ reports' = [reports EXCEPT ![c] = @ + 1]
            /\ Goto(s, c, "reported")
            /\ UNCHANGED process
    /\ UNCHANGED <<server, acceptor, remover, main, is_connected, messaging,
                   destructor, network, owed, told>>

Reported(s, c) ==
    /\ At(s, c, "reported")
    /\ Goto(s, c, "enqueue")
    /\ Release(c, s, ThreadName(s, c))
    /\ UNCHANGED <<coordinator, is_connected, messaging, outside>>

(* con_removal_queue was destroyed with the server, or is being destroyed. *)
ServerGone == main.pc \in {"clear_queue", "stopped"}

EnqueueLate(s, c) ==
    /\ At(s, c, "enqueue")
    /\ ServerGone /\ ~Dying(c)
    /\ Ends("use_after_free")

(* add_to_con_removal_list(shared_from_this()) *)
Enqueue(s, c) ==
    /\ At(s, c, "enqueue")
    /\ Dying(c) \/ ~ServerGone
    /\ IF Dying(c)
       THEN process' = "bad_weak_ptr" /\ UNCHANGED <<threads, con_removal_queue>>
       ELSE /\ con_removal_queue' = push(con_removal_queue, c)
            /\ Goto(s, c, "enqueued")
            /\ UNCHANGED process
    /\ UNCHANGED <<active_connections, run_acceptor, run_con_remover, acceptor,
                   remover, main, is_connected, messaging, destructor,
                   outside>>

(* The argument is dropped after the push: it may be the last shared_ptr. *)
Enqueued(s, c) ==
    /\ At(s, c, "enqueued")
    /\ Goto(s, c, "test")
    /\ Release(c, s, ThreadName(s, c))
    /\ UNCHANGED <<coordinator, is_connected, messaging, outside>>

Side(s, c) ==
    \/ LoopTest(s, c) \/ Lost(s, c) \/ Report(s, c) \/ Reported(s, c)
    \/ Enqueue(s, c) \/ EnqueueLate(s, c) \/ Enqueued(s, c)

ReaderThread(c) == Side("reader", c) \/ Read(c) \/ Handle(c) \/ ReadFails(c)
WriterThread(c) == Side("writer", c) \/ Pop(c) \/ Write(c) \/ WriteFails(c)

-----------------------------------------------------------------------------
(* ~TCPServerConnection, in whichever thread *)

DestructorAt(c, p) == Up /\ destructor[c].pc = p
DestructorGoto(c, p) == destructor' = [destructor EXCEPT ![c].pc = p]
DestructorMoves(c, p) ==
    /\ DestructorGoto(c, p)
    /\ UNCHANGED <<coordinator, is_connected, messaging, threads, outside>>

(* Mutant: the destructor does not wait for the outgoing messages. *)
TestConnectedOnly(c) ==
    /\ DestructorAt(c, "test")
    /\ DestructorMoves(c, "shutdown")

TestConnected(c) ==
    /\ DestructorAt(c, "test")
    /\ DestructorMoves(c, IF is_connected[c] THEN "wait" ELSE "shutdown")

WaitSent(c) ==
    /\ DestructorAt(c, "wait")
    /\ empty(outgoing[c])
    /\ DestructorMoves(c, "shutdown")

ShutdownReceive(c) ==
    /\ DestructorAt(c, "shutdown")
    /\ shut' = [shut EXCEPT ![c] = TRUE]
    /\ DestructorGoto(c, "join_reader")
    /\ UNCHANGED <<coordinator, is_connected, outgoing, threads, writing,
                   outside>>

JoinReader(c) ==
    /\ DestructorAt(c, "join_reader")
    /\ threads["reader"][c] = "exited"
    /\ outgoing' = [outgoing EXCEPT ![c] = push(@, Wake)]
    /\ DestructorGoto(c, "join_writer")
    /\ UNCHANGED <<coordinator, is_connected, threads, writing, shut, outside>>

(* Mutant: the writer is woken up but not waited for. *)
JoinWriterNot(c) ==
    /\ DestructorAt(c, "join_writer")
    /\ destructor[c].by # ThreadName("writer", c)
    /\ DestructorMoves(c, "done")

JoinWriter(c) ==
    /\ DestructorAt(c, "join_writer")
    /\ threads["writer"][c] = "exited"
    /\ DestructorMoves(c, "done")

(* A thread that joins itself gets an exception the destructor lets out. *)
JoinSelf(c) ==
    /\ \/ DestructorAt(c, "join_reader")
          /\ destructor[c].by = ThreadName("reader", c)
       \/ DestructorAt(c, "join_writer")
          /\ destructor[c].by = ThreadName("writer", c)
    /\ Ends("joined_itself")

Destructor(c) ==
    \/ TestConnected(c) \/ WaitSent(c) \/ ShutdownReceive(c) \/ JoinReader(c)
    \/ JoinWriter(c) \/ JoinSelf(c)

-----------------------------------------------------------------------------
(* acceptor_function *)

AcceptorAt(p) == Up /\ acceptor.pc = p /\ ~Destroying(ThreadName("acceptor", None))
AcceptorMoves(p) ==
    /\ acceptor' = [acceptor EXCEPT !.pc = p]
    /\ UNCHANGED <<process, server, remover, main, connection, outside>>

(* accept() returned a connection; after the shutdown it throws. *)
Accept ==
    /\ AcceptorAt("accept")
    /\ main.pc # "join_acceptor"
    /\ accepted + losses < MaxChanges
    /\ accepted' = accepted + 1
    /\ acceptor' = [pc |-> "link", con |-> accepted + 1]
    /\ UNCHANGED <<process, server, remover, main, connection, inbox, peer,
                   messages, losses, history>>

Link ==
    /\ AcceptorAt("link")
    /\ active_connections' = active_connections \union {acceptor.con}
    /\ acceptor' = [acceptor EXCEPT !.pc = "start"]
    /\ UNCHANGED <<process, con_removal_queue, run_acceptor, run_con_remover,
                   remover, main, connection, outside>>

Start ==
    /\ AcceptorAt("start")
    /\ threads' = [s \in Sides |-> [threads[s] EXCEPT ![acceptor.con] = "test"]]
    /\ acceptor' = [acceptor EXCEPT !.pc = "drop"]
    /\ UNCHANGED <<process, server, remover, main, is_connected, messaging,
                   destructor, outside>>

DropNew ==
    /\ AcceptorAt("drop")
    /\ acceptor' = [pc |-> "test", con |-> None]
    /\ Release(acceptor.con, "acceptor", ThreadName("acceptor", None))
    /\ UNCHANGED <<process, server, remover, main, is_connected, messaging,
                   threads, outside>>

TestAcceptor ==
    /\ AcceptorAt("test")
    /\ AcceptorMoves(IF run_acceptor THEN "accept" ELSE "exited")

AcceptThrows ==
    /\ AcceptorAt("accept")
    /\ main.pc = "join_acceptor"
    /\ AcceptorMoves("test")

-----------------------------------------------------------------------------
(* con_remover *)

RemoverAt(p) == Up /\ remover.pc = p /\ ~Destroying(ThreadName("remover", None))
RemoverMoves(p) ==
    /\ remover' = [remover EXCEPT !.pc = p]
    /\ UNCHANGED <<process, server, acceptor, main, connection, outside>>

PopRemoved ==
    /\ RemoverAt("pop")
    /\ ~empty(con_removal_queue)
    /\ remover' = [pc |-> IF front(con_removal_queue) = None THEN "empty"
                          ELSE "remove",
                   con |-> front(con_removal_queue)]
    /\ con_removal_queue' = pop(con_removal_queue)
    /\ UNCHANGED <<process, active_connections, run_acceptor, run_con_remover,
                   acceptor, main, connection, outside>>

Remove ==
    /\ RemoverAt("remove")
    /\ active_connections' = active_connections \ {remover.con}
    /\ remover' = [remover EXCEPT !.pc = "drop"]
    /\ UNCHANGED <<process, con_removal_queue, run_acceptor, run_con_remover,
                   acceptor, main, connection, outside>>

DropRemoved ==
    /\ RemoverAt("drop")
    /\ remover' = [pc |-> "empty", con |-> None]
    /\ Release(remover.con, "remover", ThreadName("remover", None))
    /\ UNCHANGED <<process, server, acceptor, main, is_connected, messaging,
                   threads, outside>>

TestEmpty ==
    /\ RemoverAt("empty")
    /\ RemoverMoves(IF empty(con_removal_queue) THEN "test" ELSE "pop")

TestRemover ==
    /\ RemoverAt("test")
    /\ RemoverMoves(IF run_con_remover THEN "pop" ELSE "exited")

Remover == PopRemoved \/ Remove \/ DropRemoved \/ TestEmpty \/ TestRemover
-----------------------------------------------------------------------------
(* The main thread: ~PMGPIeClusterServer, then ~TCPServer *)

MainThread == ThreadName("main", None)
MainAt(p) == Up /\ main.pc = p /\ ~Destroying(MainThread)
MainMoves(p) ==
    /\ main' = [main EXCEPT !.pc = p]
    /\ UNCHANGED <<process, server, acceptor, remover, connection, outside>>

BeginStop ==
    /\ MainAt("running")
    /\ MainMoves("send")

(* The loops over active_connections: their iterator is at main.con. *)
Behind(c) == {d \in active_connections : c < d}
IsNext(d) == d \in Behind(main.con) /\ \A e \in Behind(main.con) : d <= e
AtNode == main.con = None \/ main.con \in active_connections

(* send_all *)
SendGoodbye ==
    /\ MainAt("send") /\ ~main.held
    /\ \E c \in active_connections :
          /\ IsNext(c)
          /\ main' = [main EXCEPT !.con = c, !.held = TRUE]
          /\ outgoing' = [outgoing EXCEPT ![c] = push(@, "goodbye")]
          /\ owed' = owed \union {c}
    /\ UNCHANGED <<process, server, acceptor, remover, is_connected,
                   destructor, threads, writing, shut, network, reports, told>>

(* ~TCPServer: every connection is queued for removal. *)
QueueConnection ==
    /\ MainAt("queue") /\ ~main.held
    /\ \E c \in active_connections :
          /\ IsNext(c)
          /\ main' = [main EXCEPT !.con = c, !.held = TRUE]
          /\ con_removal_queue' = push(con_removal_queue, c)
    /\ UNCHANGED <<process, active_connections, run_acceptor, run_con_remover,
                   acceptor, remover, connection, outside>>

(* The copy in the loop's variable is dropped. *)
DropVisited ==
    /\ MainAt(main.pc) /\ main.held
    /\ main' = [main EXCEPT !.held = FALSE]
    /\ Release(main.con, "main", MainThread)
    /\ UNCHANGED <<process, server, acceptor, remover, is_connected, messaging,
                   threads, outside>>

(* The remover freed the node the iterator is at: reading it may crash. *)
IteratorFreed ==
    /\ main.pc \in {"send", "queue"}
    /\ MainAt(main.pc) /\ ~main.held
    /\ ~AtNode
    /\ Ends("use_after_free")

EndOfSendAll ==
    /\ MainAt("send") /\ ~main.held
    /\ Behind(main.con) = {}
    /\ main' = [main EXCEPT !.pc = "join_acceptor", !.con = None]
    /\ run_acceptor' = FALSE
    /\ UNCHANGED <<process, active_connections, con_removal_queue,
                   run_con_remover, acceptor, remover, connection, outside>>

JoinAcceptor ==
    /\ MainAt("join_acceptor")
    /\ acceptor.pc = "exited"
    /\ MainMoves("queue")

StopRemover ==
    /\ MainAt("queue") /\ ~main.held
    /\ Behind(main.con) = {}
    /\ main' = [main EXCEPT !.pc = "push_null", !.con = None]
    /\ run_con_remover' = FALSE
    /\ UNCHANGED <<process, active_connections, con_removal_queue,
                   run_acceptor, acceptor, remover, connection, outside>>

(* Mutant: nothing wakes the remover up. *)
PushNothing ==
    /\ MainAt("push_null")
    /\ MainMoves("join_remover")

PushNull ==
    /\ MainAt("push_null")
    /\ con_removal_queue' = push(con_removal_queue, None)
    /\ main' = [main EXCEPT !.pc = "join_remover"]
    /\ UNCHANGED <<process, active_connections, run_acceptor, run_con_remover,
                   acceptor, remover, connection, outside>>

JoinRemover ==
    /\ MainAt("join_remover")
    /\ remover.pc = "exited"
    /\ MainMoves("clear_list")

(* The members: first the list, with what the remover left of it, ... *)
ClearList ==
    /\ MainAt("clear_list")
    /\ \E c \in active_connections :
          /\ IsNext(c)
          /\ active_connections' = active_connections \ {c}
          /\ Release(c, "list", MainThread)
    /\ UNCHANGED <<process, con_removal_queue, run_acceptor, run_con_remover,
                   acceptor, remover, main, is_connected, messaging, threads,
                   outside>>

ListCleared ==
    /\ MainAt("clear_list")
    /\ active_connections = {}
    /\ MainMoves("clear_queue")

(* ... then the queue, from its front on. *)
ClearQueue ==
    /\ MainAt("clear_queue")
    /\ ~empty(con_removal_queue)
    /\ con_removal_queue' = pop(con_removal_queue)
    /\ LET c == front(con_removal_queue)
           more == \E i \in 2..Len(con_removal_queue) : con_removal_queue[i] = c
       IN  IF c = None \/ more THEN UNCHANGED destructor
           ELSE Release(c, "queue", MainThread)
    /\ UNCHANGED <<process, active_connections, run_acceptor, run_con_remover,
                   acceptor, remover, main, is_connected, messaging, threads,
                   outside>>

QueueCleared ==
    /\ MainAt("clear_queue")
    /\ empty(con_removal_queue)
    /\ MainMoves("stopped")

(***************************************************************************)
(* active_connections has no lock.  Two threads that are at an access to   *)
(* it, one of them to change it, may corrupt it.                           *)
(***************************************************************************)
ListRace ==
    /\ Up
    /\ Cardinality({t \in {"acceptor", "remover", "main"} :
          \/ t = "acceptor" /\ AcceptorAt("link")
          \/ t = "remover" /\ RemoverAt("remove")
          \/ t = "main" /\ main.pc \in {"send", "queue"} /\ ~main.held
                          /\ MainAt(main.pc)}) > 1
    /\ Ends("list_corrupted")

Stopping ==
    \/ SendGoodbye \/ QueueConnection \/ DropVisited \/ IteratorFreed
    \/ EndOfSendAll \/ JoinAcceptor \/ StopRemover \/ PushNull \/ JoinRemover
    \/ ClearList \/ ListCleared \/ ClearQueue \/ QueueCleared

-----------------------------------------------------------------------------
(* The clients and the network *)

Open(c) == Up /\ c <= accepted /\ peer[c]

ClientSends(c) ==
    /\ Open(c)
    /\ messages < MaxMessages
    /\ messages' = messages + 1
    /\ inbox' = [inbox EXCEPT ![c] = @ + 1]
    /\ UNCHANGED <<coordinator, connection, accepted, peer, losses, history>>

ClientLost(c) ==
    /\ Open(c)
    /\ accepted + losses < MaxChanges
    /\ losses' = losses + 1
    /\ peer' = [peer EXCEPT ![c] = FALSE]
    /\ UNCHANGED <<coordinator, connection, accepted, inbox, messages,
                   history>>

(* What the threads do, once they are there and told to stop. *)
Program ==
    \/ \E c \in Connections :
          ReaderThread(c) \/ WriterThread(c) \/ Destructor(c)
    \/ Link \/ Start \/ DropNew \/ TestAcceptor \/ AcceptThrows
    \/ Remover \/ Stopping

Next ==
    \/ Program \/ Accept \/ BeginStop \/ ListRace
    \/ \E c \in Connections : ClientSends(c) \/ ClientLost(c)

Spec == Init /\ [][Next]_vars

(***************************************************************************)
(* Some thread that can go on does.  That is less than fairness to each of *)
(* them, and enough: no thread goes round in its loop without a message, a *)
(* connection or a loss.  No client must come, send or go, and nobody must *)
(* stop the server.                                                        *)
(***************************************************************************)
FairSpec == Spec /\ WF_vars(Program)

-----------------------------------------------------------------------------

Destroyed(c) == destructor[c].pc = "done"

TypeOK ==
    /\ process \in {"up", "bad_weak_ptr", "joined_itself", "use_after_free",
                    "list_corrupted"}
    /\ accepted \in 0..MaxChanges
    /\ active_connections \subseteq 1..accepted
    /\ con_removal_queue \in Seq(0..accepted)
    /\ run_acceptor \in BOOLEAN /\ run_con_remover \in BOOLEAN
    /\ acceptor.con \in 0..accepted
    /\ remover.con \in 0..accepted
    /\ main.con \in 0..accepted
    /\ is_connected \in [Connections -> BOOLEAN]
    /\ \A c \in Connections : outgoing[c] \in Seq(Messages)
    /\ writing \in [Connections -> Messages]
    /\ inbox \in [Connections -> 0..MaxMessages]
    /\ shut \in [Connections -> BOOLEAN]
    /\ told \subseteq owed /\ owed \subseteq 1..accepted

(***************************************************************************)
(* A connection is destroyed once nobody can use it any more: its threads  *)
(* have ended, no list, queue or variable refers to it, and it does not    *)
(* come back to any of them.                                               *)
(***************************************************************************)
DestroyedUnused ==
    \A c \in Connections :
        Destroyed(c) => /\ Owners(c) = {}
                        /\ \A s \in Sides : threads[s][c] = "exited"

(***************************************************************************)
(* "Connection disconnected": as long as the server is not stopped, a      *)
(* connection leaves the list only after its loss was reported, and reader *)
(* and writer, which may both notice it, report it once each at most.      *)
(***************************************************************************)
LossReported ==
    \A c \in Connections :
        /\ reports[c] <= 2
        /\ (main.pc \in {"running", "send", "join_acceptor"}
            /\ c <= accepted /\ c \notin active_connections
            /\ acceptor.con # c) => reports[c] >= 1

(***************************************************************************)
(* "Wait for messages to be sent": a connection whose client is there is   *)
(* not destroyed with a message queued, and its GoodBye was written.       *)
(***************************************************************************)
SentBeforeDestroyed ==
    \A c \in Connections :
        (Destroyed(c) /\ peer[c]) =>
            /\ \A i \in DOMAIN outgoing[c] : outgoing[c][i] = Wake
            /\ c \in owed => c \in told

(***************************************************************************)
(* The destructor waits for a queue that nobody empties: it told the       *)
(* writer to end, and the writer did.  That stays so.                      *)
(***************************************************************************)
Stuck(c) ==
    /\ destructor[c].pc = "wait"
    /\ ~empty(outgoing[c])
    /\ threads["writer"][c] = "exited"

SomeStuck == \E c \in Connections : Stuck(c)

(* Lost connections are destroyed, and all once the server is stopped. *)
CleanedUp ==
    /\ \A c \in Connections : reports[c] > 0 => Destroyed(c)
    /\ main.pc # "running" =>
          main.pc = "stopped" /\ \A c \in 1..accepted : Destroyed(c)

(***************************************************************************)
(* "Function responsible for deconstructing disconnected connections": the *)
(* server always cleans up after a loss, and when it stops.  It fails to   *)
(* if the process ends by an exception or a crash, or if a destructor is   *)
(* stuck while the server stops, and in no other case.                     *)
(***************************************************************************)
CleanupCompletes ==
    ~CleanedUp ~> (CleanedUp \/ (SomeStuck /\ main.pc # "running") \/ ~Up)
=============================================================================
