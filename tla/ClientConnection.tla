--------------------------- MODULE ClientConnection ---------------------------
(***************************************************************************)
(* The worker's ClientConnection: a reader thread, which also connects and *)
(* connects again, a writer thread, and the main thread, which constructs  *)
(* and destroys it.  They share the flags is_connected and run, the socket *)
(* and the queue of outgoing messages.                                     *)
(*                                                                         *)
(* A message is the number of its push: 1 for the first, 2 for the next.   *)
(* is_connected and the state of the socket are two things: is_connected   *)
(* is stored by three threads, and each may store late.                    *)
(***************************************************************************)
EXTENDS Integers, TSQueue

CONSTANTS
    MaxSends,  \* bound: messages the worker sends, without HELO and GoodBye
    MaxCuts    \* bound: connections that break and can be made again

ASSUME BoundsAssumption == MaxSends \in Nat /\ MaxCuts \in Nat

VARIABLES
    is_connected,
    run,
    outgoing,   \* the TSQueue
    pushed,     \* messages pushed to the back so far
    written,    \* messages whose write returned no error
    socket,     \* "closed", "up", "down" (the peer is lost) or "shut"
    reader,     \* where the reader thread is
    writer,     \* where the writer thread is, and its variable msg
    main,       \* where the main thread is
    goodbye,    \* the GoodBye message, 0 before it is pushed
    waited,     \* the destructor waited for the queue
    reachable,  \* FALSE once the coordinator is gone for good
    sends, cuts, connects  \* counts

flags == <<is_connected, run>>
queue == <<outgoing, pushed, written>>
destruction == <<goodbye, waited>>
counts == <<sends, cuts, connects>>
vars == <<flags, queue, socket, reader, writer, main, destruction, reachable,
          counts>>

(* The threads start, and with them connecting, before the body is done. *)
Init ==
    /\ is_connected = FALSE
    /\ run = TRUE
    /\ outgoing = <<>>
    /\ pushed = 0
    /\ written = {}
    /\ socket = "closed"
    /\ reader = "test"
    /\ writer = [pc |-> "test", msg |-> 0]
    /\ main = "constructing"
    /\ goodbye = 0
    /\ waited = FALSE
    /\ reachable = TRUE
    /\ sends = 0 /\ cuts = 0 /\ connects = 0

Alive == main # "terminated"

(* A new message goes to the back of the queue. *)
Push ==
    /\ outgoing' = push(outgoing, pushed + 1)
    /\ pushed' = pushed + 1
    /\ UNCHANGED written

-----------------------------------------------------------------------------
(* The reader thread *)

ReaderAt(p) == Alive /\ reader = p

ReaderTest ==
    /\ ReaderAt("test")
    /\ reader' = IF run THEN "mode" ELSE "exited"
    /\ UNCHANGED <<flags, queue, socket, writer, main, destruction, reachable,
                   counts>>

ReaderMode ==
    /\ ReaderAt("mode")
    /\ reader' = IF is_connected THEN "read" ELSE "close"
    /\ UNCHANGED <<flags, queue, socket, writer, main, destruction, reachable,
                   counts>>

(* A message arrives, as many as the server sends; its callback changes    *)
(* nothing here.                                                           *)
Read ==
    /\ ReaderAt("read")
    /\ socket = "up"
    /\ reader' = "test"
    /\ UNCHANGED <<flags, queue, socket, writer, main, destruction, reachable,
                   counts>>

ReadFails ==
    /\ ReaderAt("read")
    /\ socket # "up"
    /\ reader' = "lost"
    /\ UNCHANGED <<flags, queue, socket, writer, main, destruction, reachable,
                   counts>>

ReaderLost ==
    /\ ReaderAt("lost")
    /\ is_connected' = FALSE
    /\ reader' = "test"
    /\ UNCHANGED <<run, queue, socket, writer, main, destruction, reachable,
                   counts>>

(* do_connect *)
CloseSocket ==
    /\ ReaderAt("close")
    /\ socket' = "closed"
    /\ reader' = "attempt"
    /\ UNCHANGED <<flags, queue, writer, main, destruction, reachable, counts>>

(* The host is not resolved, or the connection is refused. *)
ConnectFails ==
    /\ ReaderAt("attempt")
    /\ is_connected' = FALSE
    /\ socket' = "closed"
    /\ reader' = "again"
    /\ UNCHANGED <<run, queue, writer, main, destruction, reachable, counts>>

(* asio::connect closes the socket, opens it and connects it. *)
ConnectSucceeds ==
    /\ ReaderAt("attempt")
    /\ reachable
    /\ is_connected' = FALSE
    /\ socket' = "up"
    /\ connects' = connects + 1
    /\ reader' = "connected"
    /\ UNCHANGED <<run, queue, writer, main, destruction, reachable, sends,
                   cuts>>

SetConnected ==
    /\ ReaderAt("connected")
    /\ is_connected' = TRUE
    /\ reader' = "helo"
    /\ UNCHANGED <<run, queue, socket, writer, main, destruction, reachable,
                   counts>>

(* connected_callback: con_connected sends a HELO, behind what is queued. *)
SendHelo ==
    /\ ReaderAt("helo")
    /\ Push
    /\ reader' = "again"
    /\ UNCHANGED <<flags, socket, writer, main, destruction, reachable, counts>>

ConnectAgain ==
    /\ ReaderAt("again")
    /\ reader' = IF ~is_connected /\ run THEN "attempt" ELSE "test"
    /\ UNCHANGED <<flags, queue, socket, writer, main, destruction, reachable,
                   counts>>

Reader ==
    \/ ReaderTest \/ ReaderMode \/ Read \/ ReadFails \/ ReaderLost
    \/ CloseSocket \/ ConnectFails \/ ConnectSucceeds \/ SetConnected
    \/ SendHelo \/ ConnectAgain

-----------------------------------------------------------------------------
(* The writer thread *)

WriterAt(p) == Alive /\ writer.pc = p
WriterGoto(p) == writer' = [writer EXCEPT !.pc = p]

(* The writer has a message it popped and has not disposed of. *)
Holding == writer.pc \in {"mode", "write", "lost", "back"}

WriterTest ==
    /\ WriterAt("test")
    /\ WriterGoto(IF run THEN "pop" ELSE "exited")
    /\ UNCHANGED <<flags, queue, socket, reader, main, destruction, reachable,
                   counts>>

(* Mutant: pop does not wait and returns an empty message. *)
PopUnguarded ==
    /\ WriterAt("pop")
    /\ IF empty(outgoing)
       THEN writer' = [pc |-> "mode", msg |-> 0] /\ UNCHANGED outgoing
       ELSE /\ writer' = [pc |-> "mode", msg |-> front(outgoing)]
            /\ outgoing' = pop(outgoing)
    /\ UNCHANGED <<flags, pushed, written, socket, reader, main, destruction,
                   reachable, counts>>

Pop ==
    /\ WriterAt("pop")
    /\ ~empty(outgoing)
    /\ writer' = [pc |-> "mode", msg |-> front(outgoing)]
    /\ outgoing' = pop(outgoing)
    /\ UNCHANGED <<flags, pushed, written, socket, reader, main, destruction,
                   reachable, counts>>

(* Mutant: without a connection the message is given up. *)
WriterModeDropping ==
    /\ WriterAt("mode")
    /\ WriterGoto(IF is_connected THEN "write" ELSE "test")
    /\ UNCHANGED <<flags, queue, socket, reader, main, destruction, reachable,
                   counts>>

WriterMode ==
    /\ WriterAt("mode")
    /\ WriterGoto(IF is_connected THEN "write" ELSE "back")
    /\ UNCHANGED <<flags, queue, socket, reader, main, destruction, reachable,
                   counts>>

(* The bytes are taken; by a lost connection too, if it does not know yet. *)
Write ==
    /\ WriterAt("write")
    /\ socket \in {"up", "down"}
    /\ written' = written \union {writer.msg}
    /\ WriterGoto("test")
    /\ UNCHANGED <<flags, outgoing, pushed, socket, reader, main, destruction,
                   reachable, counts>>

(* Mutant: a message whose write failed is given up. *)
WriteFailsDropping ==
    /\ WriterAt("write")
    /\ socket # "up"
    /\ is_connected' = FALSE
    /\ WriterGoto("test")
    /\ UNCHANGED <<run, queue, socket, reader, main, destruction, reachable,
                   counts>>

(* The peer is lost, or the reader closed the socket meanwhile. *)
WriteFails ==
    /\ WriterAt("write")
    /\ socket # "up"
    /\ WriterGoto("lost")
    /\ UNCHANGED <<flags, queue, socket, reader, main, destruction, reachable,
                   counts>>

(* The reader may have connected again since the write failed. *)
WriterLost ==
    /\ WriterAt("lost")
    /\ is_connected' = FALSE
    /\ WriterGoto("back")
    /\ UNCHANGED <<run, queue, socket, reader, main, destruction, reachable,
                   counts>>

(* Mutant: the message goes to the end of the queue. *)
PushBackLast ==
    /\ WriterAt("back")
    /\ outgoing' = push(outgoing, writer.msg)
    /\ WriterGoto("test")
    /\ UNCHANGED <<flags, pushed, written, socket, reader, main, destruction,
                   reachable, counts>>

PushBack ==
    /\ WriterAt("back")
    /\ outgoing' = push_front(outgoing, writer.msg)
    /\ WriterGoto("test")
    /\ UNCHANGED <<flags, pushed, written, socket, reader, main, destruction,
                   reachable, counts>>

Writer ==
    \/ WriterTest \/ Pop \/ WriterMode \/ Write \/ WriteFails \/ WriterLost
    \/ PushBack

-----------------------------------------------------------------------------
(* The main thread, and the threads of the pool *)

MainAt(p) == main = p

(* The last statement of the constructor, after the threads were started. *)
EndConstructor ==
    /\ MainAt("constructing")
    /\ is_connected' = FALSE
    /\ main' = "running"
    /\ UNCHANGED <<run, queue, socket, reader, writer, destruction, reachable,
                   counts>>

(***************************************************************************)
(* A bootstrap request, or a result or the request that follows it from a  *)
(* thread of the pool.  The pool is destroyed after the client: its        *)
(* threads go on to send behind GoodBye while the destructor runs.         *)
(***************************************************************************)
Send ==
    /\ Alive /\ main \notin {"constructing", "done"}
    /\ sends < MaxSends
    /\ sends' = sends + 1
    /\ Push
    /\ UNCHANGED <<flags, socket, reader, writer, main, destruction, reachable,
                   cuts, connects>>

(* ~PMGPIeClusterClient sends GoodBye and destroys the connection. *)
SendGoodbye ==
    /\ MainAt("running")
    /\ Push
    /\ goodbye' = pushed + 1
    /\ main' = "destroying"
    /\ UNCHANGED <<flags, socket, reader, writer, waited, reachable, counts>>

(* Mutant: the destructor does not wait for the queue. *)
TestOpenOnly ==
    /\ MainAt("destroying")
    /\ main' = "stop"
    /\ waited' = is_connected
    /\ UNCHANGED <<flags, queue, socket, reader, writer, goodbye, reachable,
                   counts>>

TestOpen ==
    /\ MainAt("destroying")
    /\ main' = IF is_connected THEN "wait" ELSE "stop"
    /\ waited' = is_connected
    /\ UNCHANGED <<flags, queue, socket, reader, writer, goodbye, reachable,
                   counts>>

(* The message the writer has popped is not in the queue any more. *)
WaitSent ==
    /\ MainAt("wait")
    /\ empty(outgoing)
    /\ main' = "stop"
    /\ UNCHANGED <<flags, queue, socket, reader, writer, destruction,
                   reachable, counts>>

Stop ==
    /\ MainAt("stop")
    /\ run' = FALSE
    /\ main' = "mode"
    /\ UNCHANGED <<is_connected, queue, socket, reader, writer, destruction,
                   reachable, counts>>

MainMode ==
    /\ MainAt("mode")
    /\ main' = IF is_connected THEN "shutdown" ELSE "join_reader"
    /\ UNCHANGED <<flags, queue, socket, reader, writer, destruction,
                   reachable, counts>>

Shutdown ==
    /\ MainAt("shutdown")
    /\ socket # "closed"
    /\ socket' = "shut"
    /\ main' = "join_reader"
    /\ UNCHANGED <<flags, queue, reader, writer, destruction, reachable, counts>>

(* Closed since by the reader, or reset: the destructor throws. *)
ShutdownThrows ==
    /\ MainAt("shutdown")
    /\ socket # "up"
    /\ main' = "terminated"
    /\ UNCHANGED <<flags, queue, socket, reader, writer, destruction,
                   reachable, counts>>

(* Mutant: nothing wakes the writer up. *)
JoinReaderOnly ==
    /\ MainAt("join_reader")
    /\ reader = "exited"
    /\ main' = "join_writer"
    /\ UNCHANGED <<flags, queue, socket, reader, writer, destruction,
                   reachable, counts>>

(* The reader has ended; an empty message makes the writer come back. *)
JoinReader ==
    /\ MainAt("join_reader")
    /\ reader = "exited"
    /\ Push
    /\ main' = "join_writer"
    /\ UNCHANGED <<flags, socket, reader, writer, destruction, reachable, counts>>

JoinWriter ==
    /\ MainAt("join_writer")
    /\ writer.pc = "exited"
    /\ socket' = "closed"
    /\ main' = "done"
    /\ UNCHANGED <<flags, queue, reader, writer, destruction, reachable, counts>>

Main ==
    \/ EndConstructor \/ TestOpen \/ WaitSent \/ Stop \/ MainMode \/ Shutdown
    \/ ShutdownThrows \/ JoinReader \/ JoinWriter

-----------------------------------------------------------------------------
(* The network and the coordinator *)

Cut ==
    /\ socket = "up"
    /\ cuts < MaxCuts
    /\ cuts' = cuts + 1
    /\ socket' = "down"
    /\ UNCHANGED <<flags, queue, reader, writer, main, destruction, reachable,
                   sends, connects>>

(* The coordinator ends, or the network does, and does not come back. *)
GoAway ==
    /\ Alive /\ main # "done"
    /\ reachable
    /\ reachable' = FALSE
    /\ socket' = IF socket = "up" THEN "down" ELSE socket
    /\ UNCHANGED <<flags, queue, reader, writer, main, destruction, counts>>

Next == Reader \/ Writer \/ Main \/ Send \/ SendGoodbye \/ Cut \/ GoAway

Spec == Init /\ [][Next]_vars

(* The scheduler runs every thread that can go on, and a coordinator that  *)
(* is reachable is reached in some attempt.  Nobody must send or quit, and *)
(* the server need not send anything.                                      *)
Fairness ==
    /\ WF_vars(Reader /\ ~Read)
    /\ SF_vars(ConnectSucceeds)
    /\ WF_vars(Writer)
    /\ WF_vars(Main)

FairSpec == Spec /\ Fairness

-----------------------------------------------------------------------------

InQueue(n) == \E i \in DOMAIN outgoing : outgoing[i] = n
InHand(n) == Holding /\ writer.msg = n

TypeOK ==
    /\ is_connected \in BOOLEAN /\ run \in BOOLEAN
    /\ pushed \in Nat
    /\ outgoing \in Seq(1..pushed)
    /\ written \subseteq 1..pushed
    /\ socket \in {"closed", "up", "down", "shut"}
    /\ reader \in {"test", "mode", "read", "lost", "close", "attempt",
                   "connected", "helo", "again", "exited"}
    /\ writer \in [pc : {"test", "pop", "mode", "write", "lost", "back", "exited"},
                   msg : 0..pushed]
    /\ Holding => writer.msg # 0
    /\ main \in {"constructing", "running", "destroying", "wait", "stop",
                 "mode", "shutdown", "join_reader", "join_writer", "done",
                 "terminated"}
    /\ goodbye \in 0..pushed
    /\ waited \in BOOLEAN /\ reachable \in BOOLEAN
    /\ sends \in 0..MaxSends /\ cuts \in 0..MaxCuts
    /\ connects \in Nat

(***************************************************************************)
(* Over any number of reconnections no message is forgotten and none is    *)
(* sent twice: each message pushed is written, or in the queue once, or in *)
(* the writer's hands, and only one of the three.                          *)
(***************************************************************************)
NothingDropped ==
    \A n \in 1..pushed :
        /\ n \in written \/ InQueue(n) \/ InHand(n)
        /\ n \in written => ~InQueue(n) /\ ~InHand(n)
        /\ InQueue(n) => ~InHand(n)
        /\ \A i, j \in DOMAIN outgoing : 
               outgoing[i] = n /\ outgoing[j] = n => i = j

(***************************************************************************)
(* "Push message that we were writing back to the queue": messages are     *)
(* written in the order they were pushed, also those whose write failed.   *)
(* The server may rely on a result coming before the request that follows. *)
(***************************************************************************)
SentInOrder ==
    [][\A n \in written' \ written : \A m \in written : m < n]_vars

(***************************************************************************)
(* "If open, send all messages and close": a destructor that waited leaves *)
(* no message behind that was sent before GoodBye.  GoodBye itself may     *)
(* still be with the writer, and be lost.                                  *)
(***************************************************************************)
ResultsSentBeforeClose ==
    (waited /\ main # "wait") => 1..(goodbye - 1) \subseteq written

(***************************************************************************)
(* The reader waits on a connection that is good, while is_connected is    *)
(* FALSE because another thread stored it late: the writer puts every      *)
(* message back and the reader does not look at the flag.                  *)
(***************************************************************************)
Mute == reader = "read" /\ socket = "up" /\ ~is_connected

(***************************************************************************)
(* As long as the coordinator can be reached and the client is not being   *)
(* destroyed, whatever was sent is written in the end.  The one thing that *)
(* prevents it is a client that stays mute for ever.                       *)
(***************************************************************************)
EventuallySent ==
    \/ <>[]Mute
    \/ (pushed > 0) ~> (written = 1..pushed \/ ~reachable \/ main # "running")

(***************************************************************************)
(* The destructor returns, or ends the process, with two exceptions: the   *)
(* client is mute, or the "possible condition where the socket disconnects *)
(* in this procedure" of its TODO, when nobody can be reached any more.    *)
(***************************************************************************)
DestructorReturns ==
    \/ <>[]Mute
    \/ <>[](main = "wait" /\ ~reachable)
    \/ (main = "destroying") ~> (main \in {"done", "terminated"})
=============================================================================
