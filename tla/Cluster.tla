-------------------------------- MODULE Cluster --------------------------------
(***************************************************************************)
(* The coordinator and its workers: the handlers of PMGPIeClusterServer,   *)
(* which call the work unit manager, and what a worker sends, over         *)
(* connections that break and are made again.                              *)
(*                                                                         *)
(* Three modules stand behind this one.  A call of the manager is a step   *)
(* of WorkUnitLedger.  A worker's messages go out in order, again after a  *)
(* failed write, with a HELO behind them for each connection, as in        *)
(* ClientConnection.  A lost connection is reported by its reader, which   *)
(* reads first what has arrived, and perhaps by its writer, and destroyed  *)
(* after a report, as in TcpServer.                                        *)
(*                                                                         *)
(* The ledger follows the digits before MaxDigit.  Units after them are    *)
(* dispatched and computed without being told apart: workers never run     *)
(* out of work.                                                            *)
(***************************************************************************)
EXTENDS Integers, FiniteSets, SequencesExt

CONSTANTS
    Workers, NoWorker, InitialDigit, Quota(_), MaxDigit, \* of the ledger
    NThreads,    \* threads of a worker, at most
    Teams,       \* numbers of threads the workers may have
    MaxLosses    \* bound: connections that break, workers that quit or crash

ASSUME BoundsAssumption ==
    NThreads \in Nat /\ MaxLosses \in Nat
ASSUME WorkersAssumption == IsFiniteSet(Workers)
ASSUME TeamsAssumption == Teams \subseteq [Workers -> 0..NThreads]
ASSUME LedgerAssumption ==
    /\ NoWorker \notin Workers
    /\ InitialDigit \in Nat /\ MaxDigit \in Nat
    /\ \A d \in 0..MaxDigit : Quota(d) \in Int

VARIABLES
    next_digit, active_work_units, finished, \* the ledger
    n_clients,
    worker,     \* per worker: "running", "quitting" or "gone"
    outgoing,   \* per worker: messages not written yet
    computing,  \* per worker: starts of the units its threads work on
    kept,       \* per worker: starts of the units its idle threads have
    link,       \* per worker: its connection, 0 for none
    mute,       \* the workers whose writer takes a good connection for lost
    connects,   \* connections made so far
    losses,     \* losses so far
    owner,      \* per connection: the worker that made it
    state,      \* per connection: "new", "open", "cut" or "destroyed"
    to, from,   \* per connection: messages to and from the coordinator's end
    worker_id,  \* per connection: what the coordinator knows
    reports,    \* per connection: who has reported its loss
    abandoned,  \* history: see OwnedIsHeld
    lost        \* history, per worker: threads idle for ever, or not there

ledger == <<next_digit, active_work_units, finished>>
client == <<worker, outgoing, computing, kept>>
network == <<link, mute, connects, losses, owner, state>>
vars == <<ledger, n_clients, client, network, to, from, worker_id, reports,
          abandoned, lost>>

Ledger == INSTANCE WorkUnitLedger

Connections == 1..(Cardinality(Workers) + MaxLosses)
Beyond == -1  \* the start of every unit after the digits followed
Starts == (InitialDigit..(MaxDigit - 1)) \union {Beyond}
Message(type, start) == [type |-> type, start |-> start]
Helo == Message("HELO", Beyond)
GoodBye == Message("BYE", Beyond)
Request == Message("REQUEST", Beyond)
Result(start) == Message("RESULT", start)

(***************************************************************************)
(* The bootstrap requests are queued before there is a connection, one for *)
(* each thread.  Threads a worker does not have are counted with the lost. *)
(***************************************************************************)
Init ==
    /\ Ledger!Init
    /\ n_clients = 0
    /\ worker = [w \in Workers |-> "running"]
    /\ computing = [w \in Workers |-> <<>>]
    /\ kept = [w \in Workers |-> <<>>]
    /\ mute = {}
    /\ link = [w \in Workers |-> 0]
    /\ connects = 0
    /\ losses = 0
    /\ owner = [k \in Connections |-> NoWorker]
    /\ state = [k \in Connections |-> "new"]
    /\ to = [k \in Connections |-> <<>>]
    /\ from = [k \in Connections |-> <<>>]
    /\ worker_id = [k \in Connections |-> NoWorker]
    /\ reports = [k \in Connections |-> {}]
    /\ abandoned = {}
    /\ \E team \in Teams :
          /\ outgoing = [w \in Workers |-> [i \in 1..team[w] |-> Request]]
          /\ lost = [w \in Workers |-> NThreads - team[w]]

Places(q, type) == {i \in DOMAIN q : q[i].type = type}
Count(q, type) == Cardinality(Places(q, type))
Has(q, m) == \E i \in DOMAIN q : q[i] = m

(* w computes the unit, is told to, or has sent its result. *)
Works(w, start) ==
    \/ \E i \in DOMAIN computing[w] : computing[w][i] = start
    \/ Has(outgoing[w], Result(start))
    \/ \E k \in Connections :
          /\ owner[k] = w
          /\ \/ Has(to[k], Result(start))
             \/ state[k] = "open" /\ \E i \in DOMAIN from[k] : from[k][i] = start

(* An idle thread has the unit in its next_work_unit. *)
Keeps(w, start) == \E j \in DOMAIN kept[w] : kept[w][j] = start

Holds(w, start) == Works(w, start) \/ Keeps(w, start)

(* Units w owns in the ledger. *)
Owned(w) == {c.work_unit.start : c \in {b \in active_work_units :
                 b.state = "OWNED" /\ b.worker_id = w}}
Forget(w) == {p \in abandoned : p[2] # w}

-----------------------------------------------------------------------------
(* A worker *)

(***************************************************************************)
(* do_connect succeeds; its callback queues a HELO behind the rest.  If    *)
(* another thread is about to store is_connected = FALSE for what was      *)
(* before, the client is mute: the reader waits in a read, the writer puts *)
(* everything back.  That is the writer, which has a message whose write   *)
(* failed, or the constructor, at the end of which the requests are still  *)
(* to be queued.  So no request goes over this connection, nothing is sent *)
(* back that could end the read, and the client is mute until it breaks.   *)
(***************************************************************************)
Connect(w) ==
    /\ worker[w] # "gone"
    /\ link[w] = 0
    /\ connects' = connects + 1
    /\ link' = [link EXCEPT ![w] = connects + 1]
    /\ owner' = [owner EXCEPT ![connects + 1] = w]
    /\ state' = [state EXCEPT ![connects + 1] = "open"]
    /\ outgoing' = [outgoing EXCEPT ![w] = Append(@, Helo)]
    /\ \/ UNCHANGED mute
       \/ outgoing[w] # <<>> /\ mute' = mute \union {w}
    /\ UNCHANGED <<ledger, n_clients, worker, computing, kept, losses, to, from,
                   worker_id, reports, abandoned, lost>>

Send(w) ==
    /\ link[w] # 0 /\ w \notin mute
    /\ outgoing[w] # <<>>
    /\ to' = [to EXCEPT ![link[w]] = Append(@, Head(outgoing[w]))]
    /\ outgoing' = [outgoing EXCEPT ![w] = Tail(@)]
    /\ UNCHANGED <<ledger, n_clients, worker, computing, kept, network, from,
                   worker_id, reports, abandoned, lost>>

(* A dispatched unit goes to a thread, also while the client is destroyed. *)
Receive(w) ==
    /\ link[w] # 0
    /\ from[link[w]] # <<>>
    /\ from' = [from EXCEPT ![link[w]] = Tail(@)]
    /\ computing' = [computing EXCEPT ![w] = Append(@, Head(from[link[w]]))]
    /\ UNCHANGED <<ledger, n_clients, worker, outgoing, kept, network, to,
                   worker_id, reports, abandoned, lost>>

(***************************************************************************)
(* The thread is one that is not busy but has a unit, which the new one    *)
(* replaces: after a failure, or after wait() returned without a           *)
(* notification.  The thread that was to have the new one stays idle.      *)
(* Here any kept unit may be replaced; a thread that was only notified too *)
(* early is still busy in the code, and keeps its unit.                    *)
(***************************************************************************)
Replace(w) ==
    /\ link[w] # 0
    /\ from[link[w]] # <<>>
    /\ from' = [from EXCEPT ![link[w]] = Tail(@)]
    /\ computing' = [computing EXCEPT ![w] = Append(@, Head(from[link[w]]))]
    /\ \E j \in DOMAIN kept[w] :
          /\ kept' = [kept EXCEPT ![w] = RemoveAt(@, j)]
          /\ abandoned' = abandoned \union {<<kept[w][j], w>>}
    /\ lost' = [lost EXCEPT ![w] = @ + 1]
    /\ UNCHANGED <<ledger, n_clients, worker, outgoing, network, to, worker_id,
                   reports>>

(* Mutant: the result is not followed by a request. *)
FinishOnly(w, i) ==
    /\ computing' = [computing EXCEPT ![w] = RemoveAt(@, i)]
    /\ outgoing' = [outgoing EXCEPT ![w] = Append(@, Result(computing[w][i]))]
    /\ UNCHANGED <<ledger, n_clients, worker, kept, network, to, from, worker_id,
                   reports, abandoned, lost>>

(* publish_work_unit_result: the result, and a request for another unit. *)
FinishUnit(w, i) ==
    /\ computing' = [computing EXCEPT ![w] = RemoveAt(@, i)]
    /\ outgoing' = [outgoing EXCEPT ![w] =
                       @ \o <<Result(computing[w][i]), Request>>]
    /\ UNCHANGED <<ledger, n_clients, worker, kept, network, to, from, worker_id,
                   reports, abandoned, lost>>

Finish(w) == \E i \in DOMAIN computing[w] : FinishUnit(w, i)

(***************************************************************************)
(* No result and no request: PiComputeError is swallowed, or the thread    *)
(* was notified before it waited.  It keeps the unit and waits.            *)
(***************************************************************************)
Keep(w) ==
    \E i \in DOMAIN computing[w] :
        /\ computing' = [computing EXCEPT ![w] = RemoveAt(@, i)]
        /\ kept' = [kept EXCEPT ![w] = Append(@, computing[w][i])]
        /\ UNCHANGED <<ledger, n_clients, worker, outgoing, network, to, from,
                       worker_id, reports, abandoned, lost>>

(* wait() returns without a notification: the thread finds its unit. *)
Wake(w) ==
    \E j \in DOMAIN kept[w] :
        /\ kept' = [kept EXCEPT ![w] = RemoveAt(@, j)]
        /\ computing' = [computing EXCEPT ![w] = Append(@, kept[w][j])]
        /\ UNCHANGED <<ledger, n_clients, worker, outgoing, network, to, from,
                       worker_id, reports, abandoned, lost>>

Lose == losses < MaxLosses /\ losses' = losses + 1

(* CTRL-C: the client's destructor begins; the threads do not know of it. *)
Quit(w) ==
    /\ worker[w] = "running"
    /\ Lose
    /\ worker' = [worker EXCEPT ![w] = "quitting"]
    /\ outgoing' = [outgoing EXCEPT ![w] = Append(@, GoodBye)]
    /\ UNCHANGED <<ledger, n_clients, computing, kept, link, mute, connects,
                   owner, state, to, from, worker_id, reports, abandoned, lost>>

(* The worker's end of its connection is no more. *)
Disconnected(w) ==
    /\ link' = [link EXCEPT ![w] = 0]
    /\ mute' = mute \ {w}
    /\ state' = IF link[w] = 0 THEN state
                ELSE [state EXCEPT ![link[w]] = "cut"]
    /\ UNCHANGED <<connects, owner>>

(***************************************************************************)
(* The client's destructor waited for the queue, which does not have the   *)
(* message the writer has popped, or did not wait as there was no          *)
(* connection; then the threads are interrupted.  A mute client's is stuck *)
(* with the reader.                                                        *)
(***************************************************************************)
Leave(w) ==
    /\ worker[w] = "quitting"
    /\ Len(outgoing[w]) <= 1 \/ link[w] = 0
    /\ w \notin mute
    /\ worker' = [worker EXCEPT ![w] = "gone"]
    /\ outgoing' = [outgoing EXCEPT ![w] = <<>>]
    /\ computing' = [computing EXCEPT ![w] = <<>>]
    /\ kept' = [kept EXCEPT ![w] = <<>>]
    /\ Disconnected(w)
    /\ UNCHANGED <<ledger, n_clients, losses, to, from, worker_id, reports,
                   abandoned, lost>>

(* Of what was written to connection k, only the first n messages arrive. *)
Arrives(k, n) == to' = [to EXCEPT ![k] = SubSeq(@, 1, n)]

(* The process ends, while it runs or in the client's destructor. *)
Crash(w) ==
    /\ \/ worker[w] = "running" /\ Lose
       \/ worker[w] = "quitting" /\ UNCHANGED losses
    /\ worker' = [worker EXCEPT ![w] = "gone"]
    /\ outgoing' = [outgoing EXCEPT ![w] = <<>>]
    /\ computing' = [computing EXCEPT ![w] = <<>>]
    /\ kept' = [kept EXCEPT ![w] = <<>>]
    /\ IF link[w] = 0 THEN UNCHANGED to
       ELSE \E n \in 0..Len(to[link[w]]) : Arrives(link[w], n)
    /\ Disconnected(w)
    /\ UNCHANGED <<ledger, n_clients, from, worker_id, reports, abandoned, lost>>

(* The connection breaks, and the worker can make another one. *)
Cut(w) ==
    /\ worker[w] # "gone"
    /\ link[w] # 0
    /\ Lose
    /\ \E n \in 0..Len(to[link[w]]) :
          /\ Arrives(link[w], n)
          /\ lost' = [lost EXCEPT ![w] = @ + Len(from[link[w]])
                + Count(SubSeq(to[link[w]], n + 1, Len(to[link[w]])), "REQUEST")]
    /\ Disconnected(w)
    /\ UNCHANGED <<ledger, n_clients, client, from, worker_id, reports, abandoned>>

-----------------------------------------------------------------------------
(* The coordinator: the reader thread of connection k runs the handlers *)

(* Mutant: the reader goes on after the error. *)
ReadingOn(k) == state[k] \in {"open", "cut"}

Reading(k) == state[k] \in {"open", "cut"} /\ "reader" \notin reports[k]

(* message_received: the connection is that of the worker from now on. *)
Received(k, type) ==
    /\ Reading(k)
    /\ to[k] # <<>>
    /\ Head(to[k]).type = type
    /\ to' = [to EXCEPT ![k] = Tail(@)]
    /\ worker_id' = [worker_id EXCEPT ![k] = owner[k]]

handle_helo_message(k) ==
    /\ Received(k, "HELO")
    /\ Ledger!MarkAll(owner[k], "OWNED")
    /\ n_clients' = n_clients + 1
    /\ abandoned' = Forget(owner[k]) \union
         {<<c.work_unit.start, owner[k]>> :
             c \in {b \in active_work_units : b.worker_id = owner[k]
                                              /\ ~Holds(owner[k], b.work_unit.start)}}
    /\ UNCHANGED <<client, network, from, reports, lost>>

handle_goodbye_message(k) ==
    /\ Received(k, "BYE")
    /\ Ledger!MarkAll(owner[k], "DISOWNED")
    /\ abandoned' = Forget(owner[k])
    /\ UNCHANGED <<n_clients, client, network, from, reports, lost>>

handle_workunitresult_message(k) ==
    /\ Received(k, "RESULT")
    /\ Ledger!Submit(Head(to[k]).start)
    /\ UNCHANGED <<n_clients, client, network, from, reports, abandoned, lost>>

(* The answer; nobody reads it if the connection is cut. *)
Dispatch(k, start) ==
    /\ from' = [from EXCEPT ![k] = Append(@, start)]
    /\ lost' = IF state[k] = "open" THEN lost
               ELSE [lost EXCEPT ![owner[k]] = @ + 1]
    /\ abandoned' = {p \in abandoned : p[1] # start}

FirstAvailable(c) ==
    \A b \in active_work_units :
        Ledger!Available(b) => c.work_unit.start <= b.work_unit.start

handle_requestworkunit_message(k) ==
    /\ Received(k, "REQUEST")
    /\ \/ \E c \in active_work_units :
             /\ FirstAvailable(c)
             /\ Ledger!Claim(owner[k], c)
             /\ Dispatch(k, c.work_unit.start)
       \/ /\ \A c \in active_work_units : ~Ledger!Available(c)
          /\ \/ /\ Ledger!DispatchNew(owner[k])
                /\ Dispatch(k, next_digit)
             \/ /\ next_digit >= MaxDigit
                /\ Dispatch(k, Beyond)
                /\ UNCHANGED ledger
    /\ UNCHANGED <<n_clients, client, network, reports>>

(* Mutant: the units of a worker whose connection is lost stay as they are. *)
con_disconnected_counting(k) ==
    IF worker_id[k] = NoWorker
    THEN UNCHANGED <<ledger, n_clients, abandoned>>
    ELSE /\ n_clients' = n_clients - 1
         /\ UNCHANGED <<ledger, abandoned>>

(* A connection that never said whose it is changes nothing. *)
con_disconnected(k) ==
    IF worker_id[k] = NoWorker
    THEN UNCHANGED <<ledger, n_clients, abandoned>>
    ELSE /\ Ledger!MarkAll(worker_id[k], "ORPHANED")
         /\ n_clients' = n_clients - 1
         /\ abandoned' = Forget(worker_id[k])

(* The reader gets the error when it has read all that arrived. *)
ReaderReports(k) ==
    /\ state[k] = "cut" /\ Reading(k)
    /\ to[k] = <<>>
    /\ reports' = [reports EXCEPT ![k] = @ \union {"reader"}]
    /\ con_disconnected(k)
    /\ UNCHANGED <<client, network, to, from, worker_id, lost>>

(* The writer gets it when it has an answer to write. *)
WriterReports(k) ==
    /\ state[k] = "cut" /\ "writer" \notin reports[k]
    /\ from[k] # <<>>
    /\ reports' = [reports EXCEPT ![k] = @ \union {"writer"}]
    /\ con_disconnected(k)
    /\ UNCHANGED <<client, network, to, from, worker_id, lost>>

(* The remover destroys it: what the reader has not read is not read. *)
Destroy(k) ==
    /\ state[k] = "cut" /\ reports[k] # {}
    /\ state' = [state EXCEPT ![k] = "destroyed"]
    /\ to' = [to EXCEPT ![k] = <<>>]
    /\ from' = [from EXCEPT ![k] = <<>>]
    /\ lost' = [lost EXCEPT ![owner[k]] = @ + Count(to[k], "REQUEST")]
    /\ abandoned' = IF "reader" \in reports[k] THEN abandoned
                    ELSE abandoned \union
                           {<<s, owner[k]>> : s \in Owned(owner[k])}
    /\ UNCHANGED <<ledger, n_clients, client, link, mute, connects, losses, owner,
                   worker_id, reports>>

Reader(w) == Connect(w) \/ Receive(w) \/ Replace(w)

Worker(w) ==
    \/ Reader(w) \/ Send(w) \/ Finish(w) \/ Keep(w) \/ Wake(w) \/ Leave(w)
    \/ Quit(w) \/ Crash(w) \/ Cut(w)

Connection(k) ==
    \/ handle_helo_message(k) \/ handle_goodbye_message(k)
    \/ handle_workunitresult_message(k) \/ handle_requestworkunit_message(k)
    \/ ReaderReports(k) \/ WriterReports(k) \/ Destroy(k)

Expire ==
    /\ \E c \in active_work_units : Ledger!Expire(c)
    /\ UNCHANGED <<n_clients, client, network, to, from, worker_id, reports,
                   abandoned, lost>>

Next ==
    \/ \E w \in Workers : Worker(w)
    \/ \E k \in Connections : Connection(k)
    \/ Expire

Spec == Init /\ [][Next]_vars

(***************************************************************************)
(* A worker's reader, which can connect again, its writer, its computing   *)
(* threads and its main thread go on, and the coordinator's threads; time  *)
(* passes.  A computation ends, but perhaps by Keep.  Nothing must break,  *)
(* nobody must quit, and wait() need not return without a notification.    *)
(***************************************************************************)
Fairness ==
    /\ \A w \in Workers :
          /\ WF_vars(Reader(w)) /\ WF_vars(Send(w)) /\ WF_vars(Leave(w))
          /\ \A start \in Starts :
                WF_vars(\E i \in DOMAIN computing[w] :
                           computing[w][i] = start /\ FinishUnit(w, i))
    /\ \A k \in Connections : WF_vars(Connection(k))
    /\ WF_vars(Expire)

FairSpec == Spec /\ Fairness

-----------------------------------------------------------------------------

ConnectionsOf(w) == {k \in Connections : owner[k] = w}

(* The messages of a type in the queues of all of K. *)
Within(queue, K, type) == UNION {{k} \X Places(queue[k], type) : k \in K}

(* The requests of w under way, the answers to them, and the units from    *)
(* these: one for each thread that has not become idle.                    *)
InUse(w) ==
    Count(outgoing[w], "REQUEST") + Len(computing[w])
    + Cardinality(Within(to, ConnectionsOf(w), "REQUEST"))
    + IF link[w] = 0 THEN 0 ELSE Len(from[link[w]])

(* Those of NThreads that are idle, with a unit or for ever, or not there. *)
Idle(w) == Len(kept[w]) + lost[w]

MessageTypes == {"HELO", "BYE", "REQUEST", "RESULT"}
Messages == [type : MessageTypes, start : Starts]

TypeOK ==
    /\ Ledger!TypeOK
    /\ n_clients \in (-2 * connects)..connects
    /\ worker \in [Workers -> {"running", "quitting", "gone"}]
    /\ \A w \in Workers : /\ outgoing[w] \in Seq(Messages)
                          /\ computing[w] \in Seq(Starts)
                          /\ kept[w] \in Seq(Starts)
    /\ link \in [Workers -> 0..connects]
    /\ mute \subseteq {w \in Workers : link[w] # 0}
    /\ connects \in 0..Cardinality(Connections)
    /\ losses \in 0..MaxLosses
    /\ owner \in [Connections -> Workers \union {NoWorker}]
    /\ state \in [Connections -> {"new", "open", "cut", "destroyed"}]
    /\ \A k \in Connections : to[k] \in Seq(Messages) /\ from[k] \in Seq(Starts)
    /\ worker_id \in [Connections -> Workers \union {NoWorker}]
    /\ reports \in [Connections -> SUBSET {"reader", "writer"}]
    /\ abandoned \subseteq Starts \X Workers
    /\ lost \in [Workers -> 0..NThreads]

(* The loss of a connection of w is still to be reported by its reader. *)
LossPending(w) ==
    \E k \in ConnectionsOf(w) :
        Reading(k) /\ (state[k] = "cut" \/ worker[w] # "running")

(***************************************************************************)
(* "Worker ID of the worker who owns or has orphaned this work unit": a    *)
(* unit that is owned is with its worker, or on its way there or back, or  *)
(* a loss that will orphan it is about to be reported.  It is not in three *)
(* cases, kept in abandoned: a HELO took units as owned again that were    *)
(* lost with the connection before; a connection was destroyed after its   *)
(* writer's report, while its reader still handled messages; and a unit    *)
(* whose computation failed was replaced by another in its thread.  Such a *)
(* unit may stay owned for ever.                                           *)
(***************************************************************************)
OwnedIsHeld ==
    \A c \in active_work_units :
        c.state = "OWNED" =>
            \/ Holds(c.worker_id, c.work_unit.start)
            \/ LossPending(c.worker_id)
            \/ <<c.work_unit.start, c.worker_id>> \in abandoned

(***************************************************************************)
(* "one for each worker thread": a running worker has as many requests,    *)
(* answers and units under way as it has threads, over any reconnections,  *)
(* except for the threads that are idle: they keep a unit they did not     *)
(* compute, or their request or its answer was lost with a connection or   *)
(* used for another thread.  Nothing makes up for these.                   *)
(***************************************************************************)
ThreadsAccounted ==
    \A w \in Workers :
        worker[w] = "running" => InUse(w) + Idle(w) = NThreads

(* A worker can still ask for units: it is not leaving, can send, and has  *)
(* a thread that is not idle.                                              *)
SomebodyAsks ==
    \E w \in Workers : /\ worker[w] = "running" /\ w \notin mute
                       /\ Idle(w) < NThreads

(* The unit is with an idle thread of its owner, or leaked. *)
Unattended(d) ==
    \E c \in active_work_units :
        /\ c.state = "OWNED" /\ Ledger!Covers(c.work_unit, d)
        /\ ~Works(c.worker_id, c.work_unit.start)
        /\ \/ Keeps(c.worker_id, c.work_unit.start)
           \/ <<c.work_unit.start, c.worker_id>> \in abandoned

(***************************************************************************)
(* Each digit that is given away is computed in the end, whoever is lost,  *)
(* quits, crashes or goes mute on the way, if from some time on somebody   *)
(* asks for work and the digit's unit is not one that its owner will not   *)
(* compute: one that leaked (see OwnedIsHeld), or whose computation failed *)
(* or whose notification came too early.  (Threads are also not to fail    *)
(* and wake without a notification in turns for ever.)  A worker that is   *)
(* mute for ever is no exception: what it owned is given to others.        *)
(***************************************************************************)
EachDigitComputed ==
    \A d \in InitialDigit..(MaxDigit - 1) :
        /\ <>[](SomebodyAsks /\ ~Unattended(d))
        /\ <>[][\A w \in Workers : ~Wake(w)]_vars
        => ((d < next_digit) ~> \E u \in finished : Ledger!Covers(u, d))
=============================================================================
