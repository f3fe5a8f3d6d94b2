---------------------------- MODULE ClusterProofs ----------------------------
(***************************************************************************)
(* Proofs about Cluster, for any finite set of workers, any number of      *)
(* threads and losses and any sizes of units.                              *)
(*                                                                         *)
(* Shape gives the types of the queues and connections; ConnectsBounded    *)
(* that there are never more connections than losses and workers allow,    *)
(* for which the workers with a connection are counted; Connected which    *)
(* connection a worker can use and who made it.  With what is known of the *)
(* ledger they make Inv, under which each handler is a step of the ledger. *)
(* AllAccounted strengthens OwnedIsHeld by what is still to be read: a     *)
(* unit is held only as long as some connection speaks for its worker.     *)
(*                                                                         *)
(* ThreadsKnown counts, for each worker, the requests and answers in all   *)
(* the queues they may be in; the lemmas before it say how the messages of *)
(* a type in one queue, and in those of several connections, change.  With *)
(* the starts that messages may have (StartsKnown) and the count of HELOs  *)
(* and reports (ClientsCounted) it gives the types.                        *)
(***************************************************************************)
EXTENDS Cluster, FiniteSetTheorems, SequenceTheorems, TLAPS

(* What is proved about the ledger. *)
Facts == INSTANCE WorkUnitLedgerProofs

-----------------------------------------------------------------------------
(* Types *)

AnyMessage == [type : MessageTypes, start : Int]

Shape ==
    /\ worker \in [Workers -> {"running", "quitting", "gone"}]
    /\ outgoing \in [Workers -> Seq(AnyMessage)]
    /\ computing \in [Workers -> Seq(Int)]
    /\ kept \in [Workers -> Seq(Int)]
    /\ link \in [Workers -> Connections \union {0}]
    /\ connects \in Nat
    /\ losses \in Nat
    /\ owner \in [Connections -> Workers \union {NoWorker}]
    /\ state \in [Connections -> {"new", "open", "cut", "destroyed"}]
    /\ to \in [Connections -> Seq(AnyMessage)]
    /\ from \in [Connections -> Seq(Int)]
    /\ worker_id \in [Connections -> Workers \union {NoWorker}]
    /\ reports \in [Connections -> SUBSET {"reader", "writer"}]

LinkedWorkers == {w \in Workers : link[w] # 0}
QuittingWorkers == {w \in Workers : worker[w] = "quitting"}

(* Each loss makes room for one more connection; a worker that quits does  *)
(* not use the room its loss makes until it has left.                      *)
ConnectsBounded ==
    /\ losses <= MaxLosses
    /\ connects + Cardinality(QuittingWorkers)
           <= losses + Cardinality(LinkedWorkers)

LEMMA MessageType ==
    /\ Helo \in AnyMessage /\ GoodBye \in AnyMessage /\ Request \in AnyMessage
    /\ \A s \in Int : Result(s) \in AnyMessage
  BY DEF Helo, GoodBye, Request, Result, Message, Beyond, AnyMessage,
         MessageTypes

(* A part of a queue is a queue. *)
LEMMA PartType ==
    ASSUME NEW S, NEW s \in Seq(S), NEW i \in Nat \ {0}, NEW j \in 0..Len(s)
    PROVE  SubSeq(s, i, j) \in Seq(S)
  <1>1. \A k \in i..j : s[k] \in S
    BY ElementOfSeq
  <1> QED
    BY <1>1, SubSeqProperties

LEMMA RemoveAtType ==
    ASSUME NEW S, NEW s \in Seq(S), NEW i \in 1..Len(s)
    PROVE  RemoveAt(s, i) \in Seq(S)
  <1>1. SubSeq(s, 1, i - 1) \in Seq(S)
    BY PartType, i - 1 \in 0..Len(s)
  <1>2. SubSeq(s, i + 1, Len(s)) \in Seq(S)
    BY PartType, i + 1 \in Nat \ {0}, Len(s) \in 0..Len(s)
  <1> QED
    BY <1>1, <1>2, ConcatProperties DEF RemoveAt

(* Subsets of the workers are finite, and no larger than the cluster. *)
LEMMA WorkersFinite ==
    ASSUME NEW S, S \subseteq Workers
    PROVE  /\ IsFiniteSet(S) /\ Cardinality(S) \in Nat
           /\ Cardinality(S) <= Cardinality(Workers)
           /\ Cardinality(Workers) \in Nat
  BY WorkersAssumption, FS_Subset, FS_CardinalityType

(* Another connection is always within the bound. *)
LEMMA RoomToConnect ==
    ASSUME Shape, ConnectsBounded, NEW w \in Workers, link[w] = 0
    PROVE  connects + 1 \in Connections
  <1>1. LinkedWorkers \subseteq Workers \ {w}
    BY DEF LinkedWorkers
  <1>2. /\ Cardinality(Workers \ {w}) = Cardinality(Workers) - 1
        /\ IsFiniteSet(Workers \ {w})
        /\ Cardinality(Workers) \in Nat
    BY WorkersAssumption, FS_RemoveElement, WorkersFinite
  <1>3. Cardinality(LinkedWorkers) <= Cardinality(Workers) - 1
    BY <1>1, <1>2, FS_Subset
  <1>4. /\ Cardinality(LinkedWorkers) \in Nat
        /\ Cardinality(QuittingWorkers) \in Nat
    BY WorkersFinite DEF LinkedWorkers, QuittingWorkers
  <1> QED
    BY <1>2, <1>3, <1>4, BoundsAssumption DEF Shape, ConnectsBounded, Connections

(* The worker's end of the connection is cut, if there is one. *)
LEMMA DisconnectedShape ==
    ASSUME Shape, NEW w \in Workers, Disconnected(w)
    PROVE  /\ link' \in [Workers -> Connections \union {0}]
           /\ connects' \in Nat
           /\ owner' \in [Connections -> Workers \union {NoWorker}]
           /\ state' \in [Connections -> {"new", "open", "cut", "destroyed"}]
  BY DEF Shape, Disconnected

LEMMA ArrivesShape ==
    ASSUME Shape, NEW k \in Connections, NEW n \in 0..Len(to[k]), Arrives(k, n)
    PROVE  to' \in [Connections -> Seq(AnyMessage)]
  <1>1. SubSeq(to[k], 1, n) \in Seq(AnyMessage)
    BY PartType, 1 \in Nat \ {0} DEF Shape
  <1> QED
    BY <1>1 DEF Shape, Arrives

(* Steps of the workers keep the types. *)
LEMMA WorkerShape ==
    ASSUME Shape, ConnectsBounded, NEW w \in Workers,
           Worker(w)
    PROVE  Shape'
  <1> USE MessageType
  <1>1. CASE Connect(w)
    <2>1. connects + 1 \in Connections
      BY <1>1, RoomToConnect DEF Connect
    <2>2. Append(outgoing[w], Helo) \in Seq(AnyMessage)
      BY AppendProperties DEF Shape
    <2> QED
      BY <1>1, <2>1, <2>2 DEF Connect, Shape
  <1>2. CASE Send(w)
    <2>1. link[w] \in Connections /\ outgoing[w] \in Seq(AnyMessage)
      BY <1>2 DEF Send, Shape
    <2>2. /\ Head(outgoing[w]) \in AnyMessage
          /\ Tail(outgoing[w]) \in Seq(AnyMessage)
      BY <1>2, <2>1, HeadTailProperties DEF Send
    <2>3. Append(to[link[w]], Head(outgoing[w])) \in Seq(AnyMessage)
      BY <2>1, <2>2, AppendProperties DEF Shape
    <2> QED
      BY <1>2, <2>1, <2>2, <2>3 DEF Send, Shape, network
  <1>3. CASE Receive(w)
    <2>1. link[w] \in Connections /\ from[link[w]] \in Seq(Int)
      BY <1>3 DEF Receive, Shape
    <2>2. /\ Head(from[link[w]]) \in Int
          /\ Tail(from[link[w]]) \in Seq(Int)
      BY <1>3, <2>1, HeadTailProperties DEF Receive
    <2>3. Append(computing[w], Head(from[link[w]])) \in Seq(Int)
      BY <2>2, AppendProperties DEF Shape
    <2> QED
      BY <1>3, <2>1, <2>2, <2>3 DEF Receive, Shape, network
  <1>4. CASE Finish(w)
    <2>1. PICK i \in DOMAIN computing[w] :
              /\ computing' = [computing EXCEPT ![w] = RemoveAt(@, i)]
              /\ outgoing' = [outgoing EXCEPT ![w] =
                                 @ \o <<Result(computing[w][i]), Request>>]
      BY <1>4 DEF Finish, FinishUnit
    <2>2. computing[w] \in Seq(Int) /\ i \in 1..Len(computing[w])
      BY LenProperties DEF Shape
    <2>3. computing[w][i] \in Int /\ RemoveAt(computing[w], i) \in Seq(Int)
      BY <2>2, ElementOfSeq, RemoveAtType
    <2>4. Result(computing[w][i]) \in AnyMessage
      BY <2>3
    <2>5. outgoing[w] \o <<Result(computing[w][i]), Request>> \in Seq(AnyMessage)
      BY <2>4, ConcatProperties DEF Shape
    <2> QED
      BY <1>4, <2>1, <2>3, <2>5 DEF Finish, FinishUnit, Shape, network
  <1>5. CASE Leave(w)
    BY <1>5, DisconnectedShape, EmptySeq DEF Leave, Shape
  <1>6. CASE Quit(w)
    <2>1. Append(outgoing[w], GoodBye) \in Seq(AnyMessage)
      BY AppendProperties DEF Shape
    <2> QED
      BY <1>6, <2>1, EmptySeq DEF Quit, Lose, Shape
  <1>7. CASE Crash(w)
    <2>1. to' \in [Connections -> Seq(AnyMessage)]
      <3>1. CASE link[w] = 0
        BY <1>7, <3>1 DEF Crash, Shape
      <3>2. CASE link[w] # 0
        BY <1>7, <3>2, ArrivesShape DEF Crash, Shape
      <3> QED
        BY <3>1, <3>2
    <2> QED
      BY <1>7, <2>1, DisconnectedShape, EmptySeq DEF Crash, Lose, Shape
  <1>8. CASE Cut(w)
    <2>1. to' \in [Connections -> Seq(AnyMessage)]
      BY <1>8, ArrivesShape DEF Cut, Shape
    <2> QED
      BY <1>8, <2>1, DisconnectedShape DEF Cut, Lose, Shape, client
  <1>9. CASE Replace(w)
    <2>1. PICK j \in DOMAIN kept[w] :
              kept' = [kept EXCEPT ![w] = RemoveAt(@, j)]
      BY <1>9 DEF Replace
    <2>2. link[w] \in Connections /\ from[link[w]] \in Seq(Int)
      BY <1>9 DEF Replace, Shape
    <2>3. /\ Head(from[link[w]]) \in Int
          /\ Tail(from[link[w]]) \in Seq(Int)
      BY <1>9, <2>2, HeadTailProperties DEF Replace
    <2>4. Append(computing[w], Head(from[link[w]])) \in Seq(Int)
      BY <2>3, AppendProperties DEF Shape
    <2>5. kept[w] \in Seq(Int) /\ j \in 1..Len(kept[w])
      BY LenProperties DEF Shape
    <2>6. RemoveAt(kept[w], j) \in Seq(Int)
      BY <2>5, RemoveAtType
    <2> QED
      BY <1>9, <2>1, <2>2, <2>3, <2>4, <2>6 DEF Replace, Shape, network
  <1>10. CASE Keep(w)
    <2>1. PICK i \in DOMAIN computing[w] :
              /\ computing' = [computing EXCEPT ![w] = RemoveAt(@, i)]
              /\ kept' = [kept EXCEPT ![w] = Append(@, computing[w][i])]
      BY <1>10 DEF Keep
    <2>2. computing[w] \in Seq(Int) /\ i \in 1..Len(computing[w])
      BY LenProperties DEF Shape
    <2>3. computing[w][i] \in Int /\ RemoveAt(computing[w], i) \in Seq(Int)
      BY <2>2, ElementOfSeq, RemoveAtType
    <2>4. Append(kept[w], computing[w][i]) \in Seq(Int)
      BY <2>3, AppendProperties DEF Shape
    <2> QED
      BY <1>10, <2>1, <2>3, <2>4 DEF Keep, Shape, network
  <1>11. CASE Wake(w)
    <2>1. PICK j \in DOMAIN kept[w] :
              /\ kept' = [kept EXCEPT ![w] = RemoveAt(@, j)]
              /\ computing' = [computing EXCEPT ![w] = Append(@, kept[w][j])]
      BY <1>11 DEF Wake
    <2>2. kept[w] \in Seq(Int) /\ j \in 1..Len(kept[w])
      BY LenProperties DEF Shape
    <2>3. kept[w][j] \in Int /\ RemoveAt(kept[w], j) \in Seq(Int)
      BY <2>2, ElementOfSeq, RemoveAtType
    <2>4. Append(computing[w], kept[w][j]) \in Seq(Int)
      BY <2>3, AppendProperties DEF Shape
    <2> QED
      BY <1>11, <2>1, <2>3, <2>4 DEF Wake, Shape, network
  <1> QED
    BY <1>1, <1>2, <1>3, <1>4, <1>5, <1>6, <1>7, <1>8, <1>9, <1>10, <1>11
    DEF Worker, Reader

LEMMA ReceivedShape ==
    ASSUME Shape, NEW k \in Connections, NEW type, Received(k, type)
    PROVE  /\ to' \in [Connections -> Seq(AnyMessage)]
           /\ worker_id' \in [Connections -> Workers \union {NoWorker}]
           /\ Head(to[k]) \in AnyMessage
  <1>1. Tail(to[k]) \in Seq(AnyMessage) /\ Head(to[k]) \in AnyMessage
    BY HeadTailProperties DEF Shape, Received
  <1> QED
    BY <1>1 DEF Shape, Received

(* Steps of the coordinator keep the types. *)
LEMMA ConnectionShape ==
    ASSUME Shape, Ledger!TypeOK, NEW k \in Connections, Connection(k)
    PROVE  Shape'
  <1>1. CASE handle_helo_message(k)
    BY <1>1, ReceivedShape DEF handle_helo_message, Shape, client, network
  <1>2. CASE handle_goodbye_message(k)
    BY <1>2, ReceivedShape DEF handle_goodbye_message, Shape, client, network
  <1>3. CASE handle_workunitresult_message(k)
    BY <1>3, ReceivedShape
    DEF handle_workunitresult_message, Shape, client, network
  <1>4. CASE handle_requestworkunit_message(k)
    <2>1. PICK start \in Int : Dispatch(k, start)
      BY <1>4 DEF handle_requestworkunit_message, Beyond, Ledger!TypeOK,
                  Ledger!ControlBlocks, Ledger!WorkUnits
    <2>2. Append(from[k], start) \in Seq(Int)
      BY AppendProperties DEF Shape
    <2>3. from' \in [Connections -> Seq(Int)]
      BY <2>1, <2>2 DEF Shape, Dispatch
    <2> QED
      BY <1>4, <2>3, ReceivedShape
      DEF handle_requestworkunit_message, Shape, client, network
  <1>5. CASE ReaderReports(k)
    BY <1>5 DEF ReaderReports, Shape, client, network
  <1>6. CASE WriterReports(k)
    BY <1>6 DEF WriterReports, Shape, client, network
  <1>7. CASE Destroy(k)
    BY <1>7, EmptySeq DEF Destroy, Shape, client
  <1> QED
    BY <1>1, <1>2, <1>3, <1>4, <1>5, <1>6, <1>7 DEF Connection

LEMMA ShapeStep ==
    ASSUME Shape, ConnectsBounded, Ledger!TypeOK, [Next]_vars
    PROVE  Shape'
  <1>1. CASE Expire
    BY <1>1 DEF Expire, Shape, client, network
  <1>2. CASE UNCHANGED vars
    BY <1>2 DEF vars, Shape, client, network
  <1> QED
    BY <1>1, <1>2, WorkerShape, ConnectionShape DEF Next

-----------------------------------------------------------------------------
(* There is a connection for every loss *)

LEMMA AddWorker ==
    ASSUME NEW S, S \subseteq Workers, NEW w \in Workers \ S
    PROVE  Cardinality(S \union {w}) = Cardinality(S) + 1
  BY WorkersFinite, FS_AddElement

LEMMA TakeWorker ==
    ASSUME NEW S, S \subseteq Workers, NEW w \in Workers
    PROVE  /\ Cardinality(S \ {w}) \in Nat
           /\ Cardinality(S) <= Cardinality(S \ {w}) + 1
           /\ w \in S => Cardinality(S) = Cardinality(S \ {w}) + 1
  <1>1. IsFiniteSet(S) /\ Cardinality(S) \in Nat
    BY WorkersFinite
  <1>2. Cardinality(S \ {w}) \in Nat
    BY WorkersFinite
  <1>3. CASE w \in S
    <2>1. Cardinality(S \ {w}) = Cardinality(S) - 1
      BY <1>1, <1>3, FS_RemoveElement
    <2> QED
      BY <1>1, <1>2, <2>1
  <1>4. CASE w \notin S
    <2>1. S \ {w} = S
      BY <1>4
    <2> QED
      BY <1>1, <1>4, <2>1
  <1> QED
    BY <1>2, <1>3, <1>4

LEMMA BoundedStep ==
    ASSUME Shape, ConnectsBounded, [Next]_vars
    PROVE  ConnectsBounded'
  <1> DEFINE L == LinkedWorkers
             Q == QuittingWorkers
  <1>1. /\ L \subseteq Workers /\ Q \subseteq Workers
        /\ L' \subseteq Workers /\ Q' \subseteq Workers
    BY DEF LinkedWorkers, QuittingWorkers
  <1>2. /\ Cardinality(L) \in Nat /\ Cardinality(Q) \in Nat
        /\ connects \in Nat /\ losses \in Nat /\ MaxLosses \in Nat
        /\ losses <= MaxLosses
        /\ connects + Cardinality(Q) <= losses + Cardinality(L)
    BY <1>1, WorkersFinite, BoundsAssumption DEF Shape, ConnectsBounded
  <1>3. \A w : w \in L <=> w \in Workers /\ link[w] # 0
    BY DEF LinkedWorkers
  <1>4. \A w : w \in Q <=> w \in Workers /\ worker[w] = "quitting"
    BY DEF QuittingWorkers
  <1>5. ASSUME losses' <= MaxLosses,
               connects' + Cardinality(Q') <= losses' + Cardinality(L')
        PROVE  ConnectsBounded'
    BY <1>5 DEF ConnectsBounded
  <1>6. ASSUME UNCHANGED <<worker, link, connects, losses>>
        PROVE  ConnectsBounded'
    BY <1>6 DEF ConnectsBounded, LinkedWorkers, QuittingWorkers
  <1>7. ASSUME NEW w \in Workers, Connect(w)
        PROVE  ConnectsBounded'
    <2>1. /\ worker' = worker /\ losses' = losses /\ connects' = connects + 1
          /\ link' = [link EXCEPT ![w] = connects + 1]
          /\ w \notin L
      BY <1>3, <1>7 DEF Connect
    <2>2. L' = L \union {w}
      BY <1>2, <2>1 DEF LinkedWorkers, Shape
    <2>3. Q' = Q
      BY <2>1 DEF QuittingWorkers
    <2> HIDE DEF L, Q
    <2>4. Cardinality(L') = Cardinality(L) + 1
      BY <1>1, <2>1, <2>2, AddWorker
    <2> QED
      BY <1>2, <1>5, <2>1, <2>3, <2>4
  <1>8. ASSUME NEW w \in Workers, Leave(w)
        PROVE  ConnectsBounded'
    <2>1. /\ worker' = [worker EXCEPT ![w] = "gone"]
          /\ link' = [link EXCEPT ![w] = 0]
          /\ losses' = losses /\ connects' = connects
          /\ w \in Q
      BY <1>4, <1>8 DEF Leave, Disconnected
    <2>2. L' = L \ {w}
      BY <2>1 DEF LinkedWorkers, Shape
    <2>3. Q' = Q \ {w}
      BY <2>1 DEF QuittingWorkers, Shape
    <2> HIDE DEF L, Q
    <2>4. /\ Cardinality(L) <= Cardinality(L') + 1 /\ Cardinality(L') \in Nat
          /\ Cardinality(Q) = Cardinality(Q') + 1 /\ Cardinality(Q') \in Nat
      BY <1>1, <2>1, <2>2, <2>3, TakeWorker
    <2> QED
      BY <1>2, <1>5, <2>1, <2>4
  <1>9. ASSUME NEW w \in Workers, Quit(w)
        PROVE  ConnectsBounded'
    <2>1. /\ worker' = [worker EXCEPT ![w] = "quitting"]
          /\ link' = link /\ connects' = connects
          /\ losses < MaxLosses /\ losses' = losses + 1
          /\ w \notin Q
      BY <1>4, <1>9 DEF Quit, Lose
    <2>2. Q' = Q \union {w}
      BY <2>1 DEF QuittingWorkers, Shape
    <2>3. L' = L
      BY <2>1 DEF LinkedWorkers
    <2> HIDE DEF L, Q
    <2>4. Cardinality(Q') = Cardinality(Q) + 1
      BY <1>1, <2>1, <2>2, AddWorker
    <2> QED
      BY <1>2, <1>5, <2>1, <2>3, <2>4
  <1>10. ASSUME NEW w \in Workers, Cut(w)
         PROVE  ConnectsBounded'
    <2>1. /\ link' = [link EXCEPT ![w] = 0]
          /\ losses < MaxLosses /\ losses' = losses + 1
          /\ connects' = connects
      BY <1>10 DEF Cut, Lose, Disconnected
    <2>2. L' = L \ {w}
      BY <2>1 DEF LinkedWorkers, Shape
    <2>3. Q' = Q
      BY <1>10 DEF QuittingWorkers, Cut, client
    <2> HIDE DEF L, Q
    <2>4. Cardinality(L) <= Cardinality(L') + 1 /\ Cardinality(L') \in Nat
      BY <1>1, <2>2, TakeWorker
    <2> QED
      BY <1>2, <1>5, <2>1, <2>3, <2>4
  <1>11. ASSUME NEW w \in Workers, Crash(w)
         PROVE  ConnectsBounded'
    <2>1. /\ worker' = [worker EXCEPT ![w] = "gone"]
          /\ link' = [link EXCEPT ![w] = 0]
          /\ connects' = connects
          /\ \/ losses < MaxLosses /\ losses' = losses + 1
             \/ w \in Q /\ losses' = losses
      BY <1>4, <1>11 DEF Crash, Lose, Disconnected
    <2>2. L' = L \ {w}
      BY <2>1 DEF LinkedWorkers, Shape
    <2>3. Q' = Q \ {w}
      BY <2>1 DEF QuittingWorkers, Shape
    <2> HIDE DEF L, Q
    <2>4. /\ Cardinality(L) <= Cardinality(L') + 1 /\ Cardinality(L') \in Nat
          /\ Cardinality(Q) <= Cardinality(Q') + 1 /\ Cardinality(Q') \in Nat
          /\ w \in Q => Cardinality(Q) = Cardinality(Q') + 1
          /\ w \notin Q => Cardinality(Q) = Cardinality(Q')
      <3>1. w \notin Q => Q' = Q
        BY <2>3
      <3> QED
        BY <1>1, <2>2, <2>3, <3>1, TakeWorker
    <2>5. CASE w \in Q
      BY <1>2, <1>5, <2>1, <2>4, <2>5
    <2>6. CASE w \notin Q
      BY <1>2, <1>5, <2>1, <2>4, <2>6
    <2> QED
      BY <2>5, <2>6
  <1>12. ASSUME NEW w \in Workers,
                \/ Send(w) \/ Receive(w) \/ Replace(w)
                \/ Finish(w) \/ Keep(w) \/ Wake(w)
         PROVE  ConnectsBounded'
    BY <1>6, <1>12 DEF Send, Receive, Replace, Finish, FinishUnit, Keep, Wake,
                       network
  <1>13. ASSUME NEW k \in Connections, Connection(k)
         PROVE  ConnectsBounded'
    BY <1>6, <1>13
    DEF Connection, handle_helo_message, handle_goodbye_message,
        handle_workunitresult_message, handle_requestworkunit_message,
        ReaderReports, WriterReports, Destroy, client, network
  <1>14. CASE Expire \/ UNCHANGED vars
    BY <1>6, <1>14 DEF Expire, vars, client, network
  <1> QED
    BY <1>7, <1>8, <1>9, <1>10, <1>11, <1>12, <1>13, <1>14
    DEF Next, Worker, Reader

-----------------------------------------------------------------------------
(* Connections *)

(***************************************************************************)
(* How connections, their two ends and the reports of their losses hang    *)
(* together.                                                               *)
(***************************************************************************)
Connected ==
    /\ \A w \in Workers : link[w] # 0 => /\ owner[link[w]] = w
                                         /\ state[link[w]] = "open"
    /\ \A w \in Workers : worker[w] = "gone" => link[w] = 0
    /\ \A k \in Connections :
         /\ k <= connects <=> owner[k] # NoWorker
         /\ k <= connects <=> state[k] # "new"
         /\ k > connects => to[k] = <<>>
         /\ state[k] = "open" => link[owner[k]] = k
         /\ state[k] \in {"new", "open"} => reports[k] = {}
         /\ worker_id[k] \in {owner[k], NoWorker}
         /\ "reader" \in reports[k] => to[k] = <<>>

LEMMA ConnectedInit == Init => Connected
  BY LedgerAssumption DEF Init, Connected, Connections

(* No message arrives of a queue that was empty. *)
LEMMA NoneArrives ==
    ASSUME Shape, NEW k \in Connections, NEW n \in 0..Len(to[k]), Arrives(k, n)
    PROVE  \A j \in Connections : to[j] = <<>> => to'[j] = <<>>
  <1>1. ASSUME to[k] = <<>>
        PROVE  SubSeq(to[k], 1, n) = <<>>
    <2>1. n = 0
      BY <1>1, EmptySeq
    <2> QED
      BY <2>1, SubSeqEmpty
  <1> QED
    BY <1>1 DEF Arrives, Shape

(* An open connection is the one of the worker that made it. *)
LEMMA OpenOwner ==
    ASSUME Shape, Connected, NEW k \in Connections, state[k] = "open"
    PROVE  owner[k] \in Workers /\ link[owner[k]] = k
  <1>1. owner[k] # NoWorker /\ link[owner[k]] = k
    BY DEF Connected
  <1>2. owner[k] \in Workers \union {NoWorker}
    BY DEF Shape
  <1> QED
    BY <1>1, <1>2

LEMMA WorkerConnected ==
    ASSUME Shape, Shape', ConnectsBounded, Connected, NEW w \in Workers,
           Worker(w)
    PROVE  Connected'
  <1> USE LedgerAssumption
  <1>1. CASE Connect(w)
    <2>1. /\ connects + 1 \in Connections /\ connects \in Nat
          /\ connects' = connects + 1
          /\ link' = [link EXCEPT ![w] = connects + 1]
          /\ owner' = [owner EXCEPT ![connects + 1] = w]
          /\ state' = [state EXCEPT ![connects + 1] = "open"]
          /\ UNCHANGED <<worker, to, worker_id, reports>>
          /\ worker[w] # "gone"
      BY <1>1, RoomToConnect DEF Connect, Shape
    <2>2. /\ state[connects + 1] = "new" /\ owner[connects + 1] = NoWorker
          /\ to[connects + 1] = <<>> /\ reports[connects + 1] = {}
          /\ worker_id[connects + 1] = NoWorker
      BY <2>1 DEF Connected
    <2>3. ASSUME NEW v \in Workers
          PROVE  /\ link'[v] # 0 => /\ owner'[link'[v]] = v
                                    /\ state'[link'[v]] = "open"
                 /\ worker'[v] = "gone" => link'[v] = 0
      <3>1. link[v] # 0 => link[v] \in Connections /\ link[v] # connects + 1
        BY <2>2 DEF Shape, Connected
      <3> QED
        BY <2>1, <3>1 DEF Shape, Connected
    <2>4. ASSUME NEW k \in Connections
          PROVE  /\ k <= connects' <=> owner'[k] # NoWorker
                 /\ k <= connects' <=> state'[k] # "new"
                 /\ k > connects' => to'[k] = <<>>
                 /\ state'[k] = "open" => link'[owner'[k]] = k
                 /\ state'[k] \in {"new", "open"} => reports'[k] = {}
                 /\ worker_id'[k] \in {owner'[k], NoWorker}
                 /\ "reader" \in reports'[k] => to'[k] = <<>>
      <3>1. CASE k = connects + 1
        BY <2>1, <2>2, <3>1 DEF Shape
      <3>2. CASE k # connects + 1
        <4>1. /\ k <= connects' <=> k <= connects
              /\ owner'[k] = owner[k] /\ state'[k] = state[k]
          BY <2>1, <3>2 DEF Shape, Connections
        <4>2. state[k] = "open" => owner[k] \in Workers /\ owner[k] # w
          BY <1>1, OpenOwner DEF Connections, Connect
        <4> QED
          BY <2>1, <4>1, <4>2 DEF Shape, Connected, Connections
      <3> QED
        BY <3>1, <3>2
    <2> QED
      BY <2>3, <2>4 DEF Connected
  <1>2. CASE Send(w)
    <2>1. /\ link[w] \in Connections
          /\ \A k \in Connections : k # link[w] => to'[k] = to[k]
          /\ link[w] <= connects /\ reports[link[w]] = {}
          /\ UNCHANGED <<worker, network, worker_id, reports>>
      BY <1>2 DEF Send, Shape, Connected
    <2> QED
      BY <2>1 DEF Shape, Connected, Connections, network
  <1>3. CASE Receive(w) \/ Replace(w) \/ Finish(w) \/ Keep(w) \/ Wake(w)
    <2>1. UNCHANGED <<worker, network, to, worker_id, reports>>
      BY <1>3 DEF Receive, Replace, Finish, FinishUnit, Keep, Wake
    <2> QED
      BY <2>1 DEF Connected, network
  <1>4. ASSUME worker' = worker \/ worker' = [worker EXCEPT ![w] = "gone"],
               \A k \in Connections : to[k] = <<>> => to'[k] = <<>>,
               Disconnected(w), UNCHANGED <<worker_id, reports>>
        PROVE  Connected'
    <2>1. CASE link[w] = 0
      <3>1. /\ link' = link /\ state' = state
            /\ UNCHANGED <<connects, owner, worker_id, reports>>
        BY <1>4, <2>1 DEF Shape, Disconnected
      <3>2. \A v \in Workers : worker'[v] = "gone" => link'[v] = 0
        BY <1>4, <2>1, <3>1 DEF Shape, Connected
      <3> QED
        BY <1>4, <3>1, <3>2 DEF Connected
    <2>2. CASE link[w] # 0
      <3>1. /\ link[w] \in Connections
            /\ link' = [link EXCEPT ![w] = 0]
            /\ state' = [state EXCEPT ![link[w]] = "cut"]
            /\ UNCHANGED <<connects, owner>>
            /\ owner[link[w]] = w /\ state[link[w]] = "open"
        BY <1>4, <2>2 DEF Shape, Connected, Disconnected
      <3>2. ASSUME NEW v \in Workers
            PROVE  /\ link'[v] # 0 => /\ owner'[link'[v]] = v
                                      /\ state'[link'[v]] = "open"
                   /\ worker'[v] = "gone" => link'[v] = 0
        <4>1. CASE v = w
          BY <3>1, <4>1 DEF Shape
        <4>2. CASE v # w
          <5>1. link'[v] = link[v] /\ worker'[v] = worker[v]
            BY <1>4, <3>1, <4>2 DEF Shape
          <5>2. ASSUME link[v] # 0
                PROVE  /\ link[v] \in Connections /\ link[v] # link[w]
                       /\ owner[link[v]] = v /\ state[link[v]] = "open"
            BY <3>1, <4>2, <5>2 DEF Shape, Connected
          <5> QED
            BY <3>1, <5>1, <5>2 DEF Shape, Connected
        <4> QED
          BY <4>1, <4>2
      <3>3. ASSUME NEW k \in Connections, state'[k] = "open"
            PROVE  state[k] = "open" /\ link'[owner'[k]] = k
        <4>1. k # link[w] /\ state[k] = "open"
          BY <3>1, <3>3 DEF Shape
        <4>2. link[owner[k]] = k /\ owner[k] \in Workers
          BY <4>1, OpenOwner
        <4>3. owner[k] # w
          BY <4>1, <4>2
        <4> QED
          BY <3>1, <4>1, <4>2, <4>3 DEF Shape
      <3>4. ASSUME NEW k \in Connections
            PROVE  /\ k <= connects' <=> owner'[k] # NoWorker
                   /\ k <= connects' <=> state'[k] # "new"
                   /\ k > connects' => to'[k] = <<>>
                   /\ state'[k] \in {"new", "open"} => reports'[k] = {}
                   /\ worker_id'[k] \in {owner'[k], NoWorker}
                   /\ "reader" \in reports'[k] => to'[k] = <<>>
        <4>1. state'[k] = IF k = link[w] THEN "cut" ELSE state[k]
          BY <3>1 DEF Shape
        <4> QED
          BY <1>4, <3>1, <4>1 DEF Connected
      <3> QED
        BY <3>2, <3>3, <3>4 DEF Connected
    <2> QED
      BY <2>1, <2>2
  <1>5. CASE Leave(w)
    BY <1>4, <1>5 DEF Leave
  <1>6. CASE Quit(w)
    BY <1>6 DEF Quit, Shape, Connected
  <1>7. CASE Crash(w)
    <2>1. \A k \in Connections : to[k] = <<>> => to'[k] = <<>>
      <3>1. CASE link[w] = 0
        BY <1>7, <3>1 DEF Crash
      <3>2. CASE link[w] # 0
        BY <1>7, <3>2, NoneArrives DEF Crash, Shape
      <3> QED
        BY <3>1, <3>2
    <2> QED
      BY <1>4, <1>7, <2>1 DEF Crash
  <1>8. CASE Cut(w)
    <2>1. \A k \in Connections : to[k] = <<>> => to'[k] = <<>>
      BY <1>8, NoneArrives DEF Cut, Shape
    <2> QED
      BY <1>4, <1>8, <2>1 DEF Cut, client
  <1> QED
    BY <1>1, <1>2, <1>3, <1>5, <1>6, <1>7, <1>8 DEF Worker, Reader

LEMMA ConnectionConnected ==
    ASSUME Shape, Shape', Connected, NEW k \in Connections, Connection(k)
    PROVE  Connected'
  <1> USE LedgerAssumption
  <1>1. ASSUME NEW type, Received(k, type),
               UNCHANGED <<client, network, reports>>
        PROVE  Connected'
    <2>1. /\ to[k] # <<>> /\ Reading(k)
          /\ \A j \in Connections : j # k => /\ to'[j] = to[j]
                                             /\ worker_id'[j] = worker_id[j]
          /\ worker_id'[k] = owner[k]
      BY <1>1 DEF Received, Shape
    <2>2. k <= connects /\ "reader" \notin reports[k]
      BY <2>1 DEF Shape, Connected, Reading, Connections
    <2> QED
      BY <1>1, <2>1, <2>2 DEF Shape, Connected, Connections, client, network
  <1>2. CASE handle_helo_message(k)
    BY <1>1, <1>2 DEF handle_helo_message
  <1>3. CASE handle_goodbye_message(k)
    BY <1>1, <1>3 DEF handle_goodbye_message
  <1>4. CASE handle_workunitresult_message(k)
    BY <1>1, <1>4 DEF handle_workunitresult_message
  <1>5. CASE handle_requestworkunit_message(k)
    BY <1>1, <1>5 DEF handle_requestworkunit_message
  <1>6. CASE ReaderReports(k) \/ WriterReports(k)
    <2>1. /\ state[k] = "cut"
          /\ \A j \in Connections : j # k => reports'[j] = reports[j]
          /\ "reader" \in reports'[k] => "reader" \in reports[k] \/ to[k] = <<>>
          /\ UNCHANGED <<client, network, to, worker_id>>
      BY <1>6 DEF ReaderReports, WriterReports, Shape
    <2> QED
      BY <2>1 DEF Shape, Connected, client, network
  <1>7. CASE Destroy(k)
    <2>1. /\ state[k] = "cut"
          /\ \A j \in Connections : j # k => /\ state'[j] = state[j]
                                             /\ to'[j] = to[j]
          /\ state'[k] = "destroyed" /\ to'[k] = <<>>
          /\ UNCHANGED <<client, link, connects, owner, worker_id, reports>>
      BY <1>7 DEF Destroy, Shape
    <2> QED
      BY <2>1 DEF Shape, Connected, client
  <1> QED
    BY <1>2, <1>3, <1>4, <1>5, <1>6, <1>7 DEF Connection

LEMMA ConnectedStep ==
    ASSUME Shape, Shape', ConnectsBounded, Connected, [Next]_vars
    PROVE  Connected'
  <1>1. CASE Expire \/ UNCHANGED vars
    BY <1>1 DEF Expire, vars, Connected, client, network
  <1> QED
    BY <1>1, WorkerConnected, ConnectionConnected DEF Next

-----------------------------------------------------------------------------
(* The handlers make steps of the ledger *)

(* The names of the ledger and of what is proved about it stand for the    *)
(* same formulas.                                                          *)
LEMMA SameStates ==
    /\ Facts!TypeOK <=> Ledger!TypeOK
    /\ Facts!Units = Ledger!Units
    /\ \A u, d : Facts!Covers(u, d) <=> Ledger!Covers(u, d)
    /\ Facts!Init <=> Ledger!Init
  BY DEF Facts!TypeOK, Facts!ControlBlocks, Facts!WorkUnits, Facts!States,
         Ledger!TypeOK, Ledger!ControlBlocks, Ledger!WorkUnits, Ledger!States,
         Facts!Units, Ledger!Units, Facts!Covers, Ledger!Covers,
         Facts!Init, Ledger!Init

LEMMA SameNext == Facts!Next <=> Ledger!Next
  <1>1. \A w, c : Facts!Claim(w, c) <=> Ledger!Claim(w, c)
    BY DEF Facts!Claim, Facts!Available, Facts!NeverMissed,
           Ledger!Claim, Ledger!Available, Ledger!NeverMissed
  <1>2. \A w : Facts!DispatchNew(w) <=> Ledger!DispatchNew(w)
    BY DEF Facts!DispatchNew, Facts!UnitSize, Facts!NeverMissed,
           Ledger!DispatchNew, Ledger!UnitSize, Ledger!NeverMissed
  <1>3. \A w, s : Facts!MarkAll(w, s) <=> Ledger!MarkAll(w, s)
    BY DEF Facts!MarkAll, Facts!Marked, Ledger!MarkAll, Ledger!Marked
  <1>4. \A c : Facts!Expire(c) <=> Ledger!Expire(c)
    BY DEF Facts!Expire, Ledger!Expire
  <1>5. \A start : Facts!Submit(start) <=> Ledger!Submit(start)
    BY DEF Facts!Submit, Ledger!Submit
  <1> QED
    BY <1>1, <1>2, <1>3, <1>4, <1>5
    DEF Facts!Next, Facts!assign_work_unit, Facts!States,
        Ledger!Next, Ledger!assign_work_unit, Ledger!States

(* What is proved of every state of the ledger. *)
LedgerInv == Facts!UniqueInv /\ Facts!Tiling /\ Facts!OwnerKnown

(* A reader with a message knows which worker it comes from. *)
LEMMA SenderKnown ==
    ASSUME Shape, Connected, NEW k \in Connections, to[k] # <<>>
    PROVE  owner[k] \in Workers
  <1>1. ~(k > connects) /\ (k <= connects => owner[k] # NoWorker)
    BY DEF Connected
  <1>2. k \in Int /\ connects \in Int
    BY DEF Shape, Connections
  <1>3. owner[k] # NoWorker
    BY <1>1, <1>2
  <1>4. owner[k] \in Workers \union {NoWorker}
    BY DEF Shape
  <1> QED
    BY <1>3, <1>4

(* Submitting a result of no unit in the list changes nothing. *)
LEMMA SubmitInLedger ==
    ASSUME LedgerInv, NEW start \in Int, Ledger!Submit(start)
    PROVE  Ledger!Next \/ UNCHANGED ledger
  <1>1. CASE start \in 0..next_digit
    BY <1>1 DEF Ledger!Next
  <1>2. CASE start \notin 0..next_digit
    <2>1. ASSUME NEW c \in active_work_units
          PROVE  c.work_unit.start # start
      <3>1. c.work_unit.start < next_digit
        BY Facts!StartsBelowNext, LedgerAssumption
        DEF LedgerInv, Facts!UniqueInv
      <3>2. c.work_unit.start \in Nat /\ next_digit \in Nat
        BY DEF LedgerInv, Facts!UniqueInv, Facts!TypeOK,
               Facts!ControlBlocks, Facts!WorkUnits
      <3> QED
        BY <1>2, <3>1, <3>2
    <2> QED
      BY <2>1 DEF Ledger!Submit, ledger
  <1> QED
    BY <1>1, <1>2

(***************************************************************************)
(* Every step of the cluster is one of the ledger, or leaves it as it is:  *)
(* a handler calls the manager once at most, for a worker that exists, and *)
(* a result, whatever its start, removes a unit that was given away.       *)
(***************************************************************************)
LEMMA LedgerStep ==
    ASSUME Shape, Connected, LedgerInv, [Next]_vars
    PROVE  [Ledger!Next]_ledger
  <1> SUFFICES Ledger!Next \/ UNCHANGED ledger
    OBVIOUS
  <1>1. ASSUME NEW w \in Workers, Worker(w)
        PROVE  UNCHANGED ledger
    BY <1>1 DEF Worker, Reader, Connect, Send, Receive, Replace, Finish,
        FinishUnit, Keep, Wake, Leave, Quit, Crash, Cut
  <1>2. ASSUME NEW k \in Connections, Connection(k)
        PROVE  Ledger!Next \/ UNCHANGED ledger
    <2>1. CASE handle_helo_message(k)
      BY <2>1, SenderKnown
      DEF handle_helo_message, Received, Ledger!Next, Ledger!States
    <2>2. CASE handle_goodbye_message(k)
      BY <2>2, SenderKnown
      DEF handle_goodbye_message, Received, Ledger!Next, Ledger!States
    <2>3. CASE handle_workunitresult_message(k)
      <3>1. Head(to[k]) \in AnyMessage
        BY <2>3, ReceivedShape DEF handle_workunitresult_message
      <3>2. Head(to[k]).start \in Int
        BY <3>1 DEF AnyMessage
      <3> QED
        BY <2>3, <3>2, SubmitInLedger DEF handle_workunitresult_message
    <2>4. CASE handle_requestworkunit_message(k)
      BY <2>4, SenderKnown
      DEF handle_requestworkunit_message, Received, Ledger!Next,
          Ledger!assign_work_unit
    <2>5. CASE ReaderReports(k) \/ WriterReports(k)
      <3>1. con_disconnected(k)
        BY <2>5 DEF ReaderReports, WriterReports
      <3>2. worker_id[k] # NoWorker => worker_id[k] \in Workers
        BY DEF Shape
      <3> QED
        BY <3>1, <3>2 DEF con_disconnected, Ledger!Next, Ledger!States
    <2>6. CASE Destroy(k)
      BY <2>6 DEF Destroy
    <2> QED
      BY <1>2, <2>1, <2>2, <2>3, <2>4, <2>5, <2>6 DEF Connection
  <1>3. CASE Expire
    BY <1>3 DEF Expire, Ledger!Next
  <1>4. CASE UNCHANGED vars
    BY <1>4 DEF vars
  <1> QED
    BY <1>1, <1>2, <1>3, <1>4 DEF Next

LEMMA LedgerInvStep ==
    ASSUME LedgerInv, [Ledger!Next]_ledger
    PROVE  LedgerInv'
  <1>1. Facts!TypeOK /\ [Facts!Next]_(Facts!vars)
    BY SameNext DEF LedgerInv, Facts!UniqueInv, ledger, Facts!vars
  <1>2. Facts!TypeOK'
    BY <1>1, Facts!TypeStep, LedgerAssumption
  <1>3. Facts!WithinBounds' /\ Facts!Tiling'
    BY <1>1, <1>2, Facts!TilingStep, LedgerAssumption
    DEF LedgerInv, Facts!UniqueInv
  <1>4. Facts!UniqueStarts'
    BY <1>1, Facts!UniqueStep, LedgerAssumption DEF LedgerInv
  <1>5. Facts!OwnerKnown'
    BY <1>1, Facts!OwnerStep, LedgerAssumption DEF LedgerInv
  <1> QED
    BY <1>2, <1>3, <1>4, <1>5 DEF LedgerInv, Facts!UniqueInv

-----------------------------------------------------------------------------
(* The cluster implements the ledger *)

Inv == Shape /\ ConnectsBounded /\ Connected /\ LedgerInv

(* Each worker has some number of threads, and starts with as many requests. *)
LEMMA InitialTeam ==
    ASSUME Init
    PROVE  \E team \in [Workers -> 0..NThreads] :
              /\ outgoing = [w \in Workers |-> [i \in 1..team[w] |-> Request]]
              /\ lost = [w \in Workers |-> NThreads - team[w]]
  BY TeamsAssumption DEF Init

LEMMA InvInit == Init => Inv
  <1> SUFFICES ASSUME Init
               PROVE  Inv
    OBVIOUS
  <1>1. Shape
    <2>1. PICK team \in [Workers -> 0..NThreads] :
             outgoing = [w \in Workers |-> [i \in 1..team[w] |-> Request]]
      BY InitialTeam
    <2>2. \A n \in Nat : [i \in 1..n |-> Request] \in Seq(AnyMessage)
      BY MessageType
    <2>3. \A w \in Workers : team[w] \in Nat
      BY <2>1, BoundsAssumption
    <2>4. outgoing \in [Workers -> Seq(AnyMessage)]
      BY <2>1, <2>2, <2>3
    <2> QED
      BY <2>4, EmptySeq DEF Init, Shape
  <1>2. ConnectsBounded
    <2>1. LinkedWorkers = {} /\ QuittingWorkers = {}
      BY DEF Init, LinkedWorkers, QuittingWorkers
    <2> QED
      BY <2>1, FS_EmptySet, BoundsAssumption DEF Init, ConnectsBounded
  <1>3. LedgerInv
    BY LedgerAssumption DEF Init, Ledger!Init, LedgerInv, Facts!UniqueInv,
       Facts!TypeOK, Facts!WithinBounds, Facts!UniqueStarts, Facts!Tiling,
       Facts!OwnerKnown, Facts!Units
  <1> QED
    BY <1>1, <1>2, <1>3, ConnectedInit DEF Inv

LEMMA InvStep == Inv /\ [Next]_vars => Inv' /\ [Ledger!Next]_ledger
  <1> SUFFICES ASSUME Inv, [Next]_vars
               PROVE  Inv' /\ [Ledger!Next]_ledger
    OBVIOUS
  <1>1. Ledger!TypeOK
    BY SameStates DEF Inv, LedgerInv, Facts!UniqueInv
  <1>2. Shape' /\ ConnectsBounded'
    BY <1>1, ShapeStep, BoundedStep DEF Inv
  <1>3. Connected'
    BY <1>2, ConnectedStep DEF Inv
  <1>4. [Ledger!Next]_ledger
    BY LedgerStep DEF Inv
  <1>5. LedgerInv'
    BY <1>4, LedgerInvStep DEF Inv
  <1> QED
    BY <1>2, <1>3, <1>4, <1>5 DEF Inv

LEMMA InvCorrect == Spec => []Inv
  <1> QED
    BY InvInit, InvStep, PTL DEF Spec

(***************************************************************************)
(* Over any reconnections, crashes and late reports, the handlers use the  *)
(* manager as its ledger promises.                                         *)
(***************************************************************************)
THEOREM ImplementsLedger == Spec => Ledger!Spec
  <1>1. Init => Ledger!Init
    BY DEF Init
  <1>2. Inv /\ [Next]_vars => [Ledger!Next]_(Ledger!vars)
    BY InvStep DEF ledger, Ledger!vars
  <1> QED
    BY <1>1, <1>2, InvCorrect, PTL DEF Spec, Ledger!Spec

(* So no digit that was given away is forgotten, in the whole cluster.     *)
THEOREM ClusterRemembers == Spec => []Ledger!NothingForgotten
  <1>1. Ledger!Spec <=> Facts!Spec
    BY SameStates, SameNext, PTL
    DEF Ledger!Spec, Facts!Spec, Ledger!vars, Facts!vars
  <1>2. Facts!NothingForgotten <=> Ledger!NothingForgotten
    BY DEF Facts!NothingForgotten, Ledger!NothingForgotten,
           Facts!Covers, Ledger!Covers
  <1>3. Facts!Spec => []Facts!NothingForgotten
    BY Facts!Remembered, LedgerAssumption
  <1> QED
    BY <1>1, <1>2, <1>3, ImplementsLedger, PTL

(***************************************************************************)
(* And no unit changes hands before it was orphaned for the whole timeout  *)
(* or its worker said goodbye.  (A report that comes late may orphan it    *)
(* when its worker is back already: the timeout then begins.)              *)
(***************************************************************************)
THEOREM ClusterKeepsUnits == Spec => Ledger!KeptForOwner
  <1>1. Ledger!Spec <=> Facts!Spec
    BY SameStates, SameNext, PTL
    DEF Ledger!Spec, Facts!Spec, Ledger!vars, Facts!vars
  <1>2. Facts!KeptForOwner <=> Ledger!KeptForOwner
    BY DEF Facts!KeptForOwner, Ledger!KeptForOwner, Ledger!vars, Facts!vars
  <1>3. Facts!Spec => Facts!KeptForOwner
    BY Facts!UnitsKeptForOwner, LedgerAssumption
  <1> QED
    BY <1>1, <1>2, <1>3, ImplementsLedger

-----------------------------------------------------------------------------
(* What a queue has *)

LEMMA HasAppend ==
    ASSUME NEW S, NEW q \in Seq(S), NEW e \in S, NEW m,
           Has(q, m) \/ e = m
    PROVE  Has(Append(q, e), m)
  <1>1. /\ Append(q, e) \in Seq(S)
        /\ Len(Append(q, e)) = Len(q) + 1 /\ Len(q) \in Nat
        /\ \A i \in 1..Len(q) : Append(q, e)[i] = q[i]
        /\ Append(q, e)[Len(q) + 1] = e
    BY AppendProperties, LenProperties
  <1>2. /\ DOMAIN q = 1..Len(q)
        /\ DOMAIN Append(q, e) = 1..(Len(q) + 1)
    BY <1>1, LenProperties
  <1>3. CASE e = m
    BY <1>1, <1>2, <1>3 DEF Has
  <1>4. CASE Has(q, m)
    <2>1. PICK i \in 1..Len(q) : q[i] = m
      BY <1>2, <1>4 DEF Has
    <2>2. i \in DOMAIN Append(q, e) /\ Append(q, e)[i] = m
      BY <1>1, <1>2, <2>1
    <2> QED
      BY <2>2 DEF Has
  <1> QED
    BY <1>3, <1>4

LEMMA HasTail ==
    ASSUME NEW S, NEW q \in Seq(S), q # <<>>, NEW m, Has(q, m)
    PROVE  Head(q) = m \/ Has(Tail(q), m)
  <1>1. /\ Tail(q) \in Seq(S) /\ Head(q) = q[1]
        /\ Len(Tail(q)) = Len(q) - 1 /\ Len(q) \in Nat
        /\ \A i \in 1..Len(Tail(q)) : Tail(q)[i] = q[i + 1]
    BY HeadTailProperties, LenProperties
  <1>2. DOMAIN q = 1..Len(q) /\ DOMAIN Tail(q) = 1..(Len(q) - 1)
    BY <1>1, LenProperties
  <1>3. PICK i \in 1..Len(q) : q[i] = m
    BY <1>2 DEF Has
  <1>4. CASE i = 1
    BY <1>1, <1>3, <1>4
  <1>5. CASE i # 1
    <2>1. i - 1 \in 1..(Len(q) - 1) /\ (i - 1) + 1 = i
      BY <1>1, <1>5
    <2>2. Tail(q)[i - 1] = m
      BY <1>1, <1>3, <2>1
    <2> QED
      BY <1>2, <2>1, <2>2 DEF Has
  <1> QED
    BY <1>4, <1>5

LEMMA Concatenated ==
    ASSUME NEW S, NEW a \in Seq(S), NEW b \in Seq(S)
    PROVE  /\ a \o b \in Seq(S) /\ Len(a \o b) = Len(a) + Len(b)
           /\ \A i \in 1..Len(a) : (a \o b)[i] = a[i]
           /\ \A i \in (Len(a) + 1)..(Len(a) + Len(b)) :
                 (a \o b)[i] = b[i - Len(a)]
  <1>1. a \o b \in Seq(S) /\ Len(a \o b) = Len(a) + Len(b)
    BY ConcatProperties
  <1>2. ASSUME NEW i \in 1..Len(a)
        PROVE  (a \o b)[i] = a[i]
    BY LenProperties, ConcatProperties
  <1>3. ASSUME NEW i \in (Len(a) + 1)..(Len(a) + Len(b))
        PROVE  (a \o b)[i] = b[i - Len(a)]
    BY LenProperties, ConcatProperties
  <1> QED
    BY <1>1, <1>2, <1>3

LEMMA HasRemoveAt ==
    ASSUME NEW S, NEW q \in Seq(S), NEW k \in 1..Len(q), NEW m, Has(q, m)
    PROVE  q[k] = m \/ Has(RemoveAt(q, k), m)
  <1> DEFINE a == SubSeq(q, 1, k - 1)
             b == SubSeq(q, k + 1, Len(q))
  <1>1. Len(q) \in Nat /\ \A i \in 1..Len(q) : q[i] \in S
    BY LenProperties, ElementOfSeq
  <1>2. /\ a \in Seq(S) /\ Len(a) = k - 1
        /\ \A i \in 1..(k - 1) : a[i] = q[i]
    BY <1>1
  <1>3. /\ b \in Seq(S) /\ Len(b) = Len(q) - k
        /\ \A i \in 1..(Len(q) - k) : b[i] = q[k + i]
    BY <1>1
  <1>4. RemoveAt(q, k) = a \o b
    BY DEF RemoveAt
  <1> HIDE DEF a, b
  <1>5. /\ a \o b \in Seq(S) /\ Len(a \o b) = Len(a) + Len(b)
        /\ \A i \in 1..Len(a) : (a \o b)[i] = a[i]
        /\ \A i \in (Len(a) + 1)..(Len(a) + Len(b)) :
              (a \o b)[i] = b[i - Len(a)]
    <2>1. a \in Seq(S) /\ b \in Seq(S)
      BY <1>2, <1>3
    <2> QED
      BY <2>1, Concatenated
  <1>6. DOMAIN q = 1..Len(q) /\ DOMAIN (a \o b) = 1..(Len(q) - 1)
    <2>1. Len(a) + Len(b) = Len(q) - 1
      BY <1>1, <1>2, <1>3
    <2> QED
      BY <1>5, <2>1, LenProperties
  <1>7. PICK i \in 1..Len(q) : q[i] = m
    BY <1>6 DEF Has
  <1>8. CASE i = k
    BY <1>7, <1>8
  <1>9. CASE i < k
    <2>1. i \in 1..(Len(q) - 1) /\ i \in 1..Len(a)
      BY <1>1, <1>2, <1>9
    <2>2. (a \o b)[i] = m
      BY <1>2, <1>5, <1>7, <2>1
    <2> QED
      BY <1>4, <1>6, <2>1, <2>2 DEF Has
  <1>10. CASE i > k
    <2>1. /\ i - 1 \in 1..(Len(q) - 1)
          /\ i - 1 \in (Len(a) + 1)..(Len(a) + Len(b))
          /\ (i - 1) - Len(a) = i - k
          /\ i - k \in 1..(Len(q) - k) /\ k + (i - k) = i
      BY <1>1, <1>2, <1>3, <1>10
    <2>2. (a \o b)[i - 1] = b[i - k]
      BY <1>5, <2>1
    <2>3. (a \o b)[i - 1] = m
      BY <1>3, <1>7, <2>1, <2>2
    <2> QED
      BY <1>4, <1>6, <2>1, <2>3 DEF Has
  <1> QED
    BY <1>1, <1>8, <1>9, <1>10

LEMMA HasConcat ==
    ASSUME NEW S, NEW q \in Seq(S), NEW e \in S, NEW f \in S, NEW m,
           Has(q, m) \/ e = m
    PROVE  Has(q \o <<e, f>>, m)
  <1> DEFINE t == <<e, f>>
  <1>1. t \in Seq(S) /\ Len(t) = 2 /\ t[1] = e
    OBVIOUS
  <1> HIDE DEF t
  <1>2. /\ q \o t \in Seq(S) /\ Len(q \o t) = Len(q) + 2 /\ Len(q) \in Nat
        /\ \A i \in 1..Len(q) : (q \o t)[i] = q[i]
        /\ (q \o t)[Len(q) + 1] = t[1]
    <2>1. /\ q \o t \in Seq(S) /\ Len(q \o t) = Len(q) + Len(t)
          /\ \A i \in 1..Len(q) : (q \o t)[i] = q[i]
          /\ \A i \in (Len(q) + 1)..(Len(q) + Len(t)) :
                (q \o t)[i] = t[i - Len(q)]
      BY <1>1, Concatenated
    <2>2. /\ Len(q) \in Nat /\ Len(q) + 1 \in (Len(q) + 1)..(Len(q) + Len(t))
          /\ (Len(q) + 1) - Len(q) = 1
      BY <1>1, LenProperties
    <2> QED
      BY <1>1, <2>1, <2>2
  <1>3. DOMAIN q = 1..Len(q) /\ DOMAIN (q \o t) = 1..(Len(q) + 2)
    BY <1>2, LenProperties
  <1>4. CASE e = m
    <2>1. Len(q) + 1 \in DOMAIN (q \o t) /\ (q \o t)[Len(q) + 1] = m
      BY <1>1, <1>2, <1>3, <1>4
    <2> QED
      BY <2>1 DEF Has, t
  <1>5. CASE Has(q, m)
    <2>1. PICK i \in 1..Len(q) : q[i] = m
      BY <1>3, <1>5 DEF Has
    <2>2. i \in DOMAIN (q \o t) /\ (q \o t)[i] = m
      BY <1>2, <1>3, <2>1
    <2> QED
      BY <2>2 DEF Has, t
  <1> QED
    BY <1>4, <1>5

LEMMA HasBefore ==
    ASSUME NEW S, NEW p \in Seq(S), NEW q \in Seq(S), NEW m, Has(p, m)
    PROVE  Has(p \o q, m)
  <1>1. /\ p \o q \in Seq(S) /\ Len(p \o q) = Len(p) + Len(q)
        /\ \A i \in 1..Len(p) : (p \o q)[i] = p[i]
    BY Concatenated
  <1>2. /\ Len(p) \in Nat /\ Len(q) \in Nat
        /\ DOMAIN p = 1..Len(p) /\ DOMAIN (p \o q) = 1..Len(p \o q)
    BY <1>1, LenProperties
  <1>3. PICK i \in 1..Len(p) : p[i] = m
    BY <1>2 DEF Has
  <1>4. i \in DOMAIN (p \o q) /\ (p \o q)[i] = m
    BY <1>1, <1>2, <1>3
  <1> QED
    BY <1>4 DEF Has

-----------------------------------------------------------------------------
(* Owned units are held *)

(* Connection k has handled a message of w, and its reader goes on. *)
Named(w, k) == owner[k] = w /\ worker_id[k] = w /\ Reading(k)

(* Such a connection of w will orphan what w owns. *)
WillOrphan(w) ==
    \E k \in Connections : /\ Named(w, k)
                           /\ state[k] = "cut" \/ worker[w] # "running"

Attached(w) == \E k \in Connections : Named(w, k) /\ state[k] = "open"

Accounted(c) ==
    \/ <<c.work_unit.start, c.worker_id>> \in abandoned
    \/ WillOrphan(c.worker_id)
    \/ Attached(c.worker_id) /\ Holds(c.worker_id, c.work_unit.start)

(***************************************************************************)
(* The strengthening of OwnedIsHeld.  A loss that is to be reported will   *)
(* not do: the report of a connection on which nothing was read orphans    *)
(* nothing.  So the connection must know the worker; and a unit that is    *)
(* held must have such a connection, for the day the worker is lost.       *)
(***************************************************************************)
AllAccounted ==
    \A c \in active_work_units : c.state = "OWNED" => Accounted(c)

LEMMA HoldsHas ==
    ASSUME NEW w, NEW s
    PROVE  Holds(w, s) <=>
             \/ Has(computing[w], s)
             \/ Has(kept[w], s)
             \/ Has(outgoing[w], Result(s))
             \/ \E k \in Connections :
                   /\ owner[k] = w
                   /\ \/ Has(to[k], Result(s))
                      \/ state[k] = "open" /\ Has(from[k], s)
  BY DEF Holds, Works, Keeps, Has

(* A connection that knows its worker is the worker's link, or cut. *)
LEMMA NamedLink ==
    ASSUME Shape, Connected, NEW w \in Workers, NEW k \in Connections,
           Named(w, k)
    PROVE  state[k] = "cut" \/ (state[k] = "open" /\ link[w] = k)
  BY OpenOwner DEF Named, Reading

LEMMA LinkOwner ==
    ASSUME Shape, Connected, NEW w \in Workers, link[w] # 0
    PROVE  /\ link[w] \in Connections
           /\ owner[link[w]] = w /\ state[link[w]] = "open"
  BY DEF Shape, Connected

(* A unit is held that is found in one of its places. *)
LEMMA HoldsNext ==
    ASSUME NEW w, NEW s,
           \/ Has(computing'[w], s)
           \/ Has(kept'[w], s)
           \/ Has(outgoing'[w], Result(s))
           \/ \E k \in Connections :
                 /\ owner'[k] = w
                 /\ \/ Has(to'[k], Result(s))
                    \/ state'[k] = "open" /\ Has(from'[k], s)
    PROVE  Holds(w, s)'
  BY DEF Holds, Works, Keeps, Has, Result, Message

(* What a step leaves alone is held as before. *)
LEMMA HoldsSame ==
    ASSUME NEW w, NEW s, Holds(w, s),
           computing'[w] = computing[w], kept'[w] = kept[w],
           outgoing'[w] = outgoing[w],
           \A k \in Connections : owner[k] = w =>
               /\ owner'[k] = w /\ to'[k] = to[k]
               /\ state'[k] = state[k] /\ from'[k] = from[k]
    PROVE  Holds(w, s)'
  <1>1. CASE \/ Has(computing[w], s) \/ Has(kept[w], s)
             \/ Has(outgoing[w], Result(s))
    BY <1>1, HoldsNext
  <1>2. CASE \E k \in Connections :
               /\ owner[k] = w
               /\ \/ Has(to[k], Result(s))
                  \/ state[k] = "open" /\ Has(from[k], s)
    <2>1. PICK k \in Connections :
             /\ owner[k] = w
             /\ \/ Has(to[k], Result(s))
                \/ state[k] = "open" /\ Has(from[k], s)
      BY <1>2
    <2>2. /\ owner'[k] = w /\ to'[k] = to[k]
          /\ state'[k] = state[k] /\ from'[k] = from[k]
      BY <2>1
    <2> QED
      BY <2>1, <2>2, HoldsNext
  <1> QED
    BY <1>1, <1>2, HoldsHas

(* A worker's step leaves the other workers and their connections alone. *)
LEMMA OtherWorker ==
    ASSUME Shape, NEW w \in Workers,
           Worker(w),
           NEW v \in Workers \ {w}
    PROVE  /\ computing'[v] = computing[v] /\ kept'[v] = kept[v]
           /\ outgoing'[v] = outgoing[v] /\ worker'[v] = worker[v]
  BY DEF Worker, Reader, Connect, Send, Receive, Replace, Finish,
        FinishUnit, Keep, Wake, Leave, Quit, Crash, Cut,
         client, Shape

LEMMA OtherConnection ==
    ASSUME Shape, Connected, NEW w \in Workers,
           Worker(w),
           NEW v \in Workers \ {w}, NEW k \in Connections, owner[k] = v
    PROVE  /\ owner'[k] = v /\ to'[k] = to[k]
           /\ state'[k] = state[k] /\ from'[k] = from[k]
  <1>1. k # link[w]
    <2>1. k # 0
      BY DEF Connections
    <2> QED
      BY <2>1, LinkOwner
  <1>2. CASE Connect(w)
    <2>1. k # connects + 1
      <3>1. k = connects + 1 => ~(k <= connects)
        BY DEF Shape, Connections
      <3> QED
        BY <3>1, LedgerAssumption DEF Connected
    <2> QED
      BY <1>2, <2>1 DEF Connect, Shape
  <1>3. CASE \/ Send(w) \/ Receive(w) \/ Replace(w)
             \/ Finish(w) \/ Keep(w) \/ Wake(w)
    BY <1>1, <1>3 DEF Send, Receive, Replace, Finish, FinishUnit, Keep, Wake,
                      Shape, network
  <1>4. CASE Leave(w)
    BY <1>1, <1>4 DEF Leave, Disconnected, Shape
  <1>5. CASE Quit(w)
    BY <1>5 DEF Quit, Shape
  <1>6. CASE Crash(w)
    BY <1>1, <1>6 DEF Crash, Disconnected, Arrives, Shape
  <1>7. CASE Cut(w)
    BY <1>1, <1>7 DEF Cut, Disconnected, Arrives, Shape, client
  <1> QED
    BY <1>2, <1>3, <1>4, <1>5, <1>6, <1>7 DEF Worker, Reader

(* No step of a worker makes the coordinator forget whose connection it is. *)
LEMMA StillNamed ==
    ASSUME Shape, Connected, ConnectsBounded, NEW w \in Workers,
           Worker(w),
           NEW v \in Workers, NEW k \in Connections, Named(v, k)
    PROVE  /\ Named(v, k)'
           /\ state[k] = "cut" => state'[k] = "cut"
           /\ worker[v] # "running" => worker'[v] # "running"
  <1>1. /\ k # connects + 1 /\ k # 0
        /\ worker_id'[k] = worker_id[k] /\ reports'[k] = reports[k]
    <2>1. k = connects + 1 => ~(k <= connects)
      BY DEF Shape, Connections
    <2>2. k # connects + 1
      BY <2>1, LedgerAssumption DEF Connected, Named
    <2>3. UNCHANGED <<worker_id, reports>>
      BY DEF Worker, Reader, Connect, Send, Receive, Replace, Finish,
        FinishUnit, Keep, Wake, Leave, Quit, Crash, Cut
    <2> QED
      BY <2>2, <2>3 DEF Connections
  <1>2. owner'[k] = owner[k]
    BY <1>1 DEF Worker, Reader, Connect, Send, Receive, Replace, Finish,
        FinishUnit, Keep, Wake, Leave, Quit, Crash, Cut,
                Disconnected, network, Shape
  <1>3. state'[k] = state[k] \/ (k = link[w] /\ state'[k] = "cut")
    BY <1>1 DEF Worker, Reader, Connect, Send, Receive, Replace, Finish,
        FinishUnit, Keep, Wake, Leave, Quit, Crash, Cut,
                Disconnected, network, Shape
  <1>4. worker[v] # "running" => worker'[v] # "running"
    BY DEF Worker, Reader, Connect, Send, Receive, Replace, Finish,
        FinishUnit, Keep, Wake, Leave, Quit, Crash, Cut,
           client, Shape
  <1> QED
    BY <1>1, <1>2, <1>3, <1>4 DEF Named, Reading

(* A message that is sent is on its way. *)
LEMMA SendHolds ==
    ASSUME Shape, Connected, NEW w \in Workers, Send(w),
           NEW s \in Int, Holds(w, s)
    PROVE  Holds(w, s)'
  <1> DEFINE l == link[w]
  <1>1. /\ l \in Connections /\ owner[l] = w
        /\ outgoing[w] # <<>>
        /\ to'[l] = Append(to[l], Head(outgoing[w]))
        /\ \A j \in Connections : j # l => to'[j] = to[j]
        /\ outgoing'[w] = Tail(outgoing[w])
        /\ UNCHANGED <<computing, kept, owner, state, from>>
    BY LinkOwner DEF Send, network, Shape
  <1>2. /\ outgoing[w] \in Seq(AnyMessage) /\ to[l] \in Seq(AnyMessage)
        /\ Head(outgoing[w]) \in AnyMessage
    BY <1>1, HeadTailProperties DEF Shape
  <1> HIDE DEF l
  <1>3. CASE Has(computing[w], s) \/ Has(kept[w], s)
    BY <1>1, <1>3, HoldsNext
  <1>4. CASE Has(outgoing[w], Result(s))
    <2>1. Head(outgoing[w]) = Result(s) \/ Has(Tail(outgoing[w]), Result(s))
      BY <1>1, <1>2, <1>4, HasTail
    <2>2. CASE Head(outgoing[w]) = Result(s)
      <3>1. Has(to'[l], Result(s))
        BY <1>1, <1>2, <2>2, HasAppend
      <3> QED
        BY <1>1, <3>1, HoldsNext
    <2>3. CASE Has(Tail(outgoing[w]), Result(s))
      BY <1>1, <2>3, HoldsNext
    <2> QED
      BY <2>1, <2>2, <2>3
  <1>5. ASSUME NEW j \in Connections, owner[j] = w,
               \/ Has(to[j], Result(s))
               \/ state[j] = "open" /\ Has(from[j], s)
        PROVE  Holds(w, s)'
    <2>1. Has(to[j], Result(s)) => Has(to'[j], Result(s))
      <3>1. CASE j = l
        <4>1. Has(to[l], Result(s))
                => Has(Append(to[l], Head(outgoing[w])), Result(s))
          BY <1>2, HasAppend
        <4> QED
          BY <1>1, <3>1, <4>1
      <3>2. CASE j # l
        BY <1>1, <3>2
      <3> QED
        BY <3>1, <3>2
    <2> QED
      BY <1>1, <1>5, <2>1, HoldsNext
  <1> QED
    BY <1>3, <1>4, <1>5, HoldsHas

(* A worker takes the unit it is sent; one that it replaces is abandoned. *)
LEMMA ReceiveHolds ==
    ASSUME Shape, Connected, NEW w \in Workers,
           Receive(w) \/ Replace(w),
           NEW s \in Int, Holds(w, s), <<s, w>> \notin abandoned'
    PROVE  Holds(w, s)'
  <1> DEFINE l == link[w]
  <1>1. /\ l \in Connections /\ owner[l] = w
        /\ from[l] # <<>>
        /\ computing'[w] = Append(computing[w], Head(from[l]))
        /\ \A j \in Connections : j # l => from'[j] = from[j]
        /\ from'[l] = Tail(from[l])
        /\ UNCHANGED <<outgoing, owner, state, to>>
    <2>1. l \in Connections /\ owner[l] = w
      BY LinkOwner DEF Receive, Replace
    <2> QED
      BY <2>1 DEF Receive, Replace, network, Shape
  <1>2. /\ computing[w] \in Seq(Int) /\ from[l] \in Seq(Int)
        /\ Head(from[l]) \in Int
    BY <1>1, HeadTailProperties DEF Shape
  <1> HIDE DEF l
  <1>3. CASE Has(computing[w], s) \/ Head(from[l]) = s
    <2>1. Has(computing'[w], s)
      BY <1>1, <1>2, <1>3, HasAppend
    <2> QED
      BY <2>1, HoldsNext
  <1>4. CASE Has(outgoing[w], Result(s))
    BY <1>1, <1>4, HoldsNext
  <1>5. ASSUME NEW j \in Connections, owner[j] = w, Has(to[j], Result(s))
        PROVE  Holds(w, s)'
    BY <1>1, <1>5, HoldsNext
  <1>6. ASSUME NEW j \in Connections, owner[j] = w,
               state[j] = "open", Has(from[j], s), Head(from[l]) # s
        PROVE  Holds(w, s)'
    <2>1. Has(from'[j], s)
      BY <1>1, <1>2, <1>6, HasTail
    <2> QED
      BY <1>1, <1>6, <2>1, HoldsNext
  <1>7. CASE Has(kept[w], s)
    <2>1. CASE Receive(w)
      BY <1>7, <2>1, HoldsNext DEF Receive
    <2>2. CASE Replace(w)
      <3>1. PICK j \in DOMAIN kept[w] :
               /\ kept' = [kept EXCEPT ![w] = RemoveAt(@, j)]
               /\ abandoned' = abandoned \union {<<kept[w][j], w>>}
        BY <2>2 DEF Replace
      <3>2. kept[w][j] # s
        BY <3>1
      <3>3. kept[w] \in Seq(Int) /\ j \in 1..Len(kept[w])
        BY LenProperties DEF Shape
      <3>4. Has(RemoveAt(kept[w], j), s)
        BY <1>7, <3>2, <3>3, HasRemoveAt
      <3>5. kept'[w] = RemoveAt(kept[w], j)
        BY <3>1 DEF Shape
      <3> QED
        BY <3>4, <3>5, HoldsNext
    <2> QED
      BY <2>1, <2>2
  <1> QED
    BY <1>3, <1>4, <1>5, <1>6, <1>7, HoldsHas

(* The result of a unit takes its place. *)
LEMMA FinishHolds ==
    ASSUME Shape, NEW w \in Workers, Finish(w), NEW s \in Int, Holds(w, s)
    PROVE  Holds(w, s)'
  <1>1. PICK i \in DOMAIN computing[w] :
           /\ computing' = [computing EXCEPT ![w] = RemoveAt(@, i)]
           /\ outgoing' = [outgoing EXCEPT ![w] =
                              @ \o <<Result(computing[w][i]), Request>>]
           /\ UNCHANGED <<kept, network, to, from>>
    BY DEF Finish, FinishUnit
  <1>2. /\ i \in 1..Len(computing[w]) /\ computing[w] \in Seq(Int)
        /\ computing[w][i] \in Int /\ outgoing[w] \in Seq(AnyMessage)
        /\ computing'[w] = RemoveAt(computing[w], i)
        /\ outgoing'[w] = outgoing[w] \o <<Result(computing[w][i]), Request>>
    <2>1. computing[w] \in Seq(Int) /\ outgoing[w] \in Seq(AnyMessage)
      BY DEF Shape
    <2>2. i \in 1..Len(computing[w])
      BY <2>1, LenProperties
    <2> QED
      BY <1>1, <2>1, <2>2, ElementOfSeq DEF Shape
  <1>3. Result(computing[w][i]) \in AnyMessage /\ Request \in AnyMessage
    BY <1>2, MessageType
  <1>4. CASE Has(computing[w], s)
    <2>1. computing[w][i] = s \/ Has(computing'[w], s)
      BY <1>2, <1>4, HasRemoveAt
    <2>2. ASSUME computing[w][i] = s
          PROVE  Has(outgoing'[w], Result(s))
      BY <1>2, <1>3, <2>2, HasConcat
    <2> QED
      BY <2>1, <2>2, HoldsNext
  <1>5. CASE Has(kept[w], s)
    BY <1>1, <1>5, HoldsNext
  <1>6. CASE Has(outgoing[w], Result(s))
    <2>1. Has(outgoing'[w], Result(s))
      BY <1>2, <1>3, <1>6, HasConcat
    <2> QED
      BY <2>1, HoldsNext
  <1>7. ASSUME NEW j \in Connections, owner[j] = w,
               \/ Has(to[j], Result(s))
               \/ state[j] = "open" /\ Has(from[j], s)
        PROVE  Holds(w, s)'
    BY <1>1, <1>7, HoldsNext DEF network
  <1> QED
    BY <1>4, <1>5, <1>6, <1>7, HoldsHas

(* A unit that is not computed stays with its thread. *)
LEMMA KeepHolds ==
    ASSUME Shape, NEW w \in Workers, Keep(w), NEW s \in Int, Holds(w, s)
    PROVE  Holds(w, s)'
  <1>1. PICK i \in DOMAIN computing[w] :
           /\ computing' = [computing EXCEPT ![w] = RemoveAt(@, i)]
           /\ kept' = [kept EXCEPT ![w] = Append(@, computing[w][i])]
           /\ UNCHANGED <<outgoing, network, to, from>>
    BY DEF Keep
  <1>2. /\ i \in 1..Len(computing[w]) /\ computing[w] \in Seq(Int)
        /\ computing[w][i] \in Int /\ kept[w] \in Seq(Int)
        /\ computing'[w] = RemoveAt(computing[w], i)
        /\ kept'[w] = Append(kept[w], computing[w][i])
    <2>1. computing[w] \in Seq(Int) /\ kept[w] \in Seq(Int)
      BY DEF Shape
    <2>2. i \in 1..Len(computing[w])
      BY <2>1, LenProperties
    <2> QED
      BY <1>1, <2>1, <2>2, ElementOfSeq DEF Shape
  <1>3. CASE Has(computing[w], s)
    <2>1. computing[w][i] = s \/ Has(computing'[w], s)
      BY <1>2, <1>3, HasRemoveAt
    <2>2. ASSUME computing[w][i] = s
          PROVE  Has(kept'[w], s)
      BY <1>2, <2>2, HasAppend
    <2> QED
      BY <2>1, <2>2, HoldsNext
  <1>4. CASE Has(kept[w], s)
    <2>1. Has(kept'[w], s)
      BY <1>2, <1>4, HasAppend
    <2> QED
      BY <2>1, HoldsNext
  <1>5. CASE Has(outgoing[w], Result(s))
    BY <1>1, <1>5, HoldsNext
  <1>6. ASSUME NEW j \in Connections, owner[j] = w,
               \/ Has(to[j], Result(s))
               \/ state[j] = "open" /\ Has(from[j], s)
        PROVE  Holds(w, s)'
    BY <1>1, <1>6, HoldsNext DEF network
  <1> QED
    BY <1>3, <1>4, <1>5, <1>6, HoldsHas

(* And is computed after all when the thread wakes up. *)
LEMMA WakeHolds ==
    ASSUME Shape, NEW w \in Workers, Wake(w), NEW s \in Int, Holds(w, s)
    PROVE  Holds(w, s)'
  <1>1. PICK i \in DOMAIN kept[w] :
           /\ kept' = [kept EXCEPT ![w] = RemoveAt(@, i)]
           /\ computing' = [computing EXCEPT ![w] = Append(@, kept[w][i])]
           /\ UNCHANGED <<outgoing, network, to, from>>
    BY DEF Wake
  <1>2. /\ i \in 1..Len(kept[w]) /\ kept[w] \in Seq(Int)
        /\ kept[w][i] \in Int /\ computing[w] \in Seq(Int)
        /\ kept'[w] = RemoveAt(kept[w], i)
        /\ computing'[w] = Append(computing[w], kept[w][i])
    <2>1. kept[w] \in Seq(Int) /\ computing[w] \in Seq(Int)
      BY DEF Shape
    <2>2. i \in 1..Len(kept[w])
      BY <2>1, LenProperties
    <2> QED
      BY <1>1, <2>1, <2>2, ElementOfSeq DEF Shape
  <1>3. CASE Has(kept[w], s)
    <2>1. kept[w][i] = s \/ Has(kept'[w], s)
      BY <1>2, <1>3, HasRemoveAt
    <2>2. ASSUME kept[w][i] = s
          PROVE  Has(computing'[w], s)
      BY <1>2, <2>2, HasAppend
    <2> QED
      BY <2>1, <2>2, HoldsNext
  <1>4. CASE Has(computing[w], s)
    <2>1. Has(computing'[w], s)
      BY <1>2, <1>4, HasAppend
    <2> QED
      BY <2>1, HoldsNext
  <1>5. CASE Has(outgoing[w], Result(s))
    BY <1>1, <1>5, HoldsNext
  <1>6. ASSUME NEW j \in Connections, owner[j] = w,
               \/ Has(to[j], Result(s))
               \/ state[j] = "open" /\ Has(from[j], s)
        PROVE  Holds(w, s)'
    BY <1>1, <1>6, HoldsNext DEF network
  <1> QED
    BY <1>3, <1>4, <1>5, <1>6, HoldsHas

(* Whatever a worker does or suffers, its units stay accounted for. *)
LEMMA WorkerAccounted ==
    ASSUME Shape, Connected, ConnectsBounded, NEW w \in Workers,
           Worker(w),
           NEW c, c.worker_id \in Workers, c.work_unit.start \in Int,
           Accounted(c)
    PROVE  Accounted(c)'
  <1> DEFINE v == c.worker_id
             s == c.work_unit.start
  <1>1. CASE <<s, v>> \in abandoned
    <2>1. abandoned \subseteq abandoned'
      BY DEF Worker, Reader, Connect, Send, Receive, Replace, Finish,
        FinishUnit, Keep, Wake, Leave, Quit, Crash, Cut
    <2> QED
      BY <1>1, <2>1 DEF Accounted
  <1>2. CASE WillOrphan(v)
    <2>1. PICK k \in Connections :
              Named(v, k) /\ (state[k] = "cut" \/ worker[v] # "running")
      BY <1>2 DEF WillOrphan
    <2>2. Named(v, k)' /\ (state'[k] = "cut" \/ worker'[v] # "running")
      BY <2>1, StillNamed
    <2>3. WillOrphan(v)'
      BY <2>2 DEF WillOrphan
    <2> QED
      BY <2>3 DEF Accounted
  <1>3. CASE Attached(v) /\ Holds(v, s)
    <2>1. PICK k \in Connections : Named(v, k) /\ state[k] = "open"
      BY <1>3 DEF Attached
    <2>2. Named(v, k)' /\ link[v] = k /\ k # 0
      BY <2>1, StillNamed, NamedLink DEF Connections
    <2>3. ASSUME state'[k] = "open", Holds(v, s)'
          PROVE  Accounted(c)'
      BY <2>2, <2>3 DEF Accounted, Attached
    <2>4. ASSUME state'[k] = "cut" \/ worker'[v] # "running"
          PROVE  Accounted(c)'
      BY <2>2, <2>4 DEF Accounted, WillOrphan
    <2>5. CASE v # w
      <3>1. state'[k] = "open"
        BY <2>1, <2>5, OtherConnection DEF Named
      <3>2. Holds(v, s)'
        BY <1>3, <2>5, OtherWorker, OtherConnection, HoldsSame
      <3> QED
        BY <2>3, <3>1, <3>2
    <2>6. CASE v = w
      <3>1. CASE Connect(w)
        BY <2>2, <2>6, <3>1 DEF Connect
      <3>2. CASE Send(w)
        BY <1>3, <2>1, <2>3, <2>6, <3>2, SendHolds DEF Send, network
      <3>3. CASE Receive(w) \/ Replace(w)
        <4>1. state'[k] = "open"
          BY <2>1, <3>3 DEF Receive, Replace, network
        <4>2. CASE <<s, v>> \in abandoned'
          BY <4>2 DEF Accounted
        <4>3. CASE <<s, v>> \notin abandoned'
          BY <1>3, <2>3, <2>6, <3>3, <4>1, <4>3, ReceiveHolds
        <4> QED
          BY <4>2, <4>3
      <3>4. CASE Finish(w)
        BY <1>3, <2>1, <2>3, <2>6, <3>4, FinishHolds DEF Finish, FinishUnit, network
      <3>5. CASE Leave(w) \/ Crash(w) \/ Cut(w)
        <4>1. state'[k] = "cut"
          BY <2>2, <2>6, <3>5 DEF Leave, Crash, Cut, Disconnected, Shape
        <4> QED
          BY <2>4, <4>1
      <3>6. CASE Quit(w)
        BY <2>4, <2>6, <3>6 DEF Quit, Shape
      <3>7. CASE Keep(w)
        BY <1>3, <2>1, <2>3, <2>6, <3>7, KeepHolds DEF Keep, network
      <3>8. CASE Wake(w)
        BY <1>3, <2>1, <2>3, <2>6, <3>8, WakeHolds DEF Wake, network
      <3> QED
        BY <3>1, <3>2, <3>3, <3>4, <3>5, <3>6, <3>7, <3>8 DEF Worker, Reader
    <2> QED
      BY <2>5, <2>6
  <1> QED
    BY <1>1, <1>2, <1>3 DEF Accounted

(***************************************************************************)
(* The reader of k handles a message that is not the result of s: what is  *)
(* held stays held, and k knows its worker.                                *)
(***************************************************************************)
LEMMA ReceivedHolds ==
    ASSUME Shape, Connected, NEW k \in Connections, NEW type,
           Received(k, type), UNCHANGED <<client, network, reports>>,
           \A j \in Connections : \E q \in Seq(Int) :
               from'[j] = from[j] \o q,
           NEW v, NEW s \in Int, Holds(v, s), Head(to[k]) # Result(s)
    PROVE  Holds(v, s)'
  <1>1. /\ to[k] # <<>> /\ to[k] \in Seq(AnyMessage)
        /\ to'[k] = Tail(to[k])
        /\ \A j \in Connections : j # k => to'[j] = to[j]
    BY DEF Received, Shape
  <1>2. CASE \/ Has(computing[v], s) \/ Has(kept[v], s)
             \/ Has(outgoing[v], Result(s))
    BY <1>2, HoldsNext DEF client
  <1>3. ASSUME NEW j \in Connections, owner[j] = v, Has(to[j], Result(s))
        PROVE  Holds(v, s)'
    <2>1. Has(to'[j], Result(s))
      <3>1. CASE j = k
        BY <1>1, <1>3, <3>1, HasTail
      <3>2. CASE j # k
        BY <1>1, <1>3, <3>2
      <3> QED
        BY <3>1, <3>2
    <2> QED
      BY <1>3, <2>1, HoldsNext DEF network
  <1>4. ASSUME NEW j \in Connections, owner[j] = v, state[j] = "open",
               Has(from[j], s)
        PROVE  Holds(v, s)'
    <2>1. PICK q \in Seq(Int) : from'[j] = from[j] \o q
      OBVIOUS
    <2>2. Has(from'[j], s)
      BY <1>4, <2>1, HasBefore DEF Shape
    <2> QED
      BY <1>4, <2>2, HoldsNext DEF network
  <1> QED
    BY <1>2, <1>3, <1>4, HoldsHas

LEMMA ReceivedNamed ==
    ASSUME Shape, Connected, NEW k \in Connections, NEW type,
           Received(k, type), UNCHANGED <<client, network, reports>>
    PROVE  /\ \A w \in Workers :
                  owner[k] = w => Attached(w)' \/ WillOrphan(w)'
           /\ \A v \in Workers : /\ WillOrphan(v) => WillOrphan(v)'
                                 /\ Attached(v) => Attached(v)'
  <1>1. /\ worker_id' = [worker_id EXCEPT ![k] = owner[k]]
        /\ state' = state /\ owner' = owner /\ worker' = worker
        /\ reports' = reports
        /\ Reading(k)
    BY DEF Received, client, network
  <1>2. \A j \in Connections : Reading(j) => Reading(j)'
    BY <1>1 DEF Reading
  <1>3. ASSUME NEW w \in Workers, owner[k] = w
        PROVE  Named(w, k)'
    BY <1>1, <1>2, <1>3 DEF Named, Shape
  <1>4. ASSUME NEW v \in Workers, NEW j \in Connections, Named(v, j)
        PROVE  Named(v, j)'
    BY <1>1, <1>2, <1>4 DEF Named, Shape
  <1>5. state[k] = "open" \/ state[k] = "cut"
    BY <1>1 DEF Reading
  <1> QED
    BY <1>1, <1>3, <1>4, <1>5 DEF WillOrphan, Attached

(* What the reader of k adds to the ledger's step, for a unit it leaves. *)
LEMMA ReceivedAccounted ==
    ASSUME Shape, Connected, NEW k \in Connections, NEW type,
           Received(k, type), UNCHANGED <<client, network, reports>>,
           \A j \in Connections : \E q \in Seq(Int) :
               from'[j] = from[j] \o q,
           NEW c, c.worker_id \in Workers, c.work_unit.start \in Int,
           Accounted(c), Head(to[k]) # Result(c.work_unit.start),
           <<c.work_unit.start, c.worker_id>> \in abandoned =>
               <<c.work_unit.start, c.worker_id>> \in abandoned'
    PROVE  Accounted(c)'
  BY ReceivedHolds, ReceivedNamed DEF Accounted

(* Messages other than results are not results. *)
LEMMA NotResult ==
    ASSUME NEW k \in Connections, NEW type \in {"HELO", "BYE", "REQUEST"},
           Received(k, type), NEW s
    PROVE  Head(to[k]) # Result(s)
  BY DEF Received, Result, Message

(* Every handler answers at the end of the queue, or not at all. *)
LEMMA Unanswered ==
    ASSUME Shape, from' = from
    PROVE  \A j \in Connections : \E q \in Seq(Int) : from'[j] = from[j] \o q
  <1>1. \A j \in Connections : from[j] = from[j] \o <<>>
    BY ConcatEmptySeq DEF Shape
  <1>2. <<>> \in Seq(Int)
    BY EmptySeq
  <1> QED
    BY <1>1, <1>2

LEMMA Answered ==
    ASSUME Shape, NEW k \in Connections, NEW start \in Int, Dispatch(k, start)
    PROVE  \A j \in Connections : \E q \in Seq(Int) : from'[j] = from[j] \o q
  <1> SUFFICES ASSUME NEW j \in Connections
               PROVE  \E q \in Seq(Int) : from'[j] = from[j] \o q
    OBVIOUS
  <1>1. CASE j = k
    <2>1. from'[k] = Append(from[k], start) /\ from[k] \in Seq(Int)
      BY DEF Dispatch, Shape
    <2>2. Append(from[k], start) = from[k] \o <<start>>
      BY <2>1, AppendIsConcat
    <2>3. <<start>> \in Seq(Int)
      OBVIOUS
    <2> QED
      BY <1>1, <2>1, <2>2, <2>3
  <1>2. CASE j # k
    <2>1. from'[j] = from[j] /\ from[j] = from[j] \o <<>>
      BY <1>2, ConcatEmptySeq DEF Dispatch, Shape
    <2>2. <<>> \in Seq(Int)
      BY EmptySeq
    <2> QED
      BY <2>1, <2>2
  <1> QED
    BY <1>1, <1>2

(* A unit that is owned has a worker, and a start. *)
LEMMA OwnedTyped ==
    ASSUME LedgerInv, NEW c \in active_work_units
    PROVE  /\ c.work_unit.start \in Nat
           /\ c.state = "OWNED" => c.worker_id \in Workers
  BY DEF LedgerInv, Facts!UniqueInv, Facts!TypeOK, Facts!OwnerKnown,
         Facts!ControlBlocks, Facts!WorkUnits

(* mark_all gives the units of one worker a state and leaves the others. *)
LEMMA MarkAllOwned ==
    ASSUME LedgerInv, NEW w \in Workers, NEW state_ \in Ledger!States,
           Ledger!MarkAll(w, state_), NEW d \in active_work_units',
           d.state = "OWNED"
    PROVE  \/ d \in active_work_units /\ d.worker_id # w
           \/ /\ state_ = "OWNED" /\ d.worker_id = w
              /\ \E b \in active_work_units :
                    b.worker_id = w /\ b.work_unit = d.work_unit
  <1>1. PICK b \in active_work_units :
            d = IF b.worker_id = w THEN Ledger!Marked(b, state_) ELSE b
    BY DEF Ledger!MarkAll
  <1>2. CASE b.worker_id # w
    BY <1>1, <1>2
  <1>3. CASE b.worker_id = w
    <2>1. /\ d = [b EXCEPT !.state = state_, !.expired = FALSE,
                           !.worker_id = IF state_ = "DISOWNED" THEN NoWorker
                                         ELSE @]
          /\ b \in Facts!ControlBlocks
      BY <1>1, <1>3 DEF Ledger!Marked, LedgerInv, Facts!UniqueInv, Facts!TypeOK
    <2>2. /\ d.state = state_ /\ d.work_unit = b.work_unit
          /\ d.worker_id = IF state_ = "DISOWNED" THEN NoWorker ELSE b.worker_id
      BY <2>1 DEF Facts!ControlBlocks
    <2> QED
      BY <1>3, <2>2
  <1> QED
    BY <1>2, <1>3

LEMMA HeloAccounted ==
    ASSUME Inv, AllAccounted, NEW k \in Connections, handle_helo_message(k)
    PROVE  AllAccounted'
  <1>1. /\ Received(k, "HELO") /\ UNCHANGED <<client, network, reports>>
        /\ from' = from
        /\ Ledger!MarkAll(owner[k], "OWNED")
        /\ Shape /\ Connected /\ LedgerInv
    BY DEF handle_helo_message, Inv
  <1>2. PICK w \in Workers : w = owner[k]
    BY <1>1, SenderKnown DEF Received
  <1>3. abandoned' = Forget(w) \union
           {<<c.work_unit.start, w>> :
               c \in {b \in active_work_units :
                          b.worker_id = w /\ ~Holds(w, b.work_unit.start)}}
    BY <1>2 DEF handle_helo_message
  <1> SUFFICES ASSUME NEW d \in active_work_units', d.state = "OWNED"
               PROVE  Accounted(d)'
    BY DEF AllAccounted
  <1>4. CASE d \in active_work_units /\ d.worker_id # w
    <2>1. /\ Accounted(d) /\ d.worker_id \in Workers
          /\ d.work_unit.start \in Nat
      BY <1>1, <1>4, OwnedTyped DEF AllAccounted
    <2>2. Head(to[k]) # Result(d.work_unit.start)
      BY <1>1, NotResult
    <2>3. <<d.work_unit.start, d.worker_id>> \in abandoned =>
              <<d.work_unit.start, d.worker_id>> \in abandoned'
      BY <1>3, <1>4 DEF Forget
    <2>4. \A j \in Connections : \E q \in Seq(Int) : from'[j] = from[j] \o q
      BY <1>1, Unanswered
    <2>5. d.work_unit.start \in Int
      BY <2>1
    <2> QED
      BY <1>1, <2>1, <2>2, <2>3, <2>4, <2>5, ReceivedAccounted
  <1>5. ASSUME NEW b \in active_work_units, b.worker_id = w,
               b.work_unit = d.work_unit, d.worker_id = w
        PROVE  Accounted(d)'
    <2>1. CASE ~Holds(w, b.work_unit.start)
      BY <1>3, <1>5, <2>1 DEF Accounted
    <2>2. CASE Holds(w, b.work_unit.start)
      <3>1. b.work_unit.start \in Nat
        BY <1>1, OwnedTyped
      <3>2. Head(to[k]) # Result(b.work_unit.start)
        BY <1>1, NotResult
      <3>3. Holds(w, b.work_unit.start)'
        <4>1. \A j \in Connections :
                \E q \in Seq(Int) : from'[j] = from[j] \o q
          BY <1>1, Unanswered
        <4>2. b.work_unit.start \in Int
          BY <3>1
        <4> QED
          BY <1>1, <2>2, <3>2, <4>1, <4>2, ReceivedHolds
      <3>4. Attached(w)' \/ WillOrphan(w)'
        BY <1>1, <1>2, ReceivedNamed
      <3> QED
        BY <1>5, <3>3, <3>4 DEF Accounted
    <2> QED
      BY <2>1, <2>2
  <1> QED
    BY <1>1, <1>2, <1>4, <1>5, MarkAllOwned DEF Ledger!States

LEMMA GoodByeAccounted ==
    ASSUME Inv, AllAccounted, NEW k \in Connections, handle_goodbye_message(k)
    PROVE  AllAccounted'
  <1>1. /\ Received(k, "BYE") /\ UNCHANGED <<client, network, reports>>
        /\ from' = from
        /\ Ledger!MarkAll(owner[k], "DISOWNED")
        /\ abandoned' = Forget(owner[k])
        /\ Shape /\ Connected /\ LedgerInv
    BY DEF handle_goodbye_message, Inv
  <1>2. PICK w \in Workers : w = owner[k]
    BY <1>1, SenderKnown DEF Received
  <1> SUFFICES ASSUME NEW d \in active_work_units', d.state = "OWNED"
               PROVE  Accounted(d)'
    BY DEF AllAccounted
  <1>3. d \in active_work_units /\ d.worker_id # w
    BY <1>1, <1>2, MarkAllOwned DEF Ledger!States
  <1>4. /\ Accounted(d) /\ d.worker_id \in Workers
        /\ d.work_unit.start \in Nat
    BY <1>1, <1>3, OwnedTyped DEF AllAccounted
  <1>5. Head(to[k]) # Result(d.work_unit.start)
    BY <1>1, NotResult
  <1>6. <<d.work_unit.start, d.worker_id>> \in abandoned =>
            <<d.work_unit.start, d.worker_id>> \in abandoned'
    BY <1>1, <1>2, <1>3 DEF Forget
  <1>7. \A j \in Connections : \E q \in Seq(Int) : from'[j] = from[j] \o q
    BY <1>1, Unanswered
  <1>8. d.work_unit.start \in Int
    BY <1>4
  <1> QED
    BY <1>1, <1>4, <1>5, <1>6, <1>7, <1>8, ReceivedAccounted

LEMMA ResultAccounted ==
    ASSUME Inv, AllAccounted, NEW k \in Connections,
           handle_workunitresult_message(k)
    PROVE  AllAccounted'
  <1>1. /\ Received(k, "RESULT") /\ UNCHANGED <<client, network, reports>>
        /\ from' = from /\ abandoned' = abandoned
        /\ Ledger!Submit(Head(to[k]).start)
        /\ Shape /\ Connected /\ LedgerInv
    BY DEF handle_workunitresult_message, Inv
  <1> SUFFICES ASSUME NEW d \in active_work_units', d.state = "OWNED"
               PROVE  Accounted(d)'
    BY DEF AllAccounted
  <1>2. d \in active_work_units /\ d.work_unit.start # Head(to[k]).start
    BY <1>1 DEF Ledger!Submit
  <1>3. /\ Accounted(d) /\ d.worker_id \in Workers
        /\ d.work_unit.start \in Nat
    BY <1>1, <1>2, OwnedTyped DEF AllAccounted
  <1>4. Head(to[k]) # Result(d.work_unit.start)
    BY <1>2 DEF Result, Message
  <1>5. <<d.work_unit.start, d.worker_id>> \in abandoned =>
            <<d.work_unit.start, d.worker_id>> \in abandoned'
    BY <1>1
  <1>6. \A j \in Connections : \E q \in Seq(Int) : from'[j] = from[j] \o q
    BY <1>1, Unanswered
  <1>7. d.work_unit.start \in Int
    BY <1>3
  <1> QED
    BY <1>1, <1>3, <1>4, <1>5, <1>6, <1>7, ReceivedAccounted

(* A dispatched unit is on its way, or its connection will orphan it. *)
LEMMA DispatchAccounted ==
    ASSUME Inv, NEW k \in Connections,
           Received(k, "REQUEST"), UNCHANGED <<client, network, reports>>,
           NEW w \in Workers, w = owner[k],
           NEW start \in Int, Dispatch(k, start),
           NEW d, d.worker_id = w, d.work_unit.start = start
    PROVE  Accounted(d)'
  <1>1. Shape /\ Connected
    BY DEF Inv
  <1>2. Attached(w)' \/ WillOrphan(w)'
    BY <1>1, ReceivedNamed
  <1>3. ASSUME Attached(w)'
        PROVE  Holds(w, start)' \/ WillOrphan(w)'
    <2>1. state[k] \in {"open", "cut"} /\ state' = state /\ owner' = owner
      BY DEF Received, Reading, network
    <2>2. CASE state[k] = "open"
      <3>1. from'[k] = Append(from[k], start) /\ from[k] \in Seq(Int)
        BY <1>1 DEF Dispatch, Shape
      <3>2. Has(from'[k], start)
        BY <3>1, HasAppend
      <3> QED
        BY <2>1, <2>2, <3>2, HoldsNext
    <2>3. CASE state[k] = "cut"
      <3>1. Named(w, k)'
        BY <1>1 DEF Received, Named, Reading, network, Shape
      <3> QED
        BY <2>1, <2>3, <3>1 DEF WillOrphan
    <2> QED
      BY <2>1, <2>2, <2>3
  <1> QED
    BY <1>2, <1>3 DEF Accounted

(* A unit that is not the one dispatched is accounted for as before. *)
LEMMA UndispatchedAccounted ==
    ASSUME Inv, AllAccounted, NEW k \in Connections,
           Received(k, "REQUEST"), UNCHANGED <<client, network, reports>>,
           NEW start \in Int, Dispatch(k, start),
           NEW d \in active_work_units, d.state = "OWNED",
           d.work_unit.start # start
    PROVE  Accounted(d)'
  <1>1. Shape /\ Connected /\ LedgerInv
    BY DEF Inv
  <1>2. Accounted(d) /\ d.worker_id \in Workers /\ d.work_unit.start \in Int
    BY <1>1, OwnedTyped DEF AllAccounted
  <1>3. Head(to[k]) # Result(d.work_unit.start)
    BY NotResult
  <1>4. <<d.work_unit.start, d.worker_id>> \in abandoned =>
            <<d.work_unit.start, d.worker_id>> \in abandoned'
    BY DEF Dispatch
  <1>5. \A j \in Connections : \E q \in Seq(Int) : from'[j] = from[j] \o q
    BY <1>1, Answered
  <1> QED
    BY <1>1, <1>2, <1>3, <1>4, <1>5, ReceivedAccounted

LEMMA RequestAccounted ==
    ASSUME Inv, AllAccounted, NEW k \in Connections,
           handle_requestworkunit_message(k)
    PROVE  AllAccounted'
  <1>1. /\ Received(k, "REQUEST") /\ UNCHANGED <<client, network, reports>>
        /\ Shape /\ Connected /\ LedgerInv
    BY DEF handle_requestworkunit_message, Inv
  <1>2. PICK w \in Workers : w = owner[k]
    BY <1>1, SenderKnown DEF Received
  <1> SUFFICES ASSUME NEW d \in active_work_units', d.state = "OWNED"
               PROVE  Accounted(d)'
    BY DEF AllAccounted
  <1>3. ASSUME NEW c \in active_work_units, Ledger!Claim(w, c),
               Dispatch(k, c.work_unit.start)
        PROVE  Accounted(d)'
    <2> DEFINE e == [c EXCEPT !.state = "OWNED", !.worker_id = w,
                              !.expired = FALSE]
    <2>1. active_work_units' = (active_work_units \ {c}) \union {e}
      BY <1>3 DEF Ledger!Claim
    <2>2. e.worker_id = w /\ e.work_unit = c.work_unit
      BY <1>1 DEF LedgerInv, Facts!UniqueInv, Facts!TypeOK, Facts!ControlBlocks
    <2>3. c.work_unit.start \in Int
      BY <1>1, OwnedTyped
    <2> HIDE DEF e
    <2>4. CASE d = e
      BY <1>1, <1>2, <1>3, <2>2, <2>3, <2>4, DispatchAccounted
    <2>5. CASE d \in active_work_units \ {c}
      <3>1. d.work_unit.start # c.work_unit.start
        BY <1>1, <2>5 DEF LedgerInv, Facts!UniqueInv, Facts!UniqueStarts
      <3> QED
        BY <1>1, <1>3, <2>3, <2>5, <3>1, UndispatchedAccounted
    <2> QED
      BY <2>1, <2>4, <2>5
  <1>4. ASSUME Ledger!DispatchNew(w), Dispatch(k, next_digit)
        PROVE  Accounted(d)'
    <2>1. next_digit \in Int
      BY <1>1 DEF LedgerInv, Facts!UniqueInv, Facts!TypeOK
    <2>2. PICK n \in Int : n = next_digit
      BY <2>1
    <2> DEFINE e == [work_unit |-> [start |-> n,
                                    n_digits |-> Ledger!UnitSize(n)],
                     state |-> "OWNED", worker_id |-> w, expired |-> FALSE]
    <2>3. /\ active_work_units' = active_work_units \union {e}
          /\ e.worker_id = w /\ e.work_unit.start = n
      BY <1>4, <2>2 DEF Ledger!DispatchNew
    <2> HIDE DEF e
    <2>4. Dispatch(k, n)
      BY <1>4, <2>2
    <2>5. CASE d = e
      BY <1>1, <1>2, <2>3, <2>4, <2>5, DispatchAccounted
    <2>6. CASE d \in active_work_units
      <3>1. d.work_unit.start < next_digit
        BY <1>1, <2>6, Facts!StartsBelowNext, LedgerAssumption
        DEF LedgerInv, Facts!UniqueInv
      <3>2. d.work_unit.start # n
        BY <1>1, <2>1, <2>2, <2>6, <3>1, OwnedTyped
      <3> QED
        BY <1>1, <2>4, <2>6, <3>2, UndispatchedAccounted
    <2> QED
      BY <2>3, <2>5, <2>6
  <1>5. ASSUME Dispatch(k, Beyond), UNCHANGED ledger
        PROVE  Accounted(d)'
    <2>1. d \in active_work_units /\ Beyond \in Int
      BY <1>5 DEF ledger, Beyond
    <2>2. d.work_unit.start # Beyond
      BY <1>1, <2>1, OwnedTyped DEF Beyond
    <2> QED
      BY <1>1, <1>5, <2>1, <2>2, UndispatchedAccounted
  <1> QED
    BY <1>2, <1>3, <1>4, <1>5 DEF handle_requestworkunit_message

(* A report by a connection that knows its worker orphans the units of the *)
(* worker; one by a connection that does not know it changes nothing.      *)
LEMMA ReportAccounted ==
    ASSUME Inv, AllAccounted, NEW k \in Connections,
           ReaderReports(k) \/ WriterReports(k)
    PROVE  AllAccounted'
  <1>1. /\ con_disconnected(k)
        /\ UNCHANGED <<client, network, to, from, worker_id>>
        /\ \A j \in Connections : j # k => reports'[j] = reports[j]
        /\ Shape /\ Connected /\ LedgerInv
    BY DEF ReaderReports, WriterReports, Inv, Shape
  <1> SUFFICES ASSUME NEW d \in active_work_units', d.state = "OWNED"
               PROVE  Accounted(d)'
    BY DEF AllAccounted
  <1>2. ASSUME d \in active_work_units, worker_id[k] # d.worker_id,
               <<d.work_unit.start, d.worker_id>> \in abandoned =>
                   <<d.work_unit.start, d.worker_id>> \in abandoned'
        PROVE  Accounted(d)'
    <2>1. Accounted(d) /\ d.worker_id \in Workers
      BY <1>1, <1>2, OwnedTyped DEF AllAccounted
    <2>2. ASSUME NEW j \in Connections, Named(d.worker_id, j)
          PROVE  Named(d.worker_id, j)'
      BY <1>1, <1>2, <2>2 DEF Named, Reading, network
    <2>3. Attached(d.worker_id) => Attached(d.worker_id)'
      BY <1>1, <2>2 DEF Attached, network
    <2>4. WillOrphan(d.worker_id) => WillOrphan(d.worker_id)'
      BY <1>1, <2>2 DEF WillOrphan, network, client
    <2>5. Holds(d.worker_id, d.work_unit.start)
              => Holds(d.worker_id, d.work_unit.start)'
      BY <1>1, HoldsSame DEF client, network
    <2> QED
      BY <1>2, <2>1, <2>3, <2>4, <2>5 DEF Accounted
  <1>3. CASE worker_id[k] = NoWorker
    <2>1. d \in active_work_units /\ abandoned' = abandoned
      BY <1>1, <1>3 DEF con_disconnected, ledger
    <2> QED
      BY <1>1, <1>2, <1>3, <2>1, OwnedTyped, LedgerAssumption
  <1>4. CASE worker_id[k] # NoWorker
    <2>1. PICK w \in Workers : w = worker_id[k]
      BY <1>1, <1>4 DEF Shape
    <2>2. Ledger!MarkAll(w, "ORPHANED") /\ abandoned' = Forget(w)
      BY <1>1, <1>4, <2>1 DEF con_disconnected
    <2>3. d \in active_work_units /\ d.worker_id # w
      BY <1>1, <2>2, MarkAllOwned DEF Ledger!States
    <2> QED
      BY <1>2, <2>1, <2>2, <2>3 DEF Forget
  <1> QED
    BY <1>3, <1>4

(* What a destroyed connection had not read is lost only with a leak. *)
LEMMA DestroyAccounted ==
    ASSUME Inv, AllAccounted, NEW k \in Connections, Destroy(k)
    PROVE  AllAccounted'
  <1>1. /\ state[k] = "cut" /\ state' = [state EXCEPT ![k] = "destroyed"]
        /\ \A j \in Connections : j # k => to'[j] = to[j] /\ from'[j] = from[j]
        /\ UNCHANGED <<ledger, client, link, owner, worker_id, reports>>
        /\ abandoned \subseteq abandoned'
        /\ Shape /\ Connected /\ LedgerInv
    BY DEF Destroy, Inv, Shape
  <1> SUFFICES ASSUME NEW d \in active_work_units, d.state = "OWNED"
               PROVE  Accounted(d)'
    BY <1>1 DEF AllAccounted, ledger
  <1>2. Accounted(d) /\ d.worker_id \in Workers
    BY <1>1, OwnedTyped DEF AllAccounted
  <1>3. ASSUME NEW j \in Connections, j # k, Named(d.worker_id, j)
        PROVE  Named(d.worker_id, j)' /\ state'[j] = state[j]
    BY <1>1, <1>3 DEF Named, Reading, Shape
  <1>4. CASE "reader" \in reports[k] \/ owner[k] # d.worker_id
    <2>1. ~Named(d.worker_id, k)
      BY <1>4 DEF Named, Reading
    <2>2. WillOrphan(d.worker_id) => WillOrphan(d.worker_id)'
      BY <1>1, <1>3, <2>1 DEF WillOrphan, client
    <2>3. Attached(d.worker_id) => Attached(d.worker_id)'
      BY <1>1, <1>3, <2>1 DEF Attached
    <2>4. ASSUME Holds(d.worker_id, d.work_unit.start)
          PROVE  Holds(d.worker_id, d.work_unit.start)'
      <3>1. CASE \/ Has(computing[d.worker_id], d.work_unit.start)
                 \/ Has(kept[d.worker_id], d.work_unit.start)
                 \/ Has(outgoing[d.worker_id], Result(d.work_unit.start))
        BY <1>1, <3>1, HoldsNext DEF client
      <3>2. ASSUME NEW j \in Connections, owner[j] = d.worker_id,
                   \/ Has(to[j], Result(d.work_unit.start))
                   \/ state[j] = "open" /\ Has(from[j], d.work_unit.start)
            PROVE  Holds(d.worker_id, d.work_unit.start)'
        <4>1. j # k
          BY <1>1, <1>4, <3>2 DEF Connected, Has
        <4> QED
          BY <1>1, <3>2, <4>1, HoldsNext DEF Shape
      <3> QED
        BY <2>4, <3>1, <3>2, HoldsHas
    <2> QED
      BY <1>1, <1>2, <2>2, <2>3, <2>4 DEF Accounted
  <1>5. CASE "reader" \notin reports[k] /\ owner[k] = d.worker_id
    <2>1. abandoned' = abandoned \union
                         {<<s, owner[k]>> : s \in Owned(owner[k])}
      BY <1>5 DEF Destroy
    <2>2. d.work_unit.start \in Owned(d.worker_id)
      BY DEF Owned
    <2> QED
      BY <1>5, <2>1, <2>2 DEF Accounted
  <1> QED
    BY <1>4, <1>5

LEMMA AccountedStep ==
    ASSUME Inv, AllAccounted, [Next]_vars
    PROVE  AllAccounted'
  <1>1. ASSUME NEW w \in Workers, Worker(w)
        PROVE  AllAccounted'
    <2>1. active_work_units' = active_work_units
      BY <1>1 DEF Worker, Reader, Connect, Send, Receive, Replace, Finish,
                  FinishUnit, Keep, Wake, Leave, Quit, Crash, Cut, ledger
    <2>2. ASSUME NEW d \in active_work_units, d.state = "OWNED"
          PROVE  Accounted(d)'
      BY <1>1, <2>2, OwnedTyped, WorkerAccounted DEF Inv, AllAccounted
    <2> QED
      BY <2>1, <2>2 DEF AllAccounted
  <1>2. ASSUME UNCHANGED <<client, network, to, from, worker_id, reports,
                           abandoned>>,
               NEW d, Accounted(d)
        PROVE  Accounted(d)'
    BY <1>2 DEF Accounted, WillOrphan, Attached, Named, Reading, Holds, Works,
                Keeps, Has, Result, Message, client, network
  <1>3. CASE Expire
    <2>1. UNCHANGED <<client, network, to, from, worker_id, reports, abandoned>>
      BY <1>3 DEF Expire
    <2>2. PICK c \in active_work_units : Ledger!Expire(c)
      BY <1>3 DEF Expire
    <2> DEFINE e == [c EXCEPT !.expired = TRUE]
    <2>3. active_work_units' = (active_work_units \ {c}) \union {e}
      BY <2>2 DEF Ledger!Expire
    <2>4. e.state = "ORPHANED"
      BY <2>2 DEF Ledger!Expire, Inv, LedgerInv, Facts!UniqueInv,
                  Facts!TypeOK, Facts!ControlBlocks
    <2> HIDE DEF e
    <2>5. ASSUME NEW d \in active_work_units', d.state = "OWNED"
          PROVE  Accounted(d)'
      BY <1>2, <2>1, <2>3, <2>4, <2>5 DEF AllAccounted
    <2> QED
      BY <2>5 DEF AllAccounted
  <1>4. CASE UNCHANGED vars
    <2>1. ASSUME NEW d \in active_work_units', d.state = "OWNED"
          PROVE  Accounted(d)'
      BY <1>2, <1>4, <2>1 DEF AllAccounted, vars, ledger
    <2> QED
      BY <2>1 DEF AllAccounted
  <1> QED
    BY <1>1, <1>3, <1>4, HeloAccounted, GoodByeAccounted, ResultAccounted,
       RequestAccounted, ReportAccounted, DestroyAccounted
    DEF Next, Connection

(***************************************************************************)
(* A unit that is owned is with its worker, on its way, or about to be     *)
(* orphaned, unless it leaked.                                             *)
(***************************************************************************)
THEOREM OwnedHeld == Spec => []OwnedIsHeld
  <1>1. Init => AllAccounted
    BY DEF Init, Ledger!Init, AllAccounted
  <1>2. Inv /\ AllAccounted /\ [Next]_vars => AllAccounted'
    BY AccountedStep
  <1>3. AllAccounted => OwnedIsHeld
    BY DEF AllAccounted, Accounted, OwnedIsHeld, WillOrphan, Named,
           LossPending, ConnectionsOf
  <1> QED
    BY <1>1, <1>2, <1>3, InvCorrect, PTL DEF Spec

-----------------------------------------------------------------------------
(* Messages of a type *)

LEMMA PlacesFinite ==
    ASSUME NEW q \in Seq(AnyMessage), NEW type
    PROVE  /\ IsFiniteSet(Places(q, type)) /\ Count(q, type) \in Nat
           /\ Count(q, type) <= Len(q)
           /\ Places(q, type) \subseteq 1..Len(q)
  <1>1. Len(q) \in Nat /\ Places(q, type) \in SUBSET (1..Len(q))
    BY LenProperties DEF Places
  <1>2. IsFiniteSet(1..Len(q)) /\ Cardinality(1..Len(q)) = Len(q)
    <2>1. PICK n \in Nat : n = Len(q)
      BY <1>1
    <2>2. IsFiniteSet(1..n) /\ Cardinality(1..n) = IF 1 > n THEN 0 ELSE n - 1 + 1
      BY FS_Interval
    <2> QED
      BY <2>1, <2>2
  <1>3. /\ IsFiniteSet(Places(q, type))
        /\ Cardinality(Places(q, type)) <= Cardinality(1..Len(q))
    BY <1>1, <1>2, FS_Subset
  <1> QED
    BY <1>1, <1>2, <1>3, FS_CardinalityType DEF Count

LEMMA CountEmpty == \A type : Places(<<>>, type) = {} /\ Count(<<>>, type) = 0
  BY FS_EmptySet DEF Count, Places

(* Two queues in a row have what each of them has. *)
LEMMA CountConcat ==
    ASSUME NEW s \in Seq(AnyMessage), NEW t \in Seq(AnyMessage), NEW type
    PROVE  Count(s \o t, type) = Count(s, type) + Count(t, type)
  <1> DEFINE A == Places(s, type)
             B == Places(t, type)
             C == {i \in (Len(s) + 1)..(Len(s) + Len(t)) : t[i - Len(s)].type = type}
             f == [i \in B |-> i + Len(s)]
  <1>1. /\ Len(s) \in Nat /\ Len(t) \in Nat
        /\ s \o t \in Seq(AnyMessage)
        /\ Len(s \o t) = Len(s) + Len(t)
        /\ \A i \in 1..Len(s) : (s \o t)[i] = s[i]
        /\ \A i \in (Len(s) + 1)..(Len(s) + Len(t)) : (s \o t)[i] = t[i - Len(s)]
    BY LenProperties, ConcatProperties
  <1>2. Places(s \o t, type) = A \union C
    BY <1>1 DEF Places
  <1>3. A \intersect C = {}
    BY <1>1, PlacesFinite
  <1>4. B = {i \in 1..Len(t) : t[i].type = type}
    BY LenProperties DEF Places
  <1>5. f \in Bijection(B, C)
    <2>1. f \in [B -> C]
      BY <1>1, <1>4
    <2>2. \A i, j \in B : f[i] = f[j] => i = j
      BY <1>1, <1>4
    <2>3. ASSUME NEW c \in C PROVE \E i \in B : f[i] = c
      <3>1. c \in (Len(s) + 1)..(Len(s) + Len(t)) /\ t[c - Len(s)].type = type
        OBVIOUS
      <3>2. PICK i \in 1..Len(t) : i = c - Len(s) /\ i + Len(s) = c
        <4>1. Len(s) \in Nat /\ Len(t) \in Nat
          BY <1>1
        <4> HIDE DEF B, C, f
        <4>2. c - Len(s) \in 1..Len(t) /\ (c - Len(s)) + Len(s) = c
          BY <3>1, <4>1
        <4> QED
          BY <4>2
      <3>3. i \in B
        BY <1>4, <3>1, <3>2
      <3> QED
        BY <3>2, <3>3
    <2> HIDE DEF B, C, f
    <2>4. f \in Injection(B, C)
      BY <2>1, <2>2 DEF Injection, IsInjective
    <2>5. f \in Surjection(B, C)
      BY <2>1, <2>3 DEF Surjection
    <2> QED
      BY <2>4, <2>5 DEF Bijection
  <1>6. IsFiniteSet(A) /\ IsFiniteSet(B)
    BY PlacesFinite
  <1> HIDE DEF A, B, C, f
  <1>7. IsFiniteSet(C) /\ Cardinality(C) = Cardinality(B)
    BY <1>5, <1>6, FS_Bijection DEF ExistsBijection
  <1>8. Cardinality(A \union C) = Cardinality(A) + Cardinality(C)
                                    - Cardinality(A \intersect C)
    BY <1>6, <1>7, FS_Union
  <1>9. Cardinality(A) \in Nat /\ Cardinality(C) \in Nat
    BY <1>6, <1>7, FS_CardinalityType
  <1>10. Cardinality(A) = Count(s, type) /\ Cardinality(B) = Count(t, type)
    BY DEF Count, A, B
  <1>11. Count(s \o t, type) = Cardinality(A \union C)
    BY <1>2 DEF Count
  <1>12. Cardinality(A \intersect C) = 0
    BY <1>3, FS_EmptySet
  <1> QED
    BY <1>7, <1>8, <1>9, <1>10, <1>11, <1>12

(* One message. *)
LEMMA CountOne ==
    ASSUME NEW m \in AnyMessage, NEW type
    PROVE  Count(<<m>>, type) = IF m.type = type THEN 1 ELSE 0
  <1>1. Places(<<m>>, type) = IF m.type = type THEN {1} ELSE {}
    BY DEF Places
  <1> QED
    BY <1>1, FS_EmptySet, FS_Singleton DEF Count

LEMMA CountAppend ==
    ASSUME NEW q \in Seq(AnyMessage), NEW m \in AnyMessage, NEW type
    PROVE  Count(Append(q, m), type)
             = Count(q, type) + IF m.type = type THEN 1 ELSE 0
  <1>1. <<m>> \in Seq(AnyMessage)
    OBVIOUS
  <1>2. Append(q, m) = q \o <<m>>
    BY AppendIsConcat
  <1>3. Count(q \o <<m>>, type) = Count(q, type) + Count(<<m>>, type)
    BY <1>1, CountConcat
  <1> QED
    BY <1>2, <1>3, CountOne

(* What arrives of a queue, and what does not. *)
LEMMA CountCut ==
    ASSUME NEW q \in Seq(AnyMessage), NEW n \in 0..Len(q), NEW type
    PROVE  /\ SubSeq(q, 1, n) \in Seq(AnyMessage)
           /\ SubSeq(q, n + 1, Len(q)) \in Seq(AnyMessage)
           /\ Count(q, type) = Count(SubSeq(q, 1, n), type)
                               + Count(SubSeq(q, n + 1, Len(q)), type)
  <1>1. n \in Nat /\ Len(q) \in Nat /\ Len(q) \in 0..Len(q) /\ n + 1 \in Nat \ {0}
    BY LenProperties
  <1>2. /\ SubSeq(q, 1, n) \in Seq(AnyMessage)
        /\ SubSeq(q, n + 1, Len(q)) \in Seq(AnyMessage)
    BY <1>1, PartType, 1 \in Nat \ {0}
  <1>3. SubSeq(q, 1, n) \o SubSeq(q, n + 1, Len(q)) = q
    <2> DEFINE a == SubSeq(q, 1, n)
               b == SubSeq(q, n + 1, Len(q))
    <2>1. Len(a) = n /\ \A i \in 1..n : a[i] = q[i]
      BY <1>1
    <2>2. Len(b) = Len(q) - n /\ \A i \in 1..(Len(q) - n) : b[i] = q[n + i]
      BY <1>1
    <2>3. a \in Seq(AnyMessage) /\ b \in Seq(AnyMessage)
      BY <1>2
    <2> HIDE DEF a, b
    <2>4. /\ a \o b \in Seq(AnyMessage) /\ Len(a \o b) = Len(q)
          /\ \A i \in 1..n : (a \o b)[i] = a[i]
          /\ \A i \in (n + 1)..Len(q) : (a \o b)[i] = b[i - n]
      BY <1>1, <2>1, <2>2, <2>3, ConcatProperties
    <2>5. ASSUME NEW i \in 1..Len(q) PROVE (a \o b)[i] = q[i]
      <3>1. CASE i <= n
        BY <2>1, <2>4, <3>1
      <3>2. CASE i > n
        <4>1. i - n \in 1..(Len(q) - n) /\ n + (i - n) = i
          BY <1>1, <3>2
        <4>2. b[i - n] = q[i]
          BY <2>2, <4>1
        <4> QED
          BY <1>1, <2>4, <3>2, <4>2
      <3>3. i <= n \/ i > n
        BY <1>1
      <3> QED
        BY <3>1, <3>2, <3>3, Zenon
    <2>6. a \o b = q
      BY <2>4, <2>5, SeqEqual
    <2> QED
      BY <2>6 DEF a, b
  <1>4. Count(SubSeq(q, 1, n) \o SubSeq(q, n + 1, Len(q)), type)
          = Count(SubSeq(q, 1, n), type) + Count(SubSeq(q, n + 1, Len(q)), type)
    BY <1>2, CountConcat
  <1> QED
    BY <1>2, <1>3, <1>4

LEMMA CountTail ==
    ASSUME NEW q \in Seq(AnyMessage), q # <<>>, NEW type
    PROVE  Count(q, type)
             = Count(Tail(q), type) + IF Head(q).type = type THEN 1 ELSE 0
  <1>1. /\ Head(q) \in AnyMessage /\ Tail(q) \in Seq(AnyMessage)
        /\ 1 \in 0..Len(q) /\ 1 \in 1..Len(q) /\ Head(q) = q[1]
    BY HeadTailProperties, LenProperties, EmptySeq
  <1>2. SubSeq(q, 1, 1) = <<Head(q)>>
    <2>1. /\ SubSeq(q, 1, 1) \in Seq(AnyMessage) /\ Len(SubSeq(q, 1, 1)) = 1
          /\ SubSeq(q, 1, 1)[1] = q[1]
      <3>1. \A i \in 1..1 : q[i] \in AnyMessage
        BY <1>1
      <3> QED
        BY <3>1, SubSeqProperties
    <2>2. /\ <<Head(q)>> \in Seq(AnyMessage) /\ Len(<<Head(q)>>) = 1
          /\ <<Head(q)>>[1] = q[1]
      BY <1>1
    <2>3. \A i \in 1..1 : SubSeq(q, 1, 1)[i] = <<Head(q)>>[i]
      BY <2>1, <2>2
    <2> QED
      BY <2>1, <2>2, <2>3, SeqEqual
  <1>3. SubSeq(q, 1 + 1, Len(q)) = Tail(q)
    <2>1. Tail(q) = SubSeq(q, 2, Len(q))
      BY TailIsSubSeq
    <2> QED
      BY <2>1
  <1>4. Count(q, type) = Count(SubSeq(q, 1, 1), type)
                         + Count(SubSeq(q, 1 + 1, Len(q)), type)
    BY <1>1, CountCut
  <1>5. Count(Tail(q), type) \in Nat
    BY <1>1, PlacesFinite
  <1>6. Count(<<Head(q)>>, type) = IF Head(q).type = type THEN 1 ELSE 0
    BY <1>1, CountOne
  <1>7. Count(q, type) = Count(<<Head(q)>>, type) + Count(Tail(q), type)
    BY <1>2, <1>3, <1>4, Zenon
  <1> QED
    BY <1>5, <1>6, <1>7

(* Only finitely many messages are in finitely many queues. *)
LEMMA WithinFinite ==
    ASSUME NEW queue, NEW K, IsFiniteSet(K), NEW type,
           \A k \in K : queue[k] \in Seq(AnyMessage)
    PROVE  /\ IsFiniteSet(Within(queue, K, type))
           /\ Cardinality(Within(queue, K, type)) \in Nat
  <1> DEFINE f == [k \in K |-> {k} \X Places(queue[k], type)]
             T == {{k} \X Places(queue[k], type) : k \in K}
  <1>1. f \in Surjection(K, T)
    BY DEF Surjection
  <1>2. IsFiniteSet(T)
    <2> HIDE DEF f, T
    <2> QED
      BY <1>1, FS_Surjection
  <1>3. \A t \in T : IsFiniteSet(t)
    <2> SUFFICES ASSUME NEW k \in K
                 PROVE  IsFiniteSet({k} \X Places(queue[k], type))
      OBVIOUS
    <2>1. IsFiniteSet(Places(queue[k], type)) /\ IsFiniteSet({k})
      BY PlacesFinite, FS_Singleton
    <2> QED
      BY <2>1, FS_Product
  <1>4. Within(queue, K, type) = UNION T
    BY DEF Within
  <1> HIDE DEF T
  <1>5. IsFiniteSet(UNION T)
    BY <1>2, <1>3, FS_UNION
  <1> QED
    BY <1>4, <1>5, FS_CardinalityType

(* The queue of one, and those of the others. *)
LEMMA WithinSplit ==
    ASSUME NEW queue, NEW K, IsFiniteSet(K), NEW type, NEW k \in K,
           \A j \in K : queue[j] \in Seq(AnyMessage)
    PROVE  /\ Cardinality(Within(queue, K \ {k}, type)) \in Nat
           /\ Cardinality(Within(queue, K, type))
                = Count(queue[k], type) + Cardinality(Within(queue, K \ {k}, type))
  <1> DEFINE A == {k} \X Places(queue[k], type)
             B == Within(queue, K \ {k}, type)
  <1>1. Within(queue, K, type) = A \union B
    BY DEF Within
  <1>2. A \intersect B = {}
    BY DEF Within
  <1>3. IsFiniteSet(K \ {k})
    BY FS_RemoveElement
  <1>4. IsFiniteSet(B) /\ Cardinality(B) \in Nat
    BY <1>3, WithinFinite
  <1>5. /\ IsFiniteSet(Places(queue[k], type))
        /\ Count(queue[k], type) \in Nat
    BY PlacesFinite
  <1>6. IsFiniteSet(A) /\ Cardinality(A) = Count(queue[k], type)
    <2>1. IsFiniteSet({k}) /\ Cardinality({k}) = 1
      BY FS_Singleton
    <2>2. /\ IsFiniteSet(A)
          /\ Cardinality(A) = Cardinality({k}) * Cardinality(Places(queue[k], type))
      BY <1>5, <2>1, FS_Product
    <2>3. Cardinality(Places(queue[k], type)) = Count(queue[k], type)
      BY DEF Count
    <2> HIDE DEF A
    <2> QED
      BY <1>5, <2>1, <2>2, <2>3
  <1> HIDE DEF A, B
  <1>7. Cardinality(A \union B) = Cardinality(A) + Cardinality(B)
                                    - Cardinality(A \intersect B)
    BY <1>4, <1>6, FS_Union
  <1>8. Cardinality(A \union B) = Count(queue[k], type) + Cardinality(B)
    <2>1. Cardinality(A \intersect B) = 0
      BY <1>2, FS_EmptySet
    <2> QED
      BY <1>4, <1>5, <1>6, <1>7, <2>1
  <1> QED
    BY <1>1, <1>4, <1>8 DEF B

LEMMA WithinSame ==
    ASSUME NEW f, NEW g, NEW K, NEW type, \A k \in K : f[k] = g[k]
    PROVE  Within(f, K, type) = Within(g, K, type)
  BY DEF Within

(* One queue changes. *)
LEMMA WithinMoved ==
    ASSUME NEW f, NEW g, NEW K, IsFiniteSet(K), NEW type, NEW k \in K,
           \A j \in K : f[j] \in Seq(AnyMessage) /\ g[j] \in Seq(AnyMessage),
           \A j \in K \ {k} : g[j] = f[j]
    PROVE  /\ Cardinality(Within(f, K, type)) \in Nat
           /\ Cardinality(Within(g, K, type)) \in Nat
           /\ Count(f[k], type) \in Nat /\ Count(g[k], type) \in Nat
           /\ Cardinality(Within(g, K, type))
                = Cardinality(Within(f, K, type))
                  + Count(g[k], type) - Count(f[k], type)
  <1>1. Within(f, K \ {k}, type) = Within(g, K \ {k}, type)
    BY WithinSame
  <1>2. Count(f[k], type) \in Nat /\ Count(g[k], type) \in Nat
    BY PlacesFinite
  <1>3. /\ Cardinality(Within(f, K \ {k}, type)) \in Nat
        /\ Cardinality(Within(f, K, type))
             = Count(f[k], type) + Cardinality(Within(f, K \ {k}, type))
    BY WithinSplit
  <1>4. Cardinality(Within(g, K, type))
          = Count(g[k], type) + Cardinality(Within(g, K \ {k}, type))
    BY WithinSplit
  <1> QED
    BY <1>1, <1>2, <1>3, <1>4

-----------------------------------------------------------------------------
(* No thread of a worker is forgotten *)

(* The summands of InUse. *)
Queued(w) == Count(outgoing[w], "REQUEST")
Asked(w) == Cardinality(Within(to, ConnectionsOf(w), "REQUEST"))
Answers(w) == IF link[w] = 0 THEN 0 ELSE Len(from[link[w]])

Spent(w) == InUse(w) + Idle(w)

(* A worker that runs accounts for each of its threads. *)
ThreadsKnown ==
    /\ lost \in [Workers -> Nat]
    /\ \A k \in Connections : k > connects => from[k] = <<>>
    /\ \A w \in Workers :
         /\ Spent(w) <= NThreads
         /\ worker[w] = "running" => Spent(w) = NThreads

LEMMA ConnectionsFinite ==
    /\ IsFiniteSet(Connections)
    /\ Cardinality(Connections) = Cardinality(Workers) + MaxLosses
    /\ \A w : IsFiniteSet(ConnectionsOf(w)) /\ ConnectionsOf(w) \subseteq Connections
  <1>1. PICK n \in Nat : n = Cardinality(Workers) + MaxLosses
    BY WorkersAssumption, BoundsAssumption, FS_CardinalityType
  <1>2. IsFiniteSet(1..n) /\ Cardinality(1..n) = IF 1 > n THEN 0 ELSE n - 1 + 1
    BY FS_Interval
  <1>3. Connections = 1..n
    BY <1>1 DEF Connections
  <1>4. \A w : ConnectionsOf(w) \in SUBSET Connections
    BY DEF ConnectionsOf
  <1> QED
    BY <1>1, <1>2, <1>3, <1>4, FS_Subset

LEMMA UseIs ==
    ASSUME Shape, NEW w \in Workers
    PROVE  /\ Queued(w) \in Nat /\ Asked(w) \in Nat /\ Answers(w) \in Nat
           /\ Len(computing[w]) \in Nat
           /\ InUse(w) = Queued(w) + Len(computing[w]) + Asked(w) + Answers(w)
  <1>1. Queued(w) \in Nat
    BY PlacesFinite DEF Shape, Queued
  <1>2. Asked(w) \in Nat
    <2>1. \A k \in ConnectionsOf(w) : to[k] \in Seq(AnyMessage)
      BY DEF Shape, ConnectionsOf
    <2> QED
      BY <2>1, ConnectionsFinite, WithinFinite DEF Asked
  <1>3. Answers(w) \in Nat
    BY LenProperties DEF Shape, Answers
  <1>4. Len(computing[w]) \in Nat
    BY LenProperties DEF Shape
  <1>5. InUse(w) = Queued(w) + Len(computing[w]) + Asked(w) + Answers(w)
    BY DEF InUse, Queued, Asked, Answers
  <1> QED
    BY <1>1, <1>2, <1>3, <1>4, <1>5

(* After a step. *)
LEMMA UseIsAfter ==
    ASSUME Shape', NEW w \in Workers
    PROVE  /\ Queued(w)' \in Nat /\ Asked(w)' \in Nat /\ Answers(w)' \in Nat
           /\ Len(computing'[w]) \in Nat
           /\ InUse(w)' = Queued(w)' + Len(computing'[w]) + Asked(w)' + Answers(w)'
  <1>1. Queued(w)' \in Nat
    BY PlacesFinite DEF Shape, Queued
  <1>2. Asked(w)' \in Nat
    <2>1. \A k \in ConnectionsOf(w)' : to'[k] \in Seq(AnyMessage)
      BY DEF Shape, ConnectionsOf
    <2>2. IsFiniteSet(ConnectionsOf(w)')
      BY ConnectionsFinite, FS_Subset DEF ConnectionsOf
    <2> QED
      BY <2>1, <2>2, WithinFinite DEF Asked
  <1>3. Answers(w)' \in Nat
    BY LenProperties DEF Shape, Answers
  <1>4. Len(computing'[w]) \in Nat
    BY LenProperties DEF Shape
  <1>5. InUse(w)' = Queued(w)' + Len(computing'[w]) + Asked(w)' + Answers(w)'
    BY DEF InUse, Queued, Asked, Answers
  <1> QED
    BY <1>1, <1>2, <1>3, <1>4, <1>5

(* The requests that one connection has still to deliver. *)
LEMMA AskedMoved ==
    ASSUME Shape, Shape', owner' = owner, NEW k \in Connections,
           \A j \in Connections \ {k} : to'[j] = to[j]
    PROVE  /\ Count(to[k], "REQUEST") \in Nat /\ Count(to'[k], "REQUEST") \in Nat
           /\ \A w \in Workers :
                /\ owner[k] = w =>
                     Asked(w)' = Asked(w) + Count(to'[k], "REQUEST")
                                          - Count(to[k], "REQUEST")
                /\ owner[k] # w => Asked(w)' = Asked(w)
  <1>1. to \in [Connections -> Seq(AnyMessage)]
        /\ to' \in [Connections -> Seq(AnyMessage)]
    BY DEF Shape
  <1>2. Count(to[k], "REQUEST") \in Nat /\ Count(to'[k], "REQUEST") \in Nat
    BY <1>1, PlacesFinite
  <1>3. \A w \in Workers : ConnectionsOf(w)' = ConnectionsOf(w)
    BY DEF ConnectionsOf
  <1>4. ASSUME NEW w \in Workers, owner[k] = w
        PROVE  Asked(w)' = Asked(w) + Count(to'[k], "REQUEST")
                                    - Count(to[k], "REQUEST")
    <2>1. PICK K : K = ConnectionsOf(w)
      OBVIOUS
    <2>2. k \in K /\ IsFiniteSet(K) /\ K \subseteq Connections
      BY <1>4, <2>1, ConnectionsFinite DEF ConnectionsOf
    <2>3. Cardinality(Within(to', K, "REQUEST"))
            = Cardinality(Within(to, K, "REQUEST"))
              + Count(to'[k], "REQUEST") - Count(to[k], "REQUEST")
      BY <1>1, <2>2, WithinMoved
    <2>4. Asked(w) = Cardinality(Within(to, K, "REQUEST"))
          /\ Asked(w)' = Cardinality(Within(to', K, "REQUEST"))
      BY <1>3, <2>1 DEF Asked
    <2> QED
      BY <2>3, <2>4
  <1>5. ASSUME NEW w \in Workers, owner[k] # w
        PROVE  Asked(w)' = Asked(w)
    <2>1. \A j \in ConnectionsOf(w) : to'[j] = to[j]
      BY <1>5 DEF ConnectionsOf
    <2>2. Within(to', ConnectionsOf(w), "REQUEST")
            = Within(to, ConnectionsOf(w), "REQUEST")
      BY <2>1, WithinSame
    <2> QED
      BY <1>3, <2>2 DEF Asked
  <1> QED
    BY <1>2, <1>4, <1>5

LEMMA SpentIs ==
    ASSUME Shape, ThreadsKnown, NEW w \in Workers
    PROVE  /\ Queued(w) \in Nat /\ Asked(w) \in Nat /\ Answers(w) \in Nat
           /\ Len(computing[w]) \in Nat /\ Idle(w) \in Nat
           /\ Spent(w) = Queued(w) + Len(computing[w]) + Asked(w) + Answers(w)
                         + Idle(w)
  <1>1. Len(kept[w]) \in Nat
    BY LenProperties DEF Shape
  <1>2. Idle(w) \in Nat
    BY <1>1 DEF Idle, ThreadsKnown
  <1> QED
    BY <1>2, UseIs DEF Spent

LEMMA SpentIsAfter ==
    ASSUME Shape', NEW w \in Workers
    PROVE  /\ Queued(w)' \in Nat /\ Asked(w)' \in Nat /\ Answers(w)' \in Nat
           /\ Len(computing'[w]) \in Nat
           /\ Spent(w)' = Queued(w)' + Len(computing'[w]) + Asked(w)' + Answers(w)'
                          + Idle(w)'
  BY UseIsAfter DEF Spent

LEMMA RemoveAtLen ==
    ASSUME NEW S, NEW s \in Seq(S), NEW i \in 1..Len(s)
    PROVE  Len(RemoveAt(s, i)) = Len(s) - 1
  <1>1. Len(s) \in Nat /\ i \in Nat
    BY LenProperties
  <1>2. /\ SubSeq(s, 1, i - 1) \in Seq(S)
        /\ Len(SubSeq(s, 1, i - 1)) = i - 1
    <2>1. \A j \in 1..(i - 1) : s[j] \in S
      BY <1>1, ElementOfSeq
    <2>2. i - 1 \in Int /\ i - 1 >= 0
      BY <1>1
    <2> QED
      BY <2>1, <2>2, SubSeqProperties
  <1>3. /\ SubSeq(s, i + 1, Len(s)) \in Seq(S)
        /\ Len(SubSeq(s, i + 1, Len(s))) = Len(s) - i
    <2>1. \A j \in (i + 1)..Len(s) : s[j] \in S
      BY <1>1, ElementOfSeq
    <2>2. i + 1 \in Int /\ Len(s) \in Int
      BY <1>1
    <2> QED
      BY <1>1, <2>1, <2>2, SubSeqProperties
  <1> DEFINE a == SubSeq(s, 1, i - 1)
             b == SubSeq(s, i + 1, Len(s))
  <1>4. RemoveAt(s, i) = a \o b
    BY DEF RemoveAt
  <1>5. a \in Seq(S) /\ b \in Seq(S) /\ Len(a) = i - 1 /\ Len(b) = Len(s) - i
    BY <1>2, <1>3
  <1> HIDE DEF a, b
  <1>6. Len(a \o b) = Len(a) + Len(b)
    BY <1>5, ConcatProperties
  <1>7. Len(RemoveAt(s, i)) = (i - 1) + (Len(s) - i)
    BY <1>4, <1>5, <1>6
  <1> QED
    BY <1>1, <1>7

(* A step of a worker leaves what the others use alone. *)
LEMMA OthersUse ==
    ASSUME Shape, Connected, ThreadsKnown, NEW w \in Workers,
           Worker(w),
           NEW v \in Workers \ {w}
    PROVE  Spent(v)' = Spent(v) /\ worker'[v] = worker[v]
  <1>1. /\ computing'[v] = computing[v] /\ outgoing'[v] = outgoing[v]
        /\ worker'[v] = worker[v] /\ kept'[v] = kept[v]
    BY OtherWorker
  <1>2. \A k \in Connections : owner[k] = v =>
            /\ owner'[k] = v /\ to'[k] = to[k] /\ from'[k] = from[k]
    BY OtherConnection
  <1>3. link'[v] = link[v] /\ lost'[v] = lost[v]
    BY DEF Worker, Reader, Connect, Send, Receive, Replace, Finish,
        FinishUnit, Keep, Wake, Leave, Quit, Crash, Cut,
           client, network, Disconnected, Shape, ThreadsKnown
  <1>4. \A k \in Connections : owner'[k] = v => owner[k] = v
    BY DEF Worker, Reader, Connect, Send, Receive, Replace, Finish,
        FinishUnit, Keep, Wake, Leave, Quit, Crash, Cut,
           client, network, Disconnected, Shape
  <1>5. ConnectionsOf(v)' = ConnectionsOf(v)
    BY <1>2, <1>4 DEF ConnectionsOf
  <1>6. Asked(v)' = Asked(v)
    <2>1. \A k \in ConnectionsOf(v) : to'[k] = to[k]
      BY <1>2 DEF ConnectionsOf
    <2>2. Within(to', ConnectionsOf(v), "REQUEST")
            = Within(to, ConnectionsOf(v), "REQUEST")
      BY <2>1, WithinSame
    <2> QED
      BY <1>5, <2>2 DEF Asked
  <1>7. Answers(v)' = Answers(v)
    BY <1>2, <1>3, LinkOwner DEF Answers
  <1>8. InUse(v)' = InUse(v)
    BY <1>1, <1>6, <1>7 DEF InUse, Asked, Answers
  <1> QED
    BY <1>1, <1>3, <1>8 DEF Spent, Idle

(* A new connection carries nothing yet. *)
LEMMA ConnectUse ==
    ASSUME Shape, Shape', ConnectsBounded, Connected, ThreadsKnown,
           NEW w \in Workers, Connect(w)
    PROVE  Spent(w)' = Spent(w)
  <1>1. PICK k \in Connections : k = connects + 1
    BY RoomToConnect DEF Connect
  <1>2. /\ link[w] = 0 /\ link'[w] = k
        /\ owner' = [owner EXCEPT ![k] = w]
        /\ outgoing'[w] = Append(outgoing[w], Helo)
        /\ UNCHANGED <<computing, kept, to, from, lost>>
    BY <1>1 DEF Connect, Shape
  <1>3. to[k] = <<>> /\ from[k] = <<>> /\ owner[k] = NoWorker
    <2>1. k > connects /\ ~(k <= connects)
      BY <1>1 DEF Shape
    <2> QED
      BY <2>1 DEF Connected, ThreadsKnown
  <1>4. Queued(w)' = Queued(w)
    <2>1. outgoing[w] \in Seq(AnyMessage) /\ Helo \in AnyMessage
      BY MessageType DEF Shape
    <2>2. Count(Append(outgoing[w], Helo), "REQUEST")
            = Count(outgoing[w], "REQUEST") + 0
      BY <2>1, CountAppend DEF Helo, Message
    <2> QED
      BY <1>2, <2>1, <2>2, PlacesFinite DEF Queued
  <1>5. Asked(w)' = Asked(w)
    <2>1. ConnectionsOf(w)' = ConnectionsOf(w) \union {k}
      BY <1>2 DEF ConnectionsOf, Shape
    <2>2. Within(to, ConnectionsOf(w) \union {k}, "REQUEST")
            = Within(to, ConnectionsOf(w), "REQUEST")
      BY <1>3, CountEmpty DEF Within
    <2> QED
      BY <1>2, <2>1, <2>2 DEF Asked
  <1>6. Answers(w)' = Answers(w)
    <2>1. k # 0 /\ Len(<<>>) = 0
      BY DEF Connections
    <2> QED
      BY <1>2, <1>3, <2>1 DEF Answers
  <1>7. InUse(w)' = InUse(w)
    BY <1>2, <1>4, <1>5, <1>6 DEF InUse, Queued, Asked, Answers
  <1> QED
    BY <1>2, <1>7 DEF Spent, Idle

(* A request goes from the queue to the connection. *)
LEMMA SendUse ==
    ASSUME Shape, Shape', Connected, ThreadsKnown, NEW w \in Workers, Send(w)
    PROVE  Spent(w)' = Spent(w)
  <1>1. PICK k \in Connections : k = link[w] /\ owner[k] = w /\ k # 0
    BY LinkOwner DEF Send
  <1>2. /\ outgoing[w] # <<>> /\ outgoing'[w] = Tail(outgoing[w])
        /\ to'[k] = Append(to[k], Head(outgoing[w]))
        /\ \A j \in Connections \ {k} : to'[j] = to[j]
        /\ UNCHANGED <<computing, kept, link, owner, from, lost>>
    BY <1>1 DEF Send, network, Shape
  <1>3. /\ outgoing[w] \in Seq(AnyMessage) /\ to[k] \in Seq(AnyMessage)
        /\ Head(outgoing[w]) \in AnyMessage
    BY <1>2, HeadTailProperties DEF Shape
  <1> DEFINE one == IF Head(outgoing[w]).type = "REQUEST" THEN 1 ELSE 0
  <1>4. Queued(w) = Queued(w)' + one
    <2>1. Count(outgoing[w], "REQUEST")
            = Count(Tail(outgoing[w]), "REQUEST") + one
      BY <1>2, <1>3, CountTail
    <2> QED
      BY <1>2, <2>1 DEF Queued
  <1>5. Count(to'[k], "REQUEST") = Count(to[k], "REQUEST") + one
    BY <1>2, <1>3, CountAppend
  <1> HIDE DEF one
  <1>6. Asked(w)' = Asked(w) + Count(to'[k], "REQUEST") - Count(to[k], "REQUEST")
        /\ Count(to[k], "REQUEST") \in Nat /\ Count(to'[k], "REQUEST") \in Nat
    BY <1>1, <1>2, AskedMoved
  <1>7. Answers(w)' = Answers(w)
    BY <1>2 DEF Answers
  <1>8. one \in Nat
    BY DEF one
  <1>9. Len(computing'[w]) = Len(computing[w])
    BY <1>2
  <1>10. InUse(w)' = InUse(w)
    <2>1. /\ Queued(w) \in Nat /\ Asked(w) \in Nat /\ Answers(w) \in Nat
          /\ Len(computing[w]) \in Nat
          /\ InUse(w) = Queued(w) + Len(computing[w]) + Asked(w) + Answers(w)
      BY UseIs
    <2>2. /\ Queued(w)' \in Nat /\ Asked(w)' \in Nat
          /\ InUse(w)' = Queued(w)' + Len(computing'[w]) + Asked(w)' + Answers(w)'
      BY UseIsAfter
    <2>3. Asked(w)' = Asked(w) + one
      BY <1>5, <1>6, <1>8, <2>1
    <2> QED
      BY <1>4, <1>7, <1>8, <1>9, <2>1, <2>2, <2>3
  <1> QED
    BY <1>2, <1>10 DEF Spent, Idle

(* The unit that a thread has no more is one of an idle thread. *)
LEMMA ReplaceIdle ==
    ASSUME Shape, ThreadsKnown, NEW w \in Workers, Replace(w)
    PROVE  Idle(w)' = Idle(w)
  <1>1. PICK j \in DOMAIN kept[w] : kept' = [kept EXCEPT ![w] = RemoveAt(@, j)]
    BY DEF Replace
  <1>2. kept[w] \in Seq(Int) /\ j \in 1..Len(kept[w]) /\ Len(kept[w]) \in Nat
    BY LenProperties DEF Shape
  <1>3. Len(kept'[w]) = Len(kept[w]) - 1
    <2>1. Len(RemoveAt(kept[w], j)) = Len(kept[w]) - 1
      BY <1>2, RemoveAtLen
    <2>2. kept'[w] = RemoveAt(kept[w], j)
      BY <1>1 DEF Shape
    <2> QED
      BY <2>1, <2>2
  <1>4. lost'[w] = lost[w] + 1 /\ lost[w] \in Nat
    BY DEF Replace, ThreadsKnown
  <1> QED
    BY <1>2, <1>3, <1>4 DEF Idle

(* An answer that arrives is a unit in a thread. *)
LEMMA ReceiveUse ==
    ASSUME Shape, Shape', Connected, ThreadsKnown, NEW w \in Workers,
           Receive(w) \/ Replace(w)
    PROVE  Spent(w)' = Spent(w)
  <1>1. PICK k \in Connections : k = link[w] /\ k # 0
    BY LinkOwner DEF Receive, Replace
  <1>2. /\ from[k] # <<>> /\ from'[k] = Tail(from[k]) /\ link' = link
        /\ computing'[w] = Append(computing[w], Head(from[k]))
        /\ UNCHANGED <<outgoing, owner, to>>
    BY <1>1 DEF Receive, Replace, network, Shape
  <1>3. Answers(w)' = Answers(w) - 1
    <2>1. Len(Tail(from[k])) = Len(from[k]) - 1
      BY <1>2, HeadTailProperties DEF Shape
    <2> QED
      BY <1>1, <1>2, <2>1 DEF Answers
  <1>4. Len(computing'[w]) = Len(computing[w]) + 1
    <2>1. computing[w] \in Seq(Int) /\ Head(from[k]) \in Int
      BY <1>2, HeadTailProperties DEF Shape
    <2> QED
      BY <1>2, <2>1, AppendProperties
  <1>5. Queued(w)' = Queued(w) /\ Asked(w)' = Asked(w)
    BY <1>2 DEF Queued, Asked, ConnectionsOf
  <1>6. Idle(w)' = Idle(w)
    <2>1. CASE Receive(w)
      BY <2>1 DEF Receive, Idle
    <2> QED
      BY <2>1, ReplaceIdle
  <1>7. /\ Queued(w) \in Nat /\ Asked(w) \in Nat /\ Answers(w) \in Nat
        /\ Len(computing[w]) \in Nat /\ Idle(w) \in Nat
        /\ Spent(w) = Queued(w) + Len(computing[w]) + Asked(w) + Answers(w)
                      + Idle(w)
    BY SpentIs
  <1>8. Spent(w)' = Queued(w)' + Len(computing'[w]) + Asked(w)' + Answers(w)'
                    + Idle(w)'
    BY SpentIsAfter
  <1>9. Spent(w)' = Queued(w) + (Len(computing[w]) + 1) + Asked(w)
                    + (Answers(w) - 1) + Idle(w)
    BY <1>3, <1>4, <1>5, <1>6, <1>8
  <1>10. PICK q \in Nat, c \in Nat, a \in Nat, b \in Nat, l \in Nat :
            /\ q = Queued(w) /\ c = Len(computing[w]) /\ a = Asked(w)
            /\ b = Answers(w) /\ l = Idle(w)
    BY <1>7
  <1>11. Spent(w) = q + c + a + b + l
    BY <1>7, <1>10
  <1>12. Spent(w)' = q + (c + 1) + a + (b - 1) + l
    BY <1>9, <1>10
  <1> QED
    BY <1>11, <1>12

(* A thread that is done makes another request. *)
LEMMA FinishUse ==
    ASSUME Shape, Shape', ThreadsKnown, NEW w \in Workers, Finish(w)
    PROVE  Spent(w)' = Spent(w)
  <1>1. PICK i \in DOMAIN computing[w] :
           /\ computing' = [computing EXCEPT ![w] = RemoveAt(@, i)]
           /\ outgoing' = [outgoing EXCEPT ![w] =
                              @ \o <<Result(computing[w][i]), Request>>]
           /\ UNCHANGED <<kept, link, owner, to, from, lost>>
    BY DEF Finish, FinishUnit, network
  <1>2. computing[w] \in Seq(Int) /\ i \in 1..Len(computing[w])
        /\ Len(computing[w]) \in Nat /\ computing[w][i] \in Int
    BY LenProperties DEF Shape
  <1>3. Len(computing'[w]) = Len(computing[w]) - 1
    <2>1. Len(RemoveAt(computing[w], i)) = Len(computing[w]) - 1
      BY <1>2, RemoveAtLen
    <2>2. computing'[w] = RemoveAt(computing[w], i)
      BY <1>1 DEF Shape
    <2> QED
      BY <2>1, <2>2
  <1>4. Queued(w)' = Queued(w) + 1
    <2> DEFINE r == Result(computing[w][i])
    <2>1. /\ outgoing[w] \in Seq(AnyMessage)
          /\ r \in AnyMessage /\ Request \in AnyMessage
      BY <1>2, MessageType DEF Shape
    <2>2. r.type # "REQUEST" /\ Request.type = "REQUEST"
      BY DEF Result, Request, Message
    <2>3. outgoing'[w] = outgoing[w] \o <<r, Request>>
      BY <1>1 DEF Shape
    <2> HIDE DEF r
    <2>4. outgoing[w] \o <<r, Request>> = Append(Append(outgoing[w], r), Request)
          /\ Append(outgoing[w], r) \in Seq(AnyMessage)
      BY <2>1
    <2>5. Count(outgoing'[w], "REQUEST")
            = Count(Append(outgoing[w], r), "REQUEST") + 1
      <3>1. Count(Append(Append(outgoing[w], r), Request), "REQUEST")
              = Count(Append(outgoing[w], r), "REQUEST")
                + IF Request.type = "REQUEST" THEN 1 ELSE 0
        BY <2>1, <2>4, CountAppend
      <3> QED
        BY <2>2, <2>3, <2>4, <3>1
    <2>6. Count(Append(outgoing[w], r), "REQUEST")
            = Count(outgoing[w], "REQUEST") + 0
      BY <2>1, <2>2, CountAppend
    <2>7. Count(outgoing[w], "REQUEST") \in Nat
      BY <2>1, PlacesFinite
    <2> QED
      BY <2>5, <2>6, <2>7 DEF Queued
  <1>5. Asked(w)' = Asked(w) /\ Answers(w)' = Answers(w)
    BY <1>1 DEF Asked, ConnectionsOf, Answers
  <1>6. Idle(w)' = Idle(w)
    BY <1>1 DEF Idle
  <1>7. /\ Queued(w) \in Nat /\ Asked(w) \in Nat /\ Answers(w) \in Nat
        /\ Len(computing[w]) \in Nat /\ Idle(w) \in Nat
        /\ Spent(w) = Queued(w) + Len(computing[w]) + Asked(w) + Answers(w)
                      + Idle(w)
    BY SpentIs
  <1>8. /\ Queued(w)' \in Nat /\ Asked(w)' \in Nat /\ Answers(w)' \in Nat
        /\ Len(computing'[w]) \in Nat
        /\ Spent(w)' = Queued(w)' + Len(computing'[w]) + Asked(w)' + Answers(w)'
                       + Idle(w)'
    BY SpentIsAfter
  <1>9. Spent(w)' = (Queued(w) + 1) + (Len(computing[w]) - 1) + Asked(w)
                    + Answers(w) + Idle(w)
    BY <1>3, <1>4, <1>5, <1>6, <1>8
  <1> QED
    BY <1>7, <1>9

(* A thread that does not compute its unit is idle. *)
LEMMA KeepUse ==
    ASSUME Shape, Shape', ThreadsKnown, NEW w \in Workers, Keep(w)
    PROVE  Spent(w)' = Spent(w)
  <1>1. PICK i \in DOMAIN computing[w] :
           /\ computing' = [computing EXCEPT ![w] = RemoveAt(@, i)]
           /\ kept' = [kept EXCEPT ![w] = Append(@, computing[w][i])]
           /\ UNCHANGED <<outgoing, link, owner, to, from, lost>>
    BY DEF Keep, network
  <1>2. /\ computing[w] \in Seq(Int) /\ i \in 1..Len(computing[w])
        /\ computing[w][i] \in Int /\ kept[w] \in Seq(Int)
        /\ Len(computing[w]) \in Nat /\ Len(kept[w]) \in Nat
    BY LenProperties DEF Shape
  <1>3. Len(computing'[w]) = Len(computing[w]) - 1
    <2>1. Len(RemoveAt(computing[w], i)) = Len(computing[w]) - 1
      BY <1>2, RemoveAtLen
    <2>2. computing'[w] = RemoveAt(computing[w], i)
      BY <1>1 DEF Shape
    <2> QED
      BY <2>1, <2>2
  <1>4. Len(kept'[w]) = Len(kept[w]) + 1
    <2>1. kept'[w] = Append(kept[w], computing[w][i])
      BY <1>1 DEF Shape
    <2> QED
      BY <1>2, <2>1, AppendProperties
  <1>5. /\ Queued(w)' = Queued(w) /\ Asked(w)' = Asked(w)
        /\ Answers(w)' = Answers(w)
    BY <1>1 DEF Queued, Asked, ConnectionsOf, Answers
  <1>6. /\ Queued(w) \in Nat /\ Asked(w) \in Nat /\ Answers(w) \in Nat
        /\ Spent(w) = Queued(w) + Len(computing[w]) + Asked(w) + Answers(w)
                      + Idle(w)
    BY SpentIs
  <1>7. Spent(w)' = Queued(w)' + Len(computing'[w]) + Asked(w)' + Answers(w)'
                    + Idle(w)'
    BY SpentIsAfter
  <1>8. /\ Idle(w) = Len(kept[w]) + lost[w] /\ lost[w] \in Nat
        /\ Idle(w)' = Len(kept'[w]) + lost[w]
    BY <1>1 DEF Idle, ThreadsKnown
  <1>9. PICK q \in Nat, c \in Nat, a \in Nat, b \in Nat, k \in Nat, l \in Nat :
           /\ q = Queued(w) /\ c = Len(computing[w]) /\ a = Asked(w)
           /\ b = Answers(w) /\ k = Len(kept[w]) /\ l = lost[w]
    BY <1>2, <1>6, <1>8
  <1>10. Spent(w) = q + c + a + b + (k + l)
    BY <1>6, <1>8, <1>9
  <1>11. Spent(w)' = q + (c - 1) + a + b + ((k + 1) + l)
    BY <1>3, <1>4, <1>5, <1>7, <1>8, <1>9
  <1> QED
    BY <1>10, <1>11

(* Until it wakes up. *)
LEMMA WakeUse ==
    ASSUME Shape, Shape', ThreadsKnown, NEW w \in Workers, Wake(w)
    PROVE  Spent(w)' = Spent(w)
  <1>1. PICK i \in DOMAIN kept[w] :
           /\ kept' = [kept EXCEPT ![w] = RemoveAt(@, i)]
           /\ computing' = [computing EXCEPT ![w] = Append(@, kept[w][i])]
           /\ UNCHANGED <<outgoing, link, owner, to, from, lost>>
    BY DEF Wake, network
  <1>2. /\ kept[w] \in Seq(Int) /\ i \in 1..Len(kept[w])
        /\ kept[w][i] \in Int /\ computing[w] \in Seq(Int)
        /\ Len(kept[w]) \in Nat /\ Len(computing[w]) \in Nat
    BY LenProperties DEF Shape
  <1>3. Len(kept'[w]) = Len(kept[w]) - 1
    <2>1. Len(RemoveAt(kept[w], i)) = Len(kept[w]) - 1
      BY <1>2, RemoveAtLen
    <2>2. kept'[w] = RemoveAt(kept[w], i)
      BY <1>1 DEF Shape
    <2> QED
      BY <2>1, <2>2
  <1>4. Len(computing'[w]) = Len(computing[w]) + 1
    <2>1. computing'[w] = Append(computing[w], kept[w][i])
      BY <1>1 DEF Shape
    <2> QED
      BY <1>2, <2>1, AppendProperties
  <1>5. /\ Queued(w)' = Queued(w) /\ Asked(w)' = Asked(w)
        /\ Answers(w)' = Answers(w)
    BY <1>1 DEF Queued, Asked, ConnectionsOf, Answers
  <1>6. /\ Queued(w) \in Nat /\ Asked(w) \in Nat /\ Answers(w) \in Nat
        /\ Spent(w) = Queued(w) + Len(computing[w]) + Asked(w) + Answers(w)
                      + Idle(w)
    BY SpentIs
  <1>7. Spent(w)' = Queued(w)' + Len(computing'[w]) + Asked(w)' + Answers(w)'
                    + Idle(w)'
    BY SpentIsAfter
  <1>8. /\ Idle(w) = Len(kept[w]) + lost[w] /\ lost[w] \in Nat
        /\ Idle(w)' = Len(kept'[w]) + lost[w]
    BY <1>1 DEF Idle, ThreadsKnown
  <1>9. PICK q \in Nat, c \in Nat, a \in Nat, b \in Nat, k \in Nat, l \in Nat :
           /\ q = Queued(w) /\ c = Len(computing[w]) /\ a = Asked(w)
           /\ b = Answers(w) /\ k = Len(kept[w]) /\ l = lost[w]
    BY <1>2, <1>6, <1>8
  <1>10. Spent(w) = q + c + a + b + (k + l)
    BY <1>6, <1>8, <1>9
  <1>11. Spent(w)' = q + (c + 1) + a + b + ((k - 1) + l)
    BY <1>3, <1>4, <1>5, <1>7, <1>8, <1>9
  <1> QED
    BY <1>10, <1>11

(* GoodBye is not a request. *)
LEMMA QuitUse ==
    ASSUME Shape, Shape', ThreadsKnown, NEW w \in Workers, Quit(w)
    PROVE  Spent(w)' = Spent(w)
  <1>1. /\ outgoing'[w] = Append(outgoing[w], GoodBye)
        /\ UNCHANGED <<computing, kept, link, owner, to, from, lost>>
    BY DEF Quit, Shape
  <1>2. Queued(w)' = Queued(w)
    <2>1. outgoing[w] \in Seq(AnyMessage) /\ GoodBye \in AnyMessage
      BY MessageType DEF Shape
    <2>2. Count(Append(outgoing[w], GoodBye), "REQUEST")
            = Count(outgoing[w], "REQUEST") + 0
      BY <2>1, CountAppend DEF GoodBye, Message
    <2> QED
      BY <1>1, <2>1, <2>2, PlacesFinite DEF Queued
  <1>3. Asked(w)' = Asked(w) /\ Answers(w)' = Answers(w)
    BY <1>1 DEF Asked, ConnectionsOf, Answers
  <1>4. InUse(w)' = InUse(w)
    BY <1>1, <1>2, <1>3 DEF InUse, Queued, Asked, Answers
  <1> QED
    BY <1>1, <1>4 DEF Spent, Idle

(* A connection that ends carries no more requests than before. *)
LEMMA ArrivesAsked ==
    ASSUME Shape, Shape', owner' = owner, NEW w \in Workers,
           NEW k \in Connections, owner[k] = w, NEW n \in 0..Len(to[k]),
           Arrives(k, n)
    PROVE  LET rest == Count(SubSeq(to[k], n + 1, Len(to[k])), "REQUEST")
           IN  rest \in Nat /\ Asked(w)' \in Nat /\ Asked(w) = Asked(w)' + rest
  <1> DEFINE rest == Count(SubSeq(to[k], n + 1, Len(to[k])), "REQUEST")
  <1>1. to'[k] = SubSeq(to[k], 1, n)
        /\ \A j \in Connections \ {k} : to'[j] = to[j]
    BY DEF Arrives, Shape
  <1>2. to[k] \in Seq(AnyMessage)
    BY DEF Shape
  <1>3. /\ SubSeq(to[k], n + 1, Len(to[k])) \in Seq(AnyMessage)
        /\ Count(to[k], "REQUEST") = Count(to'[k], "REQUEST") + rest
    BY <1>1, <1>2, CountCut
  <1>4. rest \in Nat
    BY <1>3, PlacesFinite
  <1>5. /\ Count(to[k], "REQUEST") \in Nat /\ Count(to'[k], "REQUEST") \in Nat
        /\ Asked(w)' = Asked(w) + Count(to'[k], "REQUEST")
                                - Count(to[k], "REQUEST")
    BY <1>1, AskedMoved
  <1>6. Asked(w) \in Nat /\ Asked(w)' \in Nat
    BY UseIs, UseIsAfter
  <1> HIDE DEF rest
  <1>7. Asked(w) = Asked(w)' + rest
    BY <1>3, <1>4, <1>5, <1>6
  <1> QED
    BY <1>4, <1>6, <1>7 DEF rest

(* What a worker that leaves or crashes had under way is gone. *)
LEMMA GoneUse ==
    ASSUME Shape, Shape', Connected, ThreadsKnown, NEW w \in Workers,
           Leave(w) \/ Crash(w)
    PROVE  Spent(w)' <= Spent(w) /\ worker'[w] = "gone"
  <1>1. /\ outgoing'[w] = <<>> /\ link'[w] = 0
        /\ computing'[w] = <<>> /\ kept'[w] = <<>>
        /\ worker'[w] = "gone" /\ lost' = lost /\ owner' = owner
    BY DEF Leave, Crash, Disconnected, Shape
  <1>2. Queued(w)' = 0 /\ Answers(w)' = 0
    BY <1>1, CountEmpty DEF Queued, Answers
  <1>3. Asked(w)' <= Asked(w)
    <2>1. CASE to' = to
      <3>1. Asked(w)' = Asked(w)
        BY <1>1, <2>1 DEF Asked, ConnectionsOf
      <3>2. Asked(w) \in Nat
        BY UseIs
      <3> QED
        BY <3>1, <3>2
    <2>2. CASE to' # to
      <3>1. Crash(w) /\ link[w] # 0
        BY <2>2 DEF Leave, Crash
      <3>2. PICK n \in 0..Len(to[link[w]]) : Arrives(link[w], n)
        BY <3>1 DEF Crash
      <3>3. link[w] \in Connections /\ owner[link[w]] = w
        BY <3>1, LinkOwner
      <3>4. PICK r : r \in Nat /\ Asked(w)' \in Nat /\ Asked(w) = Asked(w)' + r
        BY <1>1, <3>2, <3>3, ArrivesAsked
      <3> QED
        BY <3>4
    <2> QED
      BY <2>1, <2>2
  <1>4. Len(computing'[w]) = 0
    BY <1>1
  <1>5. /\ Queued(w) \in Nat /\ Asked(w) \in Nat /\ Answers(w) \in Nat
        /\ Len(computing[w]) \in Nat /\ Idle(w) \in Nat
        /\ Spent(w) = Queued(w) + Len(computing[w]) + Asked(w) + Answers(w)
                      + Idle(w)
    BY SpentIs
  <1>6. /\ Asked(w)' \in Nat /\ Len(computing'[w]) \in Nat
        /\ Spent(w)' = Queued(w)' + Len(computing'[w]) + Asked(w)' + Answers(w)'
                       + Idle(w)'
    BY SpentIsAfter
  <1>7. Idle(w)' <= Idle(w) /\ Idle(w)' \in Nat
    <2>1. Len(kept[w]) \in Nat /\ lost[w] \in Nat
      BY LenProperties DEF Shape, ThreadsKnown
    <2>2. Idle(w)' = 0 + lost[w]
      BY <1>1 DEF Idle
    <2> QED
      BY <2>1, <2>2 DEF Idle
  <1>8. Spent(w)' <= Spent(w)
    BY <1>2, <1>3, <1>4, <1>5, <1>6, <1>7
  <1> QED
    BY <1>1, <1>8

(* What a broken connection loses is counted. *)
LEMMA CutUse ==
    ASSUME Shape, Shape', Connected, ThreadsKnown, NEW w \in Workers, Cut(w)
    PROVE  Spent(w)' = Spent(w)
  <1>1. PICK k \in Connections : k = link[w] /\ k # 0 /\ owner[k] = w
    BY LinkOwner DEF Cut
  <1>2. PICK n \in 0..Len(to[k]) :
           /\ Arrives(k, n)
           /\ lost' = [lost EXCEPT ![w] = @ + Len(from[k])
                 + Count(SubSeq(to[k], n + 1, Len(to[k])), "REQUEST")]
    BY <1>1 DEF Cut
  <1>3. UNCHANGED <<outgoing, computing, kept, owner>> /\ link'[w] = 0
    BY DEF Cut, client, Disconnected, Shape
  <1>4. PICK r : /\ r \in Nat /\ Asked(w)' \in Nat
                 /\ Asked(w) = Asked(w)' + r
                 /\ Idle(w)' = Idle(w) + Len(from[k]) + r
    <2>1. PICK r : r = Count(SubSeq(to[k], n + 1, Len(to[k])), "REQUEST")
      OBVIOUS
    <2>2. r \in Nat /\ Asked(w)' \in Nat /\ Asked(w) = Asked(w)' + r
      BY <1>1, <1>2, <1>3, <2>1, ArrivesAsked
    <2>3. lost'[w] = lost[w] + Len(from[k]) + r /\ lost[w] \in Nat
      BY <1>2, <2>1 DEF ThreadsKnown
    <2>4. Len(kept[w]) \in Nat /\ Len(from[k]) \in Nat
      BY LenProperties DEF Shape
    <2>5. Idle(w) = Len(kept[w]) + lost[w] /\ Idle(w)' = Len(kept[w]) + lost'[w]
      BY <1>3 DEF Idle
    <2>6. PICK c \in Nat, l \in Nat, b \in Nat :
             c = Len(kept[w]) /\ l = lost[w] /\ b = Len(from[k])
      BY <2>3, <2>4
    <2>7. Idle(w) = c + l /\ Idle(w)' = c + (l + b + r)
      BY <2>3, <2>5, <2>6
    <2>8. Idle(w)' = Idle(w) + Len(from[k]) + r
      <3>1. PICK e \in Nat : e = r
        BY <2>2
      <3>2. Idle(w)' = c + (l + b + e)
        BY <2>7, <3>1
      <3>3. Idle(w) + Len(from[k]) + r = (c + l) + b + e
        BY <2>6, <2>7, <3>1
      <3> QED
        BY <3>2, <3>3
    <2> QED
      BY <2>2, <2>8
  <1>5. Len(from[k]) \in Nat
    BY LenProperties DEF Shape
  <1>6. Answers(w) = Len(from[k]) /\ Answers(w)' = 0
    BY <1>1, <1>3 DEF Answers
  <1>7. Queued(w)' = Queued(w) /\ Len(computing'[w]) = Len(computing[w])
    BY <1>3 DEF Queued
  <1>8. /\ Queued(w) \in Nat /\ Asked(w) \in Nat /\ Answers(w) \in Nat
        /\ Len(computing[w]) \in Nat /\ Idle(w) \in Nat
        /\ Spent(w) = Queued(w) + Len(computing[w]) + Asked(w) + Answers(w)
                      + Idle(w)
    BY SpentIs
  <1>9. /\ Queued(w)' \in Nat /\ Asked(w)' \in Nat /\ Answers(w)' \in Nat
        /\ Len(computing'[w]) \in Nat
        /\ Spent(w)' = Queued(w)' + Len(computing'[w]) + Asked(w)' + Answers(w)'
                       + Idle(w)'
    BY SpentIsAfter
  <1>10. PICK b : b \in Nat /\ b = Len(from[k])
    BY <1>5
  <1>11. /\ Spent(w)' = Queued(w) + Len(computing[w]) + Asked(w)' + 0
                         + (Idle(w) + b + r)
         /\ Spent(w) = Queued(w) + Len(computing[w]) + (Asked(w)' + r) + b + Idle(w)
    BY <1>4, <1>6, <1>7, <1>8, <1>9, <1>10
  <1>12. \A q, c, a, x, y, l \in Nat :
             q + c + a + 0 + (l + x + y) = q + c + (a + y) + x + l
    OBVIOUS
  <1>13. /\ Queued(w) \in Nat /\ Len(computing[w]) \in Nat /\ Idle(w) \in Nat
         /\ Asked(w)' \in Nat /\ b \in Nat /\ r \in Nat
    BY <1>4, <1>8, <1>10
  <1> QED
    BY <1>11, <1>12, <1>13

(* Where neither a queue, nor an answer, nor a loss changes. *)
LEMMA SameUse ==
    ASSUME Shape, Shape', NEW w \in Workers,
           UNCHANGED <<outgoing, computing, kept>>,
           Asked(w)' = Asked(w), Answers(w)' = Answers(w), lost'[w] = lost[w]
    PROVE  Spent(w)' = Spent(w)
  BY DEF Spent, InUse, Idle, Asked, Answers

(* A connection that is not open is nobody's link. *)
LEMMA AnswersOpen ==
    ASSUME Shape, Connected, link' = link, NEW k \in Connections,
           \A j \in Connections \ {k} : from'[j] = from[j]
    PROVE  \A w \in Workers :
               \/ Answers(w)' = Answers(w)
               \/ w = owner[k] /\ state[k] = "open" /\ link[w] = k
  <1> SUFFICES ASSUME NEW w \in Workers, link[w] = k => w # owner[k] \/ state[k] # "open"
               PROVE  Answers(w)' = Answers(w)
    OBVIOUS
  <1>1. link[w] # 0 => link[w] \in Connections \ {k}
    BY LinkOwner
  <1> QED
    BY <1>1 DEF Answers

(* The reader takes a message: a request, or none. *)
LEMMA AskedReceived ==
    ASSUME Shape, Shape', Connected, NEW k \in Connections, NEW type,
           Received(k, type), UNCHANGED <<client, network>>
    PROVE  /\ owner[k] \in Workers
           /\ \A w \in Workers :
                \/ Asked(w)' = Asked(w) /\ (w # owner[k] \/ type # "REQUEST")
                \/ /\ w = owner[k] /\ type = "REQUEST"
                   /\ Asked(w) = Asked(w)' + 1
  <1>1. /\ to[k] # <<>> /\ to'[k] = Tail(to[k]) /\ Head(to[k]).type = type
        /\ \A j \in Connections \ {k} : to'[j] = to[j]
        /\ owner' = owner
    BY DEF Received, Shape, network
  <1>2. owner[k] \in Workers
    BY <1>1, SenderKnown
  <1>3. to[k] \in Seq(AnyMessage)
    BY DEF Shape
  <1> DEFINE one == IF type = "REQUEST" THEN 1 ELSE 0
  <1>4. Count(to[k], "REQUEST") = Count(to'[k], "REQUEST") + one
    BY <1>1, <1>3, CountTail
  <1>5. /\ Count(to[k], "REQUEST") \in Nat /\ Count(to'[k], "REQUEST") \in Nat
        /\ \A w \in Workers :
             /\ owner[k] = w =>
                  Asked(w)' = Asked(w) + Count(to'[k], "REQUEST")
                                       - Count(to[k], "REQUEST")
             /\ owner[k] # w => Asked(w)' = Asked(w)
    BY <1>1, AskedMoved
  <1>6. \A w \in Workers : Asked(w) \in Nat
    BY UseIs
  <1>7. ASSUME NEW w \in Workers, w = owner[k]
        PROVE  Asked(w) = Asked(w)' + one
    <2>1. one \in Nat
      OBVIOUS
    <2> HIDE DEF one
    <2>2. Asked(w)' = Asked(w) + Count(to'[k], "REQUEST") - Count(to[k], "REQUEST")
          /\ Asked(w) \in Nat
      BY <1>5, <1>6, <1>7
    <2> QED
      BY <1>4, <1>5, <2>1, <2>2
  <1>8. CASE type = "REQUEST"
    <2>1. one = 1
      BY <1>8
    <2> QED
      BY <1>2, <1>5, <1>7, <1>8, <2>1
  <1>9. CASE type # "REQUEST"
    <2>1. \A w \in Workers : w = owner[k] => Asked(w)' = Asked(w)
      <3>1. one = 0
        BY <1>9
      <3> SUFFICES ASSUME NEW w \in Workers, w = owner[k]
                   PROVE  Asked(w)' = Asked(w)
        OBVIOUS
      <3>2. Asked(w) = Asked(w)' + 0
        BY <1>7, <3>1
      <3>3. Asked(w)' \in Nat
        BY UseIsAfter
      <3> QED
        BY <3>2, <3>3
    <2> QED
      BY <1>2, <1>5, <1>9, <2>1
  <1> QED
    BY <1>8, <1>9

(* Other messages change nothing here. *)
LEMMA QuietUse ==
    ASSUME Shape, Shape', Connected, NEW k \in Connections, NEW type,
           type # "REQUEST", Received(k, type),
           UNCHANGED <<client, network, from, lost>>,
           NEW w \in Workers
    PROVE  Spent(w)' = Spent(w)
  <1>1. Asked(w)' = Asked(w)
    BY AskedReceived
  <1>2. Answers(w)' = Answers(w)
    BY DEF Answers, network
  <1> QED
    BY <1>1, <1>2, SameUse DEF client

(* A request is answered; the answer is lost if nobody is there. *)
LEMMA RequestUse ==
    ASSUME Shape, Shape', Connected, ThreadsKnown, NEW k \in Connections,
           handle_requestworkunit_message(k), NEW w \in Workers
    PROVE  Spent(w)' = Spent(w)
  <1>1. Received(k, "REQUEST") /\ UNCHANGED <<client, network>>
    BY DEF handle_requestworkunit_message
  <1>2. /\ \/ Asked(w)' = Asked(w) /\ w # owner[k]
           \/ w = owner[k] /\ Asked(w) = Asked(w)' + 1
        /\ owner[k] \in Workers
    BY <1>1, AskedReceived
  <1>3. PICK start : Dispatch(k, start)
    BY DEF handle_requestworkunit_message
  <1>4. /\ from' = [from EXCEPT ![k] = Append(@, start)]
        /\ lost' = IF state[k] = "open" THEN lost
                   ELSE [lost EXCEPT ![owner[k]] = @ + 1]
    BY <1>3 DEF Dispatch
  <1>5. UNCHANGED <<outgoing, computing, kept, link, owner, state>>
    BY <1>1 DEF client, network
  <1>6. \/ Answers(w)' = Answers(w)
        \/ w = owner[k] /\ state[k] = "open" /\ link[w] = k
    <2>1. \A j \in Connections \ {k} : from'[j] = from[j]
      BY <1>4 DEF Shape
    <2> QED
      BY <1>5, <2>1, AnswersOpen
  <1>7. CASE w # owner[k]
    <2>1. lost'[w] = lost[w]
      BY <1>4, <1>7 DEF ThreadsKnown
    <2> QED
      BY <1>2, <1>5, <1>6, <1>7, <2>1, SameUse
  <1>8. CASE w = owner[k]
    <2>1. /\ Queued(w) \in Nat /\ Asked(w) \in Nat /\ Answers(w) \in Nat
          /\ Len(computing[w]) \in Nat /\ Idle(w) \in Nat
          /\ Spent(w) = Queued(w) + Len(computing[w]) + Asked(w) + Answers(w)
                        + Idle(w)
      BY SpentIs
    <2>2. /\ Asked(w)' \in Nat
          /\ Spent(w)' = Queued(w)' + Len(computing'[w]) + Asked(w)' + Answers(w)'
                         + Idle(w)'
      BY SpentIsAfter
    <2>3. Queued(w)' = Queued(w) /\ Len(computing'[w]) = Len(computing[w])
      BY <1>5 DEF Queued
    <2>4. Asked(w) = Asked(w)' + 1
      BY <1>2, <1>8
    <2>5. CASE state[k] = "open"
      <3>1. link[w] = k /\ k # 0
        BY <1>8, <2>5, OpenOwner DEF Connections
      <3>2. Len(from'[k]) = Len(from[k]) + 1
        <4>1. from'[k] = Append(from[k], start) /\ from[k] \in Seq(Int)
          BY <1>4 DEF Shape
        <4> QED
          BY <4>1
      <3>3. Answers(w)' = Answers(w) + 1
        BY <1>5, <3>1, <3>2 DEF Answers
      <3>4. Idle(w)' = Idle(w)
        BY <1>4, <1>5, <2>5 DEF Idle
      <3>5. Spent(w)' = Queued(w) + Len(computing[w]) + Asked(w)'
                        + (Answers(w) + 1) + Idle(w)
        BY <2>2, <2>3, <3>3, <3>4
      <3>6. PICK q \in Nat, c \in Nat, a \in Nat, b \in Nat, l \in Nat :
               /\ q = Queued(w) /\ c = Len(computing[w]) /\ a = Asked(w)'
               /\ b = Answers(w) /\ l = Idle(w)
        BY <2>1, <2>2
      <3>7. Spent(w)' = q + c + a + (b + 1) + l
        BY <3>5, <3>6
      <3>8. Spent(w) = q + c + (a + 1) + b + l
        BY <2>1, <2>4, <3>6
      <3> QED
        BY <3>7, <3>8
    <2>6. CASE state[k] # "open"
      <3>1. Answers(w)' = Answers(w)
        BY <1>6, <2>6
      <3>2. Idle(w)' = Idle(w) + 1
        <4>1. lost'[w] = lost[w] + 1 /\ lost[w] \in Nat
          BY <1>4, <1>8, <2>6 DEF ThreadsKnown
        <4>2. Len(kept[w]) \in Nat /\ kept' = kept
          BY <1>5, LenProperties DEF Shape
        <4> QED
          BY <4>1, <4>2 DEF Idle
      <3>3. Spent(w)' = Queued(w) + Len(computing[w]) + Asked(w)'
                        + Answers(w) + (Idle(w) + 1)
        BY <2>2, <2>3, <3>1, <3>2
      <3>4. PICK q \in Nat, c \in Nat, a \in Nat, b \in Nat, l \in Nat :
               /\ q = Queued(w) /\ c = Len(computing[w]) /\ a = Asked(w)'
               /\ b = Answers(w) /\ l = Idle(w)
        BY <2>1, <2>2
      <3>5. Spent(w)' = q + c + a + b + (l + 1)
        BY <3>3, <3>4
      <3>6. Spent(w) = q + c + (a + 1) + b + l
        BY <2>1, <2>4, <3>4
      <3> QED
        BY <3>5, <3>6
    <2> QED
      BY <2>5, <2>6
  <1> QED
    BY <1>7, <1>8

(* Requests that a destroyed connection did not read are lost. *)
LEMMA DestroyUse ==
    ASSUME Shape, Shape', Connected, ThreadsKnown, NEW k \in Connections,
           Destroy(k), NEW w \in Workers
    PROVE  Spent(w)' = Spent(w)
  <1>1. /\ state[k] = "cut"
        /\ UNCHANGED <<outgoing, computing, kept, link, owner>>
        /\ to'[k] = <<>>
        /\ \A j \in Connections \ {k} : to'[j] = to[j] /\ from'[j] = from[j]
        /\ lost' = [lost EXCEPT ![owner[k]] = @ + Count(to[k], "REQUEST")]
    BY DEF Destroy, Shape, client
  <1>2. Answers(w)' = Answers(w)
    BY <1>1, AnswersOpen
  <1>3. /\ Count(to[k], "REQUEST") \in Nat /\ Count(to'[k], "REQUEST") = 0
        /\ owner[k] = w =>
             Asked(w)' = Asked(w) + Count(to'[k], "REQUEST")
                                  - Count(to[k], "REQUEST")
        /\ owner[k] # w => Asked(w)' = Asked(w)
    BY <1>1, AskedMoved, CountEmpty
  <1>4. CASE w # owner[k]
    <2>1. lost'[w] = lost[w]
      BY <1>1, <1>4 DEF ThreadsKnown
    <2> QED
      BY <1>1, <1>2, <1>3, <1>4, <2>1, SameUse
  <1>5. CASE w = owner[k]
    <2>1. /\ Queued(w) \in Nat /\ Asked(w) \in Nat /\ Answers(w) \in Nat
          /\ Len(computing[w]) \in Nat /\ Idle(w) \in Nat
          /\ Spent(w) = Queued(w) + Len(computing[w]) + Asked(w) + Answers(w)
                        + Idle(w)
      BY SpentIs
    <2>2. /\ Asked(w)' \in Nat
          /\ Spent(w)' = Queued(w)' + Len(computing'[w]) + Asked(w)' + Answers(w)'
                         + Idle(w)'
      BY SpentIsAfter
    <2>3. Queued(w)' = Queued(w) /\ Len(computing'[w]) = Len(computing[w])
      BY <1>1 DEF Queued
    <2>4. PICK n \in Nat : n = Count(to[k], "REQUEST")
      BY <1>3
    <2>5. Asked(w)' = Asked(w) + 0 - n
      BY <1>3, <1>5, <2>4
    <2>6. Idle(w)' = Idle(w) + n
      <3>1. lost'[w] = lost[w] + n /\ lost[w] \in Nat
        BY <1>1, <1>5, <2>4 DEF ThreadsKnown
      <3>2. Len(kept[w]) \in Nat /\ kept' = kept
        BY <1>1, LenProperties DEF Shape
      <3> QED
        BY <3>1, <3>2 DEF Idle
    <2>7. Spent(w)' = Queued(w) + Len(computing[w]) + (Asked(w) + 0 - n)
                      + Answers(w) + (Idle(w) + n)
      BY <1>2, <2>2, <2>3, <2>5, <2>6
    <2>8. PICK q \in Nat, c \in Nat, a \in Nat, b \in Nat, l \in Nat :
             /\ q = Queued(w) /\ c = Len(computing[w]) /\ a = Asked(w)
             /\ b = Answers(w) /\ l = Idle(w)
      BY <2>1
    <2>9. Spent(w)' = q + c + (a + 0 - n) + b + (l + n)
      BY <2>7, <2>8
    <2>10. Spent(w) = q + c + a + b + l
      BY <2>1, <2>8
    <2> QED
      BY <2>9, <2>10
  <1> QED
    BY <1>4, <1>5

(* No step makes up for a thread that is idle. *)
LEMMA UseStep ==
    ASSUME Inv, Inv', ThreadsKnown, [Next]_vars, NEW w \in Workers
    PROVE  /\ Spent(w)' <= Spent(w)
           /\ worker'[w] = "running" => /\ worker[w] = "running"
                                        /\ Spent(w)' = Spent(w)
  <1>1. Shape /\ Shape' /\ Connected /\ ConnectsBounded
    BY DEF Inv
  <1>2. Spent(w) \in Int
    BY <1>1, SpentIs
  <1>3. ASSUME Spent(w)' = Spent(w), worker'[w] = worker[w]
        PROVE  /\ Spent(w)' <= Spent(w)
               /\ worker'[w] = "running" => /\ worker[w] = "running"
                                            /\ Spent(w)' = Spent(w)
    BY <1>2, <1>3
  <1>4. CASE Worker(w)
    <2>1. CASE Connect(w)
      BY <1>1, <1>3, <2>1, ConnectUse DEF Connect
    <2>2. CASE Send(w)
      BY <1>1, <1>3, <2>2, SendUse DEF Send
    <2>3. CASE Receive(w) \/ Replace(w)
      <3>1. worker' = worker
        BY <2>3 DEF Receive, Replace
      <3> QED
        BY <1>1, <1>3, <2>3, <3>1, ReceiveUse
    <2>4. CASE Finish(w)
      BY <1>1, <1>3, <2>4, FinishUse DEF Finish, FinishUnit
    <2>5. CASE Leave(w) \/ Crash(w)
      BY <1>1, <2>5, GoneUse
    <2>6. CASE Quit(w)
      <3>1. worker'[w] = "quitting" /\ Spent(w)' = Spent(w)
        BY <1>1, <2>6, QuitUse DEF Quit, Shape
      <3> QED
        BY <1>2, <3>1
    <2>7. CASE Cut(w)
      BY <1>1, <1>3, <2>7, CutUse DEF Cut, client
    <2>8. CASE Keep(w)
      BY <1>1, <1>3, <2>8, KeepUse DEF Keep
    <2>9. CASE Wake(w)
      BY <1>1, <1>3, <2>9, WakeUse DEF Wake
    <2> QED
      BY <1>4, <2>1, <2>2, <2>3, <2>4, <2>5, <2>6, <2>7, <2>8, <2>9
      DEF Worker, Reader
  <1>5. ASSUME NEW v \in Workers \ {w},
               Worker(v)
        PROVE  Spent(w)' = Spent(w) /\ worker'[w] = worker[w]
    BY <1>1, <1>5, OthersUse
  <1>6. ASSUME NEW k \in Connections, Connection(k)
        PROVE  Spent(w)' = Spent(w) /\ worker'[w] = worker[w]
    <2>1. worker' = worker
      BY <1>6 DEF Connection, handle_helo_message, handle_goodbye_message,
                  handle_workunitresult_message, handle_requestworkunit_message,
                  ReaderReports, WriterReports, Destroy, client
    <2>2. CASE handle_helo_message(k)
      BY <1>1, <2>1, <2>2, QuietUse DEF handle_helo_message
    <2>3. CASE handle_goodbye_message(k)
      BY <1>1, <2>1, <2>3, QuietUse DEF handle_goodbye_message
    <2>4. CASE handle_workunitresult_message(k)
      BY <1>1, <2>1, <2>4, QuietUse DEF handle_workunitresult_message
    <2>5. CASE handle_requestworkunit_message(k)
      BY <1>1, <2>1, <2>5, RequestUse
    <2>6. CASE ReaderReports(k) \/ WriterReports(k)
      <3>1. UNCHANGED <<client, network, to, from, lost>>
        BY <2>6 DEF ReaderReports, WriterReports
      <3> QED
        BY <2>1, <3>1 DEF Spent, InUse, Idle, ConnectionsOf, client, network
    <2>7. CASE Destroy(k)
      BY <1>1, <2>1, <2>7, DestroyUse
    <2> QED
      BY <1>6, <2>1, <2>2, <2>3, <2>4, <2>5, <2>6, <2>7 DEF Connection
  <1>7. CASE Expire \/ UNCHANGED vars
    <2>1. UNCHANGED <<client, network, to, from, lost>>
      BY <1>7 DEF Expire, vars
    <2>2. Spent(w)' = Spent(w) /\ worker'[w] = worker[w]
      BY <2>1 DEF Spent, InUse, Idle, ConnectionsOf, client, network
    <2> QED
      BY <1>3, <2>2
  <1> QED
    BY <1>3, <1>4, <1>5, <1>6, <1>7 DEF Next

(* What is lost is counted in full, and no answer is before its connection. *)
LEMMA LostKnown ==
    ASSUME Inv, Inv', ThreadsKnown, [Next]_vars
    PROVE  /\ lost' \in [Workers -> Nat]
           /\ \A k \in Connections : k > connects' => from'[k] = <<>>
  <1>1. Shape /\ Shape' /\ Connected /\ ConnectsBounded
    BY DEF Inv
  <1>2. \A k \in Connections : k \in Nat /\ connects \in Nat
    BY <1>1 DEF Shape, Connections
  <1>3. ASSUME lost' = lost, connects' = connects \/ connects' = connects + 1,
               from' = from
        PROVE  /\ lost' \in [Workers -> Nat]
               /\ \A k \in Connections : k > connects' => from'[k] = <<>>
    <2>1. \A k \in Connections : k > connects' => k > connects
      BY <1>2, <1>3
    <2> QED
      BY <1>3, <2>1 DEF ThreadsKnown
  <1>4. ASSUME NEW w \in Workers, Receive(w) \/ Replace(w)
        PROVE  /\ lost' \in [Workers -> Nat]
               /\ \A k \in Connections : k > connects' => from'[k] = <<>>
    <2>1. /\ link[w] \in Connections /\ from[link[w]] # <<>>
          /\ \A k \in Connections \ {link[w]} : from'[k] = from[k]
          /\ lost' = lost \/ lost' = [lost EXCEPT ![w] = @ + 1]
          /\ connects' = connects
      <3>1. link[w] \in Connections /\ from[link[w]] # <<>>
        BY <1>1, <1>4, LinkOwner DEF Receive, Replace
      <3>2. /\ from' = [from EXCEPT ![link[w]] = Tail(@)]
            /\ lost' = lost \/ lost' = [lost EXCEPT ![w] = @ + 1]
            /\ connects' = connects
        BY <1>4 DEF Receive, Replace, network
      <3> QED
        BY <1>1, <3>1, <3>2 DEF Shape
    <2>2. lost' \in [Workers -> Nat]
      BY <2>1 DEF ThreadsKnown
    <2> QED
      BY <2>1, <2>2 DEF ThreadsKnown
  <1>5. ASSUME NEW w \in Workers, Cut(w)
        PROVE  /\ lost' \in [Workers -> Nat]
               /\ \A k \in Connections : k > connects' => from'[k] = <<>>
    <2>1. PICK k \in Connections : k = link[w]
      BY <1>1, <1>5, LinkOwner DEF Cut
    <2>2. PICK n \in 0..Len(to[k]) :
             lost' = [lost EXCEPT ![w] = @ + Len(from[k])
                   + Count(SubSeq(to[k], n + 1, Len(to[k])), "REQUEST")]
      BY <1>5, <2>1 DEF Cut
    <2>3. Len(from[k]) \in Nat /\ to[k] \in Seq(AnyMessage)
      BY <1>1, LenProperties DEF Shape
    <2>4. Count(SubSeq(to[k], n + 1, Len(to[k])), "REQUEST") \in Nat
      BY <2>3, CountCut, PlacesFinite
    <2>5. lost' \in [Workers -> Nat]
      BY <2>2, <2>3, <2>4 DEF ThreadsKnown
    <2>6. from' = from /\ connects' = connects
      BY <1>5 DEF Cut, Disconnected
    <2> QED
      BY <2>5, <2>6 DEF ThreadsKnown
  <1>6. ASSUME NEW k \in Connections, Connection(k)
        PROVE  /\ lost' \in [Workers -> Nat]
               /\ \A j \in Connections : j > connects' => from'[j] = <<>>
    <2>1. CASE handle_requestworkunit_message(k)
      <3>1. PICK start : Dispatch(k, start)
        BY <2>1 DEF handle_requestworkunit_message
      <3>2. to[k] # <<>> /\ owner[k] \in Workers /\ connects' = connects
        BY <1>1, <2>1, SenderKnown
        DEF handle_requestworkunit_message, Received, network
      <3>3. ~(k > connects)
        BY <1>1, <3>2 DEF Connected
      <3>4. \A j \in Connections \ {k} : from'[j] = from[j]
        BY <1>1, <3>1 DEF Dispatch, Shape
      <3>5. lost' \in [Workers -> Nat]
        BY <3>1, <3>2 DEF Dispatch, ThreadsKnown
      <3> QED
        BY <3>2, <3>3, <3>4, <3>5 DEF ThreadsKnown
    <2>2. CASE Destroy(k)
      <3>1. PICK n \in Nat : n = Count(to[k], "REQUEST")
        BY <1>1, PlacesFinite DEF Shape
      <3>2. /\ \A j \in Connections : from'[j] = from[j] \/ from'[j] = <<>>
            /\ lost' = [lost EXCEPT ![owner[k]] = @ + n]
            /\ connects' = connects
        BY <1>1, <2>2, <3>1 DEF Destroy, Shape
      <3>3. lost' \in [Workers -> Nat]
        <4>1. lost \in [Workers -> Nat]
          BY DEF ThreadsKnown
        <4>2. \A v \in Workers : lost[v] + n \in Nat
          BY <4>1
        <4> QED
          BY <3>2, <4>1, <4>2
      <3> QED
        BY <3>2, <3>3 DEF ThreadsKnown
    <2>3. CASE ~handle_requestworkunit_message(k) /\ ~Destroy(k)
      BY <1>3, <1>6, <2>3
      DEF Connection, handle_helo_message, handle_goodbye_message,
          handle_workunitresult_message, ReaderReports, WriterReports, network
    <2> QED
      BY <2>1, <2>2, <2>3
  <1>7. CASE Expire \/ UNCHANGED vars
    BY <1>3, <1>7 DEF Expire, vars, network
  <1>8. ASSUME NEW w \in Workers,
               \/ Connect(w) \/ Send(w) \/ Finish(w) \/ Keep(w) \/ Wake(w)
               \/ Leave(w) \/ Quit(w) \/ Crash(w)
        PROVE  /\ lost' \in [Workers -> Nat]
               /\ \A k \in Connections : k > connects' => from'[k] = <<>>
    BY <1>3, <1>8 DEF Connect, Send, Finish, FinishUnit, Keep, Wake, Leave,
                      Quit, Crash, network, Disconnected
  <1> QED
    BY <1>4, <1>5, <1>6, <1>7, <1>8 DEF Next, Worker, Reader

LEMMA ThreadsKnownInit == Init => ThreadsKnown
  <1> SUFFICES ASSUME Init
               PROVE  ThreadsKnown
    OBVIOUS
  <1>1. PICK team \in [Workers -> 0..NThreads] :
           /\ outgoing = [w \in Workers |-> [i \in 1..team[w] |-> Request]]
           /\ lost = [w \in Workers |-> NThreads - team[w]]
    BY InitialTeam
  <1>2. ASSUME NEW w \in Workers
        PROVE  Spent(w) = NThreads
    <2>1. PICK n \in Nat : n = team[w]
      BY <1>2, <1>1, BoundsAssumption
    <2>2. Count(outgoing[w], "REQUEST") = n
      <3>1. Places(outgoing[w], "REQUEST") = 1..n
        BY <1>1, <1>2, <2>1 DEF Places, Request, Message
      <3>2. Cardinality(1..n) = n
        BY FS_Interval
      <3> QED
        BY <3>1, <3>2 DEF Count
    <2>3. Len(computing[w]) = 0 /\ Len(kept[w]) = 0 /\ link[w] = 0
      BY <1>2 DEF Init
    <2>4. Cardinality(Within(to, ConnectionsOf(w), "REQUEST")) = 0
      <3>1. Within(to, ConnectionsOf(w), "REQUEST") = {}
        BY CountEmpty DEF Init, Within, ConnectionsOf
      <3> QED
        BY <3>1, FS_EmptySet
    <2>5. InUse(w) = n + 0 + 0 + 0
      BY <2>2, <2>3, <2>4 DEF InUse
    <2>6. lost[w] = NThreads - n
      BY <1>1, <1>2, <2>1
    <2> QED
      BY <2>3, <2>5, <2>6, BoundsAssumption DEF Spent, Idle
  <1>3. \A w \in Workers : lost[w] \in Nat
    <2> SUFFICES ASSUME NEW w \in Workers
                 PROVE  lost[w] \in Nat
      OBVIOUS
    <2>1. team[w] \in 0..NThreads /\ lost[w] = NThreads - team[w]
      BY <1>1
    <2> QED
      BY <2>1, BoundsAssumption
  <1>4. lost \in [Workers -> Nat]
    BY <1>1, <1>3
  <1>5. \A k \in Connections : from[k] = <<>>
    BY DEF Init
  <1> QED
    BY <1>2, <1>4, <1>5, BoundsAssumption DEF ThreadsKnown

LEMMA ThreadsKnownStep == Inv /\ ThreadsKnown /\ [Next]_vars => ThreadsKnown'
  <1> SUFFICES ASSUME Inv, ThreadsKnown, [Next]_vars
               PROVE  ThreadsKnown'
    OBVIOUS
  <1>1. Inv'
    BY InvStep
  <1>2. /\ lost' \in [Workers -> Nat]
        /\ \A k \in Connections : k > connects' => from'[k] = <<>>
    BY <1>1, LostKnown
  <1>3. ASSUME NEW w \in Workers
        PROVE  /\ Spent(w)' <= NThreads
               /\ worker'[w] = "running" => Spent(w)' = NThreads
    <2>1. /\ Spent(w)' <= Spent(w)
          /\ worker'[w] = "running" => /\ worker[w] = "running"
                                       /\ Spent(w)' = Spent(w)
      BY <1>1, UseStep
    <2>2. /\ Spent(w) <= NThreads
          /\ worker[w] = "running" => Spent(w) = NThreads
      BY DEF ThreadsKnown
    <2>3. Spent(w) \in Int
      BY SpentIs DEF Inv
    <2>4. Spent(w)' \in Int
      <3>1. /\ Queued(w)' \in Nat /\ Asked(w)' \in Nat /\ Answers(w)' \in Nat
            /\ Len(computing'[w]) \in Nat
            /\ Spent(w)' = Queued(w)' + Len(computing'[w]) + Asked(w)'
                           + Answers(w)' + Idle(w)'
        BY <1>1, SpentIsAfter DEF Inv
      <3>2. Idle(w)' \in Nat
        <4>1. Len(kept'[w]) \in Nat /\ lost'[w] \in Nat
          BY <1>1, <1>2, LenProperties DEF Inv, Shape
        <4> QED
          BY <4>1 DEF Idle
      <3> QED
        BY <3>1, <3>2
    <2> QED
      BY <2>1, <2>2, <2>3, <2>4, BoundsAssumption
  <1> QED
    BY <1>2, <1>3 DEF ThreadsKnown

LEMMA ThreadsKnownCorrect == Spec => []ThreadsKnown
  BY ThreadsKnownInit, ThreadsKnownStep, InvCorrect, PTL DEF Spec

(***************************************************************************)
(* A running worker has a request, an answer or a unit under way for each  *)
(* of its threads, over any reconnections, late reports and destroyed      *)
(* connections, but for those that a broken connection lost.               *)
(***************************************************************************)
THEOREM AllThreadsAccounted == Spec => []ThreadsAccounted
  <1>1. ThreadsKnown => ThreadsAccounted
    BY DEF ThreadsKnown, ThreadsAccounted, Spent
  <1> QED
    BY <1>1, ThreadsKnownCorrect, PTL

-----------------------------------------------------------------------------
(* Every message is about a unit the ledger follows, or one beyond it *)

StartsKnown ==
    /\ \A c \in active_work_units : c.work_unit.start \in Starts
    /\ outgoing \in [Workers -> Seq(Messages)]
    /\ computing \in [Workers -> Seq(Starts)]
    /\ kept \in [Workers -> Seq(Starts)]
    /\ to \in [Connections -> Seq(Messages)]
    /\ from \in [Connections -> Seq(Starts)]
    /\ abandoned \subseteq Starts \X Workers

LEMMA StartType ==
    /\ Beyond \in Starts
    /\ Helo \in Messages /\ GoodBye \in Messages /\ Request \in Messages
    /\ \A s \in Starts : Result(s) \in Messages
  BY DEF Helo, GoodBye, Request, Result, Message, Beyond, Messages,
         MessageTypes, Starts

LEMMA ArrivesStarts ==
    ASSUME StartsKnown, NEW k \in Connections, NEW n \in 0..Len(to[k]),
           Arrives(k, n)
    PROVE  to' \in [Connections -> Seq(Messages)]
  <1>1. SubSeq(to[k], 1, n) \in Seq(Messages)
    BY PartType, 1 \in Nat \ {0} DEF StartsKnown
  <1> QED
    BY <1>1 DEF StartsKnown, Arrives

LEMMA WorkerStarts ==
    ASSUME Shape, StartsKnown, NEW w \in Workers,
           Worker(w)
    PROVE  StartsKnown'
  <1> USE StartType
  <1>0. /\ link[w] \in Connections \union {0}
        /\ outgoing[w] \in Seq(Messages) /\ computing[w] \in Seq(Starts)
        /\ kept[w] \in Seq(Starts)
    BY DEF Shape, StartsKnown
  <1>1. CASE Connect(w)
    <2>1. Append(outgoing[w], Helo) \in Seq(Messages)
      BY <1>0, AppendProperties
    <2>2. outgoing' \in [Workers -> Seq(Messages)]
      BY <1>1, <2>1 DEF Connect, StartsKnown
    <2> QED
      BY <1>1, <2>2 DEF Connect, StartsKnown, ledger
  <1>2. CASE Send(w)
    <2>1. link[w] \in Connections
      BY <1>0, <1>2 DEF Send
    <2>2. /\ Head(outgoing[w]) \in Messages
          /\ Tail(outgoing[w]) \in Seq(Messages)
      BY <1>0, <1>2, HeadTailProperties DEF Send
    <2>3. Append(to[link[w]], Head(outgoing[w])) \in Seq(Messages)
      BY <2>1, <2>2, AppendProperties DEF StartsKnown
    <2> QED
      BY <1>2, <2>1, <2>2, <2>3 DEF Send, StartsKnown, ledger
  <1>3. CASE Receive(w)
    <2>1. link[w] \in Connections /\ from[link[w]] \in Seq(Starts)
      BY <1>0, <1>3 DEF Receive, StartsKnown
    <2>2. /\ Head(from[link[w]]) \in Starts
          /\ Tail(from[link[w]]) \in Seq(Starts)
      BY <1>3, <2>1, HeadTailProperties DEF Receive
    <2>3. Append(computing[w], Head(from[link[w]])) \in Seq(Starts)
      BY <1>0, <2>2, AppendProperties
    <2> QED
      BY <1>3, <2>1, <2>2, <2>3 DEF Receive, StartsKnown, ledger
  <1>4. CASE Finish(w)
    <2>1. PICK i \in DOMAIN computing[w] :
              /\ computing' = [computing EXCEPT ![w] = RemoveAt(@, i)]
              /\ outgoing' = [outgoing EXCEPT ![w] =
                                 @ \o <<Result(computing[w][i]), Request>>]
      BY <1>4 DEF Finish, FinishUnit
    <2>2. i \in 1..Len(computing[w])
      BY <1>0, LenProperties
    <2>3. computing[w][i] \in Starts /\ RemoveAt(computing[w], i) \in Seq(Starts)
      BY <1>0, <2>2, ElementOfSeq, RemoveAtType
    <2>4. <<Result(computing[w][i]), Request>> \in Seq(Messages)
      BY <2>3
    <2>5. outgoing[w] \o <<Result(computing[w][i]), Request>> \in Seq(Messages)
      BY <1>0, <2>4, ConcatProperties
    <2> QED
      BY <1>4, <2>1, <2>3, <2>5 DEF Finish, FinishUnit, StartsKnown, ledger
  <1>5. CASE Leave(w)
    BY <1>5, EmptySeq DEF Leave, StartsKnown, ledger
  <1>6. CASE Quit(w)
    <2>1. Append(outgoing[w], GoodBye) \in Seq(Messages)
      BY <1>0, AppendProperties
    <2> QED
      BY <1>6, <2>1, EmptySeq DEF Quit, StartsKnown, ledger
  <1>7. CASE Crash(w)
    <2>1. to' \in [Connections -> Seq(Messages)]
      <3>1. CASE link[w] = 0
        BY <1>7, <3>1 DEF Crash, StartsKnown
      <3>2. CASE link[w] # 0
        BY <1>0, <1>7, <3>2, ArrivesStarts DEF Crash
      <3> QED
        BY <3>1, <3>2
    <2> QED
      BY <1>7, <2>1, EmptySeq DEF Crash, StartsKnown, ledger
  <1>8. CASE Cut(w)
    <2>1. to' \in [Connections -> Seq(Messages)]
      BY <1>0, <1>8, ArrivesStarts DEF Cut
    <2> QED
      BY <1>8, <2>1 DEF Cut, StartsKnown, ledger, client
  <1>9. CASE Replace(w)
    <2>1. PICK j \in DOMAIN kept[w] :
             /\ kept' = [kept EXCEPT ![w] = RemoveAt(@, j)]
             /\ abandoned' = abandoned \union {<<kept[w][j], w>>}
      BY <1>9 DEF Replace
    <2>2. link[w] \in Connections /\ from[link[w]] \in Seq(Starts)
      BY <1>0, <1>9 DEF Replace, StartsKnown
    <2>3. /\ Head(from[link[w]]) \in Starts
          /\ Tail(from[link[w]]) \in Seq(Starts)
      BY <1>9, <2>2, HeadTailProperties DEF Replace
    <2>4. Append(computing[w], Head(from[link[w]])) \in Seq(Starts)
      BY <1>0, <2>3, AppendProperties
    <2>5. j \in 1..Len(kept[w])
      BY <1>0, LenProperties
    <2>6. kept[w][j] \in Starts /\ RemoveAt(kept[w], j) \in Seq(Starts)
      BY <1>0, <2>5, ElementOfSeq, RemoveAtType
    <2>7. abandoned' \subseteq Starts \X Workers
      BY <2>1, <2>6 DEF StartsKnown
    <2>8. /\ from' = [from EXCEPT ![link[w]] = Tail(@)]
          /\ computing' = [computing EXCEPT ![w] = Append(@, Head(from[link[w]]))]
          /\ UNCHANGED <<active_work_units, outgoing, to>>
      BY <1>9 DEF Replace, ledger
    <2> QED
      BY <2>1, <2>2, <2>3, <2>4, <2>6, <2>7, <2>8 DEF StartsKnown
  <1>10. CASE Keep(w)
    <2>1. PICK i \in DOMAIN computing[w] :
             /\ computing' = [computing EXCEPT ![w] = RemoveAt(@, i)]
             /\ kept' = [kept EXCEPT ![w] = Append(@, computing[w][i])]
      BY <1>10 DEF Keep
    <2>2. i \in 1..Len(computing[w])
      BY <1>0, LenProperties
    <2>3. computing[w][i] \in Starts /\ RemoveAt(computing[w], i) \in Seq(Starts)
      BY <1>0, <2>2, ElementOfSeq, RemoveAtType
    <2>4. Append(kept[w], computing[w][i]) \in Seq(Starts)
      BY <1>0, <2>3, AppendProperties
    <2> QED
      BY <1>10, <2>1, <2>3, <2>4 DEF Keep, StartsKnown, ledger
  <1>11. CASE Wake(w)
    <2>1. PICK j \in DOMAIN kept[w] :
             /\ kept' = [kept EXCEPT ![w] = RemoveAt(@, j)]
             /\ computing' = [computing EXCEPT ![w] = Append(@, kept[w][j])]
      BY <1>11 DEF Wake
    <2>2. j \in 1..Len(kept[w])
      BY <1>0, LenProperties
    <2>3. kept[w][j] \in Starts /\ RemoveAt(kept[w], j) \in Seq(Starts)
      BY <1>0, <2>2, ElementOfSeq, RemoveAtType
    <2>4. Append(computing[w], kept[w][j]) \in Seq(Starts)
      BY <1>0, <2>3, AppendProperties
    <2> QED
      BY <1>11, <2>1, <2>3, <2>4 DEF Wake, StartsKnown, ledger
  <1> QED
    BY <1>1, <1>2, <1>3, <1>4, <1>5, <1>6, <1>7, <1>8, <1>9, <1>10, <1>11
    DEF Worker, Reader

(* mark_all leaves the units themselves alone. *)
LEMMA MarkAllStarts ==
    ASSUME LedgerInv, StartsKnown, NEW w, NEW s \in Ledger!States,
           Ledger!MarkAll(w, s)
    PROVE  \A c \in active_work_units' : c.work_unit.start \in Starts
  <1> SUFFICES ASSUME NEW d \in active_work_units'
               PROVE  d.work_unit.start \in Starts
    OBVIOUS
  <1>1. PICK b \in active_work_units :
            d = IF b.worker_id = w THEN Ledger!Marked(b, s) ELSE b
    BY DEF Ledger!MarkAll
  <1>2. b \in Facts!ControlBlocks
    BY DEF LedgerInv, Facts!UniqueInv, Facts!TypeOK
  <1>3. Ledger!Marked(b, s).work_unit = b.work_unit
    <2>1. Ledger!Marked(b, s)
            = [b EXCEPT !.state = s, !.expired = FALSE,
                        !.worker_id = IF s = "DISOWNED" THEN NoWorker ELSE @]
      BY DEF Ledger!Marked
    <2> QED
      BY <1>2, <2>1 DEF Facts!ControlBlocks
  <1>4. d.work_unit = b.work_unit
    BY <1>1, <1>3
  <1> QED
    BY <1>4 DEF StartsKnown

LEMMA ReceivedStarts ==
    ASSUME StartsKnown, NEW k \in Connections, NEW type, Received(k, type)
    PROVE  to' \in [Connections -> Seq(Messages)]
  <1>1. Tail(to[k]) \in Seq(Messages)
    BY HeadTailProperties DEF StartsKnown, Received
  <1> QED
    BY <1>1 DEF StartsKnown, Received

(* An answer is about a unit of the list, a new one, or one beyond them. *)
LEMMA RequestStarts ==
    ASSUME Inv, StartsKnown, NEW k \in Connections,
           handle_requestworkunit_message(k)
    PROVE  StartsKnown'
  <1>1. Received(k, "REQUEST") /\ UNCHANGED <<client, network>>
    BY DEF handle_requestworkunit_message
  <1>2. to' \in [Connections -> Seq(Messages)]
    BY <1>1, ReceivedStarts
  <1>3. ASSUME NEW start \in Starts, Dispatch(k, start)
        PROVE  /\ from' \in [Connections -> Seq(Starts)]
               /\ abandoned' \subseteq Starts \X Workers
    <2>1. Append(from[k], start) \in Seq(Starts)
      BY AppendProperties DEF StartsKnown
    <2> QED
      BY <1>3, <2>1 DEF Dispatch, StartsKnown
  <1>4. ASSUME NEW start \in Starts, Dispatch(k, start),
               \A c \in active_work_units' : c.work_unit.start \in Starts
        PROVE  StartsKnown'
    BY <1>1, <1>2, <1>3, <1>4 DEF StartsKnown, client
  <1>5. CASE \E c \in active_work_units :
               Ledger!Claim(owner[k], c) /\ Dispatch(k, c.work_unit.start)
    <2>1. PICK c \in active_work_units :
             Ledger!Claim(owner[k], c) /\ Dispatch(k, c.work_unit.start)
      BY <1>5
    <2>2. c \in Facts!ControlBlocks /\ c.work_unit.start \in Starts
      BY DEF Inv, LedgerInv, Facts!UniqueInv, Facts!TypeOK, StartsKnown
    <2> DEFINE e == [c EXCEPT !.state = "OWNED", !.worker_id = owner[k],
                              !.expired = FALSE]
    <2>3. e.work_unit = c.work_unit
      BY <2>2 DEF Facts!ControlBlocks
    <2>4. active_work_units' = (active_work_units \ {c}) \union {e}
      BY <2>1 DEF Ledger!Claim
    <2> HIDE DEF e
    <2>5. \A d \in active_work_units' : d.work_unit.start \in Starts
      BY <2>2, <2>3, <2>4 DEF StartsKnown
    <2> QED
      BY <1>4, <2>1, <2>2, <2>5
  <1>6. CASE Ledger!DispatchNew(owner[k]) /\ Dispatch(k, next_digit)
    <2>1. /\ next_digit \in Nat /\ InitialDigit <= next_digit
          /\ next_digit < MaxDigit
      BY <1>6 DEF Inv, LedgerInv, Facts!UniqueInv, Facts!TypeOK,
                  Facts!WithinBounds, Ledger!DispatchNew
    <2>2. next_digit \in Starts
      BY <2>1, LedgerAssumption DEF Starts
    <2> DEFINE e == [work_unit |-> [start |-> next_digit,
                                    n_digits |-> Ledger!UnitSize(next_digit)],
                     state |-> "OWNED", worker_id |-> owner[k],
                     expired |-> FALSE]
    <2>3. /\ active_work_units' = active_work_units \union {e}
          /\ e.work_unit.start = next_digit
      BY <1>6 DEF Ledger!DispatchNew
    <2> HIDE DEF e
    <2>4. \A d \in active_work_units' : d.work_unit.start \in Starts
      BY <2>2, <2>3 DEF StartsKnown
    <2> QED
      BY <1>4, <1>6, <2>2, <2>4
  <1>7. CASE UNCHANGED ledger /\ Dispatch(k, Beyond)
    <2>1. active_work_units' = active_work_units
      BY <1>7 DEF ledger
    <2> QED
      BY <1>4, <1>7, <2>1, StartType DEF StartsKnown
  <1> QED
    BY <1>5, <1>6, <1>7 DEF handle_requestworkunit_message

LEMMA ConnectionStarts ==
    ASSUME Inv, StartsKnown, NEW k \in Connections, Connection(k)
    PROVE  StartsKnown'
  <1>0. Shape /\ Connected /\ LedgerInv
    BY DEF Inv
  <1>1. \A w : Forget(w) \subseteq Starts \X Workers
    BY DEF Forget, StartsKnown
  <1>2. CASE handle_helo_message(k)
    <2>1. /\ Received(k, "HELO") /\ Ledger!MarkAll(owner[k], "OWNED")
          /\ UNCHANGED <<client, from>>
          /\ abandoned' = Forget(owner[k]) \union
               {<<c.work_unit.start, owner[k]>> :
                   c \in {b \in active_work_units : b.worker_id = owner[k]
                                      /\ ~Holds(owner[k], b.work_unit.start)}}
      BY <1>2 DEF handle_helo_message
    <2>2. owner[k] \in Workers
      BY <1>0, <2>1, SenderKnown DEF Received
    <2>3. abandoned' \subseteq Starts \X Workers
      BY <1>1, <2>1, <2>2 DEF StartsKnown
    <2>4. \A c \in active_work_units' : c.work_unit.start \in Starts
      BY <1>0, <2>1, MarkAllStarts DEF Ledger!States
    <2>5. to' \in [Connections -> Seq(Messages)]
      BY <2>1, ReceivedStarts
    <2> QED
      BY <2>1, <2>3, <2>4, <2>5 DEF StartsKnown, client
  <1>3. CASE handle_goodbye_message(k)
    <2>1. /\ Received(k, "BYE") /\ Ledger!MarkAll(owner[k], "DISOWNED")
          /\ UNCHANGED <<client, from>>
          /\ abandoned' = Forget(owner[k])
      BY <1>3 DEF handle_goodbye_message
    <2>2. \A c \in active_work_units' : c.work_unit.start \in Starts
      BY <1>0, <2>1, MarkAllStarts DEF Ledger!States
    <2>3. to' \in [Connections -> Seq(Messages)]
      BY <2>1, ReceivedStarts
    <2> QED
      BY <1>1, <2>1, <2>2, <2>3 DEF StartsKnown, client
  <1>4. CASE handle_workunitresult_message(k)
    <2>1. to' \in [Connections -> Seq(Messages)]
      BY <1>4, ReceivedStarts DEF handle_workunitresult_message
    <2>2. active_work_units' \subseteq active_work_units
      BY <1>4 DEF handle_workunitresult_message, Ledger!Submit
    <2> QED
      BY <1>4, <2>1, <2>2
      DEF handle_workunitresult_message, StartsKnown, client
  <1>5. CASE ReaderReports(k) \/ WriterReports(k)
    <2>1. con_disconnected(k) /\ UNCHANGED <<client, to, from>>
      BY <1>5 DEF ReaderReports, WriterReports
    <2>2. /\ \A c \in active_work_units' : c.work_unit.start \in Starts
          /\ abandoned' \subseteq Starts \X Workers
      <3>1. CASE worker_id[k] = NoWorker
        BY <2>1, <3>1 DEF con_disconnected, StartsKnown, ledger
      <3>2. CASE worker_id[k] # NoWorker
        <4>1. /\ Ledger!MarkAll(worker_id[k], "ORPHANED")
              /\ abandoned' = Forget(worker_id[k])
          BY <2>1, <3>2 DEF con_disconnected
        <4>2. \A c \in active_work_units' : c.work_unit.start \in Starts
          BY <1>0, <4>1, MarkAllStarts DEF Ledger!States
        <4> QED
          BY <1>1, <4>1, <4>2
      <3> QED
        BY <3>1, <3>2
    <2> QED
      BY <2>1, <2>2 DEF StartsKnown, client
  <1>6. CASE Destroy(k)
    <2>1. state[k] = "cut" /\ owner[k] \in Workers
      <3>1. k <= connects
        BY <1>0, <1>6 DEF Destroy, Connected
      <3>2. owner[k] # NoWorker /\ owner[k] \in Workers \union {NoWorker}
        BY <1>0, <3>1 DEF Connected, Shape
      <3> QED
        BY <1>6, <3>2 DEF Destroy
    <2>2. Owned(owner[k]) \subseteq Starts
      BY DEF Owned, StartsKnown
    <2>3. abandoned' \subseteq Starts \X Workers
      BY <1>6, <2>1, <2>2 DEF Destroy, StartsKnown
    <2> QED
      BY <1>6, <2>3, EmptySeq DEF Destroy, StartsKnown, ledger, client
  <1> QED
    BY <1>2, <1>3, <1>4, <1>5, <1>6, RequestStarts DEF Connection

LEMMA StartsKnownInit == Init => StartsKnown
  <1> SUFFICES ASSUME Init
               PROVE  StartsKnown
    OBVIOUS
  <1>1. PICK team \in [Workers -> 0..NThreads] :
           outgoing = [w \in Workers |-> [i \in 1..team[w] |-> Request]]
    BY InitialTeam
  <1>2. \A n \in Nat : [i \in 1..n |-> Request] \in Seq(Messages)
    BY StartType
  <1>3. \A w \in Workers : team[w] \in Nat
    BY <1>1, BoundsAssumption
  <1>4. \A w \in Workers : outgoing[w] \in Seq(Messages)
    BY <1>1, <1>2, <1>3
  <1> QED
    BY <1>4, EmptySeq DEF Init, Ledger!Init, StartsKnown

LEMMA StartsKnownStep == Inv /\ StartsKnown /\ [Next]_vars => StartsKnown'
  <1> SUFFICES ASSUME Inv, StartsKnown, [Next]_vars
               PROVE  StartsKnown'
    OBVIOUS
  <1>1. CASE Expire
    <2>1. PICK c \in active_work_units : Ledger!Expire(c)
      BY <1>1 DEF Expire
    <2> DEFINE e == [c EXCEPT !.expired = TRUE]
    <2>2. e.work_unit = c.work_unit
      BY DEF Inv, LedgerInv, Facts!UniqueInv, Facts!TypeOK, Facts!ControlBlocks
    <2>3. active_work_units' = (active_work_units \ {c}) \union {e}
      BY <2>1 DEF Ledger!Expire
    <2> HIDE DEF e
    <2> QED
      BY <1>1, <2>2, <2>3 DEF Expire, StartsKnown, client
  <1>2. CASE UNCHANGED vars
    BY <1>2 DEF vars, StartsKnown, client, ledger
  <1> QED
    BY <1>1, <1>2, WorkerStarts, ConnectionStarts DEF Next, Inv

-----------------------------------------------------------------------------
(* Types *)

(* A connection says HELO once; it is reported twice at most. *)
Greetings ==
    Cardinality(Within(outgoing, Workers, "HELO"))
    + Cardinality(Within(to, Connections, "HELO"))
Reported(by) == {k \in Connections : by \in reports[k]}

ClientsCounted ==
    /\ n_clients \in Int
    /\ n_clients + Greetings <= connects
    /\ 0 <= n_clients + Cardinality(Reported("reader"))
                      + Cardinality(Reported("writer"))

LEMMA GreetingsNat ==
    ASSUME Shape
    PROVE  /\ Cardinality(Within(outgoing, Workers, "HELO")) \in Nat
           /\ Cardinality(Within(to, Connections, "HELO")) \in Nat
  BY WorkersAssumption, ConnectionsFinite, WithinFinite DEF Shape

LEMMA GreetingsNatAfter ==
    ASSUME Shape'
    PROVE  /\ Cardinality(Within(outgoing', Workers, "HELO")) \in Nat
           /\ Cardinality(Within(to', Connections, "HELO")) \in Nat
  BY WorkersAssumption, ConnectionsFinite, WithinFinite DEF Shape

(* The greetings a worker has still to write. *)
LEMMA ToWrite ==
    ASSUME Shape, Shape', NEW w \in Workers,
           \A v \in Workers \ {w} : outgoing'[v] = outgoing[v]
    PROVE  /\ Count(outgoing[w], "HELO") \in Nat
           /\ Count(outgoing'[w], "HELO") \in Nat
           /\ Cardinality(Within(outgoing', Workers, "HELO"))
                = Cardinality(Within(outgoing, Workers, "HELO"))
                  + Count(outgoing'[w], "HELO") - Count(outgoing[w], "HELO")
  <1>1. \A v \in Workers : /\ outgoing[v] \in Seq(AnyMessage)
                           /\ outgoing'[v] \in Seq(AnyMessage)
    BY DEF Shape
  <1>2. PICK f, g, K : f = outgoing /\ g = outgoing' /\ K = Workers
    OBVIOUS
  <1>3. /\ w \in K /\ IsFiniteSet(K)
        /\ \A v \in K : f[v] \in Seq(AnyMessage) /\ g[v] \in Seq(AnyMessage)
        /\ \A v \in K \ {w} : g[v] = f[v]
    BY <1>1, <1>2, WorkersAssumption
  <1>4. /\ Count(f[w], "HELO") \in Nat /\ Count(g[w], "HELO") \in Nat
        /\ Cardinality(Within(g, K, "HELO"))
             = Cardinality(Within(f, K, "HELO"))
               + Count(g[w], "HELO") - Count(f[w], "HELO")
    BY <1>3, WithinMoved
  <1> QED
    BY <1>2, <1>4

(* Those the coordinator has still to read. *)
LEMMA ToRead ==
    ASSUME Shape, Shape', NEW k \in Connections,
           \A j \in Connections \ {k} : to'[j] = to[j]
    PROVE  /\ Count(to[k], "HELO") \in Nat
           /\ Count(to'[k], "HELO") \in Nat
           /\ Cardinality(Within(to', Connections, "HELO"))
                = Cardinality(Within(to, Connections, "HELO"))
                  + Count(to'[k], "HELO") - Count(to[k], "HELO")
  <1>1. \A j \in Connections : /\ to[j] \in Seq(AnyMessage)
                               /\ to'[j] \in Seq(AnyMessage)
    BY DEF Shape
  <1> QED
    BY <1>1, ConnectionsFinite, WithinMoved

(* A queue that lost its rear does not greet more. *)
LEMMA ArrivesRead ==
    ASSUME Shape, Shape', NEW k \in Connections, NEW n \in 0..Len(to[k]),
           Arrives(k, n)
    PROVE  Cardinality(Within(to', Connections, "HELO"))
             <= Cardinality(Within(to, Connections, "HELO"))
  <1>1. to'[k] = SubSeq(to[k], 1, n)
        /\ \A j \in Connections \ {k} : to'[j] = to[j]
    BY DEF Arrives, Shape
  <1>2. PICK r \in Nat : Count(to[k], "HELO") = Count(to'[k], "HELO") + r
    <2>1. to[k] \in Seq(AnyMessage)
      BY DEF Shape
    <2>2. /\ SubSeq(to[k], n + 1, Len(to[k])) \in Seq(AnyMessage)
          /\ Count(to[k], "HELO")
               = Count(to'[k], "HELO")
                 + Count(SubSeq(to[k], n + 1, Len(to[k])), "HELO")
      BY <1>1, <2>1, CountCut
    <2>3. Count(SubSeq(to[k], n + 1, Len(to[k])), "HELO") \in Nat
      BY <2>2, PlacesFinite
    <2> QED
      BY <2>2, <2>3
  <1>3. /\ Count(to'[k], "HELO") \in Nat
        /\ Cardinality(Within(to', Connections, "HELO"))
             = Cardinality(Within(to, Connections, "HELO"))
               + Count(to'[k], "HELO") - Count(to[k], "HELO")
    BY <1>1, ToRead
  <1>4. Cardinality(Within(to, Connections, "HELO")) \in Nat
    BY GreetingsNat
  <1> QED
    BY <1>2, <1>3, <1>4

(* A worker that ends its connection or itself does not greet more. *)
LEMMA LossRead ==
    ASSUME Shape, Shape', Connected, NEW w \in Workers,
           Leave(w) \/ Crash(w) \/ Cut(w)
    PROVE  Greetings' <= Greetings
  <1>1. /\ Cardinality(Within(outgoing, Workers, "HELO")) \in Nat
        /\ Cardinality(Within(to, Connections, "HELO")) \in Nat
        /\ Cardinality(Within(outgoing', Workers, "HELO")) \in Nat
        /\ Cardinality(Within(to', Connections, "HELO")) \in Nat
    BY GreetingsNat, GreetingsNatAfter
  <1>2. Cardinality(Within(outgoing', Workers, "HELO"))
          <= Cardinality(Within(outgoing, Workers, "HELO"))
    <2>1. CASE Leave(w) \/ Crash(w)
      <3>1. outgoing'[w] = <<>>
            /\ \A v \in Workers \ {w} : outgoing'[v] = outgoing[v]
        BY <2>1 DEF Leave, Crash, Shape
      <3>2. Count(outgoing'[w], "HELO") = 0
        BY <3>1, CountEmpty
      <3>3. /\ Count(outgoing[w], "HELO") \in Nat
            /\ Cardinality(Within(outgoing', Workers, "HELO"))
                 = Cardinality(Within(outgoing, Workers, "HELO"))
                   + Count(outgoing'[w], "HELO") - Count(outgoing[w], "HELO")
        BY <3>1, ToWrite
      <3> QED
        BY <1>1, <3>2, <3>3
    <2>2. CASE Cut(w)
      <3>1. outgoing' = outgoing
        BY <2>2 DEF Cut, client
      <3> QED
        BY <1>1, <3>1
    <2> QED
      BY <2>1, <2>2
  <1>3. Cardinality(Within(to', Connections, "HELO"))
          <= Cardinality(Within(to, Connections, "HELO"))
    <2>1. CASE to' = to
      BY <1>1, <2>1
    <2>2. CASE to' # to
      <3>1. link[w] # 0 /\ (Crash(w) \/ Cut(w))
        BY <2>2 DEF Leave, Crash, Cut
      <3>2. link[w] \in Connections
        BY <3>1, LinkOwner
      <3>3. PICK n \in 0..Len(to[link[w]]) : Arrives(link[w], n)
        BY <3>1 DEF Crash, Cut
      <3> QED
        BY <3>2, <3>3, ArrivesRead
    <2> QED
      BY <2>1, <2>2
  <1> QED
    BY <1>1, <1>2, <1>3 DEF Greetings

(* A new connection greets once; else a worker's step does not add to it. *)
LEMMA WorkerGreetings ==
    ASSUME Shape, Shape', Connected, NEW w \in Workers,
           Worker(w)
    PROVE  \/ Greetings' <= Greetings /\ connects' = connects
           \/ Greetings' = Greetings + 1 /\ connects' = connects + 1
  <1>0. /\ Cardinality(Within(outgoing, Workers, "HELO")) \in Nat
        /\ Cardinality(Within(to, Connections, "HELO")) \in Nat
        /\ Cardinality(Within(outgoing', Workers, "HELO")) \in Nat
        /\ Cardinality(Within(to', Connections, "HELO")) \in Nat
        /\ Greetings \in Nat /\ outgoing[w] \in Seq(AnyMessage)
    BY GreetingsNat, GreetingsNatAfter DEF Greetings, Shape
  <1>1. ASSUME NEW m \in AnyMessage, to' = to,
               outgoing' = [outgoing EXCEPT ![w] = Append(@, m)]
        PROVE  Greetings' = Greetings + IF m.type = "HELO" THEN 1 ELSE 0
    <2>1. outgoing'[w] = Append(outgoing[w], m)
          /\ \A v \in Workers \ {w} : outgoing'[v] = outgoing[v]
      BY <1>1 DEF Shape
    <2>2. PICK one \in Nat : one = IF m.type = "HELO" THEN 1 ELSE 0
      OBVIOUS
    <2>3. Count(outgoing'[w], "HELO") = Count(outgoing[w], "HELO") + one
      BY <1>0, <2>1, <2>2, CountAppend
    <2>4. /\ Count(outgoing[w], "HELO") \in Nat
          /\ Cardinality(Within(outgoing', Workers, "HELO"))
               = Cardinality(Within(outgoing, Workers, "HELO"))
                 + Count(outgoing'[w], "HELO") - Count(outgoing[w], "HELO")
      BY <2>1, ToWrite
    <2>5. Cardinality(Within(outgoing', Workers, "HELO"))
            = Cardinality(Within(outgoing, Workers, "HELO")) + one
      BY <1>0, <2>3, <2>4
    <2> QED
      BY <1>0, <1>1, <2>2, <2>5 DEF Greetings
  <1>2. CASE Connect(w)
    <2>1. Greetings' = Greetings + 1
      BY <1>1, <1>2, MessageType DEF Connect, Helo, Message
    <2> QED
      BY <1>2, <2>1 DEF Connect
  <1>3. CASE Quit(w)
    <2>1. Greetings' = Greetings + 0
      BY <1>1, <1>3, MessageType DEF Quit, GoodBye, Message
    <2> QED
      BY <1>0, <1>3, <2>1 DEF Quit
  <1>4. CASE Receive(w) \/ Replace(w) \/ Keep(w) \/ Wake(w)
    <2>1. UNCHANGED <<outgoing, to, connects>>
      BY <1>4 DEF Receive, Replace, Keep, Wake, network
    <2> QED
      BY <1>0, <2>1 DEF Greetings
  <1>5. CASE Finish(w)
    <2>1. PICK i \in DOMAIN computing[w] :
             /\ outgoing' = [outgoing EXCEPT ![w] =
                                @ \o <<Result(computing[w][i]), Request>>]
             /\ UNCHANGED <<to, connects>>
      BY <1>5 DEF Finish, FinishUnit, network
    <2>2. computing[w][i] \in Int
      <3>1. computing[w] \in Seq(Int) /\ i \in 1..Len(computing[w])
        BY LenProperties DEF Shape
      <3> QED
        BY <3>1, ElementOfSeq
    <2>3. PICK r \in AnyMessage : r = Result(computing[w][i])
      BY <2>2, MessageType
    <2>4. r.type # "HELO" /\ Request.type # "HELO" /\ Request \in AnyMessage
      BY <2>3, MessageType DEF Result, Request, Message
    <2>5. PICK q \in Seq(AnyMessage) : q = Append(outgoing[w], r)
      BY <1>0, AppendProperties
    <2>6. /\ outgoing'[w] = Append(q, Request)
          /\ \A v \in Workers \ {w} : outgoing'[v] = outgoing[v]
      <3>1. /\ outgoing[w] \in Seq(AnyMessage)
            /\ r \in AnyMessage /\ Request \in AnyMessage
        BY <1>0, <2>4
      <3>2. outgoing[w] \o <<r, Request>> = Append(Append(outgoing[w], r), Request)
        BY <3>1
      <3> QED
        BY <2>1, <2>3, <2>5, <3>2 DEF Shape
    <2>7. Count(q, "HELO") = Count(outgoing[w], "HELO") + 0
      BY <1>0, <2>4, <2>5, CountAppend
    <2>8. Count(outgoing'[w], "HELO") = Count(q, "HELO") + 0
      BY <2>4, <2>6, CountAppend
    <2>9. /\ Count(outgoing[w], "HELO") \in Nat
          /\ Cardinality(Within(outgoing', Workers, "HELO"))
               = Cardinality(Within(outgoing, Workers, "HELO"))
                 + Count(outgoing'[w], "HELO") - Count(outgoing[w], "HELO")
      BY <2>6, ToWrite
    <2>10. Cardinality(Within(outgoing', Workers, "HELO"))
             = Cardinality(Within(outgoing, Workers, "HELO"))
      BY <1>0, <2>7, <2>8, <2>9
    <2>11. Greetings' = Greetings
      BY <2>1, <2>10 DEF Greetings
    <2> QED
      BY <1>0, <2>1, <2>11
  <1>6. CASE Send(w)
    <2>1. PICK k \in Connections : k = link[w]
      BY <1>6, LinkOwner DEF Send
    <2>2. /\ outgoing[w] # <<>> /\ outgoing'[w] = Tail(outgoing[w])
          /\ \A v \in Workers \ {w} : outgoing'[v] = outgoing[v]
          /\ to'[k] = Append(to[k], Head(outgoing[w]))
          /\ \A j \in Connections \ {k} : to'[j] = to[j]
          /\ connects' = connects
      BY <1>6, <2>1 DEF Send, network, Shape
    <2>3. to[k] \in Seq(AnyMessage) /\ Head(outgoing[w]) \in AnyMessage
      BY <1>0, <2>2, HeadTailProperties DEF Shape
    <2>4. PICK one \in Nat :
             one = IF Head(outgoing[w]).type = "HELO" THEN 1 ELSE 0
      OBVIOUS
    <2>5. Count(outgoing[w], "HELO") = Count(outgoing'[w], "HELO") + one
      BY <1>0, <2>2, <2>4, CountTail
    <2>6. Count(to'[k], "HELO") = Count(to[k], "HELO") + one
      BY <2>2, <2>3, <2>4, CountAppend
    <2>7. /\ Count(outgoing'[w], "HELO") \in Nat
          /\ Cardinality(Within(outgoing', Workers, "HELO"))
               = Cardinality(Within(outgoing, Workers, "HELO"))
                 + Count(outgoing'[w], "HELO") - Count(outgoing[w], "HELO")
      BY <2>2, ToWrite
    <2>8. /\ Count(to[k], "HELO") \in Nat
          /\ Cardinality(Within(to', Connections, "HELO"))
               = Cardinality(Within(to, Connections, "HELO"))
                 + Count(to'[k], "HELO") - Count(to[k], "HELO")
      BY <2>2, ToRead
    <2>9. Cardinality(Within(outgoing', Workers, "HELO"))
            = Cardinality(Within(outgoing, Workers, "HELO")) - one
      BY <1>0, <2>5, <2>7
    <2>10. Cardinality(Within(to', Connections, "HELO"))
             = Cardinality(Within(to, Connections, "HELO")) + one
      BY <1>0, <2>6, <2>8
    <2>11. Greetings' = Greetings
      BY <1>0, <2>9, <2>10 DEF Greetings
    <2> QED
      BY <1>0, <2>2, <2>11
  <1>7. CASE Leave(w) \/ Crash(w) \/ Cut(w)
    <2>1. connects' = connects
      BY <1>7 DEF Leave, Crash, Cut, Disconnected
    <2> QED
      BY <1>7, <2>1, LossRead
  <1> QED
    BY <1>2, <1>3, <1>4, <1>5, <1>6, <1>7 DEF Worker, Reader

(* A reader that takes a HELO counts the client. *)
LEMMA ReceivedGreetings ==
    ASSUME Shape, Shape', NEW k \in Connections, NEW type,
           Received(k, type), UNCHANGED client
    PROVE  /\ type = "HELO" => Greetings = Greetings' + 1
           /\ type # "HELO" => Greetings' = Greetings
           /\ Greetings' \in Nat
  <1>0. /\ Cardinality(Within(outgoing, Workers, "HELO")) \in Nat
        /\ Cardinality(Within(to, Connections, "HELO")) \in Nat
        /\ Cardinality(Within(to', Connections, "HELO")) \in Nat
        /\ outgoing' = outgoing
    BY GreetingsNat, GreetingsNatAfter DEF client
  <1>1. /\ to[k] # <<>> /\ to'[k] = Tail(to[k]) /\ Head(to[k]).type = type
        /\ \A j \in Connections \ {k} : to'[j] = to[j]
        /\ to[k] \in Seq(AnyMessage)
    BY DEF Received, Shape
  <1>2. PICK one \in Nat : one = IF type = "HELO" THEN 1 ELSE 0
    OBVIOUS
  <1>3. Count(to[k], "HELO") = Count(to'[k], "HELO") + one
    BY <1>1, <1>2, CountTail
  <1>4. /\ Count(to'[k], "HELO") \in Nat
        /\ Cardinality(Within(to', Connections, "HELO"))
             = Cardinality(Within(to, Connections, "HELO"))
               + Count(to'[k], "HELO") - Count(to[k], "HELO")
    BY <1>1, ToRead
  <1>5. Cardinality(Within(to, Connections, "HELO"))
          = Cardinality(Within(to', Connections, "HELO")) + one
    BY <1>0, <1>3, <1>4
  <1>6. PICK a \in Nat, b \in Nat, c \in Nat :
           /\ a = Cardinality(Within(outgoing, Workers, "HELO"))
           /\ b = Cardinality(Within(to, Connections, "HELO"))
           /\ c = Cardinality(Within(to', Connections, "HELO"))
    BY <1>0
  <1>7. Greetings = a + b /\ Greetings' = a + c /\ b = c + one
    BY <1>0, <1>5, <1>6 DEF Greetings
  <1> QED
    BY <1>2, <1>7

(* Reports are counted once for each thread of a connection. *)
LEMMA ReportedFinite ==
    ASSUME Shape, NEW by
    PROVE  /\ IsFiniteSet(Reported(by)) /\ Cardinality(Reported(by)) \in Nat
           /\ Reported(by) \subseteq Connections
  <1>1. Reported(by) \in SUBSET Connections
    BY DEF Reported
  <1> QED
    BY <1>1, ConnectionsFinite, FS_Subset, FS_CardinalityType

LEMMA ReportCounted ==
    ASSUME Shape, NEW k \in Connections, NEW by, by \notin reports[k],
           reports' = [reports EXCEPT ![k] = @ \union {by}]
    PROVE  /\ Cardinality(Reported(by)') = Cardinality(Reported(by)) + 1
           /\ \A other : other # by => Reported(other)' = Reported(other)
  <1>1. Reported(by)' = Reported(by) \union {k} /\ k \notin Reported(by)
    BY DEF Reported, Shape
  <1>2. \A other : other # by => Reported(other)' = Reported(other)
    BY DEF Reported, Shape
  <1> QED
    BY <1>1, <1>2, ReportedFinite, FS_AddElement

LEMMA ClientsKept ==
    ASSUME Shape, Shape', ClientsCounted,
           \/ Greetings' <= Greetings /\ connects' = connects
           \/ Greetings' = Greetings + 1 /\ connects' = connects + 1,
           UNCHANGED <<n_clients, reports>>
    PROVE  ClientsCounted'
  <1>1. Greetings \in Nat /\ Greetings' \in Nat /\ connects \in Nat
    BY GreetingsNat, GreetingsNatAfter DEF Greetings, Shape
  <1>2. Reported("reader")' = Reported("reader")
        /\ Reported("writer")' = Reported("writer")
    BY DEF Reported
  <1>3. n_clients' + Greetings' <= connects'
    BY <1>1 DEF ClientsCounted
  <1> QED
    BY <1>2, <1>3 DEF ClientsCounted

LEMMA ReportClients ==
    ASSUME Shape, Shape', ClientsCounted, NEW k \in Connections,
           ReaderReports(k) \/ WriterReports(k)
    PROVE  ClientsCounted'
  <1>1. PICK by \in {"reader", "writer"} :
           /\ by \notin reports[k]
           /\ reports' = [reports EXCEPT ![k] = @ \union {by}]
    BY DEF ReaderReports, WriterReports, Reading
  <1>2. /\ Cardinality(Reported(by)') = Cardinality(Reported(by)) + 1
        /\ \A other : other # by => Reported(other)' = Reported(other)
    BY <1>1, ReportCounted
  <1>3. UNCHANGED <<outgoing, to, connects>>
    BY DEF ReaderReports, WriterReports, client, network
  <1>4. n_clients' = n_clients \/ n_clients' = n_clients - 1
    BY DEF ReaderReports, WriterReports, con_disconnected
  <1>5. /\ Cardinality(Reported("reader")) \in Nat
        /\ Cardinality(Reported("writer")) \in Nat
    BY ReportedFinite
  <1>6. Cardinality(Reported("reader")') + Cardinality(Reported("writer")')
          = Cardinality(Reported("reader")) + Cardinality(Reported("writer")) + 1
    <2>1. CASE by = "reader"
      <3>1. Reported("writer")' = Reported("writer")
        BY <1>2, <2>1
      <3> QED
        BY <1>2, <1>5, <2>1, <3>1
    <2>2. CASE by = "writer"
      <3>1. Reported("reader")' = Reported("reader")
        BY <1>2, <2>2
      <3> QED
        BY <1>2, <1>5, <2>2, <3>1
    <2> QED
      BY <2>1, <2>2
  <1>7. Greetings' = Greetings /\ Greetings \in Nat /\ connects \in Nat
    BY <1>3, GreetingsNat DEF Greetings, Shape
  <1>8. n_clients' \in Int /\ n_clients' + Greetings' <= connects'
    BY <1>3, <1>4, <1>7 DEF ClientsCounted
  <1>9. /\ Cardinality(Reported("reader")') \in Nat
        /\ Cardinality(Reported("writer")') \in Nat
    <2>1. \A by_ : IsFiniteSet(Reported(by_)')
      <3>1. \A by_ : Reported(by_)' \subseteq Connections
        BY DEF Reported
      <3> QED
        BY <3>1, ConnectionsFinite, FS_Subset
    <2> QED
      BY <2>1, FS_CardinalityType
  <1>10. 0 <= n_clients' + Cardinality(Reported("reader")')
                         + Cardinality(Reported("writer")')
    <2>1. PICK r \in Nat, t \in Nat, r2 \in Nat, t2 \in Nat :
             /\ r = Cardinality(Reported("reader"))
             /\ t = Cardinality(Reported("writer"))
             /\ r2 = Cardinality(Reported("reader")')
             /\ t2 = Cardinality(Reported("writer")')
      BY <1>5, <1>9
    <2>2. r2 + t2 = r + t + 1
      BY <1>6, <2>1
    <2>3. n_clients \in Int /\ 0 <= n_clients + r + t
      BY <2>1 DEF ClientsCounted
    <2>4. 0 <= n_clients' + r2 + t2
      BY <1>4, <2>2, <2>3
    <2> QED
      BY <2>1, <2>4
  <1> QED
    BY <1>8, <1>10 DEF ClientsCounted

LEMMA ConnectionClients ==
    ASSUME Shape, Shape', ClientsCounted, NEW k \in Connections, Connection(k)
    PROVE  ClientsCounted'
  <1>1. ASSUME NEW type, type # "HELO", Received(k, type),
               UNCHANGED <<client, network, reports, n_clients>>
        PROVE  ClientsCounted'
    <2>1. Greetings' = Greetings /\ Greetings' \in Nat
      BY <1>1, ReceivedGreetings
    <2>2. Greetings' <= Greetings /\ connects' = connects
      BY <1>1, <2>1 DEF network
    <2> QED
      BY <1>1, <2>2, ClientsKept
  <1>2. CASE handle_helo_message(k)
    <2>1. /\ Received(k, "HELO") /\ UNCHANGED <<client, network, reports>>
          /\ n_clients' = n_clients + 1
      BY <1>2 DEF handle_helo_message
    <2>2. Greetings = Greetings' + 1 /\ Greetings' \in Nat
      BY <2>1, ReceivedGreetings
    <2>3. connects' = connects /\ connects \in Nat /\ n_clients \in Int
          /\ n_clients + Greetings <= connects
      BY <2>1 DEF network, Shape, ClientsCounted
    <2>4. n_clients' \in Int /\ n_clients' + Greetings' <= connects'
      <3>1. PICK n \in Int, g \in Nat, c \in Nat :
               n = n_clients /\ g = Greetings' /\ c = connects
        BY <2>2, <2>3
      <3>2. n + (g + 1) <= c
        BY <2>2, <2>3, <3>1
      <3>3. (n + 1) + g <= c
        BY <3>2
      <3>4. n_clients' = n + 1 /\ Greetings' = g /\ connects' = c
        BY <2>1, <2>3, <3>1
      <3> QED
        BY <3>3, <3>4
    <2>5. Reported("reader")' = Reported("reader")
          /\ Reported("writer")' = Reported("writer")
      BY <2>1 DEF Reported
    <2>6. PICK r \in Nat, t \in Nat : r = Cardinality(Reported("reader"))
                                      /\ t = Cardinality(Reported("writer"))
      BY ReportedFinite
    <2>7. 0 <= n_clients + r + t
      BY <2>6 DEF ClientsCounted
    <2>8. 0 <= n_clients' + r + t
      BY <2>1, <2>3, <2>7
    <2> QED
      BY <2>4, <2>5, <2>6, <2>8 DEF ClientsCounted
  <1>3. CASE handle_goodbye_message(k)
    <2>1. Received(k, "BYE") /\ UNCHANGED <<client, network, reports, n_clients>>
      BY <1>3 DEF handle_goodbye_message
    <2> QED
      BY <1>1, <2>1
  <1>4. CASE handle_workunitresult_message(k)
    <2>1. Received(k, "RESULT")
          /\ UNCHANGED <<client, network, reports, n_clients>>
      BY <1>4 DEF handle_workunitresult_message
    <2> QED
      BY <1>1, <2>1
  <1>5. CASE handle_requestworkunit_message(k)
    <2>1. Received(k, "REQUEST")
          /\ UNCHANGED <<client, network, reports, n_clients>>
      BY <1>5 DEF handle_requestworkunit_message
    <2> QED
      BY <1>1, <2>1
  <1>6. CASE ReaderReports(k) \/ WriterReports(k)
    BY <1>6, ReportClients
  <1>7. CASE Destroy(k)
    <2>1. /\ outgoing' = outgoing /\ to'[k] = <<>>
          /\ \A j \in Connections \ {k} : to'[j] = to[j]
          /\ UNCHANGED <<connects, n_clients, reports>>
      BY <1>7 DEF Destroy, client, Shape
    <2>2. Count(to'[k], "HELO") = 0
      BY <2>1, CountEmpty
    <2>3. /\ Count(to[k], "HELO") \in Nat
          /\ Cardinality(Within(to', Connections, "HELO"))
               = Cardinality(Within(to, Connections, "HELO"))
                 + Count(to'[k], "HELO") - Count(to[k], "HELO")
      BY <2>1, ToRead
    <2>4. /\ Cardinality(Within(outgoing, Workers, "HELO")) \in Nat
          /\ Cardinality(Within(to, Connections, "HELO")) \in Nat
      BY GreetingsNat
    <2>5. Cardinality(Within(to', Connections, "HELO"))
            <= Cardinality(Within(to, Connections, "HELO"))
      BY <2>2, <2>3, <2>4
    <2>6. Cardinality(Within(to', Connections, "HELO")) \in Nat
      BY GreetingsNatAfter
    <2>7. Greetings' <= Greetings
      BY <2>1, <2>4, <2>5, <2>6 DEF Greetings
    <2> QED
      BY <2>1, <2>7, ClientsKept
  <1> QED
    BY <1>2, <1>3, <1>4, <1>5, <1>6, <1>7 DEF Connection

LEMMA ClientsCountedStep ==
    ASSUME Inv, Inv', ClientsCounted, [Next]_vars
    PROVE  ClientsCounted'
  <1>1. Shape /\ Shape' /\ Connected
    BY DEF Inv
  <1>2. ASSUME NEW w \in Workers, Worker(w)
        PROVE  ClientsCounted'
    <2>1. UNCHANGED <<n_clients, reports>>
      BY <1>2 DEF Worker, Reader, Connect, Send, Receive, Replace, Finish,
        FinishUnit, Keep, Wake, Leave, Quit, Crash, Cut
    <2>2. \/ Greetings' <= Greetings /\ connects' = connects
          \/ Greetings' = Greetings + 1 /\ connects' = connects + 1
      BY <1>1, <1>2, WorkerGreetings
    <2> QED
      BY <1>1, <2>1, <2>2, ClientsKept
  <1>3. CASE Expire \/ UNCHANGED vars
    <2>1. UNCHANGED <<n_clients, outgoing, to, connects, reports>>
      BY <1>3 DEF Expire, vars, client, network
    <2> QED
      BY <2>1 DEF ClientsCounted, Greetings, Reported
  <1> QED
    BY <1>1, <1>2, <1>3, ConnectionClients DEF Next

LEMMA ClientsCountedInit == Init => ClientsCounted
  <1> SUFFICES ASSUME Init
               PROVE  ClientsCounted
    OBVIOUS
  <1>1. /\ Within(outgoing, Workers, "HELO") = {}
        /\ Within(to, Connections, "HELO") = {}
    <2>1. PICK team \in [Workers -> 0..NThreads] :
             outgoing = [w \in Workers |-> [i \in 1..team[w] |-> Request]]
      BY InitialTeam
    <2>2. \A w \in Workers : Places(outgoing[w], "HELO") = {}
      BY <2>1 DEF Places, Request, Message
    <2>3. \A k \in Connections : Places(to[k], "HELO") = {}
      BY CountEmpty DEF Init
    <2> QED
      BY <2>2, <2>3 DEF Within
  <1>2. Reported("reader") = {} /\ Reported("writer") = {}
    BY DEF Init, Reported
  <1>3. Greetings = 0
    BY <1>1, FS_EmptySet DEF Greetings
  <1>4. /\ Cardinality(Reported("reader")) = 0
        /\ Cardinality(Reported("writer")) = 0
    BY <1>2, FS_EmptySet
  <1>5. n_clients = 0 /\ connects = 0
    BY DEF Init
  <1> QED
    BY <1>3, <1>4, <1>5 DEF ClientsCounted

(* The number of clients the coordinator shows: not below minus two for    *)
(* each connection, as both its threads report its loss.                   *)
LEMMA ClientsBounded ==
    ASSUME Shape, Connected, ClientsCounted
    PROVE  n_clients \in (-2 * connects)..connects
  <1>1. PICK m \in Nat : m = connects
    BY DEF Shape
  <1>2. IsFiniteSet(1..m) /\ Cardinality(1..m) = m
    BY FS_Interval
  <1>3. ASSUME NEW by
        PROVE  Cardinality(Reported(by)) \in Nat /\ Cardinality(Reported(by)) <= m
    <2>1. ASSUME NEW k \in Reported(by)
          PROVE  k \in 1..m
      <3>1. k \in Connections /\ reports[k] # {}
        BY DEF Reported
      <3>2. state[k] # "new"
        BY <3>1 DEF Connected
      <3>3. k <= connects
        BY <3>1, <3>2 DEF Connected
      <3> QED
        BY <1>1, <3>1, <3>3 DEF Connections
    <2>2. Reported(by) \subseteq 1..m
      BY <2>1
    <2> QED
      BY <1>2, <2>2, FS_Subset, FS_CardinalityType
  <1>4. PICK r \in Nat, t \in Nat : /\ r = Cardinality(Reported("reader")) /\ r <= m
                                    /\ t = Cardinality(Reported("writer")) /\ t <= m
    BY <1>3
  <1>5. n_clients \in Int /\ 0 <= n_clients + r + t
    BY <1>4 DEF ClientsCounted
  <1>6. Greetings \in Nat /\ n_clients + Greetings <= m
    BY <1>1, GreetingsNat DEF Greetings, ClientsCounted
  <1>7. -2 * m <= n_clients /\ n_clients <= m
    BY <1>4, <1>5, <1>6
  <1> QED
    BY <1>1, <1>5, <1>7

(* Only a worker that has a connection takes it for lost. *)
MuteLinked == mute \subseteq LinkedWorkers

LEMMA MuteStep == Inv /\ MuteLinked /\ [Next]_vars => MuteLinked'
  <1> SUFFICES ASSUME Inv, MuteLinked, [Next]_vars
               PROVE  MuteLinked'
    OBVIOUS
  <1>1. Shape
    BY DEF Inv
  <1>2. ASSUME UNCHANGED <<mute, link>>
        PROVE  MuteLinked'
    BY <1>2 DEF MuteLinked, LinkedWorkers
  <1>3. ASSUME NEW w \in Workers, Connect(w)
        PROVE  MuteLinked'
    <2>1. /\ link' = [link EXCEPT ![w] = connects + 1]
          /\ mute' \subseteq mute \union {w} /\ connects + 1 # 0
      BY <1>1, <1>3 DEF Connect, Shape
    <2> QED
      BY <1>1, <2>1 DEF MuteLinked, LinkedWorkers, Shape
  <1>4. ASSUME NEW w \in Workers, Disconnected(w)
        PROVE  MuteLinked'
    BY <1>1, <1>4 DEF Disconnected, MuteLinked, LinkedWorkers, Shape
  <1>5. ASSUME NEW w \in Workers, Worker(w)
        PROVE  MuteLinked'
    <2>1. CASE Leave(w) \/ Crash(w) \/ Cut(w)
      BY <1>4, <2>1 DEF Leave, Crash, Cut
    <2>2. CASE \/ Send(w) \/ Receive(w) \/ Replace(w) \/ Finish(w)
               \/ Keep(w) \/ Wake(w) \/ Quit(w)
      BY <1>2, <2>2 DEF Send, Receive, Replace, Finish, FinishUnit, Keep, Wake,
                        Quit, network
    <2> QED
      BY <1>3, <1>5, <2>1, <2>2 DEF Worker, Reader
  <1>6. ASSUME NEW k \in Connections, Connection(k)
        PROVE  MuteLinked'
    BY <1>2, <1>6
    DEF Connection, handle_helo_message, handle_goodbye_message,
        handle_workunitresult_message, handle_requestworkunit_message,
        ReaderReports, WriterReports, Destroy, network
  <1>7. CASE Expire \/ UNCHANGED vars
    BY <1>2, <1>7 DEF Expire, vars, network
  <1> QED
    BY <1>5, <1>6, <1>7 DEF Next

LEMMA TypesHold ==
    ASSUME Inv, MuteLinked, ThreadsKnown, StartsKnown, ClientsCounted
    PROVE  TypeOK
  <1>1. Shape /\ Connected /\ ConnectsBounded /\ LedgerInv
    BY DEF Inv
  <1>2. Ledger!TypeOK
    BY <1>1, SameStates DEF LedgerInv, Facts!UniqueInv
  <1>3. n_clients \in (-2 * connects)..connects
    BY <1>1, ClientsBounded
  <1>4. link \in [Workers -> 0..connects]
    <2>1. ASSUME NEW w \in Workers
          PROVE  link[w] \in 0..connects
      <3>1. CASE link[w] = 0
        BY <1>1, <3>1 DEF Shape
      <3>2. CASE link[w] # 0
        <4>1. link[w] \in Connections /\ owner[link[w]] # NoWorker
          BY <1>1, <3>2, LinkOwner, LedgerAssumption
        <4>2. link[w] <= connects
          BY <1>1, <4>1 DEF Connected
        <4> QED
          BY <1>1, <4>1, <4>2 DEF Shape, Connections
      <3> QED
        BY <3>1, <3>2
    <2> QED
      BY <1>1, <2>1 DEF Shape
  <1>5. connects \in 0..Cardinality(Connections) /\ losses \in 0..MaxLosses
    <2>1. /\ Cardinality(LinkedWorkers) \in Nat
          /\ Cardinality(LinkedWorkers) <= Cardinality(Workers)
          /\ Cardinality(QuittingWorkers) \in Nat
          /\ Cardinality(Workers) \in Nat
      BY WorkersFinite DEF LinkedWorkers, QuittingWorkers
    <2>2. /\ losses <= MaxLosses
          /\ connects + Cardinality(QuittingWorkers)
               <= losses + Cardinality(LinkedWorkers)
          /\ losses \in Nat /\ connects \in Nat
      BY <1>1 DEF ConnectsBounded, Shape
    <2>3. connects <= Cardinality(Workers) + MaxLosses
      BY <2>1, <2>2, BoundsAssumption
    <2> QED
      BY <2>1, <2>2, <2>3, ConnectionsFinite, BoundsAssumption
  <1>6. lost \in [Workers -> 0..NThreads]
    <2>1. ASSUME NEW w \in Workers
          PROVE  lost[w] \in 0..NThreads
      <3>1. /\ Queued(w) \in Nat /\ Asked(w) \in Nat /\ Answers(w) \in Nat
            /\ Len(computing[w]) \in Nat /\ Idle(w) \in Nat
            /\ Spent(w) = Queued(w) + Len(computing[w]) + Asked(w) + Answers(w)
                          + Idle(w)
        BY <1>1, SpentIs
      <3>2. Spent(w) <= NThreads
        BY DEF ThreadsKnown
      <3>3. Idle(w) <= NThreads
        BY <3>1, <3>2, BoundsAssumption
      <3>4. Len(kept[w]) \in Nat /\ lost[w] \in Nat
        BY <1>1, LenProperties DEF Shape, ThreadsKnown
      <3> QED
        BY <3>3, <3>4, BoundsAssumption DEF Idle
    <2> QED
      BY <2>1 DEF ThreadsKnown
  <1> QED
    BY <1>1, <1>2, <1>3, <1>4, <1>5, <1>6
    DEF TypeOK, Shape, StartsKnown, MuteLinked, LinkedWorkers

(***************************************************************************)
(* Every message, unit and count stays within its type: no start but those *)
(* the ledger gave away is ever seen, more threads are never lost than     *)
(* there are, and the displayed number of clients, which a connection that *)
(* is reported twice takes below zero, stays within what connections make. *)
(***************************************************************************)
THEOREM TypeCorrect == Spec => []TypeOK
  <1>1. Inv /\ ClientsCounted /\ [Next]_vars => ClientsCounted'
    BY InvStep, ClientsCountedStep
  <1>2. Init => MuteLinked
    BY DEF Init, MuteLinked
  <1>3. Inv /\ MuteLinked /\ ThreadsKnown /\ StartsKnown /\ ClientsCounted
            => TypeOK
    BY TypesHold
  <1> QED
    BY <1>1, <1>2, <1>3, InvCorrect, MuteStep, ThreadsKnownCorrect,
       StartsKnownInit, StartsKnownStep, ClientsCountedInit, PTL DEF Spec
=============================================================================
