# pomegranate-pie in TLA+

pomegranate-pie computes hexadecimal digits of pi on a cluster.  A
**coordinator** cuts the digits into work units, hands them to **workers** over
TCP, puts the results in order and appends them to `pi_hex.txt`.  A worker runs
one computing thread per core.  Both are multi-threaded C++ programs without
tests; this directory holds TLA+ models of them, TLC configurations and TLAPS
proofs.

Run a model with `tlc -config Combiner.cfg MCWorkUnitCombiner`, a proof with
`tlapm WorkUnitCombinerProofs.tla`.  `PROJECT.json` maps each definition to the
lines it models and lists runs, mutants, findings, hazards and theorems.

## The system

| Component (source) | State it keeps | Operations | Right when |
|---|---|---|---|
| `WorkUnitCombiner`, `FileWriter` (`work_unit_combiner.hpp`, `file_writer.hpp`) | queue of results, processing area, `next_digit`, the ofstream, statistics | submit a result (connection threads); processor thread; construct on an old file; destroy | the file is always the first digits of pi; what can be appended is; an orderly exit loses nothing |
| `WorkUnitManager` (`work_unit_manager.hpp`) | list of units without a result, with state, owner and time of loss; atomic `next_digit` | assign a unit, mark a worker's units owned / orphaned / disowned, submit a result | each digit is in one unit; a unit without a result stays on the list; a worker that comes back in time keeps its units |
| `PMGPIeClusterServer` | number of clients | handlers of HELO, GoodBye, result, request; disconnection | each message leads to the manager call it stands for, the counter to the connected workers |
| `TCPServer`, `TCPServerConnection` | connections; per connection an outgoing queue and three flags | accept, read, write, remove, destroy | messages in order, one report of a loss, destruction ends |
| `TSQueue` | a deque under a mutex | push, push_front, pop, empty | first in first out, a waiting pop wakes |
| `PMGPIeCoordinator` | the parts above | start (with or without old digits), CTRL-C | resumes where the file ends |
| `FrontendServer`, web page | WebSocket clients | push the statistics | - |
| `WorkerThreadPool`, `WorkerThread` | per thread `busy`, `run`, `next_work_unit`, a mutex and a condition variable | submit a unit, compute, publish, destroy | each unit that is handed over is computed, once; the threads exit |
| `PMGPIeClusterClient` | worker id | bootstrap requests, publish a result with a request, HELO, GoodBye | as many requests and units as threads |
| `ClientConnection` | socket, outgoing queue, `is_connected`, `run` | connect, read, write with retry, destroy | nothing queued is lost, destruction ends |
| `PiGenerator` | an interrupt flag | generate digits, interrupt | right digits |
| `HexAggregator`, `hex2dec` | a GMP number | insert digits, number of decimal digits | decimal value of the digits |
| configuration, CTRL-C, `result-checker`, `preliminary` | - | - | - |

How they interact: a worker's computing thread calls back into the client,
which queues a result and a request.  On the coordinator, each connection's
reader thread runs the cluster server's handler, which calls the manager, which
passes results on to the combiner's queue; the answer goes to the connection's
outgoing queue and its writer thread.  A lost connection reaches the manager as
`mark_orphaned` from the reader's or the writer's thread.  The front end reads
the statistics the combiner writes.

What is hard: results come in any order, late, twice, and cut at other
boundaries after a restart; the process can die with digits in a buffer; every
connection has two threads that call the manager at the same time; a condition
variable is waited on without a predicate; objects are destroyed while threads
that use them run.  `PROJECT.json` lists these hazards at their lines.

## Modules

| Module | Role |
|---|---|
| `PiDigits` | digits as positions, so that a gap or a repetition shows |
| `PiFile` | abstract: what is promised about `pi_hex.txt` |
| `WorkUnitCombiner` | combiner, file writer, start and stop of the coordinator |
| `MCWorkUnitCombiner` | its instances |
| `WorkUnitCombinerProofs` | theorems about it |
| `WorkUnitLedger` | abstract: the manager with each call as one step |
| `MCWorkUnitLedger`, `WorkUnitLedgerProofs` | its instance and theorems |
| `WorkUnitManager` | the manager's calls access by access, in several threads; refines `WorkUnitLedger` when calls do not overlap |
| `MCWorkUnitManager` | its instances |
| `WorkUnitManagerProofs` | theorems about it: without a lock; and with calls that take turns, when it implements the ledger |
| `WorkerThreadPool`, `MCWorkerThreadPool` | the worker's pool, threads, reader and exit |
| `WorkerThreadPoolProofs` | theorems about it |
| `TSQueue` | the queue of both ends of a connection, as operators |
| `ClientConnection`, `MCClientConnection` | the worker's end: reader, writer and main thread; over `TSQueue` |
| `ClientConnectionProofs` | theorems about it |
| `TcpServer`, `MCTcpServer` | the coordinator's ends and their server: acceptor, remover, main thread, a reader and a writer per connection; over `TSQueue` |
| `TcpServerProofs` | theorems about it |
| `Cluster`, `MCCluster` | the composition: workers, breaking connections, the server's handlers, `WorkUnitLedger` as the manager |
| `ClusterProofs` | theorems about it, from those about the ledger |
| `HexAggregator`, `MCHexAggregator` | `hex2dec`'s decimal digits, over all short inputs |
| `HexAggregatorProofs` | theorems about them, for inputs of any length |

An operator whose comment begins with "Mutant:" is a wrong variant of the
definition after it; no specification uses it.  Each property of a passing run
is paired in `PROJECT.json` with a mutant that violates it.

### WorkUnitCombiner

`disk` is the file, `stream` what the ofstream buffers; `to_process`,
`processing_area`, `next_digit` are the members of that name, `new_digits` the
local of `process()`.  `coord` says whether the process is up, closing or gone,
and `processor` where the processor thread is.  `Submit` is
`submit_work_unit_result`; `PopResult`/`PopExit` the top of the `processor`
loop; `TakeNext` one turn of `process()`, `WriteHex` and `UpdateStats` the two
halves of `new_sequential_digits` (between them the statistics are behind the
file).  `WriteHex` lets the stream pass on any prefix of what it holds.
`Start` reads the file, opens it and primes the combiner; `BeginClose` and
`FinishClose` are the destructors; `Crash` may come at any point.  `substr`'s
unsigned position is computed modulo `SizeMod`, so that it wraps as `size_t`
does, and the exception ends the process.

Assumed: an orderly stop destroys server and manager before the combiner, so
nothing is submitted after `BeginClose` (`pmgpie_coordinator.hpp`, order of
members; the hazards list what may still run then).  A result's digits are
those of its position: the model does not check the worker's arithmetic.

### WorkUnitLedger and WorkUnitManager

The ledger is what the manager's comments ("Lock active work units list")
promise: `Claim` and `DispatchNew` are `assign_work_unit`, `MarkAll` the three
`mark_` calls, `Submit` is `submit_result`; `Expire` lets the orphan timeout of
a unit pass, so `expired` stands for `orphaned_time`.  `finished` is a history
variable.  The clock runs on during a search, so the ledger does not promise
that a unit that expires in that moment is found, only a disowned one.

`WorkUnitManager` splits each call at every access to shared data.  A list node
is an index into `node`; `chain` is the list as reached from `begin()`, `freed`
the erased nodes.  `push_back` reads the tail and then links, so two of them can
cut a node off.  Touching a freed node ends the process or the loop
(`UseAfterFree`: undefined behaviour).  gen_work_unit's loads of `next_digit`
for the size are taken as one.  The refinement maps a call that has begun to
change the list to the ledger in which it has finished: marks and removals ahead
of the loop, the owner of a claimed unit and a unit not linked yet already count.

### WorkerThreadPool

`pc[i]` is where thread *i* is in `worker_function`; its mutex is free exactly
when it is not between `wait()` returning and the end of the turn.  `net` is the
reader in `WorkerThreadPool::submit_work_unit` and
`WorkerThread::submit_work_unit`: the pool's test of `busy`, the thread's own
test, setting it, and passing the unit with the mutex held.  `requests` counts
`RequestWorkUnit` messages that were not answered: one per thread at first, one
more with each result.  `closing` is the main thread in the destructors.  A
wakeup without notification and a computation that throws are actions of their
own, bounded.  An exception in the reader ends the process (`process`).

### ClientConnection

Three threads share the flags `is_connected` and `run`, the socket and the
queue.  `reader` is where the reader thread is in its loop and in `do_connect`,
`writer` where the writer is with its local `msg`, `main` where the main thread
is in the constructor and the destructor; each action is one access to shared
data.  A message is the number of its push.  `socket` is what the operating
system knows of the connection and `is_connected` what the program believes:
three threads store the flag, and each may do so late.  `Send` is every message
of the worker except HELO (`SendHelo`, the callback of a connection) and
GoodBye (`SendGoodbye`); the pool is destroyed after the client
(`pmgpie_worker.hpp:40, 43`), so its threads may send until the client's
destructor is done, behind GoodBye as well.  `Cut` breaks a connection that can be made again;
after `GoAway` the coordinator never answers.  The frame's length and bytes are
left out: a write is taken whole or fails.

### TcpServer

Per connection `threads` says where reader and writer are and `destructor` where
`~TCPServerConnection` is and which thread runs it.  A `shared_ptr` is
represented by who holds it (`Owners`): the list, the removal queue, the
remover's, acceptor's or main thread's variable, or a reader or writer in a
callback.  `Release` drops one, and whoever drops the last one runs the
destructor, even if it must then join itself (`JoinSelf`).  `shared_from_this()`
in a connection whose destructor has begun throws (`Read`, `Report`,
`Enqueue`), which ends the process, as do using the removal queue after it was
destroyed and the unsynchronised uses of `active_connections` (`process` says
which).  `main` is the thread that runs `send_all` and `~TCPServer`.  A request
is answered with one message.

### Cluster

A step of the coordinator is one handler of `PMGPIeClusterServer` with the call
of the manager it makes, which is an action of `WorkUnitLedger` (`Ledger`), so
what the manager's own races do is in `WorkUnitManager` and not here.  A step of
a worker is one message: `outgoing` is its queue, `computing` the units its
threads work on, `kept` those its threads have and do not work on.  `Finish` is
`publish_work_unit_result`.  `Keep` is a computation that throws, or a
notification that comes before `wait()` (`worker_thread.cpp:101, 95`): the
thread keeps the unit, sends nothing and waits, until `Wake`, a return of
`wait()` without a notification.  `Replace` is the answer to another thread's
request which the pool gives to a thread that is not busy and still has a unit:
that unit is gone, and the other thread idle for good.  `Quit` begins the
client's destructor; the threads go on, and may queue results and requests
behind GoodBye, until `Leave`, after which the pool interrupts them.  What the two modules above show of a connection is used here:
messages go out in order, a failed one again, a HELO behind the rest for each
connection; the reader reports a loss after reading what arrived, the writer
when it has something to write, and after either the connection may be
destroyed.  A connection may be `mute` from its beginning, when the writer or the
constructor stores `is_connected = FALSE` late: nothing is sent on it until it
breaks, and a client that is destroyed meanwhile is stuck.  `Teams` are the
numbers of threads the workers may have, up to `NThreads`.
`Cut` and `Crash` lose any suffix of what was sent.  A worker's id
is a new UUID at each start, so a crash is an end and a worker that is started
again a new worker.  `abandoned` and `lost` are history variables for what the
code loses (see below).

### HexAggregator

`result` and `power_of_16` are exact fractions, as the precision of the code's
`mpf`s grows with the digits; `result` is kept as a numerator and `power_of_16`
is the denominator of both, so the code's division by 16 multiplies it.
Decimals are found by long division (`Remainders`).  `n_digits_dec` is the rule by
which `get_dec` decides how many decimals are certain.

## Runs

| Run | Checks | Instance and why it is enough |
|---|---|---|
| `Combiner` | safety, `PiFile` refinement, two liveness properties | five results that tile 5 digits in two ways and overlap; three at most queued or held, so one can be early, one repeated and one stale; initial files of 0, 1 and 3 digits with a window of 2, so that the statistics work and throw; unlimited restarts and crashes |
| `Ledger` | five properties | two workers, units of 3, 2, 1 and 1 digits (the formula yields 0 from digit 7) |
| `ManagerInTurn` | types, `NoDigitSkipped`, refinement of the ledger | two threads whose calls do not overlap, two workers, three units, the third with its size clamped |
| `ManagerRacing` | `UnitsBelowNext` | two threads, two workers, two units created; claims, marks and removals overlap without limit |
| `ManagerGap` | `NoDigitSkipped`, violated | the same instance |
| `Pool` | safety, `NeverReplaced`, `ReaderReturns` | two threads, three units, one spurious wakeup, one failure |
| `PoolAllBusy`, `PoolLostWakeup` | `ThreadForEachUnit`, `SubmittedIsComputed`, both violated | one thread, two units, no spurious wakeup and no failure |
| `Client` | types, `NothingDropped`, `ResultsSentBeforeClose`, `SentInOrder`, two liveness properties | one message besides HELO and GoodBye and one broken connection: a message may fail, be put back, and be overtaken if the order were wrong; a connection may be lost in the constructor, while running and in the destructor, for a time or for good |
| `Server` | types, `DestroyedUnused`, `LossReported`, `SentBeforeDestroyed`, `CleanupCompletes` | two connections, or one and its loss, and one message: two connections are enough for the list's races, one for everything within a connection; 528 778 states |
| `Cluster` | types, `OwnedIsHeld`, `ThreadsAccounted`, `EachDigitComputed` | two workers, one loss of any kind, one unit followed.  With a thread each, it can be dispatched, kept by a thread that failed, lost with its connection, orphaned late or early, expired, and given to the other worker, and either may go mute.  With one thread a worker that keeps a unit gets no other, so there are also behaviours with two threads in one worker and none in the other, in which a kept unit is replaced; 571 949 states |
| `HexAggregator` | `DigitsCertain` | every sequence of up to five digits that begins with 3; 485 000 states |

Deadlock is checked except where the program really may stop: after a crash by
use after free (`ManagerRacing` and the runs on its instance; there a thread
whose search found nothing also stops at the bound `MaxUnits`) and after an
uncaught exception or a lost notification (`Pool*`), when the threads have ended
(`Client`, `Server`) or a destructor is stuck or the process has died
(`Server`), and when workers are gone, or mute, and the others idle (`Cluster`).

The bounds are: `MaxHeld` (results queued or held), `MaxDigit` (no unit is cut
at or after it), `MaxUnits` (units created, or dispatched), `MaxSpurious`,
`MaxFailures`, `MaxSends` (messages of a worker besides HELO and GoodBye),
`MaxCuts` (broken connections of a worker), `MaxChanges` (connections accepted
and lost, together), `MaxMessages` (messages of all clients), `MaxLosses`
(connections that break, workers that quit or crash, together) and `MaxDigits`
(hexadecimal digits inserted).  The other constants are parameters of the program.

### Fairness

`WorkUnitCombiner!FairSpec`: weak fairness of the processor thread and of the
thread that joins it, which the operating system schedules; none of submissions,
starts, stops or crashes.  `WorkerThreadPool!FairSpec`: weak fairness of each
worker thread, of the reader and of the main thread; a computation ends or is
interrupted.  No fairness of dispatches, of wakeups without notification or of
failures.  Weak fairness is enough for the reader at a mutex because a thread
that waits does not hold it.

`ClientConnection!FairSpec`: weak fairness of the writer, of the main thread and
of the reader, except that the server need not send anything, and strong
fairness of a connection attempt: a coordinator that can be reached is reached
by one of the attempts the loop makes without end.  None of sending, quitting,
losses.  `TcpServer!FairSpec`: some thread that can go on does; none of clients
and of stopping.  `Cluster!FairSpec`: weak fairness of each worker's
reader (`Reader`), writer (`Send`) and main thread (`Leave`), of the thread that
computes a unit (`FinishUnit`, per unit), of each connection's threads at the
coordinator and of the orphan timeout; none of losses, quits and crashes.  This
does not make every computation end in a result or every message go out: `Keep`
may take the unit from `FinishUnit` at any time, no fairness makes `Wake`
happen, and `Send` is disabled while the client is mute.  What is left of
progress then is stated in the property: `EachDigitComputed` asks that from some
time on somebody who is not mute and has a thread that is not idle
(`SomebodyAsks`), that the digit's unit is not with an idle thread of its owner
or leaked (`~Unattended`), and that threads do not fail and wake without a
notification in turns for ever.  Each of these hypotheses is needed: TLC finds a
counterexample without it.

## What the runs found

Runs that expect a violation show three disagreements of code and text:

- `ManagerGap`: `gen_work_unit` is not atomic (`work_unit_manager.hpp:209-218`):
  two requests at a time may create the same unit and skip the digits after it,
  and the combiner then waits for these for ever.
- `PoolAllBusy`: a worker asks for a unit before its thread stops being busy
  (`worker_thread.cpp:133` and 107): `AllWorkersBusy` may end the worker.
- `PoolLostWakeup`: `wait()` without a predicate (`worker_thread.cpp:95`) loses
  a unit's notification, and that of the destructor.

The properties of the other runs name what they must except, and these
exceptions do occur in the models:

- A start on a file with fewer than 100 digits terminates
  (`work_unit_combiner.hpp:159`), and so does a first result that brings the
  file to fewer than 100.
- The manager's locks are temporaries that protect nothing
  (`work_unit_manager.hpp:132, 158, 195, 227`): one unit may be claimed twice.
- `ClientConnection!Mute`: a late store of `is_connected = FALSE`, by the writer
  after a failed write or by the constructor (`net_client_connection.hpp:44`),
  can hit a connection made since.  The reader then waits in a read, the writer
  puts every message back, nothing is sent, and the destructor does not return.
- The worker's destructor waits for ever when the coordinator cannot be reached
  any more (the TODO at line 57), and may throw in `shutdown` when the
  connection broke (line 68).  It waits for an empty queue, and the GoodBye is
  out of the queue before it is written: it may stay unsent, although "send all
  messages and close" (line 52) was done.
- The coordinator's process may end while it cleans up: a reader or a writer
  drops the last `shared_ptr` and joins itself; a message or a loss reaches a
  connection whose destructor has begun; `send_all`, acceptor and remover use
  the list at the same time.  Without any of these a destructor may still be
  stuck: `in_destructor` ends the writer, and the destructor waits for the queue
  the writer left, even for a single GoodBye.
- A connection accepted after `send_all` gets no GoodBye, and the remover may
  end with connections in its queue, which the main thread then destroys.
- `Cluster!abandoned`: three ways for a unit to stay owned by a worker that does
  not have it.  A HELO marks all units of the worker as owned, those too whose
  dispatch was lost with the connection before; a connection that is destroyed
  after its writer's report may still be handling a request, whose unit then
  belongs to a worker whose loss nobody reports; and a unit whose computation
  failed stays in a thread that is not busy, where the next dispatch replaces it.
- `Cluster!kept`: a unit whose computation failed, or whose notification was
  lost, stays owned by a connected worker that does not compute it.
- `Cluster!lost`: a request, or its answer, that is lost with a connection is
  not made again, and one thread of the worker idles for good; so does the
  thread whose dispatch replaced the unit of another one.
- `n_clients` is counted up by every HELO and down by every report of a
  connection with a worker id: reader and writer may both report, so that it
  drifts in both directions, also below 0.

## Proofs

`WorkUnitCombinerProofs`, for every set of results, every initial file, window
and bound:

- `TypeCorrect`: the type invariant.
- `AlwaysInOrder`: `DigitsInOrder` is the inductive strengthening.
  `OutputIsPrefix` alone is not inductive: a step of the processor appends
  `new_digits`, so the proof must know that these begin where file and stream
  end and that `next_digit` counts all three.  `DigitsConcat` and `DigitsCut`
  (joining and cutting runs of digits) do the work in `TakeNext` and `WriteHex`.
- `OutputCorrect`, `FileGrows`, `Implements`: the file is a prefix of pi, only
  `--overwrite` shortens it, and every step is a step of `PiFile` or leaves it
  unchanged.

`WorkUnitLedgerProofs`, for any workers, any size formula (its values need not
be positive) and bound:

- `TypeCorrect`; `UnitsTile`: tiling is inductive together with the bounds of
  each unit, because every step keeps the set of units or adds one that starts
  at `next_digit`; `OwnersKnown`.
- `Remembered`, `UnitsKeptForOwner`: both need `UniqueStarts`, that no two
  control blocks have the same start, which is inductive with the bounds of the
  units.  With the tiling it gives `NothingForgotten`; alone it tells which
  block after a step is the one that was there before, for `KeptForOwner`.

`WorkUnitManagerProofs`, for any number of threads and workers, any size formula
and bounds, with no lock at all:

- `TypeCorrect`: the type invariant; a unit always has a digit.
- `BelowNext`: `UnitsBelowNext`.  It is not inductive: `gen_work_unit` stores to
  `next_digit` long after it read the unit's start.  The strengthening
  `BelowInv` adds `StartsBelow`, that a start which was read is never above the
  counter, which only grows; the addition then covers the unit it is made for.
  The other half of the promise, that no digit is skipped, is false once two
  calls overlap (run `ManagerGap`).

The rest of the module is about `TurnSpec`, for any number of threads: the calls
of two threads do not overlap.  `TurnsOfSpec` says that these are the behaviours
of `Spec` with `[]NoOverlap`, so nothing else is assumed.  Calls that do not
overlap are what the manager's comments promise ("Lock active work units list")
and its temporaries do not give, so this is what the code does with the locks it
means to have; `ManagerRacing` and `ManagerGap` are about what it does without.

- `InTurnSafe`: `TurnInv(self)` says of the thread in a call, at each place of
  it, which nodes the list has, where its iterator is and what its locals hold.
  Between calls it holds of every thread (`HandOver`), so the next call may be
  anyone's (`StepInTurn`); the invariant is that it holds of one of them.  No
  loop reaches an erased node and the process does not crash; `push_back` finds
  the tail it read still there.
- `Refinement`: every access is a step of `WorkUnitLedger` or leaves it
  unchanged.  The mapping speaks of positions in the list; `UnitsAreBlocks` says
  it again as one block for each node (`Block`) whose removal is not decided
  (`Held`), and one for a unit that is not linked yet (`Fresh`).  The step in
  which a call takes effect then changes exactly the blocks that the ledger
  changes.  That a search finds an available unit with no disowned one before it
  is in `TurnInv`, as what the loop has passed so far.
- `LedgerKept`, `NothingSkipped`, `KeptThroughout`: the ledger's theorems,
  instantiated (`LP`) at the mapping.  `NoDigitSkipped` is the tiling, read off
  the manager's own variables.

`WorkerThreadPoolProofs`, for any number of threads, units, wakeups without
notification and failures, proves every safety property of the pool:

- `TypeCorrect`, with `HasUnit`: who has a unit in hand, and that it is one.
- `ReportedOnce`: `OnceInv` says where a dispatched unit may be (with the
  reader, or in one thread's `next_work_unit`) and that a published one is only
  in a thread that is about to reset it.
- `ComputingIsBusy` and `UnitsKept`: a thread is busy from the reader's store
  until its own, and the two overlap only after a wakeup without notification,
  which is their hypothesis; `BusyInv` and `HeldInv` say at which places.
- `OneRequestPerThread`: requests, units on their way and units held are sets;
  each step moves one element, so the sum of the cardinalities does not grow.

`ClientConnectionProofs`, for any number of messages and reconnections:

- `TypeCorrect`, from two halves (`PlacesOK`, `QueueOK`) that steps disturb
  separately.
- `NoneDropped`, `WrittenInOrder`: both from `InOrder`: the queue holds the last
  messages pushed, in order, the writer has the one before them if it has any,
  and all before that are written.  With it, a message pushed to the front goes
  where it came from.
- `ResultsSent`: `DestructorInv` says when the destructor has waited; an empty
  queue then means that at most GoodBye is with the writer.

`TcpServerProofs`, for any number of connections, messages and losses, proves
every safety property of the server.  Each step is first reduced to what it does
to one connection (`Moved`: one of its threads moves, or its destructor, or
nothing of it), and the invariants are stated for one connection:

- `TypeCorrect`, from `Shape`, and `GoodbyesOwed`.
- `NoneUsed`: `Unowned`: once a destructor has begun nobody owns its connection.
  Every place a `shared_ptr` can be at is followed through every step: it is
  copied only from another one, and the last one to go starts the destructor.
  `Joined` says which threads the destructor has waited for.
- `LossesReported`: `AtMostTwo` counts reports made and those a thread may still
  make (`May`), which together do not grow; `Known`: what the server does about
  a lost connection (`Going`) starts from a thread that has reported.
- `SentFirst`: `Sound`: a client that is there is never taken for lost before the
  destructor shuts the connection down, so the destructor waits for the queue;
  `Emptied` and `ToldLater` follow the messages from there.

`ClusterProofs`, for any finite set of workers and any number of threads,
losses and sizes:

- `ImplementsLedger`: every behaviour of the cluster is one of
  `WorkUnitLedger`.  Handlers pass the connection's worker to the manager, so a
  connection that has a message must have a worker: `Connected` says so, and
  `Shape` gives the types.  A worker that connects must find a connection that
  was not used: `ConnectsBounded` counts, so that connections made never exceed
  losses and connected workers.  A result of no unit on the list changes nothing.
- `ClusterRemembers`, `ClusterKeepsUnits`: what is proved of the ledger then
  holds for the cluster.  `WorkUnitLedgerProofs` is instantiated for this
  (`Facts`); TLC checks the assumptions on the cluster's constants, which are
  the ledger's.
- `OwnedHeld`: `OwnedIsHeld` is not inductive: the report of a connection on
  which nothing was read yet orphans nothing.  `AllAccounted` asks more of the
  connections of the worker that owns a unit: one that knows the worker is lost
  and will be reported by its reader (`WillOrphan`), or one that knows it is open
  (`Attached`) and the worker holds the unit; or the unit leaked.  A step of a
  worker moves units between `computing`, `kept`, its queue and its connection:
  `HoldsNext` says once that what is still in one of these is held
  (`KeepHolds`, `WakeHolds` for the moves between the first two).
- `AllThreadsAccounted`: `ThreadsKnown` counts for every worker, not only those
  that run, as what a worker has that quits bounds what may still be lost of it,
  and says that there is no answer on a connection not made yet.  A message is a
  pair of its connection and its place in the queue, so requests in all queues
  are a set of pairs and each step moves or removes one: `CountAppend`,
  `CountTail`, `CountCut` for one queue, `WithinMoved` for those of several
  connections.  `KeepUse`, `WakeUse` and `ReplaceIdle` move one between the
  threads in use and the idle ones.  No induction over sequences is needed.  An answer that is queued
  for an open connection is counted with the worker's link, one for a cut
  connection as lost; hence `Connected`, that an open connection is its worker's
  link.
- `TypeCorrect`: `StartsKnown`, that a message is about a unit the ledger gave
  away or one beyond those followed; `ClientsCounted`, that each connection has
  one HELO, queued, on its way or counted, and that each thread reports once,
  which bounds the drift of `n_clients` on both sides; `ThreadsKnown` bounds
  `lost`, `ConnectsBounded` the connections.

`WorkUnitCombinerProofs` has three more:

- `NeededNotHeld`: `Drained`, that the processor leaves `process()` only when no
  held result begins at `next_digit`, which only `process()` changes.
- `LosesNothing`: `NothingLost`: each result that was accepted is queued, held
  or passed by `next_digit`, and the exit result is the last one in the queue.
- `StatsFollow`: `StatsBehind`: number and window shown are those of the digits
  before the ones in process.  Its hypothesis `[]Fits` is that the file and the
  digits in process are shorter than `SizeMod`, 2^64 in the code, as any
  `std::string` is; without it `substr`'s position wraps to one that is in range
  and the window shown would be wrong.  Every state of the run `Combiner`
  satisfies it.

`HexAggregatorProofs`, for hexadecimal digits of any value and in any number:

- `AlwaysCertain`: `DigitsCertain`.  It is not inductive: it compares digits with
  the number of now, and must know that the next digit does not change them.
  `GotEarlier` remembers the fraction from which `get_dec` took them, and that
  what was added since (`Later`) is less than sixteen times its `power_of_16`,
  which is one unit of the last hexadecimal digit there was.  `Certain` says what
  `n_digits_dec` gains from passing over zeros, eights and nines: sixteen times
  `power_of_16` still fits into what each remainder, up to the last decimal that
  is returned, leaves of the denominator.  That the last one fits (`GotCertain`)
  needs `Counted`: both numbers are whole multiples of a digit's worth.
  `LaterRemainders` then follows the two long divisions, of the number then and
  of the number now, decimal by decimal.  A long division is a recursive function,
  and facts about it need induction over the decimals, which the provers cannot
  take from the library as its theorems have an operator for a parameter.  Each
  induction is made with the least number for which the claim fails instead
  (`Least`, from the library's `WFMin`; then `All`, `UpToAll`, `DownToAll`, which
  speak of sets).  No law of `^` is needed, as `power_of_16` is the product the
  steps build.

Assumptions on constants are the named `ASSUME`s of the modules; TLC evaluates
them in the runs.  `Threads # {}` in `WorkUnitManager` only says that somebody
calls the manager.  Every safety property a run checks is proved.  Only
model-checked are:

- liveness, everywhere: `NeededIsWritten`, `CloseCompletes`, `ReaderReturns`,
  `CleanupCompletes`, `EachDigitComputed` and those of `ClientConnection`.  The
  provers do not handle fairness, which needs `ENABLED`.
- the three disagreements that `ManagerGap`, `PoolAllBusy` and `PoolLostWakeup`
  find: a counterexample is enough.

## Not modelled

- `PiGenerator`: a floating-point series, out of TLC's reach.  Its integer part,
  `mod_pow`, would go wrong only with moduli of 2^31.5 and more
  (`pi.cpp:80`), beyond TLC's integers.
- Moving averages and the throughput thread, which only feed the statistics
  page; the front end and web page, which only read; argument parsing; the
  signal handler; `hex2dec`'s files and invalid characters.
- Frames: lengths and bytes of messages on a connection.  A message arrives
  whole, or is lost with its connection.
- Construction and destruction out of order: the combiner's thread starts before
  its queue exists, the client's threads before its members, the server's
  threads before the manager; the manager is destroyed before them.  These
  windows are undefined behaviour of a few instructions, listed as hazards.
- Vendored libraries (asio, json, uuid, gsl), `result-checker`, and
  `preliminary`, which is experiments.  They are nearly all of the repository's
  lines; the program itself has some 4 000.

## Plan

Done: the combiner with its file, the ledger and the manager, the pool, both ends
of a connection, the cluster that composes them, `hex2dec`'s digits, and the
proofs above.

Left, in this order:

1. Construction and destruction order of coordinator and worker as actions,
   with the undefined outcomes.
2. `Cluster` as what `ClientConnection` and `TcpServer` show of a connection:
   their guarantees as an abstract connection both implement.
