-------------------------- MODULE WorkUnitManager --------------------------
(***************************************************************************)
(* The coordinator's WorkUnitManager as its threads run it.  Every client  *)
(* connection has threads of its own that call the manager, and            *)
(*     std::unique_lock(this->active_work_units_mutex);                    *)
(* makes a temporary that unlocks at the end of that statement: nothing    *)
(* protects the list, so the accesses of two calls interleave.             *)
(*                                                                         *)
(* One action is one access to a field that other threads also use.        *)
(* TurnSpec is the manager with the lock its comments speak of, held for   *)
(* the whole call.                                                         *)
(***************************************************************************)
EXTENDS Integers, Sequences, FiniteSets

CONSTANTS
    Threads,      \* threads that call the manager
    Workers,      \* worker ids
    NoWorker,     \* the empty worker id
    InitialDigit, \* digits there were when the coordinator started
    Quota(_),     \* the size computed for a unit that starts at a digit
    MaxDigit,     \* bound: no unit is sized at or after this digit
    MaxUnits      \* bound: units created

ASSUME ThreadsAssumption ==
    Threads # {} /\ NoWorker \notin Workers /\ InitialDigit \in Nat
ASSUME LimitAssumption == MaxDigit \in Nat
ASSUME SizesAssumption == \A d \in 0..MaxDigit : Quota(d) \in Int

VARIABLES
    next_digit,  \* next digit from which to dispatch work units, an atomic
    node,        \* list nodes created so far: their control blocks
    chain,       \* active_work_units: the nodes reached from its begin()
    freed,       \* nodes erased from the list
    submitted,   \* starts of the results pushed to the combiner
    alive,       \* the process has not crashed
    pc,          \* where each thread is
    worker,      \* its worker_id argument
    at,          \* the node its loop is at, 0 for end()
    unit,        \* the work unit it creates or whose result it submits
    want         \* the state mark_all sets

shared == <<next_digit, node, chain, freed, submitted, alive>>
locals == <<pc, worker, at, unit, want>>
vars == <<shared, locals>>

States == {"OWNED", "ORPHANED", "DISOWNED"}

Units == [start : Nat, n_digits : Nat \ {0}]
ControlBlocks ==
    [work_unit : Units, state : States,
     worker_id : Workers \union {NoWorker}, expired : BOOLEAN]

NoUnit == [start |-> 0, n_digits |-> 1]

Init ==
    /\ next_digit = InitialDigit
    /\ node = <<>>
    /\ chain = <<>>
    /\ freed = {}
    /\ submitted = {}
    /\ alive = TRUE
    /\ pc = [t \in Threads |-> "idle"]
    /\ worker = [t \in Threads |-> NoWorker]
    /\ at = [t \in Threads |-> 0]
    /\ unit = [t \in Threads |-> NoUnit]
    /\ want = [t \in Threads |-> "OWNED"]

(***************************************************************************)
(* Traversal of the list.  A node that another thread erased is freed      *)
(* memory; one that a racing push_back unlinked is still there, and end()  *)
(* follows it.                                                             *)
(***************************************************************************)
InChain(i) == \E k \in DOMAIN chain : chain[k] = i
PositionOf(i) == CHOOSE k \in DOMAIN chain : chain[k] = i
First == IF chain = <<>> THEN 0 ELSE chain[1]
LastNode == IF chain = <<>> THEN 0 ELSE chain[Len(chain)]
After(i) ==
    IF InChain(i) /\ PositionOf(i) < Len(chain) THEN chain[PositionOf(i) + 1]
    ELSE 0

(* The list up to a node, and the list without it. *)
UpTo(i) == SubSeq(chain, 1, PositionOf(i))
Without(i) ==
    IF InChain(i)
    THEN SubSeq(chain, 1, PositionOf(i) - 1)
           \o SubSeq(chain, PositionOf(i) + 1, Len(chain))
    ELSE chain

Goto(t, p) == pc' = [pc EXCEPT ![t] = p]
At(t, i) == at' = [at EXCEPT ![t] = i]
On(t, p) == alive /\ pc[t] = p

(* The call returns, and its arguments and locals are gone. *)
Return(t) ==
    /\ Goto(t, "idle")
    /\ worker' = [worker EXCEPT ![t] = NoWorker]
    /\ At(t, 0)
    /\ unit' = [unit EXCEPT ![t] = NoUnit]
    /\ want' = [want EXCEPT ![t] = "OWNED"]

(* The thread is at a node it may read and write. *)
OnNode(t, p) == On(t, p) /\ at[t] # 0 /\ at[t] \notin freed

Creating == {"gen", "gen_start", "gen_add", "push", "link"}
Assigning == {"find", "claim", "claim_owner"} \union Creating
Marking == {"mark", "mark_state", "mark_rest"}

-----------------------------------------------------------------------------
(* assign_work_unit *)

(* Bound: MaxUnits units are created. *)
MayCreate == Len(node) + Cardinality({u \in Threads : pc[u] \in Creating}) < MaxUnits

(* The condition of find_available_work_unit. *)
Available(c) ==
    \/ c.state = "DISOWNED"
    \/ c.state = "ORPHANED" /\ c.expired

AssignCall(t, w) ==
    /\ On(t, "idle")
    /\ MayCreate \/ \E i \in DOMAIN node : InChain(i) /\ Available(node[i])
    /\ Goto(t, "find")
    /\ worker' = [worker EXCEPT ![t] = w]
    /\ At(t, First)
    /\ UNCHANGED <<shared, unit, want>>

(* Mutant: the search passes over disowned units. *)
FindAvailableSkipping(t) ==
    /\ OnNode(t, "find")
    /\ IF node[at[t]].state = "ORPHANED" /\ node[at[t]].expired
       THEN Goto(t, "claim") /\ UNCHANGED at
       ELSE At(t, After(at[t])) /\ UNCHANGED pc
    /\ UNCHANGED <<shared, worker, unit, want>>

FindAvailable(t) ==
    /\ OnNode(t, "find")
    /\ IF Available(node[at[t]])
       THEN Goto(t, "claim") /\ UNCHANGED at
       ELSE At(t, After(at[t])) /\ UNCHANGED pc
    /\ UNCHANGED <<shared, worker, unit, want>>

ClaimState(t) ==
    /\ OnNode(t, "claim")
    /\ node' = [node EXCEPT ![at[t]].state = "OWNED"]
    /\ Goto(t, "claim_owner")
    /\ UNCHANGED <<next_digit, chain, freed, submitted, alive, worker, at, unit,
                   want>>

ClaimOwner(t) ==
    /\ OnNode(t, "claim_owner")
    /\ node' = [node EXCEPT ![at[t]].worker_id = worker[t]]
    /\ Return(t)
    /\ UNCHANGED <<next_digit, chain, freed, submitted, alive>>

NothingAvailable(t) ==
    /\ On(t, "find")
    /\ at[t] = 0
    /\ MayCreate
    /\ Goto(t, "gen")
    /\ UNCHANGED <<shared, worker, at, unit, want>>

(* Mutant: a unit may have no digits. *)
UnitSizeUnclamped(d) == Quota(d)

(* The size of a unit that starts at d: at least one digit. *)
UnitSize(d) == IF Quota(d) < 1 THEN 1 ELSE Quota(d)

(***************************************************************************)
(* gen_work_unit loads next_digit for the size, again for the start, and   *)
(* then adds to it.                                                        *)
(***************************************************************************)
GenSize(t) ==
    /\ On(t, "gen")
    /\ next_digit < MaxDigit
    /\ unit' = [unit EXCEPT ![t].n_digits = UnitSize(next_digit)]
    /\ Goto(t, "gen_start")
    /\ UNCHANGED <<shared, worker, at, want>>

(* Mutant: the unit starts after the digit that is next. *)
GenStartNext(t) ==
    /\ On(t, "gen_start")
    /\ unit' = [unit EXCEPT ![t].start = next_digit + 1]
    /\ Goto(t, "gen_add")
    /\ UNCHANGED <<shared, worker, at, want>>

GenStart(t) ==
    /\ On(t, "gen_start")
    /\ unit' = [unit EXCEPT ![t].start = next_digit]
    /\ Goto(t, "gen_add")
    /\ UNCHANGED <<shared, worker, at, want>>

(* Mutant: the next unit begins with this one's last digit. *)
GenAddShort(t) ==
    /\ On(t, "gen_add")
    /\ next_digit' = next_digit + unit[t].n_digits - 1
    /\ Goto(t, "push")
    /\ UNCHANGED <<node, chain, freed, submitted, alive, worker, at, unit, want>>

GenAdd(t) ==
    /\ On(t, "gen_add")
    /\ next_digit' = next_digit + unit[t].n_digits
    /\ Goto(t, "push")
    /\ UNCHANGED <<node, chain, freed, submitted, alive, worker, at, unit, want>>

(***************************************************************************)
(* push_back reads which node is last and links the new one after it.  A   *)
(* node another thread linked there in between is cut off.                 *)
(***************************************************************************)
PushTail(t) ==
    /\ On(t, "push")
    /\ At(t, LastNode)
    /\ Goto(t, "link")
    /\ UNCHANGED <<shared, worker, unit, want>>

NewBlock(t) ==
    [work_unit |-> unit[t], state |-> "OWNED", worker_id |-> worker[t],
     expired |-> TRUE]

PushLink(t) ==
    /\ On(t, "link")
    /\ node' = Append(node, NewBlock(t))
    /\ \/ /\ at[t] = 0
          /\ chain' = <<Len(node) + 1>>
       \/ /\ at[t] # 0 /\ InChain(at[t])
          /\ chain' = UpTo(at[t]) \o <<Len(node) + 1>>
       \/ /\ at[t] # 0 /\ ~InChain(at[t])
          /\ UNCHANGED chain
    /\ Return(t)
    /\ UNCHANGED <<next_digit, freed, submitted, alive>>

-----------------------------------------------------------------------------
(* mark_owned, mark_orphaned, mark_disowned *)

MarkCall(t, w, s) ==
    /\ On(t, "idle")
    /\ Goto(t, "mark")
    /\ worker' = [worker EXCEPT ![t] = w]
    /\ want' = [want EXCEPT ![t] = s]
    /\ At(t, First)
    /\ UNCHANGED <<shared, unit>>

MarkTest(t) ==
    /\ OnNode(t, "mark")
    /\ IF node[at[t]].worker_id = worker[t]
       THEN Goto(t, "mark_state") /\ UNCHANGED at
       ELSE At(t, After(at[t])) /\ UNCHANGED pc
    /\ UNCHANGED <<shared, worker, unit, want>>

MarkState(t) ==
    /\ OnNode(t, "mark_state")
    /\ node' = [node EXCEPT ![at[t]].state = want[t]]
    /\ Goto(t, "mark_rest")
    /\ UNCHANGED <<next_digit, chain, freed, submitted, alive, worker, at, unit,
                   want>>

(* The time of an orphaned unit, the worker id of a disowned one. *)
Rest(c, s) ==
    [c EXCEPT !.expired = IF s = "ORPHANED" THEN FALSE ELSE @,
              !.worker_id = IF s = "DISOWNED" THEN NoWorker ELSE @]

MarkRest(t) ==
    /\ OnNode(t, "mark_rest")
    /\ node' = [node EXCEPT ![at[t]] = Rest(@, want[t])]
    /\ Goto(t, "mark")
    /\ At(t, After(at[t]))
    /\ UNCHANGED <<next_digit, chain, freed, submitted, alive, worker, unit, want>>

MarkEnd(t) ==
    /\ On(t, "mark")
    /\ at[t] = 0
    /\ Return(t)
    /\ UNCHANGED shared

-----------------------------------------------------------------------------
(* submit_result *)

SubmitCall(t, i) ==
    /\ On(t, "idle")
    /\ submitted' = submitted \union {node[i].work_unit.start}
    /\ unit' = [unit EXCEPT ![t] = node[i].work_unit]
    /\ Goto(t, "remove")
    /\ At(t, First)
    /\ UNCHANGED <<next_digit, node, chain, freed, alive, worker, want>>

(* What is left of an erased node. *)
Erased(c) ==
    [c EXCEPT !.state = "DISOWNED", !.worker_id = NoWorker, !.expired = FALSE]

(* remove_if erases the nodes of the unit. *)
RemoveTest(t) ==
    /\ OnNode(t, "remove")
    /\ At(t, After(at[t]))
    /\ IF node[at[t]].work_unit.start = unit[t].start
       THEN /\ chain' = Without(at[t])
            /\ freed' = freed \union {at[t]}
            /\ node' = [node EXCEPT ![at[t]] = Erased(@)]
       ELSE UNCHANGED <<node, chain, freed>>
    /\ UNCHANGED <<next_digit, submitted, alive, pc, worker, unit, want>>

RemoveEnd(t) ==
    /\ On(t, "remove")
    /\ at[t] = 0
    /\ Return(t)
    /\ UNCHANGED shared

-----------------------------------------------------------------------------

(* Time passes: the unit was orphaned longer ago than the timeout. *)
Expire(i) ==
    /\ alive
    /\ InChain(i)
    /\ ~node[i].expired
    /\ node' = [node EXCEPT ![i].expired = TRUE]
    /\ UNCHANGED <<next_digit, chain, freed, submitted, alive, locals>>

(***************************************************************************)
(* A thread uses a node that another one erased: the process crashes, or   *)
(* the loop finds no further node; push_back may also go on unharmed.      *)
(***************************************************************************)
LoopOf(p) == IF p \in Marking THEN "mark" ELSE IF p = "remove" THEN p ELSE "find"

UseAfterFree(t) ==
    /\ alive
    /\ pc[t] \in Marking \union {"find", "claim", "claim_owner", "remove", "link"}
    /\ at[t] \in freed
    /\ \/ alive' = FALSE /\ UNCHANGED <<pc, at>>
       \/ pc[t] # "link" /\ Goto(t, LoopOf(pc[t])) /\ At(t, 0) /\ UNCHANGED alive
    /\ UNCHANGED <<next_digit, node, chain, freed, submitted, worker, unit, want>>

Next ==
    \/ \E t \in Threads :
         \/ \E w \in Workers : AssignCall(t, w)
         \/ FindAvailable(t) \/ ClaimState(t) \/ ClaimOwner(t)
         \/ NothingAvailable(t)
         \/ GenSize(t) \/ GenStart(t) \/ GenAdd(t)
         \/ PushTail(t) \/ PushLink(t)
         \/ \E w \in Workers, s \in States : MarkCall(t, w, s)
         \/ MarkTest(t) \/ MarkState(t) \/ MarkRest(t) \/ MarkEnd(t)
         \/ \E i \in DOMAIN node : SubmitCall(t, i)
         \/ RemoveTest(t) \/ RemoveEnd(t)
         \/ UseAfterFree(t)
    \/ \E i \in DOMAIN node : Expire(i)

Spec == Init /\ [][Next]_vars

(* The calls of two threads do not overlap. *)
NoOverlap == \A t, u \in Threads : pc[t] # "idle" /\ pc[u] # "idle" => t = u

TurnSpec == Init /\ [][Next /\ NoOverlap']_vars

-----------------------------------------------------------------------------

TypeOK ==
    /\ next_digit \in Nat
    /\ node \in Seq(ControlBlocks)
    /\ chain \in Seq(Nat)
    /\ freed \subseteq Nat
    /\ submitted \subseteq Nat
    /\ alive \in BOOLEAN
    /\ pc \in [Threads -> Assigning \union Marking \union {"idle", "remove"}]
    /\ worker \in [Threads -> Workers \union {NoWorker}]
    /\ at \in [Threads -> Nat]
    /\ unit \in [Threads -> Units]
    /\ want \in [Threads -> States]

(***************************************************************************)
(* However the calls interleave, no unit reaches past next_digit: what is  *)
(* still to be cut was never given away.                                   *)
(***************************************************************************)
Ends(u) == u.start + u.n_digits

UnitsBelowNext ==
    /\ \A i \in DOMAIN node : Ends(node[i].work_unit) <= next_digit
    /\ \A t \in Threads :
         pc[t] \in {"push", "link"} => Ends(unit[t]) <= next_digit

(***************************************************************************)
(* "Next digit from which to dispatch work units"                          *)
(* (work_unit_manager.hpp:234): a digit before it is in a unit that was    *)
(* created.  The combiner waits for ever for one that is not.              *)
(***************************************************************************)
NoDigitSkipped ==
    (\A t \in Threads : pc[t] \notin {"gen_add", "push", "link"}) =>
        \A d \in InitialDigit..(next_digit - 1) :
            \E i \in DOMAIN node :
                LET u == node[i].work_unit IN u.start <= d /\ d < Ends(u)

(***************************************************************************)
(* The manager implements WorkUnitLedger when its calls do not overlap.    *)
(* What a call has decided but not yet done to the nodes ahead of it is    *)
(* already part of the ledger: the rest of a marking or of a removal, the  *)
(* worker of a claimed unit, a unit that is not linked yet.                *)
(***************************************************************************)
Ahead(t, i) ==
    InChain(i) /\ at[t] # 0 /\ PositionOf(at[t]) <= PositionOf(i)

Normal(c) == [c EXCEPT !.expired = @ /\ c.state = "ORPHANED"]

Settled(i) ==
    LET c == node[i]
        marks == {t \in Threads : pc[t] \in Marking /\ Ahead(t, i)
                                  /\ c.worker_id = worker[t]}
        claims == {t \in Threads : pc[t] = "claim_owner" /\ at[t] = i}
    IN  [c EXCEPT
           !.state = IF marks = {} THEN @ ELSE want[CHOOSE t \in marks : TRUE],
           !.expired = @ /\ marks = {},
           !.worker_id =
               IF claims # {} THEN worker[CHOOSE t \in claims : TRUE]
               ELSE IF \E t \in marks : want[t] = "DISOWNED" THEN NoWorker
               ELSE @]

LedgerUnits ==
    {Normal(Settled(chain[k])) : k \in
        {k \in DOMAIN chain : \A t \in Threads :
            ~(pc[t] = "remove" /\ Ahead(t, chain[k])
              /\ node[chain[k]].work_unit.start = unit[t].start)}}
    \union
    {Normal(NewBlock(t)) : t \in {t \in Threads : pc[t] \in {"push", "link"}}}

Ledger == INSTANCE WorkUnitLedger WITH
    active_work_units <- LedgerUnits,
    finished <- {node[i].work_unit : i \in
                   {i \in DOMAIN node : node[i].work_unit.start \in submitted}}

ImplementsLedger == Ledger!Spec
=============================================================================
