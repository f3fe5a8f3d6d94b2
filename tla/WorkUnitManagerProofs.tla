----------------------- MODULE WorkUnitManagerProofs -----------------------
(***************************************************************************)
(* Theorems about the manager's code in any number of threads.  With no    *)
(* lock: the types are kept, and no unit reaches past next_digit.  With    *)
(* one held for the whole call: it implements WorkUnitLedger.              *)
(***************************************************************************)
EXTENDS WorkUnitManager, TLAPS

USE LimitAssumption, ThreadsAssumption

-----------------------------------------------------------------------------
(* Helpers *)

(* The node after another one is a node, or 0. *)
LEMMA AfterType ==
    ASSUME chain \in Seq(Nat), NEW i \in Nat
    PROVE  After(i) \in Nat
  <1>1. CASE InChain(i) /\ PositionOf(i) < Len(chain)
    <2>1. PositionOf(i) \in DOMAIN chain
      BY <1>1 DEF InChain, PositionOf
    <2>2. PositionOf(i) + 1 \in DOMAIN chain
      BY <1>1, <2>1
    <2> QED
      BY <1>1, <2>2 DEF After
  <1>2. CASE ~(InChain(i) /\ PositionOf(i) < Len(chain))
    BY <1>2 DEF After
  <1> QED
    BY <1>1, <1>2

(* So are the first and the last. *)
LEMMA EndsType ==
    ASSUME chain \in Seq(Nat)
    PROVE  First \in Nat /\ LastNode \in Nat
  <1>1. CASE chain = <<>>
    BY <1>1 DEF First, LastNode
  <1>2. CASE chain # <<>>
    <2>1. 1 \in DOMAIN chain /\ Len(chain) \in DOMAIN chain
      BY <1>2
    <2> QED
      BY <1>2, <2>1 DEF First, LastNode
  <1> QED
    BY <1>1, <1>2

(* A unit has at least one digit, whatever the formula yields. *)
LEMMA UnitSizeType ==
    ASSUME next_digit \in Nat, next_digit < MaxDigit
    PROVE  UnitSize(next_digit) \in Nat \ {0}
  <1>1. Quota(next_digit) \in Int
    BY SizesAssumption
  <1> QED
    BY <1>1 DEF UnitSize

(* The nodes linked after the one push_back found. *)
LEMMA LinkType ==
    ASSUME chain \in Seq(Nat), NEW i \in Nat, InChain(i), NEW n \in Nat
    PROVE  UpTo(i) \o <<n>> \in Seq(Nat)
  <1>1. PositionOf(i) \in DOMAIN chain
    BY DEF InChain, PositionOf
  <1>2. SubSeq(chain, 1, PositionOf(i)) \in Seq(Nat)
    BY <1>1
  <1> QED
    BY <1>2 DEF UpTo

(* The list without a node. *)
LEMMA WithoutType ==
    ASSUME chain \in Seq(Nat), NEW i \in Nat
    PROVE  Without(i) \in Seq(Nat)
  <1>1. CASE InChain(i)
    <2>1. PositionOf(i) \in DOMAIN chain
      BY <1>1 DEF InChain, PositionOf
    <2>2. SubSeq(chain, 1, PositionOf(i) - 1) \in Seq(Nat)
      BY <2>1
    <2>3. SubSeq(chain, PositionOf(i) + 1, Len(chain)) \in Seq(Nat)
      BY <2>1
    <2> QED
      BY <1>1, <2>2, <2>3 DEF Without
  <1>2. CASE ~InChain(i)
    BY <1>2 DEF Without
  <1> QED
    BY <1>1, <1>2

(* A node gets another control block. *)
LEMMA NodeType ==
    ASSUME NEW n \in Seq(ControlBlocks), NEW i,
           NEW c, i \in DOMAIN n => c \in ControlBlocks
    PROVE  [n EXCEPT ![i] = c] \in Seq(ControlBlocks)
  <1>1. CASE i \in DOMAIN n
    BY <1>1
  <1>2. CASE i \notin DOMAIN n
    <2>1. [n EXCEPT ![i] = c] = n
      BY <1>2
    <2> QED
      BY <2>1
  <1> QED
    BY <1>1, <1>2

(* The state, the owner or the time of a node changes. *)
LEMMA StateSet ==
    ASSUME NEW n \in Seq(ControlBlocks), NEW i, NEW s \in States
    PROVE  [n EXCEPT ![i].state = s] \in Seq(ControlBlocks)
  <1> DEFINE c == [n[i] EXCEPT !.state = s]
  <1>1. ASSUME i \in DOMAIN n PROVE c \in ControlBlocks
    <2>1. n[i] \in ControlBlocks
      BY <1>1
    <2> QED
      BY <2>1 DEF ControlBlocks
  <1> HIDE DEF c
  <1>2. [n EXCEPT ![i] = c] \in Seq(ControlBlocks)
    BY <1>1, NodeType
  <1> QED
    BY <1>2 DEF c

LEMMA OwnerSet ==
    ASSUME NEW n \in Seq(ControlBlocks), NEW i, NEW w \in Workers \union {NoWorker}
    PROVE  [n EXCEPT ![i].worker_id = w] \in Seq(ControlBlocks)
  <1> DEFINE c == [n[i] EXCEPT !.worker_id = w]
  <1>1. ASSUME i \in DOMAIN n PROVE c \in ControlBlocks
    <2>1. n[i] \in ControlBlocks
      BY <1>1
    <2> QED
      BY <2>1 DEF ControlBlocks
  <1> HIDE DEF c
  <1>2. [n EXCEPT ![i] = c] \in Seq(ControlBlocks)
    BY <1>1, NodeType
  <1> QED
    BY <1>2 DEF c

LEMMA ExpiredSet ==
    ASSUME NEW n \in Seq(ControlBlocks), NEW i, NEW e \in BOOLEAN
    PROVE  [n EXCEPT ![i].expired = e] \in Seq(ControlBlocks)
  <1> DEFINE c == [n[i] EXCEPT !.expired = e]
  <1>1. ASSUME i \in DOMAIN n PROVE c \in ControlBlocks
    <2>1. n[i] \in ControlBlocks
      BY <1>1
    <2> QED
      BY <2>1 DEF ControlBlocks
  <1> HIDE DEF c
  <1>2. [n EXCEPT ![i] = c] \in Seq(ControlBlocks)
    BY <1>1, NodeType
  <1> QED
    BY <1>2 DEF c

(* The locals of a call that returns. *)
LEMMA ReturnType ==
    ASSUME TypeOK, NEW t \in Threads, Return(t)
    PROVE  /\ pc' \in [Threads -> Assigning \union Marking \union {"idle", "remove"}]
           /\ worker' \in [Threads -> Workers \union {NoWorker}]
           /\ at' \in [Threads -> Nat]
           /\ unit' \in [Threads -> Units]
           /\ want' \in [Threads -> States]
  BY DEF TypeOK, Return, Goto, At, Units, NoUnit, States

-----------------------------------------------------------------------------
(* TypeOK is inductive. *)
LEMMA TypeStep == TypeOK /\ [Next]_vars => TypeOK'
  <1> SUFFICES ASSUME TypeOK, [Next]_vars PROVE TypeOK'
    OBVIOUS
  <1> USE DEF Assigning, Creating, Marking
  <1>1. ASSUME NEW t \in Threads, NEW w \in Workers, AssignCall(t, w)
        PROVE  TypeOK'
    BY <1>1, EndsType DEF AssignCall, TypeOK, Goto, At, shared
  <1>2. ASSUME NEW t \in Threads, FindAvailable(t) PROVE TypeOK'
    <2>1. After(at[t]) \in Nat
      BY AfterType DEF TypeOK
    <2> QED
      BY <1>2, <2>1 DEF FindAvailable, TypeOK, Goto, At, shared
  <1>3. ASSUME NEW t \in Threads, ClaimState(t) PROVE TypeOK'
    <2>1. node' \in Seq(ControlBlocks)
      BY <1>3, StateSet DEF ClaimState, TypeOK, States
    <2> QED
      BY <1>3, <2>1 DEF ClaimState, TypeOK, Goto
  <1>4. ASSUME NEW t \in Threads, ClaimOwner(t) PROVE TypeOK'
    <2>1. worker[t] \in Workers \union {NoWorker}
      BY DEF TypeOK
    <2>2. node' \in Seq(ControlBlocks)
      BY <1>4, <2>1, OwnerSet DEF ClaimOwner, TypeOK
    <2> QED
      BY <1>4, <2>2, ReturnType DEF ClaimOwner, TypeOK
  <1>5. ASSUME NEW t \in Threads, NothingAvailable(t) PROVE TypeOK'
    BY <1>5 DEF NothingAvailable, TypeOK, Goto, shared
  <1>6. ASSUME NEW t \in Threads, GenSize(t) PROVE TypeOK'
    <2>1. UnitSize(next_digit) \in Nat \ {0}
      BY <1>6, UnitSizeType DEF GenSize, TypeOK
    <2> QED
      BY <1>6, <2>1 DEF GenSize, TypeOK, Goto, shared, Units
  <1>7. ASSUME NEW t \in Threads, GenStart(t) PROVE TypeOK'
    BY <1>7 DEF GenStart, TypeOK, Goto, shared, Units
  <1>8. ASSUME NEW t \in Threads, GenAdd(t) PROVE TypeOK'
    BY <1>8 DEF GenAdd, TypeOK, Goto, Units
  <1>9. ASSUME NEW t \in Threads, PushTail(t) PROVE TypeOK'
    BY <1>9, EndsType DEF PushTail, TypeOK, Goto, At, shared
  <1>10. ASSUME NEW t \in Threads, PushLink(t) PROVE TypeOK'
    <2>1. NewBlock(t) \in ControlBlocks
      BY DEF TypeOK, NewBlock, ControlBlocks, States
    <2>2. node' \in Seq(ControlBlocks)
      BY <1>10, <2>1 DEF PushLink, TypeOK
    <2>3. Len(node) + 1 \in Nat /\ at[t] \in Nat
      BY DEF TypeOK
    <2>4. chain' \in Seq(Nat)
      <3>1. CASE at[t] = 0
        <4>1. chain' = <<Len(node) + 1>>
          BY <1>10, <3>1 DEF PushLink
        <4> QED
          BY <2>3, <4>1
      <3>2. CASE at[t] # 0 /\ InChain(at[t])
        BY <1>10, <2>3, <3>2, LinkType DEF PushLink, TypeOK
      <3>3. CASE at[t] # 0 /\ ~InChain(at[t])
        BY <1>10, <3>3 DEF PushLink, TypeOK
      <3> QED
        BY <3>1, <3>2, <3>3
    <2> QED
      BY <1>10, <2>2, <2>4, ReturnType DEF PushLink, TypeOK
  <1>11. ASSUME NEW t \in Threads, NEW w \in Workers, NEW s \in States,
                MarkCall(t, w, s)
         PROVE  TypeOK'
    BY <1>11, EndsType DEF MarkCall, TypeOK, Goto, At, shared
  <1>12. ASSUME NEW t \in Threads, MarkTest(t) PROVE TypeOK'
    <2>1. After(at[t]) \in Nat
      BY AfterType DEF TypeOK
    <2> QED
      BY <1>12, <2>1 DEF MarkTest, TypeOK, Goto, At, shared
  <1>13. ASSUME NEW t \in Threads, MarkState(t) PROVE TypeOK'
    <2>1. want[t] \in States
      BY DEF TypeOK
    <2>2. node' \in Seq(ControlBlocks)
      BY <1>13, <2>1, StateSet DEF MarkState, TypeOK
    <2> QED
      BY <1>13, <2>2 DEF MarkState, TypeOK, Goto
  <1>14. ASSUME NEW t \in Threads, MarkRest(t) PROVE TypeOK'
    <2>1. After(at[t]) \in Nat
      BY AfterType DEF TypeOK
    <2> DEFINE c == Rest(node[at[t]], want[t])
    <2>2. ASSUME at[t] \in DOMAIN node PROVE c \in ControlBlocks
      <3>1. node[at[t]] \in ControlBlocks
        BY <2>2 DEF TypeOK
      <3> QED
        BY <3>1 DEF ControlBlocks, Rest
    <2>3. node' = [node EXCEPT ![at[t]] = c]
      BY <1>14 DEF MarkRest
    <2> HIDE DEF c
    <2>4. node' \in Seq(ControlBlocks)
      BY <2>2, <2>3, NodeType DEF TypeOK
    <2> QED
      BY <1>14, <2>1, <2>4 DEF MarkRest, TypeOK, Goto, At
  <1>15. ASSUME NEW t \in Threads, MarkEnd(t) \/ RemoveEnd(t) PROVE TypeOK'
    BY <1>15, ReturnType DEF MarkEnd, RemoveEnd, TypeOK, shared
  <1>16. ASSUME NEW t \in Threads, NEW i \in DOMAIN node, SubmitCall(t, i)
         PROVE  TypeOK'
    <2> node[i] \in ControlBlocks
      BY <1>16 DEF TypeOK
    <2>1. node[i].work_unit \in Units /\ node[i].work_unit.start \in Nat
      BY DEF ControlBlocks, Units
    <2> QED
      BY <1>16, <2>1, EndsType DEF SubmitCall, TypeOK, Goto, At
  <1>17. ASSUME NEW t \in Threads, RemoveTest(t) PROVE TypeOK'
    <2>1. After(at[t]) \in Nat /\ at[t] \in Nat
      BY AfterType DEF TypeOK
    <2> DEFINE c == Erased(node[at[t]])
    <2>2. ASSUME at[t] \in DOMAIN node PROVE c \in ControlBlocks
      <3>1. node[at[t]] \in ControlBlocks
        BY <2>2 DEF TypeOK
      <3> QED
        BY <3>1 DEF ControlBlocks, Erased, States
    <2>3. node' = node \/ node' = [node EXCEPT ![at[t]] = c]
      BY <1>17 DEF RemoveTest
    <2> HIDE DEF c
    <2>9. [node EXCEPT ![at[t]] = c] \in Seq(ControlBlocks)
      BY <2>2, NodeType DEF TypeOK
    <2>4. node' \in Seq(ControlBlocks)
      BY <2>3, <2>9 DEF TypeOK
    <2>5. Without(at[t]) \in Seq(Nat)
      BY <2>1, WithoutType DEF TypeOK
    <2>6. chain' \in Seq(Nat)
      BY <1>17, <2>5 DEF RemoveTest, TypeOK
    <2>7. freed' \subseteq Nat
      BY <1>17, <2>1 DEF RemoveTest, TypeOK
    <2>8. at' \in [Threads -> Nat]
      BY <1>17, <2>1 DEF RemoveTest, TypeOK, At
    <2> QED
      BY <1>17, <2>4, <2>6, <2>7, <2>8 DEF RemoveTest, TypeOK
  <1>18. ASSUME NEW t \in Threads, UseAfterFree(t) PROVE TypeOK'
    <2>1. LoopOf(pc[t]) \in {"mark", "remove", "find"}
      BY DEF LoopOf
    <2>2. pc' \in [Threads -> Assigning \union Marking \union {"idle", "remove"}]
      BY <1>18, <2>1 DEF UseAfterFree, TypeOK, Goto
    <2>3. at' = at \/ at' = [at EXCEPT ![t] = 0]
      BY <1>18 DEF UseAfterFree, At
    <2>4. at' \in [Threads -> Nat]
      BY <2>3 DEF TypeOK
    <2>5. alive' \in BOOLEAN
      BY <1>18 DEF UseAfterFree, TypeOK
    <2> QED
      BY <1>18, <2>2, <2>4, <2>5 DEF UseAfterFree, TypeOK
  <1>19. ASSUME NEW i \in DOMAIN node, Expire(i) PROVE TypeOK'
    <2>1. node' \in Seq(ControlBlocks)
      BY <1>19, ExpiredSet DEF Expire, TypeOK
    <2> QED
      BY <1>19, <2>1 DEF Expire, TypeOK, locals
  <1>20. CASE UNCHANGED vars
    BY <1>20 DEF vars, shared, locals, TypeOK
  <1> QED
    BY <1>1, <1>2, <1>3, <1>4, <1>5, <1>6, <1>7, <1>8, <1>9, <1>10, <1>11,
       <1>12, <1>13, <1>14, <1>15, <1>16, <1>17, <1>18, <1>19, <1>20 DEF Next

(* The manager's variables and its threads' locals keep their types. *)
THEOREM TypeCorrect == Spec => []TypeOK
  <1>1. Init => TypeOK
    BY DEF Init, TypeOK, ControlBlocks, Units, States, NoUnit, Assigning,
           Creating, Marking
  <1> QED
    BY <1>1, TypeStep, PTL DEF Spec
-----------------------------------------------------------------------------
(* Units below next_digit *)

(***************************************************************************)
(* UnitsBelowNext is not inductive: a thread that is about to add to       *)
(* next_digit read its start earlier.  The counter has only grown since.   *)
(***************************************************************************)
StartsBelow == \A t \in Threads : pc[t] = "gen_add" => unit[t].start <= next_digit
BelowInv == TypeOK /\ UnitsBelowNext /\ StartsBelow

(* What the invariant says of the thread that moves. *)
ThreadBelow(t) ==
    /\ pc[t] \in {"push", "link"} => Ends(unit[t]) <= next_digit
    /\ pc[t] = "gen_add" => unit[t].start <= next_digit

(* The nodes keep their units. *)
UnitsKept ==
    /\ DOMAIN node' = DOMAIN node
    /\ \A i \in DOMAIN node : node'[i].work_unit = node[i].work_unit

(* Only this thread moves. *)
OthersKept(t) == \A u \in Threads \ {t} : pc'[u] = pc[u] /\ unit'[u] = unit[u]

(* The units of the nodes stay below a next_digit that does not shrink. *)
LEMMA NodesStayBelow ==
    ASSUME BelowInv, next_digit' \in Nat, next_digit <= next_digit',
           NEW i \in DOMAIN node
    PROVE  Ends(node[i].work_unit) <= next_digit'
  <1>1. node[i] \in ControlBlocks
    BY DEF BelowInv, TypeOK
  <1>2. Ends(node[i].work_unit) \in Nat
    BY <1>1 DEF ControlBlocks, Units, Ends
  <1>3. Ends(node[i].work_unit) <= next_digit
    BY DEF BelowInv, UnitsBelowNext
  <1>4. next_digit \in Nat
    BY DEF BelowInv, TypeOK
  <1> HIDE DEF Ends
  <1> QED
    BY <1>2, <1>3, <1>4

(* So do those of the threads that do not move. *)
LEMMA OthersStayBelow ==
    ASSUME BelowInv, next_digit' \in Nat, next_digit <= next_digit',
           NEW u \in Threads, pc'[u] = pc[u], unit'[u] = unit[u]
    PROVE  ThreadBelow(u)'
  <1>1. unit[u] \in Units /\ next_digit \in Nat
    BY DEF BelowInv, TypeOK
  <1>2. ThreadBelow(u)
    BY DEF BelowInv, UnitsBelowNext, StartsBelow, ThreadBelow
  <1> QED
    BY <1>1, <1>2 DEF ThreadBelow, Ends, Units

(* A step that keeps the units is judged by the thread that moves. *)
LEMMA StepBelow ==
    ASSUME BelowInv, UnitsKept, next_digit' \in Nat, next_digit <= next_digit',
           NEW t \in Threads, ThreadBelow(t)', OthersKept(t)
    PROVE  UnitsBelowNext' /\ StartsBelow'
  <1>1. ASSUME NEW i \in DOMAIN node'
        PROVE  Ends(node'[i].work_unit) <= next_digit'
    <2>1. i \in DOMAIN node /\ node'[i].work_unit = node[i].work_unit
      BY <1>1 DEF UnitsKept
    <2>2. Ends(node[i].work_unit) <= next_digit'
      BY <2>1, NodesStayBelow
    <2> QED
      BY <2>1, <2>2
  <1>2. ASSUME NEW u \in Threads PROVE ThreadBelow(u)'
    <2>1. CASE u = t
      BY <2>1
    <2>2. CASE u # t
      <3>1. pc'[u] = pc[u] /\ unit'[u] = unit[u]
        BY <2>2 DEF OthersKept
      <3> QED
        BY <3>1, OthersStayBelow
    <2> QED
      BY <2>1, <2>2
  <1> QED
    BY <1>1, <1>2 DEF UnitsBelowNext, StartsBelow, ThreadBelow

(* A step of a thread that is not creating a unit after it. *)
LEMMA QuietStep ==
    ASSUME BelowInv, UnitsKept, next_digit' = next_digit,
           NEW t \in Threads, pc'[t] \notin {"gen_add", "push", "link"},
           OthersKept(t)
    PROVE  UnitsBelowNext' /\ StartsBelow'
  <1>1. next_digit' \in Nat /\ next_digit <= next_digit'
    BY DEF BelowInv, TypeOK
  <1>2. ThreadBelow(t)'
    BY DEF ThreadBelow
  <1> QED
    BY <1>1, <1>2, StepBelow

(* A node gets another control block for the same unit. *)
LEMMA BlockChanged ==
    ASSUME TypeOK, NEW i, NEW c, node' = [node EXCEPT ![i] = c],
           i \in DOMAIN node => c.work_unit = node[i].work_unit
    PROVE  UnitsKept
  BY DEF UnitsKept, TypeOK

(* Setting its state, its owner or its time is such a change. *)
LEMMA FieldChanged ==
    ASSUME TypeOK, NEW i, NEW x,
           \/ node' = [node EXCEPT ![i].state = x]
           \/ node' = [node EXCEPT ![i].worker_id = x]
           \/ node' = [node EXCEPT ![i].expired = x]
    PROVE  UnitsKept
  <1>1. i \in DOMAIN node => node[i] \in ControlBlocks
    BY DEF TypeOK
  <1>2. CASE node' = [node EXCEPT ![i].state = x]
    <2> DEFINE c == [node[i] EXCEPT !.state = x]
    <2>1. i \in DOMAIN node => c.work_unit = node[i].work_unit
      BY <1>1 DEF ControlBlocks
    <2>2. node' = [node EXCEPT ![i] = c]
      BY <1>2
    <2> HIDE DEF c
    <2> QED
      BY <2>1, <2>2, BlockChanged
  <1>3. CASE node' = [node EXCEPT ![i].worker_id = x]
    <2> DEFINE c == [node[i] EXCEPT !.worker_id = x]
    <2>1. i \in DOMAIN node => c.work_unit = node[i].work_unit
      BY <1>1 DEF ControlBlocks
    <2>2. node' = [node EXCEPT ![i] = c]
      BY <1>3
    <2> HIDE DEF c
    <2> QED
      BY <2>1, <2>2, BlockChanged
  <1>4. CASE node' = [node EXCEPT ![i].expired = x]
    <2> DEFINE c == [node[i] EXCEPT !.expired = x]
    <2>1. i \in DOMAIN node => c.work_unit = node[i].work_unit
      BY <1>1 DEF ControlBlocks
    <2>2. node' = [node EXCEPT ![i] = c]
      BY <1>4
    <2> HIDE DEF c
    <2> QED
      BY <2>1, <2>2, BlockChanged
  <1> QED
    BY <1>2, <1>3, <1>4

(* A call that returns moves its own thread only. *)
LEMMA ReturnQuiet ==
    ASSUME TypeOK, NEW t \in Threads, Return(t)
    PROVE  pc'[t] = "idle" /\ OthersKept(t)
  BY DEF TypeOK, Return, Goto, OthersKept

(* The invariant is inductive. *)
LEMMA BelowStep == BelowInv /\ [Next]_vars => BelowInv'
  <1> SUFFICES ASSUME BelowInv, [Next]_vars PROVE UnitsBelowNext' /\ StartsBelow'
    BY TypeStep DEF BelowInv
  <1>t. TypeOK
    BY DEF BelowInv
  <1>k. UNCHANGED node => UnitsKept
    BY DEF UnitsKept
  <1>1. ASSUME NEW t \in Threads, NEW w \in Workers, AssignCall(t, w)
        PROVE  UnitsBelowNext' /\ StartsBelow'
    <2>1. pc'[t] = "find" /\ OthersKept(t)
      BY <1>1, <1>t DEF AssignCall, Goto, OthersKept, TypeOK
    <2> QED
      BY <1>1, <1>k, <2>1, QuietStep DEF AssignCall, shared
  <1>2. ASSUME NEW t \in Threads, FindAvailable(t)
        PROVE  UnitsBelowNext' /\ StartsBelow'
    <2>1. pc'[t] \in {"find", "claim"} /\ OthersKept(t)
      BY <1>2, <1>t DEF FindAvailable, OnNode, On, Goto, OthersKept, TypeOK
    <2> QED
      BY <1>2, <1>k, <2>1, QuietStep DEF FindAvailable, shared
  <1>3. ASSUME NEW t \in Threads, ClaimState(t)
        PROVE  UnitsBelowNext' /\ StartsBelow'
    <2>1. pc'[t] = "claim_owner" /\ OthersKept(t)
      BY <1>3, <1>t DEF ClaimState, Goto, OthersKept, TypeOK
    <2>2. UnitsKept
      BY <1>3, <1>t, FieldChanged DEF ClaimState
    <2> QED
      BY <1>3, <2>1, <2>2, QuietStep DEF ClaimState
  <1>4. ASSUME NEW t \in Threads, ClaimOwner(t)
        PROVE  UnitsBelowNext' /\ StartsBelow'
    <2>1. pc'[t] = "idle" /\ OthersKept(t)
      BY <1>4, <1>t, ReturnQuiet DEF ClaimOwner
    <2>2. UnitsKept
      BY <1>4, <1>t, FieldChanged DEF ClaimOwner
    <2> QED
      BY <1>4, <2>1, <2>2, QuietStep DEF ClaimOwner
  <1>5. ASSUME NEW t \in Threads, NothingAvailable(t)
        PROVE  UnitsBelowNext' /\ StartsBelow'
    <2>1. pc'[t] = "gen" /\ OthersKept(t)
      BY <1>5, <1>t DEF NothingAvailable, Goto, OthersKept, TypeOK
    <2> QED
      BY <1>5, <1>k, <2>1, QuietStep DEF NothingAvailable, shared
  <1>6. ASSUME NEW t \in Threads, GenSize(t)
        PROVE  UnitsBelowNext' /\ StartsBelow'
    <2>1. pc'[t] = "gen_start" /\ OthersKept(t)
      BY <1>6, <1>t DEF GenSize, Goto, OthersKept, TypeOK
    <2> QED
      BY <1>6, <1>k, <2>1, QuietStep DEF GenSize, shared
  <1>7. ASSUME NEW t \in Threads, GenStart(t)
        PROVE  UnitsBelowNext' /\ StartsBelow'
    <2>1. pc'[t] = "gen_add" /\ OthersKept(t)
      BY <1>7, <1>t DEF GenStart, Goto, OthersKept, TypeOK
    <2>2. next_digit' = next_digit /\ next_digit \in Nat /\ UnitsKept
      BY <1>7, <1>k, <1>t DEF GenStart, shared, TypeOK
    <2>3. unit'[t].start = next_digit
      BY <1>7, <1>t DEF GenStart, TypeOK, Units
    <2>4. ThreadBelow(t)'
      BY <2>1, <2>2, <2>3 DEF ThreadBelow
    <2> QED
      BY <2>1, <2>2, <2>4, StepBelow
  <1>8. ASSUME NEW t \in Threads, GenAdd(t)
        PROVE  UnitsBelowNext' /\ StartsBelow'
    <2>1. pc'[t] = "push" /\ OthersKept(t) /\ unit'[t] = unit[t]
      BY <1>8, <1>t DEF GenAdd, Goto, OthersKept, TypeOK
    <2>2. unit[t] \in Units /\ next_digit \in Nat
      BY <1>t DEF TypeOK
    <2>3. unit[t].start <= next_digit
      BY <1>8 DEF BelowInv, StartsBelow, GenAdd, On
    <2>4. next_digit' = next_digit + unit[t].n_digits /\ UnitsKept
      BY <1>8, <1>k DEF GenAdd
    <2>5. Ends(unit[t]) <= next_digit' /\ next_digit' \in Nat
          /\ next_digit <= next_digit'
      BY <2>2, <2>3, <2>4 DEF Ends, Units
    <2>6. ThreadBelow(t)'
      BY <2>1, <2>5 DEF ThreadBelow, Ends
    <2> QED
      BY <2>1, <2>4, <2>5, <2>6, StepBelow
  <1>9. ASSUME NEW t \in Threads, PushTail(t)
        PROVE  UnitsBelowNext' /\ StartsBelow'
    <2>1. pc'[t] = "link" /\ OthersKept(t) /\ unit'[t] = unit[t]
      BY <1>9, <1>t DEF PushTail, Goto, OthersKept, TypeOK
    <2>2. next_digit' = next_digit /\ next_digit \in Nat /\ UnitsKept
      BY <1>9, <1>k, <1>t DEF PushTail, shared, TypeOK
    <2>3. Ends(unit[t]) <= next_digit
      BY <1>9 DEF BelowInv, UnitsBelowNext, PushTail, On
    <2>4. ThreadBelow(t)'
      BY <2>1, <2>2, <2>3 DEF ThreadBelow, Ends
    <2> QED
      BY <2>1, <2>2, <2>4, StepBelow
  <1>10. ASSUME NEW t \in Threads, PushLink(t)
         PROVE  UnitsBelowNext' /\ StartsBelow'
    <2>1. pc'[t] = "idle" /\ OthersKept(t)
      BY <1>10, <1>t, ReturnQuiet DEF PushLink
    <2>2. next_digit' = next_digit /\ next_digit \in Nat
          /\ next_digit <= next_digit'
      BY <1>10, <1>t DEF PushLink, TypeOK
    <2>3. Ends(unit[t]) <= next_digit
      BY <1>10 DEF BelowInv, UnitsBelowNext, PushLink, On
    <2>4. ASSUME NEW i \in DOMAIN node'
          PROVE  Ends(node'[i].work_unit) <= next_digit'
      <3>1. node' = Append(node, NewBlock(t)) /\ node \in Seq(ControlBlocks)
        BY <1>10, <1>t DEF PushLink, TypeOK
      <3>2. CASE i \in DOMAIN node
        <4>1. node'[i] = node[i]
          BY <3>1, <3>2
        <4>2. Ends(node[i].work_unit) <= next_digit'
          BY <2>2, <3>2, NodesStayBelow
        <4> QED
          BY <4>1, <4>2
      <3>3. CASE i \notin DOMAIN node
        <4>1. node'[i] = NewBlock(t)
          BY <2>4, <3>1, <3>3
        <4>2. NewBlock(t).work_unit = unit[t]
          BY DEF NewBlock
        <4> QED
          BY <2>2, <2>3, <4>1, <4>2
      <3> QED
        BY <3>2, <3>3
    <2>5. ASSUME NEW u \in Threads PROVE ThreadBelow(u)'
      <3>1. CASE u = t
        BY <2>1, <3>1 DEF ThreadBelow
      <3>2. CASE u # t
        <4>1. pc'[u] = pc[u] /\ unit'[u] = unit[u]
          BY <2>1, <3>2 DEF OthersKept
        <4> QED
          BY <2>2, <4>1, OthersStayBelow
      <3> QED
        BY <3>1, <3>2
    <2> QED
      BY <2>4, <2>5 DEF UnitsBelowNext, StartsBelow, ThreadBelow
  <1>11. ASSUME NEW t \in Threads, NEW w \in Workers, NEW s \in States,
                MarkCall(t, w, s)
         PROVE  UnitsBelowNext' /\ StartsBelow'
    <2>1. pc'[t] = "mark" /\ OthersKept(t)
      BY <1>11, <1>t DEF MarkCall, Goto, OthersKept, TypeOK
    <2> QED
      BY <1>11, <1>k, <2>1, QuietStep DEF MarkCall, shared
  <1>12. ASSUME NEW t \in Threads, MarkTest(t)
         PROVE  UnitsBelowNext' /\ StartsBelow'
    <2>1. pc'[t] \in {"mark", "mark_state"} /\ OthersKept(t)
      BY <1>12, <1>t DEF MarkTest, OnNode, On, Goto, OthersKept, TypeOK
    <2> QED
      BY <1>12, <1>k, <2>1, QuietStep DEF MarkTest, shared
  <1>13. ASSUME NEW t \in Threads, MarkState(t)
         PROVE  UnitsBelowNext' /\ StartsBelow'
    <2>1. pc'[t] = "mark_rest" /\ OthersKept(t)
      BY <1>13, <1>t DEF MarkState, Goto, OthersKept, TypeOK
    <2>2. UnitsKept
      BY <1>13, <1>t, FieldChanged DEF MarkState
    <2> QED
      BY <1>13, <2>1, <2>2, QuietStep DEF MarkState
  <1>14. ASSUME NEW t \in Threads, MarkRest(t)
         PROVE  UnitsBelowNext' /\ StartsBelow'
    <2>1. pc'[t] = "mark" /\ OthersKept(t)
      BY <1>14, <1>t DEF MarkRest, Goto, OthersKept, TypeOK
    <2> DEFINE c == Rest(node[at[t]], want[t])
    <2>2. at[t] \in DOMAIN node => node[at[t]] \in ControlBlocks
      BY <1>t DEF TypeOK
    <2>3. at[t] \in DOMAIN node => c.work_unit = node[at[t]].work_unit
      BY <2>2 DEF ControlBlocks, Rest
    <2>4. node' = [node EXCEPT ![at[t]] = c]
      BY <1>14 DEF MarkRest
    <2> HIDE DEF c
    <2>5. UnitsKept
      BY <1>t, <2>3, <2>4, BlockChanged
    <2> QED
      BY <1>14, <2>1, <2>5, QuietStep DEF MarkRest
  <1>15. ASSUME NEW t \in Threads, MarkEnd(t) \/ RemoveEnd(t)
         PROVE  UnitsBelowNext' /\ StartsBelow'
    <2>1. pc'[t] = "idle" /\ OthersKept(t)
      BY <1>15, <1>t, ReturnQuiet DEF MarkEnd, RemoveEnd
    <2> QED
      BY <1>15, <1>k, <2>1, QuietStep DEF MarkEnd, RemoveEnd, shared
  <1>16. ASSUME NEW t \in Threads, NEW i \in DOMAIN node, SubmitCall(t, i)
         PROVE  UnitsBelowNext' /\ StartsBelow'
    <2>1. pc'[t] = "remove" /\ OthersKept(t)
      BY <1>16, <1>t DEF SubmitCall, Goto, OthersKept, TypeOK
    <2> QED
      BY <1>16, <1>k, <2>1, QuietStep DEF SubmitCall
  <1>17. ASSUME NEW t \in Threads, RemoveTest(t)
         PROVE  UnitsBelowNext' /\ StartsBelow'
    <2>1. pc'[t] = "remove" /\ OthersKept(t)
      BY <1>17, <1>t DEF RemoveTest, OnNode, On, OthersKept, TypeOK
    <2> DEFINE c == Erased(node[at[t]])
    <2>2. at[t] \in DOMAIN node => node[at[t]] \in ControlBlocks
      BY <1>t DEF TypeOK
    <2>3. at[t] \in DOMAIN node => c.work_unit = node[at[t]].work_unit
      BY <2>2 DEF ControlBlocks, Erased
    <2>4. node' = node \/ node' = [node EXCEPT ![at[t]] = c]
      BY <1>17 DEF RemoveTest
    <2> HIDE DEF c
    <2>5. UnitsKept
      BY <1>k, <1>t, <2>3, <2>4, BlockChanged
    <2> QED
      BY <1>17, <2>1, <2>5, QuietStep DEF RemoveTest
  <1>18. ASSUME NEW t \in Threads, UseAfterFree(t)
         PROVE  UnitsBelowNext' /\ StartsBelow'
    <2>1. LoopOf(pc[t]) \in {"mark", "remove", "find"}
      BY DEF LoopOf
    <2>2. UnitsKept /\ next_digit' = next_digit /\ unit' = unit
      BY <1>18, <1>k DEF UseAfterFree
    <2>3. next_digit' \in Nat /\ next_digit <= next_digit'
      BY <1>t, <2>2 DEF TypeOK
    <2>4. CASE pc' = pc
      <3>1. OthersKept(t)
        BY <2>2, <2>4 DEF OthersKept
      <3>2. ThreadBelow(t)'
        BY <2>2, <2>3, <2>4, OthersStayBelow
      <3> QED
        BY <2>2, <2>3, <3>1, <3>2, StepBelow
    <2>5. CASE Goto(t, LoopOf(pc[t]))
      <3>1. pc'[t] = LoopOf(pc[t]) /\ OthersKept(t)
        BY <1>t, <2>2, <2>5 DEF Goto, OthersKept, TypeOK
      <3> QED
        BY <2>1, <2>2, <3>1, QuietStep
    <2> QED
      BY <1>18, <2>4, <2>5 DEF UseAfterFree
  <1>19. ASSUME NEW i \in DOMAIN node, Expire(i)
         PROVE  UnitsBelowNext' /\ StartsBelow'
    <2>1. UnitsKept
      BY <1>19, <1>t, FieldChanged DEF Expire
    <2>2. next_digit' = next_digit /\ pc' = pc /\ unit' = unit
      BY <1>19 DEF Expire, locals
    <2>3. next_digit' \in Nat /\ next_digit <= next_digit'
      BY <1>t, <2>2 DEF TypeOK
    <2>4. \A t \in Threads : ThreadBelow(t)'
      BY <2>2, <2>3, OthersStayBelow
    <2>5. ASSUME NEW j \in DOMAIN node'
          PROVE  Ends(node'[j].work_unit) <= next_digit'
      <3>1. j \in DOMAIN node /\ node'[j].work_unit = node[j].work_unit
        BY <2>1, <2>5 DEF UnitsKept
      <3>2. Ends(node[j].work_unit) <= next_digit'
        BY <2>3, <3>1, NodesStayBelow
      <3> QED
        BY <3>1, <3>2
    <2> QED
      BY <2>4, <2>5 DEF UnitsBelowNext, StartsBelow, ThreadBelow
  <1>20. CASE UNCHANGED vars
    BY <1>20 DEF vars, shared, locals, BelowInv, UnitsBelowNext, StartsBelow
  <1> QED
    BY <1>1, <1>2, <1>3, <1>4, <1>5, <1>6, <1>7, <1>8, <1>9, <1>10, <1>11,
       <1>12, <1>13, <1>14, <1>15, <1>16, <1>17, <1>18, <1>19, <1>20 DEF Next

(***************************************************************************)
(* However the calls of any number of threads interleave, with no lock, no *)
(* unit reaches past next_digit: the addition covers at least the digits   *)
(* of the unit it is made for.                                             *)
(***************************************************************************)
THEOREM BelowNext == Spec => []UnitsBelowNext
  <1>1. Init => BelowInv
    <2>1. Init => TypeOK
      BY DEF Init, TypeOK, ControlBlocks, Units, States, NoUnit, Assigning,
             Creating, Marking
    <2> QED
      BY <2>1 DEF Init, BelowInv, UnitsBelowNext, StartsBelow
  <1>2. BelowInv => UnitsBelowNext
    BY DEF BelowInv
  <1> QED
    BY <1>1, <1>2, BelowStep, PTL DEF Spec

-----------------------------------------------------------------------------
(***************************************************************************)
(* From here on the calls of the threads do not overlap (TurnSpec), as     *)
(* with the lock the comments of work_unit_manager.hpp speak of.  The      *)
(* manager then implements WorkUnitLedger: each call takes effect at one   *)
(* of its steps, and the rest of it changes nothing the ledger knows of.   *)
(* So the ledger's theorems hold of the manager, for any threads, workers, *)
(* sizes and bounds.                                                       *)
(***************************************************************************)

(* TurnSpec has those behaviours of Spec in which no calls overlap. *)
THEOREM TurnsOfSpec == TurnSpec <=> Spec /\ []NoOverlap
  <1>1. Init => NoOverlap
    BY DEF Init, NoOverlap
  <1>2. NoOverlap /\ [Next /\ NoOverlap']_vars => [Next]_vars /\ NoOverlap'
    <2> SUFFICES ASSUME NoOverlap, UNCHANGED vars PROVE NoOverlap'
      OBVIOUS
    <2> QED
      BY DEF NoOverlap, vars, shared, locals
  <1>3. [Next]_vars /\ NoOverlap' => [Next /\ NoOverlap']_vars
    OBVIOUS
  <1> QED
    BY <1>1, <1>2, <1>3, PTL DEF TurnSpec, Spec

(* self is the only thread in a call, if there is one. *)
InTurn(self) == \A t \in Threads : pc[t] # "idle" => t = self

(* A thread that has returned is not at a node. *)
AtRest == \A t \in Threads : pc[t] = "idle" => at[t] = 0

Unit(i) == node[i].work_unit

(***************************************************************************)
(* The list holds its nodes in the order of their creation, and their      *)
(* units in the order of the digits.                                       *)
(***************************************************************************)
Sorted == \A j, k \in DOMAIN chain : j < k => chain[j] < chain[k]

NothingFreed ==
    /\ freed \subseteq DOMAIN node
    /\ \A k \in DOMAIN chain : chain[k] \in DOMAIN node \ freed

UnitsInOrder ==
    \A i, j \in DOMAIN node : i < j => Ends(Unit(i)) <= Unit(j).start

(* The removal of the node is decided, and the loop has not reached it. *)
Doomed(self, i) ==
    /\ pc[self] = "remove"
    /\ at[self] # 0
    /\ at[self] <= i
    /\ Unit(i).start = unit[self].start

(* A unit leaves the list when a result for it is submitted, only then. *)
ListedUntilSubmitted(self) ==
    \A i \in DOMAIN node :
        /\ ~InChain(i) => Unit(i).start \in submitted
        /\ InChain(i) /\ Unit(i).start \in submitted => Doomed(self, i)

SubmittedKnown ==
    \A s \in submitted : \E i \in DOMAIN node : Unit(i).start = s

ListInv(self) ==
    /\ Sorted
    /\ NothingFreed
    /\ UnitsInOrder
    /\ ListedUntilSubmitted(self)
    /\ SubmittedKnown

(***************************************************************************)
(* What the call in progress knows of the list.                            *)
(***************************************************************************)
OnList(self) == at[self] = 0 \/ InChain(at[self])

NoneDisowned(i) ==
    \A j \in DOMAIN node :
        InChain(j) /\ (i = 0 \/ j < i) => node[j].state # "DISOWNED"

Searching(self) == pc[self] = "find" => NoneDisowned(at[self])

Claiming(self) ==
    pc[self] = "claim" =>
        at[self] # 0 /\ Available(node[at[self]]) /\ NoneDisowned(at[self])

Claimed(self) ==
    pc[self] = "claim_owner" => at[self] # 0 /\ node[at[self]].state = "OWNED"

Sizing(self) == pc[self] \in {"gen", "gen_start", "gen_add"} => NoneDisowned(0)

Sized(self) ==
    pc[self] \in {"gen_start", "gen_add"} =>
        /\ next_digit < MaxDigit
        /\ unit[self].n_digits = UnitSize(next_digit)

Started(self) == pc[self] = "gen_add" => unit[self].start = next_digit

AfterAll(self) ==
    pc[self] \in {"push", "link"} =>
        \A i \in DOMAIN node : Ends(Unit(i)) <= unit[self].start

AtTail(self) == pc[self] = "link" => at[self] = LastNode

Matched(self) ==
    pc[self] \in {"mark_state", "mark_rest"} =>
        at[self] # 0 /\ node[at[self]].worker_id = worker[self]

StateSetTo(self) == pc[self] = "mark_rest" => node[at[self]].state = want[self]

RemoveKnown(self) == pc[self] = "remove" => unit[self].start \in submitted

Calling(self) == pc[self] \in Assigning \union Marking => worker[self] \in Workers

CallInv(self) ==
    /\ OnList(self)
    /\ Searching(self) /\ Claiming(self) /\ Claimed(self)
    /\ Sizing(self) /\ Sized(self) /\ Started(self)
    /\ AfterAll(self) /\ AtTail(self)
    /\ Matched(self) /\ StateSetTo(self)
    /\ RemoveKnown(self)
    /\ Calling(self)

TurnInv(self) ==
    InTurn(self) /\ AtRest /\ alive /\ BelowInv /\ ListInv(self) /\ CallInv(self)

(***************************************************************************)
(* The ledger's units, said without the positions of the list: the node of *)
(* a unit, and what the call in progress has decided about it.             *)
(***************************************************************************)
Marks(self, i) ==
    /\ pc[self] \in Marking
    /\ at[self] # 0
    /\ at[self] <= i
    /\ node[i].worker_id = worker[self]

State(self, i) == IF Marks(self, i) THEN want[self] ELSE node[i].state

Owner(self, i) ==
    IF pc[self] = "claim_owner" /\ at[self] = i THEN worker[self]
    ELSE IF Marks(self, i) /\ want[self] = "DISOWNED" THEN NoWorker
    ELSE node[i].worker_id

Block(self, i) ==
    [work_unit |-> Unit(i), state |-> State(self, i), worker_id |-> Owner(self, i),
     expired |-> node[i].expired /\ ~Marks(self, i) /\ State(self, i) = "ORPHANED"]

Held(self) == {i \in DOMAIN node : InChain(i) /\ ~Doomed(self, i)}

Fresh(self) ==
    IF pc[self] \in {"push", "link"}
    THEN {[work_unit |-> unit[self], state |-> "OWNED",
           worker_id |-> worker[self], expired |-> FALSE]}
    ELSE {}

Blocks(self) == {Block(self, i) : i \in Held(self)} \union Fresh(self)

USE DEF Assigning, Creating, Marking

-----------------------------------------------------------------------------
(* The list *)

(* In a sorted list a node is at one position. *)
LEMMA PositionIs ==
    ASSUME TypeOK, Sorted, NEW k \in DOMAIN chain
    PROVE  InChain(chain[k]) /\ PositionOf(chain[k]) = k
  <1>1. InChain(chain[k])
    BY DEF InChain
  <1>2. PositionOf(chain[k]) \in DOMAIN chain
        /\ chain[PositionOf(chain[k])] = chain[k]
    BY DEF PositionOf
  <1>3. chain \in Seq(Nat)
    BY DEF TypeOK
  <1>4. \A j \in DOMAIN chain : chain[j] \in Nat /\ j \in Nat
    BY <1>3
  <1>5. PICK j : j = PositionOf(chain[k])
    OBVIOUS
  <1>6. j \in DOMAIN chain /\ chain[j] = chain[k]
    BY <1>2, <1>5
  <1>7. ~(j < k) /\ ~(k < j)
    BY <1>4, <1>6 DEF Sorted
  <1>8. j = k
    BY <1>4, <1>6, <1>7
  <1> QED
    BY <1>1, <1>5, <1>8

(* A node of the list has a position. *)
LEMMA HasPosition ==
    ASSUME TypeOK, NEW i, InChain(i)
    PROVE  /\ PositionOf(i) \in 1..Len(chain)
           /\ chain[PositionOf(i)] = i
           /\ i \in Nat
  <1>1. chain \in Seq(Nat)
    BY DEF TypeOK
  <1>2. PositionOf(i) \in DOMAIN chain /\ chain[PositionOf(i)] = i
    BY DEF InChain, PositionOf
  <1> QED
    BY <1>1, <1>2

(* The positions go with the order of creation. *)
LEMMA PositionOrder ==
    ASSUME TypeOK, Sorted, NEW i, NEW j, InChain(i), InChain(j)
    PROVE  PositionOf(i) <= PositionOf(j) <=> i <= j
  <1>1. PICK p, q : p = PositionOf(i) /\ q = PositionOf(j)
    OBVIOUS
  <1>2. p \in DOMAIN chain /\ q \in DOMAIN chain /\ p \in Int /\ q \in Int
        /\ chain[p] = i /\ chain[q] = j /\ i \in Nat /\ j \in Nat
    BY <1>1, HasPosition DEF TypeOK
  <1>3. (p < q => i < j) /\ (q < p => j < i)
    BY <1>2 DEF Sorted
  <1>4. p <= q <=> i <= j
    BY <1>2, <1>3
  <1> QED
    BY <1>1, <1>4

(* The loop goes from a node to the next one of the list, or to end(). *)
LEMMA AfterIs ==
    ASSUME TypeOK, Sorted, NEW i, InChain(i)
    PROVE  \/ After(i) = 0 /\ \A j : InChain(j) => j <= i
           \/ /\ InChain(After(i))
              /\ i < After(i)
              /\ \A j : InChain(j) => j <= i \/ After(i) <= j
  <1>1. PICK p : p = PositionOf(i)
    OBVIOUS
  <1>2. p \in 1..Len(chain) /\ chain[p] = i /\ i \in Nat /\ Len(chain) \in Nat
    BY <1>1, HasPosition DEF TypeOK
  <1>3. CASE p < Len(chain)
    <2>1. After(i) = chain[p + 1]
      BY <1>1, <1>3 DEF After
    <2>2. p + 1 \in DOMAIN chain /\ p \in DOMAIN chain
      BY <1>2, <1>3 DEF TypeOK
    <2>3. InChain(chain[p + 1]) /\ PositionOf(chain[p + 1]) = p + 1
      BY <2>2, PositionIs
    <2>4. chain[p] < chain[p + 1]
      BY <1>2, <2>2 DEF Sorted
    <2>5. ASSUME NEW j, InChain(j) PROVE j <= i \/ chain[p + 1] <= j
      <3>1. PositionOf(j) \in Int
        BY <2>5, HasPosition
      <3>2. PositionOf(j) <= p \/ p + 1 <= PositionOf(j)
        BY <1>2, <3>1
      <3> QED
        BY <1>1, <2>3, <2>5, <3>2, PositionOrder
    <2> QED
      BY <1>2, <2>1, <2>3, <2>4, <2>5
  <1>4. CASE ~(p < Len(chain))
    <2>1. After(i) = 0
      BY <1>1, <1>4 DEF After
    <2>2. ASSUME NEW j, InChain(j) PROVE j <= i
      <3>1. PositionOf(j) <= p
        BY <1>2, <1>4, <2>2, HasPosition
      <3> QED
        BY <1>1, <2>2, <3>1, PositionOrder
    <2> QED
      BY <2>1, <2>2
  <1> QED
    BY <1>3, <1>4

(* It starts at the first node. *)
LEMMA FirstIs ==
    ASSUME TypeOK, Sorted
    PROVE  \/ First = 0 /\ \A j : ~InChain(j)
           \/ InChain(First) /\ \A j : InChain(j) => First <= j
  <1>1. CASE chain = <<>>
    BY <1>1 DEF First, InChain
  <1>2. CASE chain # <<>>
    <2>1. 1 \in DOMAIN chain /\ First = chain[1]
      BY <1>2 DEF First, TypeOK
    <2>2. InChain(First) /\ PositionOf(First) = 1
      BY <2>1, PositionIs
    <2>3. ASSUME NEW j, InChain(j) PROVE First <= j
      <3>1. 1 <= PositionOf(j)
        BY <2>3, HasPosition
      <3> QED
        BY <2>2, <2>3, <3>1, PositionOrder
    <2> QED
      BY <2>2, <2>3
  <1> QED
    BY <1>1, <1>2

(* erase takes a node out and leaves the order of the others. *)
LEMMA WithoutIs ==
    ASSUME TypeOK, Sorted, NEW i, InChain(i), chain' = Without(i)
    PROVE  Sorted' /\ \A j : InChain(j)' <=> InChain(j) /\ j # i
  <1>1. PICK p : p = PositionOf(i)
    OBVIOUS
  <1>2. p \in 1..Len(chain) /\ chain[p] = i /\ i \in Nat /\ Len(chain) \in Nat
    BY <1>1, HasPosition DEF TypeOK
  <1>3. chain \in Seq(Nat)
    BY DEF TypeOK
  <1>4. chain' = SubSeq(chain, 1, p - 1) \o SubSeq(chain, p + 1, Len(chain))
    BY <1>1 DEF Without
  <1>5. /\ Len(SubSeq(chain, 1, p - 1)) = p - 1
        /\ \A k \in 1..(p - 1) : SubSeq(chain, 1, p - 1)[k] = chain[k]
        /\ SubSeq(chain, 1, p - 1) \in Seq(Nat)
    BY <1>2, <1>3
  <1>6. /\ Len(SubSeq(chain, p + 1, Len(chain))) = Len(chain) - p
        /\ \A k \in 1..(Len(chain) - p) :
              SubSeq(chain, p + 1, Len(chain))[k] = chain[p + k]
        /\ SubSeq(chain, p + 1, Len(chain)) \in Seq(Nat)
    BY <1>2, <1>3
  <1>7. /\ DOMAIN chain' = 1..(Len(chain) - 1)
        /\ \A k \in 1..(Len(chain) - 1) :
              chain'[k] = IF k < p THEN chain[k] ELSE chain[k + 1]
    <2> DEFINE l == SubSeq(chain, 1, p - 1)
               r == SubSeq(chain, p + 1, Len(chain))
    <2>1. /\ Len(l) = p - 1 /\ l \in Seq(Nat)
          /\ \A k \in 1..(p - 1) : l[k] = chain[k]
          /\ Len(r) = Len(chain) - p /\ r \in Seq(Nat)
          /\ \A k \in 1..(Len(chain) - p) : r[k] = chain[p + k]
      BY <1>5, <1>6
    <2>2. chain' = l \o r
      BY <1>4
    <2> HIDE DEF l, r
    <2>3. Len(l \o r) = Len(chain) - 1 /\ l \o r \in Seq(Nat)
      BY <1>2, <2>1
    <2>4. ASSUME NEW k \in 1..(Len(chain) - 1)
          PROVE  (l \o r)[k] = IF k < p THEN chain[k] ELSE chain[k + 1]
      <3>1. CASE k < p
        <4>1. k \in 1..(p - 1) /\ (l \o r)[k] = l[k]
          BY <1>2, <2>1, <3>1
        <4> QED
          BY <2>1, <3>1, <4>1
      <3>2. CASE ~(k < p)
        <4>1. k - (p - 1) \in 1..(Len(chain) - p) /\ p + (k - (p - 1)) = k + 1
          BY <1>2, <3>2
        <4>2. (l \o r)[k] = r[k - (p - 1)]
          BY <1>2, <2>1, <3>2, <4>1
        <4> QED
          BY <2>1, <3>2, <4>1, <4>2
      <3> QED
        BY <3>1, <3>2
    <2>5. DOMAIN (l \o r) = 1..(Len(chain) - 1)
      BY <2>3
    <2> QED
      BY <2>2, <2>4, <2>5
  <1>8. \A k \in DOMAIN chain : chain[k] \in Nat /\ k \in 1..Len(chain)
    BY <1>3
  <1>9. Sorted'
    <2> SUFFICES ASSUME NEW j \in DOMAIN chain', NEW k \in DOMAIN chain', j < k
                 PROVE  chain'[j] < chain'[k]
      BY DEF Sorted
    <2>1. PICK m, n \in DOMAIN chain : chain'[j] = chain[m] /\ chain'[k] = chain[n]
                                       /\ m < n
      <3>1. j \in 1..(Len(chain) - 1) /\ k \in 1..(Len(chain) - 1)
        BY <1>7
      <3>2. DOMAIN chain = 1..Len(chain)
        BY <1>3
      <3>3. PICK m : m = IF j < p THEN j ELSE j + 1
        OBVIOUS
      <3>4. PICK n : n = IF k < p THEN k ELSE k + 1
        OBVIOUS
      <3>5. m \in DOMAIN chain /\ n \in DOMAIN chain /\ m < n
        BY <1>2, <3>1, <3>2, <3>3, <3>4
      <3>6. chain'[j] = chain[m] /\ chain'[k] = chain[n]
        BY <1>7, <3>1, <3>3, <3>4
      <3> QED
        BY <3>5, <3>6
    <2> QED
      BY <2>1 DEF Sorted
  <1>10. ASSUME NEW j PROVE InChain(j)' <=> InChain(j) /\ j # i
    <2>1. ASSUME InChain(j)' PROVE InChain(j) /\ j # i
      <3>1. PICK k \in DOMAIN chain' : chain'[k] = j
        BY <2>1 DEF InChain
      <3>2. k \in 1..(Len(chain) - 1)
        BY <1>7, <3>1
      <3>3. PICK m : m = IF k < p THEN k ELSE k + 1
        OBVIOUS
      <3>4. m \in 1..Len(chain) /\ m # p
        BY <1>2, <3>2, <3>3
      <3>5. m \in DOMAIN chain /\ chain[m] = j
        BY <1>3, <1>7, <3>1, <3>2, <3>3, <3>4
      <3>6. PositionOf(j) = m /\ InChain(j)
        BY <3>5, PositionIs
      <3> QED
        BY <1>1, <3>4, <3>6
    <2>2. ASSUME InChain(j), j # i PROVE InChain(j)'
      <3>1. PICK m \in DOMAIN chain : chain[m] = j
        BY <2>2 DEF InChain
      <3>2. m \in 1..Len(chain) /\ m # p
        BY <1>2, <1>8, <2>2, <3>1
      <3>3. PICK k : k = IF m < p THEN m ELSE m - 1
        OBVIOUS
      <3>4. k \in 1..(Len(chain) - 1) /\ (k < p <=> m < p)
            /\ (~(m < p) => k + 1 = m)
        BY <1>2, <3>2, <3>3
      <3>5. k \in DOMAIN chain' /\ chain'[k] = j
        BY <1>7, <3>1, <3>3, <3>4
      <3> QED
        BY <3>5 DEF InChain
    <2> QED
      BY <2>1, <2>2
  <1> QED
    BY <1>9, <1>10

(* push_back adds a node behind the last one. *)
LEMMA AppendIs ==
    ASSUME TypeOK, Sorted, NEW n \in Nat, chain' = Append(chain, n),
           \A j : InChain(j) => j < n
    PROVE  Sorted' /\ \A j : InChain(j)' <=> InChain(j) \/ j = n
  <1>1. chain \in Seq(Nat) /\ Len(chain) \in Nat /\ DOMAIN chain = 1..Len(chain)
    BY DEF TypeOK
  <1>2. /\ DOMAIN chain' = 1..(Len(chain) + 1)
        /\ \A k \in 1..Len(chain) : chain'[k] = chain[k]
        /\ chain'[Len(chain) + 1] = n
    BY <1>1
  <1>3. \A k \in 1..Len(chain) : chain[k] < n
    BY <1>1 DEF InChain
  <1>4. Sorted'
    <2> SUFFICES ASSUME NEW j \in DOMAIN chain', NEW k \in DOMAIN chain', j < k
                 PROVE  chain'[j] < chain'[k]
      BY DEF Sorted
    <2>1. j \in 1..Len(chain)
      BY <1>1, <1>2
    <2>2. CASE k \in 1..Len(chain)
      BY <1>1, <1>2, <2>1, <2>2 DEF Sorted
    <2>3. CASE k = Len(chain) + 1
      BY <1>2, <1>3, <2>1, <2>3
    <2> QED
      BY <1>1, <1>2, <2>2, <2>3
  <1>5. ASSUME NEW j PROVE InChain(j)' <=> InChain(j) \/ j = n
    <2>1. InChain(j)' => InChain(j) \/ j = n
      BY <1>1, <1>2 DEF InChain
    <2>2. InChain(j) => InChain(j)'
      BY <1>1, <1>2 DEF InChain
    <2>3. j = n => InChain(j)'
      <3>1. Len(chain) + 1 \in DOMAIN chain'
        BY <1>1, <1>2
      <3> QED
        BY <1>2, <3>1 DEF InChain
    <2> QED
      BY <2>1, <2>2, <2>3
  <1> QED
    BY <1>4, <1>5

-----------------------------------------------------------------------------
(* What a step of a thread does *)

(* What a call that returns leaves. *)
LEMMA ReturnIs ==
    ASSUME NEW self \in Threads, TypeOK, Return(self)
    PROVE  pc'[self] = "idle" /\ at'[self] = 0
  BY DEF Return, Goto, At, TypeOK

LEMMA AssignCallIs ==
    ASSUME NEW self \in Threads, TypeOK, NEW w \in Workers, AssignCall(self, w)
    PROVE  /\ pc[self] = "idle"
           /\ pc'[self] = "find" /\ at'[self] = First /\ worker'[self] = w
           /\ UNCHANGED <<next_digit, node, chain, freed, submitted, alive, unit>>
  BY DEF AssignCall, On, Goto, At, TypeOK, shared

LEMMA FindAvailableIs ==
    ASSUME NEW self \in Threads, TypeOK, FindAvailable(self)
    PROVE  /\ pc[self] = "find" /\ at[self] # 0
           /\ \/ /\ Available(node[at[self]])
                 /\ pc'[self] = "claim" /\ at'[self] = at[self]
              \/ /\ ~Available(node[at[self]])
                 /\ pc'[self] = "find" /\ at'[self] = After(at[self])
           /\ UNCHANGED <<next_digit, node, chain, freed, submitted, alive, unit>>
           /\ UNCHANGED <<worker, want>>
  BY DEF FindAvailable, OnNode, On, Goto, At, TypeOK, shared

LEMMA ClaimStateIs ==
    ASSUME NEW self \in Threads, TypeOK, ClaimState(self)
    PROVE  /\ pc[self] = "claim" /\ at[self] # 0
           /\ node' = [node EXCEPT ![at[self]].state = "OWNED"]
           /\ pc'[self] = "claim_owner"
           /\ UNCHANGED <<next_digit, chain, freed, submitted, alive, unit>>
           /\ UNCHANGED <<at, worker, want>>
  BY DEF ClaimState, OnNode, On, Goto, TypeOK

LEMMA ClaimOwnerIs ==
    ASSUME NEW self \in Threads, TypeOK, ClaimOwner(self)
    PROVE  /\ pc[self] = "claim_owner" /\ at[self] # 0
           /\ node' = [node EXCEPT ![at[self]].worker_id = worker[self]]
           /\ pc'[self] = "idle" /\ at'[self] = 0
           /\ UNCHANGED <<next_digit, chain, freed, submitted, alive>>
  BY ReturnIs DEF ClaimOwner, OnNode, On

LEMMA NothingAvailableIs ==
    ASSUME NEW self \in Threads, TypeOK, NothingAvailable(self)
    PROVE  /\ pc[self] = "find" /\ at[self] = 0
           /\ pc'[self] = "gen"
           /\ UNCHANGED <<next_digit, node, chain, freed, submitted, alive, unit>>
           /\ UNCHANGED <<at, worker, want>>
  BY DEF NothingAvailable, On, Goto, TypeOK, shared

LEMMA GenSizeIs ==
    ASSUME NEW self \in Threads, TypeOK, GenSize(self)
    PROVE  /\ pc[self] = "gen" /\ next_digit < MaxDigit
           /\ pc'[self] = "gen_start"
           /\ unit'[self].n_digits = UnitSize(next_digit)
           /\ UNCHANGED <<next_digit, node, chain, freed, submitted, alive>>
           /\ UNCHANGED <<at, worker, want>>
  <1>1. unit[self] \in Units
    BY DEF TypeOK
  <1> QED
    BY <1>1 DEF GenSize, On, Goto, TypeOK, shared, Units

LEMMA GenStartIs ==
    ASSUME NEW self \in Threads, TypeOK, GenStart(self)
    PROVE  /\ pc[self] = "gen_start" /\ pc'[self] = "gen_add"
           /\ unit'[self].start = next_digit
           /\ unit'[self].n_digits = unit[self].n_digits
           /\ UNCHANGED <<next_digit, node, chain, freed, submitted, alive>>
           /\ UNCHANGED <<at, worker, want>>
  <1>1. unit[self] \in Units
    BY DEF TypeOK
  <1> QED
    BY <1>1 DEF GenStart, On, Goto, TypeOK, shared, Units

LEMMA GenAddIs ==
    ASSUME NEW self \in Threads, TypeOK, GenAdd(self)
    PROVE  /\ pc[self] = "gen_add" /\ pc'[self] = "push"
           /\ next_digit' = next_digit + unit[self].n_digits
           /\ UNCHANGED <<node, chain, freed, submitted, alive, unit>>
           /\ UNCHANGED <<at, worker, want>>
  BY DEF GenAdd, On, Goto, TypeOK

LEMMA PushTailIs ==
    ASSUME NEW self \in Threads, TypeOK, PushTail(self)
    PROVE  /\ pc[self] = "push" /\ pc'[self] = "link"
           /\ at'[self] = LastNode
           /\ UNCHANGED <<next_digit, node, chain, freed, submitted, alive, unit>>
           /\ UNCHANGED <<worker, want>>
  BY DEF PushTail, On, Goto, At, TypeOK, shared

LEMMA MarkCallIs ==
    ASSUME NEW self \in Threads, TypeOK, NEW w \in Workers, NEW s \in States,
           MarkCall(self, w, s)
    PROVE  /\ pc[self] = "idle" /\ pc'[self] = "mark"
           /\ worker'[self] = w /\ want'[self] = s /\ at'[self] = First
           /\ UNCHANGED <<next_digit, node, chain, freed, submitted, alive, unit>>
  BY DEF MarkCall, On, Goto, At, TypeOK, shared

LEMMA MarkTestIs ==
    ASSUME NEW self \in Threads, TypeOK, MarkTest(self)
    PROVE  /\ pc[self] = "mark" /\ at[self] # 0
           /\ \/ /\ node[at[self]].worker_id = worker[self]
                 /\ pc'[self] = "mark_state" /\ at'[self] = at[self]
              \/ /\ node[at[self]].worker_id # worker[self]
                 /\ pc'[self] = "mark" /\ at'[self] = After(at[self])
           /\ UNCHANGED <<next_digit, node, chain, freed, submitted, alive, unit>>
           /\ UNCHANGED <<worker, want>>
  BY DEF MarkTest, OnNode, On, Goto, At, TypeOK, shared

LEMMA MarkStateIs ==
    ASSUME NEW self \in Threads, TypeOK, MarkState(self)
    PROVE  /\ pc[self] = "mark_state" /\ at[self] # 0
           /\ node' = [node EXCEPT ![at[self]].state = want[self]]
           /\ pc'[self] = "mark_rest"
           /\ UNCHANGED <<next_digit, chain, freed, submitted, alive, unit>>
           /\ UNCHANGED <<at, worker, want>>
  BY DEF MarkState, OnNode, On, Goto, TypeOK

LEMMA MarkRestIs ==
    ASSUME NEW self \in Threads, TypeOK, MarkRest(self)
    PROVE  /\ pc[self] = "mark_rest" /\ at[self] # 0
           /\ node' = [node EXCEPT ![at[self]] = Rest(node[at[self]], want[self])]
           /\ pc'[self] = "mark" /\ at'[self] = After(at[self])
           /\ UNCHANGED <<next_digit, chain, freed, submitted, alive, unit>>
           /\ UNCHANGED <<worker, want>>
  BY DEF MarkRest, OnNode, On, Goto, At, TypeOK

LEMMA SubmitCallIs ==
    ASSUME NEW self \in Threads,
           TypeOK, NEW i \in DOMAIN node, SubmitCall(self, i)
    PROVE  /\ pc[self] = "idle" /\ pc'[self] = "remove"
           /\ submitted' = submitted \union {Unit(i).start}
           /\ unit'[self] = Unit(i) /\ at'[self] = First
           /\ UNCHANGED <<next_digit, node, chain, freed, alive>>
  BY DEF SubmitCall, On, Goto, At, TypeOK, Unit

LEMMA RemoveTestIs ==
    ASSUME NEW self \in Threads, TypeOK, RemoveTest(self)
    PROVE  /\ pc[self] = "remove" /\ at[self] # 0
           /\ pc'[self] = "remove" /\ at'[self] = After(at[self])
           /\ \/ /\ Unit(at[self]).start = unit[self].start
                 /\ chain' = Without(at[self])
                 /\ freed' = freed \union {at[self]}
                 /\ node' = [node EXCEPT ![at[self]] = Erased(node[at[self]])]
              \/ /\ Unit(at[self]).start # unit[self].start
                 /\ UNCHANGED <<node, chain, freed>>
           /\ UNCHANGED <<next_digit, submitted, alive, unit, worker, want>>
  BY DEF RemoveTest, OnNode, On, At, TypeOK, Unit

-----------------------------------------------------------------------------
(* TurnInv is inductive *)

(* Steps that leave the list and the units of its nodes alone. *)
LEMMA ListKept ==
    ASSUME NEW self \in Threads,
           TurnInv(self), UnitsKept, UNCHANGED <<chain, freed, submitted>>,
           pc[self] # "remove" \/ at[self] = 0
    PROVE  ListInv(self)'
  <1>1. ListInv(self)
    BY DEF TurnInv
  <1>2. Sorted'
    BY <1>1 DEF ListInv, Sorted
  <1>3. NothingFreed'
    BY <1>1 DEF ListInv, NothingFreed, UnitsKept
  <1>4. UnitsInOrder'
    BY <1>1 DEF ListInv, UnitsInOrder, UnitsKept, Unit, Ends
  <1>5. ListedUntilSubmitted(self)'
    <2> SUFFICES ASSUME NEW i \in DOMAIN node
                 PROVE  /\ ~InChain(i)' => (Unit(i).start \in submitted)'
                        /\ ~(InChain(i)' /\ (Unit(i).start \in submitted)')
      BY DEF ListedUntilSubmitted, UnitsKept
    <2>1. InChain(i)' = InChain(i) /\ (Unit(i).start \in submitted)'
                                      = (Unit(i).start \in submitted)
      BY DEF UnitsKept, Unit, InChain
    <2>2. ~Doomed(self, i)
      BY DEF Doomed
    <2> QED
      BY <1>1, <2>1, <2>2 DEF ListInv, ListedUntilSubmitted
  <1>6. SubmittedKnown'
    BY <1>1 DEF ListInv, SubmittedKnown, UnitsKept, Unit
  <1> QED
    BY <1>2, <1>3, <1>4, <1>5, <1>6 DEF ListInv

(* A call that has returned knows nothing. *)
LEMMA IdleKnows ==
    ASSUME NEW self \in Threads, pc'[self] = "idle", at'[self] = 0
    PROVE  CallInv(self)'
  BY DEF CallInv, OnList, Searching, Claiming, Claimed, Sizing, Sized, Started,
         AfterAll, AtTail, Matched, StateSetTo, RemoveKnown, Calling

(* A node of the list is a node, with a control block. *)
LEMMA Listed ==
    ASSUME NEW self \in Threads, TurnInv(self), NEW i, InChain(i)
    PROVE  /\ i \in DOMAIN node /\ i \notin freed /\ i \in Nat \ {0}
           /\ node[i] \in ControlBlocks
  <1>1. PICK k \in DOMAIN chain : chain[k] = i
    BY DEF InChain
  <1>2. i \in DOMAIN node /\ i \notin freed
    BY <1>1 DEF TurnInv, ListInv, NothingFreed
  <1>3. node \in Seq(ControlBlocks)
    BY DEF TurnInv, BelowInv, TypeOK
  <1> QED
    BY <1>2, <1>3

(* The nodes up to the next one are those up to this one. *)
LEMMA SearchedOne ==
    ASSUME NEW self \in Threads,
           TurnInv(self), at[self] # 0, NoneDisowned(at[self]),
           node[at[self]].state # "DISOWNED"
    PROVE  NoneDisowned(After(at[self]))
  <1>1. TypeOK /\ Sorted /\ InChain(at[self])
    BY DEF TurnInv, BelowInv, ListInv, CallInv, OnList
  <1> SUFFICES ASSUME NEW j \in DOMAIN node, InChain(j),
                      After(at[self]) = 0 \/ j < After(at[self])
               PROVE  node[j].state # "DISOWNED"
    BY DEF NoneDisowned
  <1>2. \/ After(at[self]) = 0 /\ \A n : InChain(n) => n <= at[self]
        \/ /\ InChain(After(at[self]))
           /\ \A n : InChain(n) => n <= at[self] \/ After(at[self]) <= n
    BY <1>1, AfterIs
  <1>3. j \in Nat /\ at[self] \in Nat \ {0}
    BY <1>1, Listed
  <1>4. j <= at[self]
    <2>1. CASE After(at[self]) = 0
      BY <1>2, <2>1, Listed
    <2>2. CASE After(at[self]) # 0
      <3>1. j < After(at[self]) /\ After(at[self]) \in Nat
        BY <1>2, <2>2, Listed
      <3> QED
        BY <1>2, <1>3, <2>2, <3>1
    <2> QED
      BY <2>1, <2>2
  <1> QED
    BY <1>3, <1>4 DEF NoneDisowned

(* The next node is on the list, or there is none. *)
LEMMA AfterOnList ==
    ASSUME NEW self \in Threads, TurnInv(self), at[self] # 0
    PROVE  After(at[self]) = 0 \/ InChain(After(at[self]))
  <1>1. TypeOK /\ Sorted /\ InChain(at[self])
    BY DEF TurnInv, BelowInv, ListInv, CallInv, OnList
  <1> QED
    BY <1>1, AfterIs

LEMMA FirstOnList ==
    ASSUME NEW self \in Threads, TurnInv(self)
    PROVE  First = 0 \/ InChain(First)
  <1>1. TypeOK /\ Sorted
    BY DEF TurnInv, BelowInv, ListInv
  <1> QED
    BY <1>1, FirstIs

LEMMA LastOnList ==
    ASSUME NEW self \in Threads, TurnInv(self)
    PROVE  LastNode = 0 \/ InChain(LastNode)
  <1>1. chain \in Seq(Nat)
    BY DEF TurnInv, BelowInv, TypeOK
  <1>2. CASE chain = <<>>
    BY <1>2 DEF LastNode
  <1>3. CASE chain # <<>>
    <2>1. Len(chain) \in DOMAIN chain
      BY <1>1, <1>3
    <2> QED
      BY <1>3, <2>1 DEF LastNode, InChain
  <1> QED
    BY <1>2, <1>3

(* push_back finds the last node where it left it: the list only grows. *)
LEMMA PushLinkIs ==
    ASSUME NEW self \in Threads, TurnInv(self), PushLink(self)
    PROVE  /\ pc[self] = "link" /\ pc'[self] = "idle" /\ at'[self] = 0
           /\ node' = Append(node, NewBlock(self))
           /\ chain' = Append(chain, Len(node) + 1)
           /\ UNCHANGED <<next_digit, freed, submitted, alive>>
  <1>1. TypeOK /\ Sorted
    BY DEF TurnInv, BelowInv, ListInv
  <1>2. /\ pc[self] = "link" /\ pc'[self] = "idle" /\ at'[self] = 0
        /\ node' = Append(node, NewBlock(self))
        /\ UNCHANGED <<next_digit, freed, submitted, alive>>
    BY <1>1, ReturnIs DEF PushLink, On
  <1>3. at[self] = LastNode
    BY <1>2 DEF TurnInv, CallInv, AtTail
  <1>4. chain \in Seq(Nat) /\ Len(chain) \in Nat
    BY <1>1 DEF TypeOK
  <1>5. chain' = Append(chain, Len(node) + 1)
    <2>1. CASE chain = <<>>
      <3>1. at[self] = 0
        BY <1>3, <2>1 DEF LastNode
      <3>2. chain' = <<Len(node) + 1>>
        BY <3>1 DEF PushLink
      <3> QED
        BY <2>1, <3>2
    <2>2. CASE chain # <<>>
      <3>1. Len(chain) \in DOMAIN chain /\ at[self] = chain[Len(chain)]
        BY <1>3, <1>4, <2>2 DEF LastNode
      <3>2. InChain(at[self]) /\ PositionOf(at[self]) = Len(chain)
        BY <1>1, <3>1, PositionIs
      <3>3. at[self] # 0
        BY <3>2, Listed
      <3>4. chain' = UpTo(at[self]) \o <<Len(node) + 1>>
        BY <3>2, <3>3 DEF PushLink
      <3>5. UpTo(at[self]) = chain
        BY <1>4, <3>2 DEF UpTo
      <3> QED
        BY <1>4, <3>4, <3>5
    <2> QED
      BY <2>1, <2>2
  <1> QED
    BY <1>2, <1>5

(* The steps in which the thread goes through the list, or calls. *)
LEMMA LoopStep ==
    ASSUME NEW self \in Threads, TurnInv(self),
           \/ \E w \in Workers : AssignCall(self, w)
           \/ FindAvailable(self) \/ NothingAvailable(self)
           \/ \E w \in Workers, s \in States : MarkCall(self, w, s)
           \/ MarkTest(self) \/ MarkEnd(self) \/ RemoveEnd(self)
    PROVE  ListInv(self)' /\ CallInv(self)' /\ alive'
  <1>t. TypeOK /\ Sorted /\ alive /\ ListInv(self) /\ CallInv(self)
    BY DEF TurnInv, BelowInv, ListInv
  <1>k. UNCHANGED node => UnitsKept
    BY DEF UnitsKept
  <1>c. UNCHANGED <<node, chain, freed, submitted, alive>>
        /\ (pc[self] # "remove" \/ at[self] = 0) => ListInv(self)' /\ alive'
    BY <1>t, <1>k, ListKept
  <1>1. ASSUME NEW w \in Workers, AssignCall(self, w)
        PROVE  ListInv(self)' /\ CallInv(self)' /\ alive'
    <2>1. /\ pc[self] = "idle"
          /\ pc'[self] = "find" /\ at'[self] = First /\ worker'[self] = w
          /\ UNCHANGED <<next_digit, node, chain, freed, submitted, alive, unit>>
      BY <1>1, <1>t, AssignCallIs
    <2>2. OnList(self)'
      BY <2>1, FirstOnList DEF OnList, InChain
    <2>3. Searching(self)'
      <3> SUFFICES ASSUME NEW j \in DOMAIN node, InChain(j), First = 0 \/ j < First
                   PROVE  FALSE
        BY <2>1 DEF Searching, NoneDisowned, InChain
      <3>1. InChain(First) /\ First <= j
        BY <1>t, FirstIs
      <3>2. First \in Nat \ {0} /\ j \in Nat
        BY <3>1, Listed
      <3> QED
        BY <3>1, <3>2
    <2>4. CallInv(self)'
      BY <2>1, <2>2, <2>3 DEF CallInv, Claiming, Claimed, Sizing, Sized, Started,
         AfterAll, AtTail, Matched, StateSetTo, RemoveKnown, Calling
    <2> QED
      BY <1>c, <2>1, <2>4
  <1>2. ASSUME FindAvailable(self) PROVE ListInv(self)' /\ CallInv(self)' /\ alive'
    <2>1. /\ pc[self] = "find" /\ at[self] # 0
          /\ \/ /\ Available(node[at[self]])
                /\ pc'[self] = "claim" /\ at'[self] = at[self]
             \/ /\ ~Available(node[at[self]])
                /\ pc'[self] = "find" /\ at'[self] = After(at[self])
          /\ UNCHANGED <<next_digit, node, chain, freed, submitted, alive, unit>>
          /\ UNCHANGED <<worker, want>>
      BY <1>2, <1>t, FindAvailableIs
    <2>2. NoneDisowned(at[self]) /\ worker[self] \in Workers /\ OnList(self)
      BY <1>t, <2>1 DEF CallInv, Searching, Calling
    <2>3. Calling(self)'
      BY <2>1, <2>2 DEF Calling
    <2>4. CASE Available(node[at[self]])
      <3>1. pc'[self] = "claim" /\ at'[self] = at[self]
        BY <2>1, <2>4
      <3>2. Claiming(self)'
        BY <2>1, <2>2, <2>4, <3>1 DEF Claiming, NoneDisowned, InChain, Available
      <3>3. OnList(self)'
        BY <2>1, <2>2, <3>1 DEF OnList, InChain
      <3>4. CallInv(self)'
        BY <2>3, <3>1, <3>2, <3>3 DEF CallInv, Searching, Claimed, Sizing, Sized,
           Started, AfterAll, AtTail, Matched, StateSetTo, RemoveKnown
      <3> QED
        BY <1>c, <2>1, <3>4
    <2>5. CASE ~Available(node[at[self]])
      <3>1. pc'[self] = "find" /\ at'[self] = After(at[self])
        BY <2>1, <2>5
      <3>2. node[at[self]].state # "DISOWNED"
        BY <2>5 DEF Available
      <3>3. NoneDisowned(After(at[self]))
        BY <2>1, <2>2, <3>2, SearchedOne
      <3>4. Searching(self)'
        BY <2>1, <3>1, <3>3 DEF Searching, NoneDisowned, InChain
      <3>5. OnList(self)'
        BY <2>1, <3>1, AfterOnList DEF OnList, InChain
      <3>6. CallInv(self)'
        BY <2>3, <3>1, <3>4, <3>5 DEF CallInv, Claiming, Claimed, Sizing, Sized,
           Started, AfterAll, AtTail, Matched, StateSetTo, RemoveKnown
      <3> QED
        BY <1>c, <2>1, <3>6
    <2> QED
      BY <2>4, <2>5
  <1>3. ASSUME NothingAvailable(self)
        PROVE  ListInv(self)' /\ CallInv(self)' /\ alive'
    <2>1. /\ pc[self] = "find" /\ at[self] = 0
          /\ pc'[self] = "gen"
          /\ UNCHANGED <<next_digit, node, chain, freed, submitted, alive, unit>>
          /\ UNCHANGED <<at, worker, want>>
      BY <1>3, <1>t, NothingAvailableIs
    <2>2. NoneDisowned(0) /\ worker[self] \in Workers
      BY <1>t, <2>1 DEF CallInv, Searching, Calling
    <2>3. Sizing(self)'
      BY <2>1, <2>2 DEF Sizing, NoneDisowned, InChain
    <2>4. OnList(self)' /\ Calling(self)'
      BY <2>1, <2>2 DEF OnList, Calling
    <2>5. CallInv(self)'
      BY <2>1, <2>3, <2>4 DEF CallInv, Searching, Claiming, Claimed, Sized,
         Started, AfterAll, AtTail, Matched, StateSetTo, RemoveKnown
    <2> QED
      BY <1>c, <2>1, <2>5
  <1>4. ASSUME NEW w \in Workers, NEW s \in States, MarkCall(self, w, s)
        PROVE  ListInv(self)' /\ CallInv(self)' /\ alive'
    <2>1. /\ pc[self] = "idle" /\ pc'[self] = "mark"
          /\ worker'[self] = w /\ want'[self] = s /\ at'[self] = First
          /\ UNCHANGED <<next_digit, node, chain, freed, submitted, alive, unit>>
      BY <1>4, <1>t, MarkCallIs
    <2>2. OnList(self)' /\ Calling(self)'
      BY <2>1, FirstOnList DEF OnList, Calling, InChain
    <2>3. CallInv(self)'
      BY <2>1, <2>2 DEF CallInv, Searching, Claiming, Claimed, Sizing, Sized,
         Started, AfterAll, AtTail, Matched, StateSetTo, RemoveKnown
    <2> QED
      BY <1>c, <2>1, <2>3
  <1>5. ASSUME MarkTest(self) PROVE ListInv(self)' /\ CallInv(self)' /\ alive'
    <2>1. /\ pc[self] = "mark" /\ at[self] # 0
          /\ \/ /\ node[at[self]].worker_id = worker[self]
                /\ pc'[self] = "mark_state" /\ at'[self] = at[self]
             \/ /\ node[at[self]].worker_id # worker[self]
                /\ pc'[self] = "mark" /\ at'[self] = After(at[self])
          /\ UNCHANGED <<next_digit, node, chain, freed, submitted, alive, unit>>
          /\ UNCHANGED <<worker, want>>
      BY <1>5, <1>t, MarkTestIs
    <2>2. worker[self] \in Workers /\ OnList(self)
      BY <1>t, <2>1 DEF CallInv, Calling
    <2>3. Calling(self)' /\ Matched(self)'
      BY <2>1, <2>2 DEF Calling, Matched
    <2>4. OnList(self)'
      BY <2>1, <2>2, AfterOnList DEF OnList, InChain
    <2>5. CallInv(self)'
      BY <2>1, <2>3, <2>4 DEF CallInv, Searching, Claiming, Claimed, Sizing,
         Sized, Started, AfterAll, AtTail, StateSetTo, RemoveKnown
    <2> QED
      BY <1>c, <2>1, <2>5
  <1>6. ASSUME MarkEnd(self) \/ RemoveEnd(self)
        PROVE  ListInv(self)' /\ CallInv(self)' /\ alive'
    <2>1. at[self] = 0 /\ Return(self) /\ UNCHANGED shared
      BY <1>6 DEF MarkEnd, RemoveEnd
    <2>2. CallInv(self)'
      BY <1>t, <2>1, ReturnIs, IdleKnows
    <2> QED
      BY <1>c, <2>1, <2>2 DEF shared
  <1> QED
    BY <1>1, <1>2, <1>3, <1>4, <1>5, <1>6

(* The steps that write the fields of a node: its unit stays. *)
LEMMA FieldStep ==
    ASSUME NEW self \in Threads, TurnInv(self),
           \/ ClaimState(self) \/ ClaimOwner(self)
           \/ MarkState(self) \/ MarkRest(self)
           \/ \E i \in DOMAIN node : Expire(i)
    PROVE  ListInv(self)' /\ CallInv(self)' /\ alive'
  <1>t. TypeOK /\ Sorted /\ alive /\ ListInv(self) /\ CallInv(self)
    BY DEF TurnInv, BelowInv, ListInv
  <1>n. node \in Seq(ControlBlocks)
    BY <1>t DEF TypeOK
  <1>1. ASSUME ClaimState(self) PROVE ListInv(self)' /\ CallInv(self)' /\ alive'
    <2>1. /\ pc[self] = "claim" /\ at[self] # 0
          /\ node' = [node EXCEPT ![at[self]].state = "OWNED"]
          /\ pc'[self] = "claim_owner"
          /\ UNCHANGED <<next_digit, chain, freed, submitted, alive, unit>>
          /\ UNCHANGED <<at, worker, want>>
      BY <1>1, <1>t, ClaimStateIs
    <2>2. worker[self] \in Workers /\ InChain(at[self])
      BY <1>t, <2>1 DEF CallInv, Calling, OnList
    <2>3. at[self] \in DOMAIN node /\ node[at[self]] \in ControlBlocks
      BY <2>2, Listed
    <2>4. node'[at[self]].state = "OWNED"
      BY <1>n, <2>1, <2>3 DEF ControlBlocks
    <2>5. Claimed(self)' /\ Calling(self)' /\ OnList(self)'
      BY <2>1, <2>2, <2>4 DEF Claimed, Calling, OnList, InChain
    <2>6. CallInv(self)'
      BY <2>1, <2>5 DEF CallInv, Searching, Claiming, Sizing, Sized,
         Started, AfterAll, AtTail, Matched, StateSetTo, RemoveKnown
    <2>7. UnitsKept
      BY <1>t, <2>1, FieldChanged
    <2> QED
      BY <1>t, <2>1, <2>6, <2>7, ListKept
  <1>2. ASSUME ClaimOwner(self) PROVE ListInv(self)' /\ CallInv(self)' /\ alive'
    <2>1. /\ pc[self] = "claim_owner" /\ at[self] # 0
          /\ node' = [node EXCEPT ![at[self]].worker_id = worker[self]]
          /\ pc'[self] = "idle" /\ at'[self] = 0
          /\ UNCHANGED <<next_digit, chain, freed, submitted, alive>>
      BY <1>2, <1>t, ClaimOwnerIs
    <2>2. UnitsKept
      BY <1>t, <2>1, FieldChanged
    <2> QED
      BY <1>t, <2>1, <2>2, ListKept, IdleKnows
  <1>3. ASSUME MarkState(self) PROVE ListInv(self)' /\ CallInv(self)' /\ alive'
    <2>1. /\ pc[self] = "mark_state" /\ at[self] # 0
          /\ node' = [node EXCEPT ![at[self]].state = want[self]]
          /\ pc'[self] = "mark_rest"
          /\ UNCHANGED <<next_digit, chain, freed, submitted, alive, unit>>
          /\ UNCHANGED <<at, worker, want>>
      BY <1>3, <1>t, MarkStateIs
    <2>2. worker[self] \in Workers /\ InChain(at[self])
          /\ node[at[self]].worker_id = worker[self]
      BY <1>t, <2>1 DEF CallInv, Calling, OnList, Matched
    <2>3. at[self] \in DOMAIN node /\ node[at[self]] \in ControlBlocks
      BY <2>2, Listed
    <2>4. node'[at[self]].state = want[self]
          /\ node'[at[self]].worker_id = worker[self]
      BY <1>n, <2>1, <2>2, <2>3 DEF ControlBlocks
    <2>5. Matched(self)' /\ StateSetTo(self)' /\ Calling(self)' /\ OnList(self)'
      BY <2>1, <2>2, <2>4 DEF Matched, StateSetTo, Calling, OnList, InChain
    <2>6. CallInv(self)'
      BY <2>1, <2>5 DEF CallInv, Searching, Claiming, Claimed, Sizing, Sized,
         Started, AfterAll, AtTail, RemoveKnown
    <2>7. UnitsKept
      BY <1>t, <2>1, FieldChanged
    <2> QED
      BY <1>t, <2>1, <2>6, <2>7, ListKept
  <1>4. ASSUME MarkRest(self) PROVE ListInv(self)' /\ CallInv(self)' /\ alive'
    <2>1. /\ pc[self] = "mark_rest" /\ at[self] # 0
          /\ node' = [node EXCEPT ![at[self]] = Rest(node[at[self]], want[self])]
          /\ pc'[self] = "mark" /\ at'[self] = After(at[self])
          /\ UNCHANGED <<next_digit, chain, freed, submitted, alive, unit>>
          /\ UNCHANGED <<worker, want>>
      BY <1>4, <1>t, MarkRestIs
    <2>2. worker[self] \in Workers
      BY <1>t, <2>1 DEF CallInv, Calling
    <2>3. Calling(self)' /\ OnList(self)'
      BY <2>1, <2>2, AfterOnList DEF Calling, OnList, InChain
    <2>4. CallInv(self)'
      BY <2>1, <2>3 DEF CallInv, Searching, Claiming, Claimed, Sizing, Sized,
         Started, AfterAll, AtTail, Matched, StateSetTo, RemoveKnown
    <2>5. at[self] \in DOMAIN node =>
              Rest(node[at[self]], want[self]).work_unit = node[at[self]].work_unit
      BY <1>n DEF Rest, ControlBlocks
    <2>6. UnitsKept
      BY <1>t, <2>1, <2>5, BlockChanged
    <2> QED
      BY <1>t, <2>1, <2>4, <2>6, ListKept
  <1>5. ASSUME NEW i \in DOMAIN node, Expire(i)
        PROVE  ListInv(self)' /\ CallInv(self)' /\ alive'
    <2>1. /\ node' = [node EXCEPT ![i].expired = TRUE]
          /\ UNCHANGED <<next_digit, chain, freed, submitted, alive>>
          /\ UNCHANGED <<pc, worker, at, unit, want>>
      BY <1>5 DEF Expire, locals
    <2>2. UnitsKept
      BY <1>t, <2>1, FieldChanged
    <2>3. ASSUME NEW j \in DOMAIN node
          PROVE  /\ node'[j].state = node[j].state
                 /\ node'[j].worker_id = node[j].worker_id
                 /\ node'[j].work_unit = node[j].work_unit
                 /\ node[j].expired => node'[j].expired
      <3>1. node[j] \in ControlBlocks /\ node[i] \in ControlBlocks
        BY <1>n
      <3> QED
        BY <1>n, <2>1, <3>1 DEF ControlBlocks
    <2>4. DOMAIN node' = DOMAIN node
      BY <2>2 DEF UnitsKept
    <2>5. InChain(at[self]) => at[self] \in DOMAIN node
      BY Listed
    <2>6. ListInv(self)'
      <3>1. Sorted' /\ NothingFreed' /\ UnitsInOrder' /\ SubmittedKnown'
        BY <1>t, <2>1, <2>3, <2>4 DEF ListInv, Sorted, NothingFreed, UnitsInOrder,
           SubmittedKnown, Unit
      <3>2. ListedUntilSubmitted(self)'
        BY <1>t, <2>1, <2>3, <2>4 DEF ListInv, ListedUntilSubmitted, Doomed, Unit,
           InChain
      <3> QED
        BY <3>1, <3>2 DEF ListInv
    <2>7. OnList(self)' /\ Searching(self)' /\ Sizing(self)' /\ Sized(self)'
          /\ Started(self)' /\ AtTail(self)'
          /\ Calling(self)' /\ RemoveKnown(self)'
      <3>1. OnList(self)' /\ Sized(self)' /\ Started(self)' /\ AtTail(self)'
            /\ Calling(self)' /\ RemoveKnown(self)'
        BY <1>t, <2>1 DEF CallInv, OnList, Sized, Started, AtTail, Calling,
           RemoveKnown, InChain, LastNode
      <3>2. Searching(self)'
        BY <1>t, <2>1, <2>3, <2>4 DEF CallInv, Searching, NoneDisowned, InChain
      <3>3. Sizing(self)'
        BY <1>t, <2>1, <2>3, <2>4 DEF CallInv, Sizing, NoneDisowned, InChain
      <3> QED
        BY <3>1, <3>2, <3>3
    <2>8. AfterAll(self)'
      BY <1>t, <2>1, <2>3, <2>4 DEF CallInv, AfterAll, Unit
    <2>9. pc[self] \in {"claim", "claim_owner", "mark_state", "mark_rest"} =>
             at[self] # 0 /\ at[self] \in DOMAIN node
      BY <1>t, <2>5 DEF CallInv, OnList, Claiming, Claimed, Matched
    <2>10. Claimed(self)' /\ Matched(self)' /\ StateSetTo(self)'
      BY <1>t, <2>1, <2>3, <2>9 DEF CallInv, Claimed, Matched, StateSetTo
    <2>11. Claiming(self)'
      <3> SUFFICES ASSUME pc[self] = "claim"
                   PROVE  /\ at[self] # 0 /\ Available(node'[at[self]])
                          /\ NoneDisowned(at[self])'
        BY <2>1 DEF Claiming, NoneDisowned, Available, InChain
      <3>1. at[self] # 0 /\ Available(node[at[self]]) /\ NoneDisowned(at[self])
        BY <1>t DEF CallInv, Claiming
      <3>2. NoneDisowned(at[self])'
        BY <2>1, <2>3, <2>4, <3>1 DEF NoneDisowned, InChain
      <3>3. Available(node'[at[self]])
        BY <2>3, <2>9, <3>1 DEF Available
      <3> QED
        BY <3>1, <3>2, <3>3
    <2> QED
      BY <1>t, <2>1, <2>6, <2>7, <2>8, <2>10, <2>11 DEF CallInv
  <1> QED
    BY <1>1, <1>2, <1>3, <1>4, <1>5

(* The steps that cut a new unit and link its node. *)
LEMMA CreateStep ==
    ASSUME NEW self \in Threads, TurnInv(self),
           \/ GenSize(self) \/ GenStart(self) \/ GenAdd(self)
           \/ PushTail(self) \/ PushLink(self)
    PROVE  ListInv(self)' /\ CallInv(self)' /\ alive'
  <1>t. TypeOK /\ Sorted /\ alive /\ ListInv(self) /\ CallInv(self)
    BY DEF TurnInv, BelowInv, ListInv
  <1>k. UNCHANGED node => UnitsKept
    BY DEF UnitsKept
  <1>c. UNCHANGED <<node, chain, freed, submitted, alive>>
        /\ (pc[self] # "remove" \/ at[self] = 0) => ListInv(self)' /\ alive'
    BY <1>t, <1>k, ListKept
  <1>1. ASSUME GenSize(self) PROVE ListInv(self)' /\ CallInv(self)' /\ alive'
    <2>1. /\ pc[self] = "gen" /\ next_digit < MaxDigit
          /\ pc'[self] = "gen_start"
          /\ unit'[self].n_digits = UnitSize(next_digit)
          /\ UNCHANGED <<next_digit, node, chain, freed, submitted, alive>>
          /\ UNCHANGED <<at, worker, want>>
      BY <1>1, <1>t, GenSizeIs
    <2>2. Sizing(self)' /\ Calling(self)' /\ OnList(self)'
      BY <1>t, <2>1 DEF CallInv, Sizing, NoneDisowned, Calling, OnList, InChain
    <2>3. Sized(self)'
      BY <2>1 DEF Sized
    <2>4. CallInv(self)'
      BY <2>1, <2>2, <2>3 DEF CallInv, Searching, Claiming, Claimed, Started,
         AfterAll, AtTail, Matched, StateSetTo, RemoveKnown
    <2> QED
      BY <1>c, <2>1, <2>4
  <1>2. ASSUME GenStart(self) PROVE ListInv(self)' /\ CallInv(self)' /\ alive'
    <2>1. /\ pc[self] = "gen_start" /\ pc'[self] = "gen_add"
          /\ unit'[self].start = next_digit
          /\ unit'[self].n_digits = unit[self].n_digits
          /\ UNCHANGED <<next_digit, node, chain, freed, submitted, alive>>
          /\ UNCHANGED <<at, worker, want>>
      BY <1>2, <1>t, GenStartIs
    <2>2. Sizing(self)' /\ Calling(self)' /\ OnList(self)'
      BY <1>t, <2>1 DEF CallInv, Sizing, NoneDisowned, Calling, OnList, InChain
    <2>3. Sized(self)' /\ Started(self)'
      BY <1>t, <2>1 DEF CallInv, Sized, Started
    <2>4. CallInv(self)'
      BY <2>1, <2>2, <2>3 DEF CallInv, Searching, Claiming, Claimed,
         AfterAll, AtTail, Matched, StateSetTo, RemoveKnown
    <2> QED
      BY <1>c, <2>1, <2>4
  <1>3. ASSUME GenAdd(self) PROVE ListInv(self)' /\ CallInv(self)' /\ alive'
    <2>1. /\ pc[self] = "gen_add" /\ pc'[self] = "push"
          /\ next_digit' = next_digit + unit[self].n_digits
          /\ UNCHANGED <<node, chain, freed, submitted, alive, unit>>
          /\ UNCHANGED <<at, worker, want>>
      BY <1>3, <1>t, GenAddIs
    <2>2. Calling(self)' /\ OnList(self)'
      BY <1>t, <2>1 DEF CallInv, Calling, OnList, InChain
    <2>3. unit[self].start = next_digit
      BY <1>t, <2>1 DEF CallInv, Started
    <2>4. AfterAll(self)'
      BY <2>1, <2>3 DEF TurnInv, BelowInv, UnitsBelowNext, AfterAll, Unit
    <2>5. CallInv(self)'
      BY <2>1, <2>2, <2>4 DEF CallInv, Searching, Claiming, Claimed, Sizing,
         Sized, Started, AtTail, Matched, StateSetTo, RemoveKnown
    <2> QED
      BY <1>c, <2>1, <2>5
  <1>4. ASSUME PushTail(self) PROVE ListInv(self)' /\ CallInv(self)' /\ alive'
    <2>1. /\ pc[self] = "push" /\ pc'[self] = "link"
          /\ at'[self] = LastNode
          /\ UNCHANGED <<next_digit, node, chain, freed, submitted, alive, unit>>
          /\ UNCHANGED <<worker, want>>
      BY <1>4, <1>t, PushTailIs
    <2>2. Calling(self)' /\ AfterAll(self)' /\ AtTail(self)'
      BY <1>t, <2>1 DEF CallInv, Calling, AfterAll, AtTail, Unit, LastNode
    <2>3. OnList(self)'
      BY <2>1, LastOnList DEF OnList, InChain
    <2>4. CallInv(self)'
      BY <2>1, <2>2, <2>3 DEF CallInv, Searching, Claiming, Claimed, Sizing,
         Sized, Started, Matched, StateSetTo, RemoveKnown
    <2> QED
      BY <1>c, <2>1, <2>4
  <1>5. ASSUME PushLink(self) PROVE ListInv(self)' /\ CallInv(self)' /\ alive'
    <2>1. /\ pc[self] = "link" /\ pc'[self] = "idle" /\ at'[self] = 0
          /\ node' = Append(node, NewBlock(self))
          /\ chain' = Append(chain, Len(node) + 1)
          /\ UNCHANGED <<next_digit, freed, submitted, alive>>
      BY <1>5, PushLinkIs
    <2>2. node \in Seq(ControlBlocks) /\ Len(node) \in Nat
          /\ DOMAIN node = 1..Len(node)
      BY <1>t DEF TypeOK
    <2>3. PICK n : n = Len(node) + 1
      OBVIOUS
    <2>4. /\ n \in Nat /\ n \notin DOMAIN node
          /\ DOMAIN node' = DOMAIN node \union {n}
          /\ \A i \in DOMAIN node : node'[i] = node[i] /\ i < n
          /\ node'[n] = NewBlock(self)
      BY <2>1, <2>2, <2>3
    <2>5. NewBlock(self).work_unit = unit[self]
      BY DEF NewBlock
    <2>6. \A i : InChain(i) => i < n
      BY <2>4, Listed
    <2>7. Sorted' /\ \A i : InChain(i)' <=> InChain(i) \/ i = n
      BY <1>t, <2>1, <2>3, <2>4, <2>6, AppendIs
    <2>8. \A i \in DOMAIN node : Ends(node[i].work_unit) <= unit[self].start
      BY <1>t, <2>1 DEF CallInv, AfterAll, Unit
    <2>9. NothingFreed'
      <3>1. \A i : InChain(i)' => i \in DOMAIN node' \ freed'
        BY <1>t, <2>1, <2>4, <2>7, Listed DEF ListInv, NothingFreed
      <3>2. freed' \subseteq DOMAIN node'
        BY <1>t, <2>1, <2>4 DEF ListInv, NothingFreed
      <3> QED
        BY <3>1, <3>2 DEF NothingFreed, InChain
    <2>10. UnitsInOrder'
      <3> SUFFICES ASSUME NEW i \in DOMAIN node', NEW j \in DOMAIN node', i < j
                   PROVE  Ends(node'[i].work_unit) <= node'[j].work_unit.start
        BY DEF UnitsInOrder, Unit, Ends
      <3>1. i \in DOMAIN node
        BY <2>2, <2>4
      <3>2. CASE j \in DOMAIN node
        BY <1>t, <2>4, <3>1, <3>2 DEF ListInv, UnitsInOrder, Unit, Ends
      <3>3. CASE j = n
        BY <2>4, <2>5, <2>8, <3>1, <3>3
      <3> QED
        BY <2>4, <3>2, <3>3
    <2>11. unit[self].start \notin submitted
      <3> SUFFICES ASSUME unit[self].start \in submitted PROVE FALSE
        OBVIOUS
      <3>1. PICK i \in DOMAIN node : Unit(i).start = unit[self].start
        BY <1>t DEF ListInv, SubmittedKnown
      <3>2. Ends(node[i].work_unit) <= node[i].work_unit.start
        BY <2>8, <3>1 DEF Unit
      <3>3. node[i] \in ControlBlocks
        BY <2>2
      <3>4. node[i].work_unit \in Units
        BY <3>3 DEF ControlBlocks
      <3> QED
        BY <3>2, <3>4 DEF Ends, Units
    <2>12. ListedUntilSubmitted(self)'
      <3> SUFFICES ASSUME NEW i \in DOMAIN node'
                   PROVE  /\ ~InChain(i)' => node'[i].work_unit.start \in submitted
                          /\ ~(InChain(i)' /\ node'[i].work_unit.start \in submitted)
        BY <2>1 DEF ListedUntilSubmitted, Unit
      <3>1. CASE i \in DOMAIN node
        <4>1. ~Doomed(self, i)
          BY <2>1 DEF Doomed
        <4>2. node'[i] = node[i] /\ i # n
          BY <2>4, <3>1
        <4> QED
          BY <1>t, <2>7, <3>1, <4>1, <4>2 DEF ListInv, ListedUntilSubmitted, Unit
      <3>2. CASE i = n
        BY <2>4, <2>5, <2>7, <2>11, <3>2
      <3> QED
        BY <2>4, <3>1, <3>2
    <2>13. SubmittedKnown'
      <3> SUFFICES ASSUME NEW s \in submitted
                   PROVE  \E i \in DOMAIN node' : node'[i].work_unit.start = s
        BY <2>1 DEF SubmittedKnown, Unit
      <3>1. PICK i \in DOMAIN node : node[i].work_unit.start = s
        BY <1>t DEF ListInv, SubmittedKnown, Unit
      <3> QED
        BY <2>4, <3>1
    <2> QED
      BY <1>t, <2>1, <2>7, <2>9, <2>10, <2>12, <2>13, IdleKnows DEF ListInv
  <1> QED
    BY <1>1, <1>2, <1>3, <1>4, <1>5

(* The steps of submit_result. *)
LEMMA SubmitStep ==
    ASSUME NEW self \in Threads, TurnInv(self),
           (\E i \in DOMAIN node : SubmitCall(self, i)) \/ RemoveTest(self)
    PROVE  ListInv(self)' /\ CallInv(self)' /\ alive'
  <1>t. TypeOK /\ Sorted /\ alive /\ ListInv(self) /\ CallInv(self)
    BY DEF TurnInv, BelowInv, ListInv
  <1>n. node \in Seq(ControlBlocks)
    BY <1>t DEF TypeOK
  <1>1. ASSUME NEW i \in DOMAIN node, SubmitCall(self, i)
        PROVE  ListInv(self)' /\ CallInv(self)' /\ alive'
    <2>1. /\ pc[self] = "idle" /\ pc'[self] = "remove"
          /\ submitted' = submitted \union {Unit(i).start}
          /\ unit'[self] = Unit(i) /\ at'[self] = First
          /\ UNCHANGED <<next_digit, node, chain, freed, alive>>
      BY <1>1, <1>t, SubmitCallIs
    <2>2. Sorted' /\ NothingFreed' /\ UnitsInOrder'
      BY <1>t, <2>1 DEF ListInv, Sorted, NothingFreed, UnitsInOrder, Unit
    <2>3. SubmittedKnown'
      BY <1>t, <2>1 DEF ListInv, SubmittedKnown, Unit
    <2>4. ListedUntilSubmitted(self)'
      <3> SUFFICES ASSUME NEW j \in DOMAIN node
                   PROVE  /\ ~InChain(j) => Unit(j).start \in submitted'
                          /\ InChain(j) /\ Unit(j).start \in submitted' =>
                               Doomed(self, j)'
        BY <2>1 DEF ListedUntilSubmitted, Unit, InChain
      <3>1. ~InChain(j) => Unit(j).start \in submitted'
        BY <1>t, <2>1 DEF ListInv, ListedUntilSubmitted
      <3>2. ASSUME InChain(j), Unit(j).start \in submitted' PROVE Doomed(self, j)'
        <4>1. Unit(j).start = Unit(i).start
          BY <1>t, <2>1, <3>2 DEF ListInv, ListedUntilSubmitted, Doomed
        <4>2. InChain(First) /\ First <= j
          BY <1>t, <3>2, FirstIs
        <4>3. First # 0
          BY <4>2, Listed
        <4> QED
          BY <2>1, <4>1, <4>2, <4>3 DEF Doomed, Unit
      <3> QED
        BY <3>1, <3>2
    <2>5. OnList(self)'
      BY <2>1, FirstOnList DEF OnList, InChain
    <2>6. RemoveKnown(self)'
      BY <2>1 DEF RemoveKnown
    <2>7. CallInv(self)'
      BY <2>1, <2>5, <2>6 DEF CallInv, Searching, Claiming, Claimed, Sizing,
         Sized, Started, AfterAll, AtTail, Matched, StateSetTo, Calling
    <2> QED
      BY <1>t, <2>1, <2>2, <2>3, <2>4, <2>7 DEF ListInv
  <1>2. ASSUME RemoveTest(self) PROVE ListInv(self)' /\ CallInv(self)' /\ alive'
    <2> DEFINE a == at[self]
    <2>1. /\ pc[self] = "remove" /\ a # 0
          /\ pc'[self] = "remove" /\ at'[self] = After(a)
          /\ \/ /\ Unit(a).start = unit[self].start
                /\ chain' = Without(a)
                /\ freed' = freed \union {a}
                /\ node' = [node EXCEPT ![a] = Erased(node[a])]
             \/ /\ Unit(a).start # unit[self].start
                /\ UNCHANGED <<node, chain, freed>>
          /\ UNCHANGED <<next_digit, submitted, alive, unit, worker, want>>
      BY <1>2, <1>t, RemoveTestIs
    <2>2. InChain(a) /\ a \in DOMAIN node /\ a \in Nat \ {0}
          /\ node[a] \in ControlBlocks
      BY <1>t, <2>1, Listed DEF CallInv, OnList
    <2>3. \/ After(a) = 0 /\ \A j : InChain(j) => j <= a
          \/ /\ InChain(After(a)) /\ a < After(a)
             /\ \A j : InChain(j) => j <= a \/ After(a) <= j
      BY <1>t, <2>2, AfterIs
    <2> HIDE DEF a
    (* The nodes ahead that were to be removed are those still ahead. *)
    <2>4. ASSUME NEW j \in DOMAIN node, j # a, Doomed(self, j), InChain(j)
          PROVE  After(a) # 0 /\ After(a) <= j
      <3>1. a <= j /\ j \in Nat
        BY <1>n, <2>4 DEF Doomed, a
      <3>2. ~(j <= a)
        BY <2>2, <2>4, <3>1
      <3>3. InChain(After(a)) /\ After(a) <= j
        BY <2>3, <2>4, <3>2
      <3> QED
        BY <3>3, Listed
    <2>5. CASE Unit(a).start = unit[self].start
      <3>1. /\ chain' = Without(a)
            /\ freed' = freed \union {a}
            /\ node' = [node EXCEPT ![a] = Erased(node[a])]
        BY <2>1, <2>5
      <3>2. Sorted' /\ \A j : InChain(j)' <=> InChain(j) /\ j # a
        BY <1>t, <2>2, <3>1, WithoutIs
      <3>3. Erased(node[a]).work_unit = node[a].work_unit
        BY <2>2 DEF Erased, ControlBlocks
      <3>4. DOMAIN node' = DOMAIN node
            /\ \A i \in DOMAIN node : node'[i].work_unit = node[i].work_unit
        BY <1>n, <3>1, <3>3
      <3>5. NothingFreed'
        <4>1. \A i : InChain(i)' => i \in DOMAIN node' \ freed'
          BY <3>1, <3>2, <3>4, Listed
        <4>2. freed' \subseteq DOMAIN node'
          BY <1>t, <2>2, <3>1, <3>4 DEF ListInv, NothingFreed
        <4> QED
          BY <4>1, <4>2 DEF NothingFreed, InChain
      <3>6. UnitsInOrder' /\ SubmittedKnown'
        BY <1>t, <2>1, <3>4 DEF ListInv, UnitsInOrder, SubmittedKnown, Unit, Ends
      <3>7. ListedUntilSubmitted(self)'
        <4> SUFFICES ASSUME NEW j \in DOMAIN node
                     PROVE  /\ ~InChain(j)' => Unit(j).start \in submitted
                            /\ InChain(j)' /\ Unit(j).start \in submitted
                                 => Doomed(self, j)'
          BY <2>1, <3>4 DEF ListedUntilSubmitted, Unit
        <4>1. CASE j = a
          <5>1. Unit(a).start \in submitted
            BY <1>t, <2>1, <2>5 DEF CallInv, RemoveKnown
          <5> QED
            BY <3>2, <4>1, <5>1
        <4>2. CASE j # a
          <5>1. InChain(j)' <=> InChain(j)
            BY <3>2, <4>2
          <5>2. Doomed(self, j) /\ InChain(j) => Doomed(self, j)'
            BY <2>1, <2>4, <3>4, <4>2 DEF Doomed, Unit
          <5> QED
            BY <1>t, <5>1, <5>2 DEF ListInv, ListedUntilSubmitted
        <4> QED
          BY <4>1, <4>2
      <3>8. OnList(self)'
        <4>1. After(a) # 0 => InChain(After(a)) /\ After(a) # a
          BY <2>2, <2>3, Listed
        <4> QED
          BY <2>1, <3>2, <4>1 DEF OnList
      <3>9. RemoveKnown(self)'
        BY <1>t, <2>1 DEF CallInv, RemoveKnown
      <3> QED
        BY <1>t, <2>1, <3>2, <3>5, <3>6, <3>7, <3>8, <3>9 DEF ListInv, CallInv,
           Searching, Claiming, Claimed, Sizing, Sized, Started, AfterAll, AtTail,
           Matched, StateSetTo, Calling
    <2>6. CASE Unit(a).start # unit[self].start
      <3>1. UNCHANGED <<node, chain, freed, submitted>>
        BY <2>1, <2>6
      <3>2. Sorted' /\ NothingFreed' /\ UnitsInOrder' /\ SubmittedKnown'
        BY <1>t, <3>1 DEF ListInv, Sorted, NothingFreed, UnitsInOrder,
           SubmittedKnown, Unit
      <3>3. ListedUntilSubmitted(self)'
        <4> SUFFICES ASSUME NEW j \in DOMAIN node
                     PROVE  InChain(j) /\ Doomed(self, j) => Doomed(self, j)'
          BY <1>t, <3>1 DEF ListInv, ListedUntilSubmitted, Unit, InChain
        <4>1. Doomed(self, j) => j # a
          BY <2>6 DEF Doomed
        <4> QED
          BY <2>1, <2>4, <3>1, <4>1 DEF Doomed, Unit
      <3>4. OnList(self)'
        BY <2>1, <2>3, <3>1 DEF OnList, InChain
      <3>5. RemoveKnown(self)'
        BY <1>t, <2>1 DEF CallInv, RemoveKnown
      <3> QED
        BY <1>t, <2>1, <3>2, <3>3, <3>4, <3>5 DEF ListInv, CallInv,
           Searching, Claiming, Claimed, Sizing, Sized, Started, AfterAll, AtTail,
           Matched, StateSetTo, Calling
    <2> QED
      BY <2>5, <2>6
  <1> QED
    BY <1>1, <1>2

(* A step of a thread moves it alone, and away from the list if it returns. *)
Moved(t) ==
    /\ \A u \in Threads \ {t} : pc'[u] = pc[u] /\ at'[u] = at[u]
    /\ pc'[t] = "idle" => at'[t] = 0

StepOf(t) ==
    \/ \E w \in Workers : AssignCall(t, w)
    \/ FindAvailable(t) \/ ClaimState(t) \/ ClaimOwner(t) \/ NothingAvailable(t)
    \/ GenSize(t) \/ GenStart(t) \/ GenAdd(t) \/ PushTail(t) \/ PushLink(t)
    \/ \E w \in Workers, s \in States : MarkCall(t, w, s)
    \/ MarkTest(t) \/ MarkState(t) \/ MarkRest(t) \/ MarkEnd(t)
    \/ \E i \in DOMAIN node : SubmitCall(t, i)
    \/ RemoveTest(t) \/ RemoveEnd(t)

LEMMA ReturnMoves ==
    ASSUME TypeOK, NEW t \in Threads, Return(t)
    PROVE  Moved(t)
  BY DEF Moved, Return, Goto, At, TypeOK

LEMMA StepMoves ==
    ASSUME TypeOK, AtRest, NEW t \in Threads, StepOf(t)
    PROVE  Moved(t)
  <1>1. ASSUME NEW w \in Workers, AssignCall(t, w) PROVE Moved(t)
    BY <1>1 DEF AssignCall, On, Goto, At, Moved, TypeOK
  <1>2. CASE FindAvailable(t) \/ ClaimState(t) \/ NothingAvailable(t)
    BY <1>2 DEF FindAvailable, ClaimState, NothingAvailable, OnNode, On, Goto, At,
       Moved, TypeOK
  <1>3. CASE GenSize(t) \/ GenStart(t) \/ GenAdd(t) \/ PushTail(t)
    BY <1>3 DEF GenSize, GenStart, GenAdd, PushTail, On, Goto, At, Moved, TypeOK
  <1>4. CASE ClaimOwner(t) \/ PushLink(t) \/ MarkEnd(t) \/ RemoveEnd(t)
    BY <1>4, ReturnMoves DEF ClaimOwner, PushLink, MarkEnd, RemoveEnd
  <1>5. ASSUME NEW w \in Workers, NEW s \in States, MarkCall(t, w, s) PROVE Moved(t)
    BY <1>5 DEF MarkCall, On, Goto, At, Moved, TypeOK
  <1>6. CASE MarkTest(t) \/ MarkState(t) \/ MarkRest(t)
    BY <1>6 DEF MarkTest, MarkState, MarkRest, OnNode, On, Goto, At, Moved, TypeOK
  <1>7. ASSUME NEW i \in DOMAIN node, SubmitCall(t, i) PROVE Moved(t)
    BY <1>7 DEF SubmitCall, On, Goto, At, Moved, TypeOK
  <1>8. CASE RemoveTest(t)
    BY <1>8 DEF RemoveTest, OnNode, On, At, Moved, TypeOK
  <1> QED
    BY <1>1, <1>2, <1>3, <1>4, <1>5, <1>6, <1>7, <1>8 DEF StepOf

(* A step of an idle thread is a call. *)
LEMMA IdleCalls ==
    ASSUME TypeOK, NEW t \in Threads, StepOf(t), pc[t] = "idle"
    PROVE  pc'[t] # "idle"
  <1>1. CASE \E w \in Workers : AssignCall(t, w)
    BY <1>1, AssignCallIs
  <1>2. CASE \E w \in Workers, s \in States : MarkCall(t, w, s)
    BY <1>2, MarkCallIs
  <1>3. CASE \E i \in DOMAIN node : SubmitCall(t, i)
    BY <1>3, SubmitCallIs
  <1> QED
    BY <1>1, <1>2, <1>3 DEF StepOf, FindAvailable, ClaimState, ClaimOwner,
       NothingAvailable, GenSize, GenStart, GenAdd, PushTail, PushLink, MarkTest,
       MarkState, MarkRest, MarkEnd, RemoveTest, RemoveEnd, OnNode, On

(* Between calls it does not matter which thread the invariant is about. *)
LEMMA HandOver ==
    ASSUME NEW self \in Threads, TurnInv(self), pc[self] = "idle",
           NEW t \in Threads
    PROVE  TurnInv(t)
  <1>1. InTurn(t) /\ pc[t] = "idle" /\ at[t] = 0
    BY DEF TurnInv, InTurn, AtRest
  <1>2. ListInv(t)
    BY <1>1 DEF TurnInv, ListInv, ListedUntilSubmitted, Doomed
  <1>3. CallInv(t)
    BY <1>1 DEF CallInv, OnList, Searching, Claiming, Claimed, Sizing, Sized,
       Started, AfterAll, AtTail, Matched, StateSetTo, RemoveKnown, Calling
  <1> QED
    BY <1>1, <1>2, <1>3 DEF TurnInv

(* No other thread moves, and this one never uses freed memory. *)
LEMMA NeverFreed ==
    ASSUME NEW self \in Threads, TurnInv(self), NEW t \in Threads
    PROVE  ~UseAfterFree(t)
  <1>1. at[t] \notin freed
    <2>1. CASE at[t] = 0
      <3>1. freed \subseteq DOMAIN node /\ 0 \notin DOMAIN node
        BY DEF TurnInv, ListInv, NothingFreed, BelowInv, TypeOK
      <3> QED
        BY <2>1, <3>1
    <2>2. CASE at[t] # 0
      <3>1. t = self
        BY <2>2 DEF TurnInv, InTurn, AtRest
      <3> QED
        BY <2>2, <3>1, Listed DEF TurnInv, CallInv, OnList
    <2> QED
      BY <2>1, <2>2
  <1> QED
    BY <1>1 DEF UseAfterFree

(* When calls take turns, a step is one of the thread whose turn it is. *)
LEMMA StepInTurn ==
    ASSUME NEW t \in Threads, TurnInv(t), Next, NoOverlap'
    PROVE  \/ \E self \in Threads :
                StepOf(self) /\ TurnInv(self) /\ InTurn(self)' /\ AtRest'
           \/ (\E i \in DOMAIN node : Expire(i)) /\ InTurn(t)' /\ AtRest'
  <1>t. TypeOK /\ AtRest /\ InTurn(t)
    BY DEF TurnInv, BelowInv
  <1>1. CASE \E i \in DOMAIN node : Expire(i)
    <2>1. UNCHANGED <<pc, at>>
      BY <1>1 DEF Expire, locals
    <2> QED
      BY <1>1, <1>t, <2>1 DEF InTurn, AtRest
  <1>2. CASE ~\E i \in DOMAIN node : Expire(i)
    <2>1. PICK self \in Threads : StepOf(self)
      BY <1>2, NeverFreed DEF Next, StepOf
    <2>2. Moved(self)
      BY <1>t, <2>1, StepMoves
    <2>3. TurnInv(self)
      <3>1. CASE self = t
        BY <3>1
      <3>2. CASE self # t
        <4>1. pc[self] = "idle"
          BY <1>t, <3>2 DEF InTurn
        <4>2. pc'[self] # "idle" /\ pc'[t] = pc[t]
          BY <1>t, <2>1, <2>2, <3>2, <4>1, IdleCalls DEF Moved
        <4>3. pc[t] = "idle"
          BY <3>2, <4>2 DEF NoOverlap
        <4> QED
          BY <4>3, HandOver
      <3> QED
        BY <3>1, <3>2
    <2>4. InTurn(self)' /\ AtRest'
      BY <1>t, <2>2, <2>3 DEF TurnInv, InTurn, AtRest, Moved
    <2> QED
      BY <2>1, <2>3, <2>4
  <1> QED
    BY <1>1, <1>2

(* What a step of this thread, or time, leaves is such a state again. *)
LEMMA SelfStep ==
    ASSUME NEW self \in Threads,
           TurnInv(self), InTurn(self)', AtRest', BelowInv',
           StepOf(self) \/ \E i \in DOMAIN node : Expire(i)
    PROVE  TurnInv(self)'
  <1>1. ListInv(self)' /\ CallInv(self)' /\ alive'
    BY LoopStep, FieldStep, CreateStep, SubmitStep DEF StepOf
  <1> QED
    BY <1>1 DEF TurnInv

TurnsInv == \E t \in Threads : TurnInv(t)

LEMMA Stutter ==
    ASSUME NEW t \in Threads, TurnInv(t), UNCHANGED vars
    PROVE  TurnInv(t)'
  <1>1. UNCHANGED <<next_digit, node, chain, freed, submitted, alive>>
        /\ UNCHANGED <<pc, worker, at, unit, want>>
    BY DEF vars, shared, locals
  <1>2. BelowInv'
    BY BelowStep DEF TurnInv
  <1>3. ListInv(t)'
    BY <1>1 DEF TurnInv, ListInv, Sorted, NothingFreed, UnitsInOrder,
       ListedUntilSubmitted, SubmittedKnown, Doomed, Unit, InChain, Ends
  <1>4. CallInv(t)'
    BY <1>1 DEF TurnInv, CallInv, OnList, Searching, Claiming, Claimed, Sizing,
       Sized, Started, AfterAll, AtTail, Matched, StateSetTo, RemoveKnown,
       Calling, NoneDisowned, Unit, InChain, LastNode, Available
  <1>5. InTurn(t)' /\ AtRest'
    BY <1>1 DEF TurnInv, InTurn, AtRest
  <1> QED
    BY <1>1, <1>2, <1>3, <1>4, <1>5 DEF TurnInv

LEMMA TurnStep == TurnsInv /\ [Next /\ NoOverlap']_vars => TurnsInv'
  <1> SUFFICES ASSUME NEW t \in Threads, TurnInv(t), [Next /\ NoOverlap']_vars
               PROVE  \E self \in Threads : TurnInv(self)'
    BY DEF TurnsInv
  <1>1. BelowInv'
    BY BelowStep DEF TurnInv
  <1>2. CASE Next /\ NoOverlap'
    BY <1>1, <1>2, StepInTurn, SelfStep
  <1>3. CASE UNCHANGED vars
    BY <1>3, Stutter
  <1> QED
    BY <1>2, <1>3

LEMMA TurnInit == Init => TurnsInv
  <1> SUFFICES ASSUME Init PROVE TurnsInv
    OBVIOUS
  <1>1. PICK self \in Threads : TRUE
    OBVIOUS
  <1>2. BelowInv
    <2>1. TypeOK
      BY DEF Init, TypeOK, ControlBlocks, Units, States, NoUnit
    <2> QED
      BY <2>1 DEF Init, BelowInv, UnitsBelowNext, StartsBelow
  <1>3. InTurn(self) /\ AtRest /\ pc[self] = "idle" /\ at[self] = 0
    BY DEF Init, InTurn, AtRest
  <1>4. ListInv(self)
    BY DEF Init, ListInv, Sorted, NothingFreed, UnitsInOrder,
       ListedUntilSubmitted, SubmittedKnown
  <1>5. CallInv(self)
    BY <1>3 DEF CallInv, OnList, Searching, Claiming, Claimed, Sizing, Sized,
       Started, AfterAll, AtTail, Matched, StateSetTo, RemoveKnown, Calling
  <1> QED
    BY <1>2, <1>3, <1>4, <1>5 DEF Init, TurnInv, TurnsInv

(***************************************************************************)
(* With calls that take turns no loop reaches a node that is erased, and   *)
(* the process never crashes, whichever threads make them: what            *)
(* ManagerRacing's threads can do, these cannot.                           *)
(***************************************************************************)
THEOREM InTurnSafe == TurnSpec => []TurnsInv
  BY TurnInit, TurnStep, PTL DEF TurnSpec

-----------------------------------------------------------------------------
(* The mapping *)

(* A node is ahead of the loop when it is linked and not passed. *)
LEMMA AheadIs ==
    ASSUME NEW self \in Threads, TurnInv(self), NEW i, InChain(i)
    PROVE  Ahead(self, i) <=> at[self] # 0 /\ at[self] <= i
  <1>1. TypeOK /\ Sorted /\ OnList(self)
    BY DEF TurnInv, BelowInv, ListInv, CallInv
  <1>2. at[self] # 0 => (PositionOf(at[self]) <= PositionOf(i) <=> at[self] <= i)
    BY <1>1, PositionOrder DEF OnList
  <1> QED
    BY <1>2 DEF Ahead

(* Only an orphaned unit has a time. *)
LEMMA NormalIs ==
    ASSUME NEW u, NEW s, NEW w, NEW e \in BOOLEAN
    PROVE  Normal([work_unit |-> u, state |-> s, worker_id |-> w, expired |-> e])
             = [work_unit |-> u, state |-> s, worker_id |-> w,
                expired |-> e /\ s = "ORPHANED"]
  BY DEF Normal

(* What has been decided about a node of the list. *)
LEMMA SettledIs ==
    ASSUME NEW self \in Threads, TurnInv(self), NEW i, InChain(i)
    PROVE  Normal(Settled(i)) = Block(self, i)
  <1>1. node[i] \in ControlBlocks
    BY Listed
  <1>2. \A t \in Threads : t # self => pc[t] = "idle"
    BY DEF TurnInv, InTurn
  <1> DEFINE marks == {t \in Threads : pc[t] \in Marking /\ Ahead(t, i)
                                       /\ node[i].worker_id = worker[t]}
             claims == {t \in Threads : pc[t] = "claim_owner" /\ at[t] = i}
             s == IF marks = {} THEN node[i].state
                  ELSE want[CHOOSE t \in marks : TRUE]
             w == IF claims # {} THEN worker[CHOOSE t \in claims : TRUE]
                  ELSE IF \E t \in marks : want[t] = "DISOWNED" THEN NoWorker
                  ELSE node[i].worker_id
  <1>4. Marks(self, i) <=> marks = {self}
    BY <1>2, AheadIs DEF Marks
  <1>5. marks = {} \/ marks = {self}
    BY <1>2
  <1>6. s = State(self, i)
    BY <1>4, <1>5 DEF State
  <1>7. claims = {} \/ claims = {self}
    BY <1>2
  <1>8. claims # {} <=> pc[self] = "claim_owner" /\ at[self] = i
    BY <1>2
  <1>9. w = Owner(self, i)
    BY <1>4, <1>5, <1>7, <1>8 DEF Owner
  <1>10. Settled(i) = [node[i] EXCEPT !.state = s,
                                      !.expired = @ /\ marks = {},
                                      !.worker_id = w]
    BY DEF Settled
  <1>11. ~Marks(self, i) <=> marks = {}
    BY <1>4, <1>5
  <1> HIDE DEF marks, claims, s, w
  <1>12. Settled(i) = [work_unit |-> Unit(i), state |-> State(self, i),
                       worker_id |-> Owner(self, i),
                       expired |-> node[i].expired /\ ~Marks(self, i)]
    BY <1>1, <1>6, <1>9, <1>10, <1>11 DEF ControlBlocks, Unit
  <1>13. PICK e \in BOOLEAN : e = (node[i].expired /\ ~Marks(self, i))
    OBVIOUS
  <1>14. Settled(i) = [work_unit |-> Unit(i), state |-> State(self, i),
                       worker_id |-> Owner(self, i), expired |-> e]
    BY <1>12, <1>13
  <1>15. Normal(Settled(i)) =
           [work_unit |-> Unit(i), state |-> State(self, i),
            worker_id |-> Owner(self, i),
            expired |-> e /\ State(self, i) = "ORPHANED"]
    BY <1>14, NormalIs, Zenon
  <1> QED
    BY <1>13, <1>15 DEF Block

(* The mapping in terms of the nodes. *)
LEMMA LedgerUnitsAre ==
    ASSUME NEW self \in Threads, TurnInv(self)
    PROVE  LedgerUnits = Blocks(self)
  <1>1. \A t \in Threads : t # self => pc[t] = "idle"
    BY DEF TurnInv, InTurn
  <1> DEFINE Kept == {k \in DOMAIN chain : \A t \in Threads :
                        ~(pc[t] = "remove" /\ Ahead(t, chain[k])
                          /\ node[chain[k]].work_unit.start = unit[t].start)}
             listed == {Normal(Settled(chain[k])) : k \in Kept}
             fresh == {Normal(NewBlock(t)) :
                         t \in {t \in Threads : pc[t] \in {"push", "link"}}}
  <1>2. \A k \in DOMAIN chain : k \in Kept <=> ~Doomed(self, chain[k])
    <2> SUFFICES ASSUME NEW k \in DOMAIN chain
                 PROVE  k \in Kept <=> ~Doomed(self, chain[k])
      OBVIOUS
    <2>1. InChain(chain[k])
      BY DEF InChain
    <2> QED
      BY <1>1, <2>1, AheadIs DEF Doomed, Unit
  <1>3. \A k \in DOMAIN chain : InChain(chain[k]) /\ chain[k] \in DOMAIN node
                                /\ Normal(Settled(chain[k])) = Block(self, chain[k])
    <2> SUFFICES ASSUME NEW k \in DOMAIN chain
                 PROVE  InChain(chain[k]) /\ chain[k] \in DOMAIN node
                        /\ Normal(Settled(chain[k])) = Block(self, chain[k])
      OBVIOUS
    <2>1. InChain(chain[k])
      BY DEF InChain
    <2> QED
      BY <2>1, Listed, SettledIs
  <1>4. \A k \in Kept : k \in DOMAIN chain
    OBVIOUS
  <1>5. LedgerUnits = listed \union fresh
    BY DEF LedgerUnits
  <1>6. fresh = Fresh(self)
    <2>1. Normal(NewBlock(self)) =
            [work_unit |-> unit[self], state |-> "OWNED",
             worker_id |-> worker[self], expired |-> FALSE]
      <3>1. Normal(NewBlock(self)) =
              [work_unit |-> unit[self], state |-> "OWNED",
               worker_id |-> worker[self],
               expired |-> TRUE /\ "OWNED" = "ORPHANED"]
        BY NormalIs DEF NewBlock
      <3> QED
        BY <3>1
    <2> QED
      BY <1>1, <2>1 DEF Fresh
  <1> HIDE DEF Kept
  <1>7. listed = {Block(self, i) : i \in Held(self)}
    <2>1. ASSUME NEW k \in Kept
          PROVE  Normal(Settled(chain[k])) \in {Block(self, i) : i \in Held(self)}
      BY <1>2, <1>3, <1>4, <2>1 DEF Held
    <2>2. ASSUME NEW i \in Held(self) PROVE Block(self, i) \in listed
      <3>1. PICK k \in DOMAIN chain : chain[k] = i
        BY <2>2 DEF Held, InChain
      <3>2. k \in Kept
        BY <1>2, <2>2, <3>1 DEF Held
      <3>3. Block(self, i) = Normal(Settled(chain[k]))
        BY <1>3, <3>1
      <3> QED
        BY <3>2, <3>3
    <2> QED
      BY <2>1, <2>2
  <1> QED
    BY <1>5, <1>6, <1>7 DEF Blocks

(* Units whose result was submitted. *)
Finished == {Unit(i) : i \in {i \in DOMAIN node : Unit(i).start \in submitted}}

LEMMA FinishedKept ==
    ASSUME UnitsKept, UNCHANGED submitted
    PROVE  UNCHANGED Finished
  BY DEF UnitsKept, Finished, Unit

(* A mapped unit is what the parts of it are. *)
LEMMA BlockKept ==
    ASSUME NEW self \in Threads, NEW i, node'[i].work_unit = node[i].work_unit,
           State(self, i)' = State(self, i), Owner(self, i)' = Owner(self, i),
           (node[i].expired /\ ~Marks(self, i) /\ State(self, i) = "ORPHANED")' <=>
             (node[i].expired /\ ~Marks(self, i) /\ State(self, i) = "ORPHANED")
    PROVE  Block(self, i)' = Block(self, i)
  <1>1. (node[i].expired /\ ~Marks(self, i) /\ State(self, i) = "ORPHANED")' =
          (node[i].expired /\ ~Marks(self, i) /\ State(self, i) = "ORPHANED")
    OBVIOUS
  <1> QED
    BY <1>1 DEF Block, Unit

(* A node nobody writes to and about which the same is decided. *)
LEMMA BlockAlike ==
    ASSUME NEW self \in Threads,
           NEW i, node'[i] = node[i], Marks(self, i)' <=> Marks(self, i),
           Marks(self, i) => want'[self] = want[self],
           ~(pc[self] = "claim_owner" /\ at[self] = i),
           ~(pc'[self] = "claim_owner" /\ at'[self] = i)
    PROVE  Block(self, i)' = Block(self, i)
  <1>1. State(self, i)' = State(self, i)
    BY DEF State
  <1>2. Owner(self, i)' = Owner(self, i)
    BY DEF Owner
  <1> QED
    BY <1>1, <1>2, BlockKept

LEMMA BlocksKept ==
    ASSUME NEW self \in Threads,
           Held(self)' = Held(self), \A i \in Held(self) : Block(self,
           i)' = Block(self, i),
           UNCHANGED Fresh(self)
    PROVE  UNCHANGED Blocks(self)
  <1>1. {Block(self, i) : i \in Held(self)}' = {Block(self, i) : i \in Held(self)}
    OBVIOUS
  <1> QED
    BY <1>1 DEF Blocks

(* Steps between which the list and its nodes stay as they are, and where  *)
(* neither a removal nor the assignment of an owner is under way.          *)
LEMMA QuietMaps ==
    ASSUME NEW self \in Threads, UNCHANGED <<node, chain, submitted>>,
           pc[self] # "remove" \/ at[self] = 0,
           pc'[self] # "remove", pc[self] # "claim_owner",
           pc'[self] # "claim_owner",
           \A i \in Held(self) : Marks(self, i)' <=> Marks(self, i),
           \A i \in Held(self) : Marks(self, i) => want'[self] = want[self],
           UNCHANGED Fresh(self)
    PROVE  UNCHANGED <<Blocks(self), Finished>>
  <1>1. \A i : ~Doomed(self, i) /\ ~Doomed(self, i)'
    BY DEF Doomed
  <1>2. Held(self)' = Held(self)
    BY <1>1 DEF Held, InChain
  <1>3. \A i \in Held(self) : Block(self, i)' = Block(self, i)
    BY BlockAlike
  <1>4. UnitsKept
    BY DEF UnitsKept
  <1> QED
    BY <1>2, <1>3, <1>4, BlocksKept, FinishedKept

(* The node the loop of a marking leaves behind. *)
LEMMA PassedOne ==
    ASSUME NEW self \in Threads,
           TurnInv(self), at[self] # 0, NEW i, InChain(i), i # at[self]
    PROVE  at[self] <= i <=> After(at[self]) # 0 /\ After(at[self]) <= i
  <1>1. TypeOK /\ Sorted /\ InChain(at[self])
    BY DEF TurnInv, BelowInv, ListInv, CallInv, OnList
  <1>2. i \in Nat \ {0} /\ at[self] \in Nat \ {0}
    BY <1>1, Listed
  <1>3. \/ After(at[self]) = 0 /\ \A j : InChain(j) => j <= at[self]
        \/ /\ InChain(After(at[self]))
           /\ at[self] < After(at[self])
           /\ \A j : InChain(j) => j <= at[self] \/ After(at[self]) <= j
    BY <1>1, AfterIs
  <1>4. CASE After(at[self]) = 0
    <2>1. i <= at[self]
      BY <1>2, <1>3, <1>4, Listed
    <2> QED
      BY <1>2, <1>4, <2>1
  <1>5. CASE After(at[self]) # 0
    <2>1. After(at[self]) \in Nat /\ at[self] < After(at[self])
          /\ (i <= at[self] \/ After(at[self]) <= i)
      BY <1>3, <1>5, Listed
    <2> QED
      BY <1>2, <1>5, <2>1
  <1> QED
    BY <1>4, <1>5

(* Calls and loops, as long as they decide nothing. *)
LEMMA LoopMaps ==
    ASSUME NEW self \in Threads, TurnInv(self),
           \/ \E w \in Workers : AssignCall(self, w)
           \/ FindAvailable(self) \/ NothingAvailable(self)
           \/ GenSize(self) \/ GenStart(self) \/ PushTail(self)
           \/ MarkTest(self) \/ MarkEnd(self) \/ RemoveEnd(self)
    PROVE  UNCHANGED <<next_digit, Blocks(self), Finished>>
  <1>t. TypeOK /\ OnList(self)
    BY DEF TurnInv, BelowInv, CallInv
  <1>1. ASSUME NEW w \in Workers, AssignCall(self, w)
        PROVE  UNCHANGED <<next_digit, Blocks(self), Finished>>
    BY <1>1, <1>t, AssignCallIs, QuietMaps DEF Marks, Fresh
  <1>2. ASSUME FindAvailable(self)
        PROVE  UNCHANGED <<next_digit, Blocks(self), Finished>>
    BY <1>2, <1>t, FindAvailableIs, QuietMaps DEF Marks, Fresh
  <1>3. ASSUME NothingAvailable(self)
        PROVE  UNCHANGED <<next_digit, Blocks(self), Finished>>
    BY <1>3, <1>t, NothingAvailableIs, QuietMaps DEF Marks, Fresh
  <1>4. ASSUME GenSize(self)
        PROVE  UNCHANGED <<next_digit, Blocks(self), Finished>>
    BY <1>4, <1>t, GenSizeIs, QuietMaps DEF Marks, Fresh
  <1>5. ASSUME GenStart(self)
        PROVE  UNCHANGED <<next_digit, Blocks(self), Finished>>
    BY <1>5, <1>t, GenStartIs, QuietMaps DEF Marks, Fresh
  <1>6. ASSUME PushTail(self)
        PROVE  UNCHANGED <<next_digit, Blocks(self), Finished>>
    BY <1>6, <1>t, PushTailIs, QuietMaps DEF Marks, Fresh
  <1>7. ASSUME MarkTest(self)
        PROVE  UNCHANGED <<next_digit, Blocks(self), Finished>>
    <2>1. /\ pc[self] = "mark" /\ at[self] # 0
          /\ \/ /\ node[at[self]].worker_id = worker[self]
                /\ pc'[self] = "mark_state" /\ at'[self] = at[self]
             \/ /\ node[at[self]].worker_id # worker[self]
                /\ pc'[self] = "mark" /\ at'[self] = After(at[self])
          /\ UNCHANGED <<next_digit, node, chain, freed, submitted, alive, unit>>
          /\ UNCHANGED <<worker, want>>
      BY <1>7, <1>t, MarkTestIs
    <2>2. ASSUME NEW i \in Held(self) PROVE Marks(self, i)' <=> Marks(self, i)
      <3>1. InChain(i)
        BY DEF Held
      <3>2. i # at[self] =>
              (at[self] <= i <=> After(at[self]) # 0 /\ After(at[self]) <= i)
        BY <2>1, <3>1, PassedOne
      <3>3. i = at[self] => ~(After(at[self]) # 0 /\ After(at[self]) <= i)
        <4>1. TypeOK /\ Sorted /\ InChain(at[self]) /\ at[self] \in Nat
          BY <1>t, <2>1, Listed DEF TurnInv, ListInv, OnList
        <4>2. After(at[self]) # 0 =>
                at[self] < After(at[self]) /\ After(at[self]) \in Nat
          BY <4>1, AfterIs, Listed
        <4> QED
          BY <4>1, <4>2
      <3> QED
        BY <2>1, <3>2, <3>3 DEF Marks
    <2>3. UNCHANGED Fresh(self)
      BY <2>1 DEF Fresh
    <2>4. /\ UNCHANGED <<node, chain, submitted>>
          /\ pc[self] = "mark" /\ pc'[self] \in {"mark", "mark_state"}
          /\ want'[self] = want[self]
      BY <2>1
    <2>5. /\ \A i \in Held(self) : Marks(self, i)' <=> Marks(self, i)
          /\ \A i \in Held(self) : Marks(self, i) => want'[self] = want[self]
      BY <2>2, <2>4
    <2>6. /\ pc[self] # "remove" \/ at[self] = 0
          /\ pc'[self] # "remove" /\ pc[self] # "claim_owner"
          /\ pc'[self] # "claim_owner"
      BY <2>4
    <2>7. UNCHANGED <<Blocks(self), Finished>>
      BY <2>3, <2>4, <2>5, <2>6, QuietMaps
    <2> QED
      BY <2>1, <2>7
  <1>8. ASSUME MarkEnd(self) \/ RemoveEnd(self)
        PROVE  UNCHANGED <<next_digit, Blocks(self), Finished>>
    <2>1. /\ pc[self] \in {"mark", "remove"} /\ at[self] = 0
          /\ pc'[self] = "idle" /\ at'[self] = 0
          /\ UNCHANGED <<next_digit, node, chain, submitted>>
      BY <1>8, <1>t, ReturnIs DEF MarkEnd, RemoveEnd, On, shared
    <2> QED
      BY <2>1, QuietMaps DEF Marks, Fresh
  <1> QED
    BY <1>1, <1>2, <1>3, <1>4, <1>5, <1>6, <1>7, <1>8

(* The rest of a claim, of a marking, of a removal or of a new unit: the   *)
(* nodes become what the ledger already says of them.                      *)
LEMMA RestMaps ==
    ASSUME NEW self \in Threads, TurnInv(self),
           \/ ClaimOwner(self) \/ MarkState(self) \/ MarkRest(self)
           \/ PushLink(self) \/ RemoveTest(self)
    PROVE  UNCHANGED <<next_digit, Blocks(self), Finished>>
  <1>t. TypeOK /\ OnList(self) /\ Sorted
    BY DEF TurnInv, BelowInv, CallInv, ListInv
  <1>n. node \in Seq(ControlBlocks) /\ at[self] \in Nat
    BY <1>t DEF TypeOK
  <1>a. PICK a : a = at[self]
    OBVIOUS
  <1>1. ASSUME ClaimOwner(self)
        PROVE  UNCHANGED <<next_digit, Blocks(self), Finished>>
    <2>1. /\ pc[self] = "claim_owner" /\ a # 0
          /\ node' = [node EXCEPT ![a].worker_id = worker[self]]
          /\ pc'[self] = "idle" /\ at'[self] = 0
          /\ UNCHANGED <<next_digit, chain, freed, submitted, alive>>
      BY <1>a, <1>1, <1>t, ClaimOwnerIs
    <2>2. UnitsKept
      BY <1>a, <1>t, <2>1, FieldChanged
    <2>3. \A i : ~Doomed(self, i) /\ ~Doomed(self, i)'
                 /\ ~Marks(self, i) /\ ~Marks(self, i)'
      BY <1>a, <2>1 DEF Doomed, Marks
    <2>4. Held(self)' = Held(self)
      BY <1>a, <2>1, <2>2, <2>3 DEF Held, InChain, UnitsKept
    <2>5. ASSUME NEW i \in Held(self) PROVE Block(self, i)' = Block(self, i)
      <3>1. node[i] \in ControlBlocks /\ i \in DOMAIN node
        BY <1>a, <1>n DEF Held
      <3>2. /\ node'[i].work_unit = node[i].work_unit
            /\ node'[i].state = node[i].state
            /\ node'[i].expired = node[i].expired
            /\ node'[i].worker_id = IF i = a THEN worker[self]
                                    ELSE node[i].worker_id
        BY <1>a, <1>n, <2>1, <3>1 DEF ControlBlocks
      <3>3. State(self, i)' = State(self, i)
        BY <1>a, <2>3, <3>2 DEF State
      <3>4. Owner(self, i)' = Owner(self, i)
        BY <1>a, <2>1, <2>3, <3>2 DEF Owner
      <3> QED
        BY <1>a, <2>3, <3>2, <3>3, <3>4, BlockKept
    <2>6. UNCHANGED Fresh(self)
      BY <1>a, <2>1 DEF Fresh
    <2> QED
      BY <1>a, <2>1, <2>2, <2>4, <2>5, <2>6, BlocksKept, FinishedKept
  <1>2. ASSUME MarkState(self)
        PROVE  UNCHANGED <<next_digit, Blocks(self), Finished>>
    <2>1. /\ pc[self] = "mark_state" /\ a # 0
          /\ node' = [node EXCEPT ![a].state = want[self]]
          /\ pc'[self] = "mark_rest"
          /\ UNCHANGED <<next_digit, chain, freed, submitted, alive, unit>>
          /\ UNCHANGED <<at, worker, want>>
      BY <1>a, <1>2, <1>t, MarkStateIs
    <2>2. UnitsKept
      BY <1>a, <1>t, <2>1, FieldChanged
    <2>3. \A i : ~Doomed(self, i) /\ ~Doomed(self, i)'
      BY <1>a, <2>1 DEF Doomed
    <2>4. Held(self)' = Held(self)
      BY <1>a, <2>1, <2>2, <2>3 DEF Held, InChain, UnitsKept
    <2>5. Marks(self, a)
      BY <1>a, <1>n, <2>1 DEF Marks, TurnInv, CallInv, Matched
    <2>6. ASSUME NEW i \in Held(self) PROVE Block(self, i)' = Block(self, i)
      <3>1. node[i] \in ControlBlocks /\ i \in DOMAIN node
        BY <1>a, <1>n DEF Held
      <3>2. /\ node'[i].work_unit = node[i].work_unit
            /\ node'[i].state = IF i = a THEN want[self] ELSE node[i].state
            /\ node'[i].expired = node[i].expired
            /\ node'[i].worker_id = node[i].worker_id
        BY <1>a, <1>n, <2>1, <3>1 DEF ControlBlocks
      <3>3. Marks(self, i)' <=> Marks(self, i)
        BY <1>a, <2>1, <3>2 DEF Marks
      <3>4. State(self, i)' = State(self, i)
        BY <1>a, <2>1, <2>5, <3>2, <3>3 DEF State
      <3>5. Owner(self, i)' = Owner(self, i)
        BY <1>a, <2>1, <3>2, <3>3 DEF Owner
      <3> QED
        BY <1>a, <3>2, <3>3, <3>4, <3>5, BlockKept
    <2>7. UNCHANGED Fresh(self)
      BY <1>a, <2>1 DEF Fresh
    <2> QED
      BY <1>a, <2>1, <2>2, <2>4, <2>6, <2>7, BlocksKept, FinishedKept
  <1>3. ASSUME MarkRest(self)
        PROVE  UNCHANGED <<next_digit, Blocks(self), Finished>>
    <2>1. /\ pc[self] = "mark_rest" /\ a # 0
          /\ node' = [node EXCEPT ![a] = Rest(node[a], want[self])]
          /\ pc'[self] = "mark" /\ at'[self] = After(a)
          /\ UNCHANGED <<next_digit, chain, freed, submitted, alive, unit>>
          /\ UNCHANGED <<worker, want>>
      BY <1>a, <1>3, <1>t, MarkRestIs
    <2>2. InChain(a) /\ a \in DOMAIN node /\ node[a] \in ControlBlocks
      BY <1>a, <1>t, <2>1, Listed DEF OnList
    <2>3. /\ Rest(node[a], want[self]).work_unit = node[a].work_unit
          /\ Rest(node[a], want[self]).state = node[a].state
          /\ Rest(node[a], want[self]).worker_id =
               IF want[self] = "DISOWNED" THEN NoWorker ELSE node[a].worker_id
          /\ want[self] = "ORPHANED" => ~Rest(node[a], want[self]).expired
      BY <1>a, <2>2 DEF Rest, ControlBlocks
    <2>4. UnitsKept
      BY <1>a, <1>t, <2>1, <2>3, BlockChanged
    <2>5. \A i : ~Doomed(self, i) /\ ~Doomed(self, i)'
      BY <1>a, <2>1 DEF Doomed
    <2>6. Held(self)' = Held(self)
      BY <1>a, <2>1, <2>4, <2>5 DEF Held, InChain, UnitsKept
    <2>7. /\ node'[a] = Rest(node[a], want[self])
          /\ \A i \in DOMAIN node : i # a => node'[i] = node[i]
      BY <1>a, <1>n, <2>1, <2>2
    <2>8. Block(self, a)' = Block(self, a)
      <3>1. Marks(self, a) /\ node[a].state = want[self]
        BY <1>a, <1>n, <2>1 DEF Marks, TurnInv, CallInv, Matched, StateSetTo
      <3>2. ~Marks(self, a)'
        <4>1. After(a) # 0 => a < After(a) /\ After(a) \in Nat
          BY <1>a, <1>t, <2>2, AfterIs, Listed
        <4> QED
          BY <1>a, <1>n, <2>1, <4>1 DEF Marks
      <3>3. State(self, a)' = want[self] /\ State(self, a) = want[self]
        BY <1>a, <2>3, <2>7, <3>1, <3>2 DEF State
      <3>4. Owner(self, a)' = Owner(self, a)
        BY <1>a, <2>1, <2>3, <2>7, <3>1, <3>2 DEF Owner
      <3> QED
        BY <1>a, <2>3, <2>7, <3>1, <3>2, <3>3, <3>4, BlockKept
    <2>9. ASSUME NEW i \in Held(self), i # a PROVE Block(self, i)' = Block(self, i)
      <3>1. node'[i] = node[i] /\ InChain(i)
        BY <1>a, <2>7, <2>9 DEF Held
      <3>2. a <= i <=> After(a) # 0 /\ After(a) <= i
        BY <1>a, <2>1, <2>9, <3>1, PassedOne
      <3>3. Marks(self, i)' <=> Marks(self, i)
        BY <1>a, <2>1, <3>1, <3>2 DEF Marks
      <3> QED
        BY <1>a, <2>1, <3>1, <3>3, BlockAlike
    <2>10. UNCHANGED Fresh(self)
      BY <1>a, <2>1 DEF Fresh
    <2> QED
      BY <1>a, <2>1, <2>4, <2>6, <2>8, <2>9, <2>10, BlocksKept, FinishedKept
  <1>4. ASSUME PushLink(self)
        PROVE  UNCHANGED <<next_digit, Blocks(self), Finished>>
    <2>1. /\ pc[self] = "link" /\ pc'[self] = "idle" /\ at'[self] = 0
          /\ node' = Append(node, NewBlock(self))
          /\ chain' = Append(chain, Len(node) + 1)
          /\ UNCHANGED <<next_digit, freed, submitted, alive>>
      BY <1>a, <1>4, PushLinkIs
    <2>2. PICK n : n = Len(node) + 1
      OBVIOUS
    <2>3. /\ n \in Nat /\ n \notin DOMAIN node
          /\ DOMAIN node' = DOMAIN node \union {n}
          /\ \A i \in DOMAIN node : node'[i] = node[i] /\ i < n
          /\ node'[n] = NewBlock(self)
      BY <1>a, <1>n, <2>1, <2>2
    <2>4. \A i : InChain(i)' <=> InChain(i) \/ i = n
      <3>1. \A i : InChain(i) => i < n
        BY <1>a, <2>3, Listed
      <3> QED
        BY <1>a, <1>t, <2>1, <2>2, <2>3, <3>1, AppendIs
    <2>5. \A i : ~Doomed(self, i) /\ ~Doomed(self, i)'
                 /\ ~Marks(self, i) /\ ~Marks(self, i)'
      BY <1>a, <2>1 DEF Doomed, Marks
    <2>6. Held(self)' = Held(self) \union {n} /\ n \notin Held(self)
      BY <1>a, <2>3, <2>4, <2>5 DEF Held
    <2>7. \A i \in Held(self) : Block(self, i)' = Block(self, i)
      <3> SUFFICES ASSUME NEW i \in Held(self)
                   PROVE  Block(self, i)' = Block(self, i)
        OBVIOUS
      <3>1. node'[i] = node[i]
        BY <1>a, <2>3 DEF Held
      <3> QED
        BY <1>a, <2>1, <2>5, <3>1, BlockAlike
    <2>8. Fresh(self) = {Block(self, n)'} /\ Fresh(self)' = {}
      <3>1. Block(self, n)' = [work_unit |-> unit[self], state |-> "OWNED",
                         worker_id |-> worker[self], expired |-> FALSE]
        <4>1. State(self, n)' = "OWNED" /\ Owner(self, n)' = worker[self]
          BY <1>a, <2>1, <2>3, <2>5 DEF State, Owner, NewBlock
        <4>2. (node[n].expired /\ ~Marks(self, n)
               /\ State(self, n) = "ORPHANED")' = FALSE
          BY <1>a, <4>1
        <4>3. Unit(n)' = unit[self]
          BY <1>a, <2>3 DEF Unit, NewBlock
        <4> QED
          BY <1>a, <4>1, <4>2, <4>3 DEF Block
      <3> QED
        BY <1>a, <2>1, <3>1 DEF Fresh
    <2>9. Blocks(self)' = Blocks(self)
      <3>1. {Block(self, i) : i \in Held(self)}' =
              {Block(self, i) : i \in Held(self)} \union {Block(self, n)'}
        BY <1>a, <2>6, <2>7
      <3> QED
        BY <1>a, <2>8, <3>1 DEF Blocks
    <2>10. Finished' = Finished
      <3>1. n \in DOMAIN node' /\ InChain(n)'
        BY <1>a, <2>3, <2>4
      <3>2. ListInv(self)'
        BY <1>a, <1>4, CreateStep
      <3>3. Unit(n)'.start \notin submitted
        BY <1>a, <2>1, <2>5, <3>1, <3>2 DEF ListInv, ListedUntilSubmitted
      <3> QED
        BY <1>a, <2>1, <2>3, <3>3 DEF Finished, Unit
    <2> QED
      BY <1>a, <2>1, <2>9, <2>10
  <1>5. ASSUME RemoveTest(self)
        PROVE  UNCHANGED <<next_digit, Blocks(self), Finished>>
    <2>1. /\ pc[self] = "remove" /\ a # 0
          /\ pc'[self] = "remove" /\ at'[self] = After(a)
          /\ \/ /\ Unit(a).start = unit[self].start
                /\ chain' = Without(a)
                /\ freed' = freed \union {a}
                /\ node' = [node EXCEPT ![a] = Erased(node[a])]
             \/ /\ Unit(a).start # unit[self].start
                /\ UNCHANGED <<node, chain, freed>>
          /\ UNCHANGED <<next_digit, submitted, alive, unit, worker, want>>
      BY <1>a, <1>5, <1>t, RemoveTestIs
    <2>2. InChain(a) /\ a \in DOMAIN node /\ node[a] \in ControlBlocks
      BY <1>a, <1>t, <2>1, Listed DEF OnList
    <2>3. Erased(node[a]).work_unit = node[a].work_unit
      BY <1>a, <2>2 DEF Erased, ControlBlocks
    <2>4. UnitsKept
      BY <1>a, <1>t, <2>1, <2>3, BlockChanged DEF UnitsKept
    <2>5. \A i \in DOMAIN node : i # a => node'[i] = node[i]
      BY <1>a, <1>n, <2>1
    <2>6. \A i : i # a => (InChain(i)' <=> InChain(i))
      <3>1. CASE chain' = Without(a)
        BY <1>a, <1>t, <2>2, <3>1, WithoutIs
      <3>2. CASE UNCHANGED chain
        BY <1>a, <3>2 DEF InChain
      <3> QED
        BY <1>a, <2>1, <3>1, <3>2
    <2>7. ASSUME NEW i, InChain(i), i # a PROVE Doomed(self, i)' <=> Doomed(self, i)
      <3>1. a <= i <=> After(a) # 0 /\ After(a) <= i
        BY <1>a, <2>1, <2>7, PassedOne
      <3>2. Unit(i)' = Unit(i)
        BY <1>a, <2>4, <2>7, Listed DEF UnitsKept, Unit
      <3> QED
        BY <1>a, <2>1, <3>1, <3>2 DEF Doomed
    <2>8. a \in Held(self)' <=> a \in Held(self)
      <3>1. CASE Unit(a).start = unit[self].start
        <4>1. Doomed(self, a)
          BY <1>a, <1>n, <2>1, <3>1 DEF Doomed
        <4>2. ~InChain(a)'
          BY <1>a, <1>t, <2>1, <2>2, <3>1, WithoutIs
        <4> QED
          BY <1>a, <4>1, <4>2 DEF Held
      <3>2. CASE Unit(a).start # unit[self].start
        <4>1. InChain(a)' /\ DOMAIN node' = DOMAIN node /\ Unit(a)' = Unit(a)
          BY <1>a, <2>1, <2>2, <3>2 DEF InChain, Unit
        <4>2. ~Doomed(self, a) /\ ~Doomed(self, a)'
          BY <1>a, <2>1, <3>2, <4>1 DEF Doomed
        <4> QED
          BY <1>a, <2>2, <4>1, <4>2 DEF Held
      <3> QED
        BY <1>a, <3>1, <3>2
    <2>9. Held(self)' = Held(self)
      <3>1. \A i : i # a => (i \in Held(self)' <=> i \in Held(self))
        BY <1>a, <2>4, <2>6, <2>7 DEF Held, UnitsKept
      <3> QED
        BY <1>a, <2>8, <3>1
    <2>10. \A i : ~Marks(self, i) /\ ~Marks(self, i)'
      BY <1>a, <2>1 DEF Marks
    <2>11. ASSUME NEW i \in Held(self) PROVE Block(self, i)' = Block(self, i)
      <3>1. node'[i] = node[i]
        <4>1. CASE i # a
          BY <1>a, <2>5, <4>1 DEF Held
        <4>2. CASE i = a
          <5>1. Unit(a).start # unit[self].start
            BY <1>a, <1>n, <2>1, <4>2 DEF Held, Doomed
          <5> QED
            BY <1>a, <2>1, <4>2, <5>1
        <4> QED
          BY <1>a, <4>1, <4>2
      <3> QED
        BY <1>a, <2>1, <2>10, <3>1, BlockAlike
    <2>12. UNCHANGED Fresh(self)
      BY <1>a, <2>1 DEF Fresh
    <2> QED
      BY <1>a, <2>1, <2>4, <2>9, <2>11, <2>12, BlocksKept, FinishedKept
  <1> QED
    BY <1>1, <1>2, <1>3, <1>4, <1>5

-----------------------------------------------------------------------------
(* The steps the ledger sees *)

(* Control blocks that differ at most in their time. *)
Like(u, s, w) ==
    [work_unit : {u}, state : {s}, worker_id : {w}, expired : BOOLEAN]

LEMMA LikeSame ==
    ASSUME NEW u, NEW s, NEW w, NEW c \in Like(u, s, w), NEW d \in Like(u, s, w),
           c.expired <=> d.expired
    PROVE  c = d
  BY DEF Like

LEMMA LikeFields ==
    ASSUME NEW u, NEW s, NEW w, NEW c \in Like(u, s, w)
    PROVE  c.work_unit = u /\ c.state = s /\ c.worker_id = w
  BY DEF Like

LEMMA BlockLike ==
    ASSUME NEW self \in Threads, NEW i
    PROVE  /\ Block(self, i) \in Like(Unit(i), State(self, i), Owner(self, i))
           /\ Block(self, i).expired <=>
                node[i].expired /\ ~Marks(self, i) /\ State(self, i) = "ORPHANED"
           /\ Block(self, i)' \in Like(Unit(i)', State(self, i)', Owner(self, i)')
           /\ Block(self, i)'.expired <=>
                (node[i].expired /\ ~Marks(self, i) /\ State(self, i) = "ORPHANED")'
  BY DEF Block, Like

(* What the ledger's actions do to a unit. *)
LEMMA ExpiredIs ==
    ASSUME NEW u, NEW s, NEW w, NEW c \in Like(u, s, w), NEW d \in Like(u, s, w),
           d.expired
    PROVE  d = [c EXCEPT !.expired = TRUE]
  <1>1. [c EXCEPT !.expired = TRUE] \in Like(u, s, w)
        /\ [c EXCEPT !.expired = TRUE].expired
    BY DEF Like
  <1> QED
    BY <1>1, LikeSame

ClaimedBy(c, w) == [c EXCEPT !.state = "OWNED", !.worker_id = w, !.expired = FALSE]

LEMMA ClaimedIs ==
    ASSUME NEW u, NEW s, NEW w, NEW x, NEW c \in Like(u, s, w),
           NEW d \in Like(u, "OWNED", x), ~d.expired
    PROVE  d = ClaimedBy(c, x)
  <1>1. ClaimedBy(c, x) \in Like(u, "OWNED", x) /\ ~ClaimedBy(c, x).expired
    BY DEF Like, ClaimedBy
  <1> QED
    BY <1>1, LikeSame

LEMMA MarkedIs ==
    ASSUME NEW u, NEW s, NEW w, NEW y, NEW c \in Like(u, s, w),
           NEW d \in Like(u, y, IF y = "DISOWNED" THEN NoWorker ELSE w),
           ~d.expired
    PROVE  d = Ledger!Marked(c, y)
  <1>1. Ledger!Marked(c, y) \in
          Like(u, y, IF y = "DISOWNED" THEN NoWorker ELSE w)
        /\ ~Ledger!Marked(c, y).expired
    BY DEF Like, Ledger!Marked
  <1> QED
    BY <1>1, LikeSame

(* Units are told apart by their digits. *)
LEMMA StartsDiffer ==
    ASSUME NEW self \in Threads,
           TurnInv(self), NEW i \in DOMAIN node, NEW j \in DOMAIN node
    PROVE  /\ Unit(i) \in Units
           /\ i < j => Unit(i).start < Unit(j).start
           /\ Unit(i) = Unit(j) => i = j
  <1>1. node \in Seq(ControlBlocks) /\ UnitsInOrder
    BY DEF TurnInv, BelowInv, TypeOK, ListInv
  <1>2. node[i] \in ControlBlocks /\ node[j] \in ControlBlocks
        /\ i \in Nat /\ j \in Nat
    BY <1>1
  <1>3. Unit(i) \in Units /\ Unit(j) \in Units
    BY <1>2 DEF Unit, ControlBlocks
  <1>4. i < j => Ends(Unit(i)) <= Unit(j).start
    BY <1>1 DEF UnitsInOrder
  <1>5. j < i => Ends(Unit(j)) <= Unit(i).start
    BY <1>1 DEF UnitsInOrder
  <1>6. i < j => Unit(i).start < Unit(j).start
    BY <1>3, <1>4 DEF Ends, Units
  <1>7. j < i => Unit(j).start < Unit(i).start
    BY <1>3, <1>5 DEF Ends, Units
  <1>8. Unit(i) = Unit(j) => i = j
    BY <1>2, <1>3, <1>6, <1>7 DEF Units
  <1> QED
    BY <1>3, <1>6, <1>8

(* One unit of the ledger changes. *)
LEMMA OneReplaced ==
    ASSUME NEW self \in Threads,
           TurnInv(self), NEW a \in Held(self), Held(self)' = Held(self),
           \A i \in Held(self) : i # a => Block(self, i)' = Block(self, i),
           UNCHANGED Fresh(self), Block(self, a) \notin Fresh(self)
    PROVE  Blocks(self)' =
             (Blocks(self) \ {Block(self, a)}) \union {Block(self, a)'}
  <1>1. ASSUME NEW i \in Held(self), i # a PROVE Block(self, i) # Block(self, a)
    <2>1. Unit(i) # Unit(a)
      BY <1>1, StartsDiffer DEF Held
    <2> QED
      BY <2>1 DEF Block
  <1>2. {Block(self, i) : i \in Held(self)}' =
          ({Block(self, i) : i \in Held(self)} \ {Block(self, a)})
            \union {Block(self, a)'}
    BY <1>1
  <1> QED
    BY <1>2 DEF Blocks

LEMMA ClaimStateMaps ==
    ASSUME NEW self \in Threads,
           TurnInv(self), ClaimState(self), LedgerUnits = Blocks(self),
           LedgerUnits' = Blocks(self)'
    PROVE  /\ worker[self] \in Workers /\ UNCHANGED <<next_digit, Finished>>
           /\ \E c \in LedgerUnits :
                /\ Ledger!Available(c)
                /\ \A o \in LedgerUnits : Ledger!NeverMissed(o) =>
                     c.work_unit.start <= o.work_unit.start
                /\ LedgerUnits' = (LedgerUnits \ {c}) \union
                     {[c EXCEPT !.state = "OWNED", !.worker_id = worker[self],
                                !.expired = FALSE]}
  <1>t. TypeOK /\ CallInv(self)
    BY DEF TurnInv, BelowInv
  <1>n. node \in Seq(ControlBlocks)
    BY <1>t DEF TypeOK
  <1>a. PICK a : a = at[self]
    OBVIOUS
  <1>1. /\ pc[self] = "claim" /\ a # 0
        /\ node' = [node EXCEPT ![a].state = "OWNED"]
        /\ pc'[self] = "claim_owner"
        /\ UNCHANGED <<next_digit, chain, freed, submitted, alive, unit>>
        /\ UNCHANGED <<at, worker, want>>
    BY <1>a, <1>t, ClaimStateIs
  <1>2. /\ worker[self] \in Workers /\ InChain(a)
        /\ Available(node[a]) /\ NoneDisowned(a)
    BY <1>a, <1>t, <1>1 DEF CallInv, Calling, OnList, Claiming
  <1>3. a \in DOMAIN node /\ node[a] \in ControlBlocks /\ a \in Nat
    BY <1>2, Listed
  <1>4. UnitsKept
    BY <1>t, <1>1, FieldChanged
  <1>5. \A i : ~Doomed(self, i) /\ ~Doomed(self, i)'
               /\ ~Marks(self, i) /\ ~Marks(self, i)'
    BY <1>1 DEF Doomed, Marks
  <1>6. Held(self)' = Held(self) /\ a \in Held(self)
    BY <1>1, <1>2, <1>3, <1>4, <1>5 DEF Held, InChain, UnitsKept
  <1>7. Fresh(self) = {} /\ Fresh(self)' = {}
    BY <1>1 DEF Fresh
  <1>8. ASSUME NEW i \in Held(self), i # a PROVE Block(self, i)' = Block(self, i)
    <2>1. node'[i] = node[i]
      BY <1>n, <1>1, <1>8 DEF Held
    <2> QED
      BY <1>a, <1>1, <1>5, <1>8, <2>1, BlockAlike
  <1>9. Blocks(self)' = (Blocks(self) \ {Block(self, a)}) \union {Block(self, a)'}
    BY <1>6, <1>7, <1>8, OneReplaced
  <1>10. /\ Block(self, a) \in Like(Unit(a), node[a].state, node[a].worker_id)
         /\ Block(self, a).work_unit = Unit(a)
         /\ Block(self, a).state = node[a].state
         /\ Block(self, a).expired <=> node[a].expired /\ node[a].state = "ORPHANED"
    <2>1. State(self, a) = node[a].state /\ Owner(self, a) = node[a].worker_id
      BY <1>1, <1>5 DEF State, Owner
    <2>2. Block(self, a) \in Like(Unit(a), node[a].state, node[a].worker_id)
      BY <2>1, BlockLike
    <2>3. Block(self, a).expired <=> node[a].expired /\ node[a].state = "ORPHANED"
      BY <1>5, <2>1, BlockLike
    <2> QED
      BY <2>2, <2>3, LikeFields
  <1>11. Block(self, a)' \in Like(Unit(a), "OWNED", worker[self])
         /\ ~Block(self, a)'.expired
    <2>1. node'[a].state = "OWNED" /\ node'[a].work_unit = node[a].work_unit
      BY <1>n, <1>1, <1>3 DEF ControlBlocks
    <2>2. State(self, a)' = "OWNED" /\ Owner(self, a)' = worker[self]
          /\ Unit(a)' = Unit(a)
      BY <1>a, <1>1, <1>5, <2>1 DEF State, Owner, Unit
    <2> QED
      BY <2>2, BlockLike
  <1>12. Block(self, a)' = ClaimedBy(Block(self, a), worker[self])
    BY <1>10, <1>11, ClaimedIs
  <1>13. Ledger!Available(Block(self, a))
    BY <1>2, <1>10 DEF Available, Ledger!Available
  <1>14. ASSUME NEW o \in Blocks(self), Ledger!NeverMissed(o)
         PROVE  Block(self, a).work_unit.start <= o.work_unit.start
    <2>1. PICK i \in Held(self) : o = Block(self, i)
      BY <1>7 DEF Blocks
    <2>2. node[i].state = "DISOWNED" /\ o.work_unit = Unit(i)
      BY <1>5, <1>14, <2>1 DEF Ledger!NeverMissed, Block, State
    <2>3. ~(i < a) /\ i \in DOMAIN node /\ i \in Nat
      BY <1>n, <1>2, <2>1, <2>2 DEF NoneDisowned, Held
    <2>4. Unit(a).start <= Unit(i).start
      <3>1. Unit(a) \in Units /\ Unit(i) \in Units
            /\ (a < i => Unit(a).start < Unit(i).start)
        BY <1>3, <2>3, StartsDiffer
      <3>2. a < i \/ a = i
        BY <1>3, <2>3
      <3> QED
        BY <3>1, <3>2 DEF Units
    <2> QED
      BY <1>10, <2>2, <2>4
  <1>15. Block(self, a) \in Blocks(self)
    BY <1>6 DEF Blocks
  <1>16. UNCHANGED <<next_digit, Finished>>
    BY <1>1, <1>4, FinishedKept
  <1> QED
    BY <1>2, <1>9, <1>12, <1>13, <1>14, <1>15, <1>16 DEF ClaimedBy

LEMMA GenAddMaps ==
    ASSUME NEW self \in Threads,
           TurnInv(self), GenAdd(self), LedgerUnits = Blocks(self),
           LedgerUnits' = Blocks(self)'
    PROVE  /\ worker[self] \in Workers
           /\ \A c \in LedgerUnits : ~Ledger!NeverMissed(c)
           /\ next_digit < MaxDigit
           /\ LedgerUnits' = LedgerUnits \union
                {[work_unit |-> [start |-> next_digit,
                                 n_digits |-> UnitSize(next_digit)],
                  state |-> "OWNED", worker_id |-> worker[self],
                  expired |-> FALSE]}
           /\ next_digit' = next_digit + UnitSize(next_digit)
           /\ UNCHANGED Finished
  <1>t. TypeOK /\ CallInv(self)
    BY DEF TurnInv, BelowInv
  <1>1. /\ pc[self] = "gen_add" /\ pc'[self] = "push"
        /\ next_digit' = next_digit + unit[self].n_digits
        /\ UNCHANGED <<node, chain, freed, submitted, alive, unit>>
        /\ UNCHANGED <<at, worker, want>>
    BY <1>t, GenAddIs
  <1>2. /\ worker[self] \in Workers /\ NoneDisowned(0)
        /\ next_digit < MaxDigit
        /\ unit[self].n_digits = UnitSize(next_digit)
        /\ unit[self].start = next_digit
    BY <1>t, <1>1 DEF CallInv, Calling, Sizing, Sized, Started
  <1>3. unit[self] = [start |-> next_digit, n_digits |-> UnitSize(next_digit)]
    <2>1. unit[self] \in Units
      BY <1>t DEF TypeOK
    <2> QED
      BY <1>2, <2>1 DEF Units
  <1>4. \A i : ~Doomed(self, i) /\ ~Doomed(self, i)'
               /\ ~Marks(self, i) /\ ~Marks(self, i)'
    BY <1>1 DEF Doomed, Marks
  <1>5. Held(self)' = Held(self)
    BY <1>1, <1>4 DEF Held, InChain
  <1>6. \A i \in Held(self) : Block(self, i)' = Block(self, i)
    BY <1>1, <1>4, BlockAlike
  <1>7. /\ Fresh(self) = {}
        /\ Fresh(self)' = {[work_unit |-> unit[self], state |-> "OWNED",
                            worker_id |-> worker[self], expired |-> FALSE]}
    BY <1>1 DEF Fresh
  <1>8. Blocks(self)' = Blocks(self) \union Fresh(self)'
    <2>1. {Block(self, i) : i \in Held(self)}' = {Block(self, i) : i \in Held(self)}
      BY <1>5, <1>6
    <2> QED
      BY <1>7, <2>1 DEF Blocks
  <1>9. ASSUME NEW c \in Blocks(self) PROVE ~Ledger!NeverMissed(c)
    <2>1. PICK i \in Held(self) : c = Block(self, i)
      BY <1>7 DEF Blocks
    <2>2. node[i].state # "DISOWNED"
      BY <1>2 DEF NoneDisowned, Held
    <2> QED
      BY <1>4, <2>1, <2>2 DEF Ledger!NeverMissed, Block, State
  <1>10. UNCHANGED Finished
    BY <1>1, FinishedKept DEF UnitsKept
  <1> QED
    BY <1>1, <1>2, <1>3, <1>7, <1>8, <1>9, <1>10

LEMMA MarkCallMaps ==
    ASSUME NEW self \in Threads,
           TurnInv(self), NEW w \in Workers, NEW s \in States,
           MarkCall(self, w, s),
           LedgerUnits = Blocks(self), LedgerUnits' = Blocks(self)'
    PROVE  /\ LedgerUnits' = {IF c.worker_id = w THEN Ledger!Marked(c, s) ELSE c :
                                c \in LedgerUnits}
           /\ UNCHANGED <<next_digit, Finished>>
  <1>t. TypeOK /\ Sorted
    BY DEF TurnInv, BelowInv, ListInv
  <1>n. node \in Seq(ControlBlocks)
    BY <1>t DEF TypeOK
  <1>1. /\ pc[self] = "idle" /\ pc'[self] = "mark"
        /\ worker'[self] = w /\ want'[self] = s /\ at'[self] = First
        /\ UNCHANGED <<next_digit, node, chain, freed, submitted, alive, unit>>
    BY <1>t, MarkCallIs
  <1>2. \A i : ~Doomed(self, i) /\ ~Doomed(self, i)' /\ ~Marks(self, i)
    BY <1>1 DEF Doomed, Marks
  <1>3. Held(self)' = Held(self)
    BY <1>1, <1>2 DEF Held, InChain
  <1>4. Fresh(self) = {} /\ Fresh(self)' = {}
    BY <1>1 DEF Fresh
  <1>5. ASSUME NEW i \in Held(self)
        PROVE  Block(self, i)' = IF Block(self, i).worker_id = w
                           THEN Ledger!Marked(Block(self, i), s) ELSE Block(self, i)
    <2>1. First # 0 /\ First <= i
      <3>1. InChain(First) /\ First <= i
        BY <1>t, FirstIs DEF Held
      <3> QED
        BY <3>1, Listed
    <2>2. Marks(self, i)' <=> node[i].worker_id = w
      BY <1>1, <2>1 DEF Marks
    <2>3. Block(self, i) \in Like(Unit(i), node[i].state, node[i].worker_id)
          /\ Block(self, i).worker_id = node[i].worker_id
      <3>1. State(self, i) = node[i].state /\ Owner(self, i) = node[i].worker_id
        BY <1>1, <1>2 DEF State, Owner
      <3>2. Block(self, i) \in Like(Unit(i), node[i].state, node[i].worker_id)
        BY <3>1, BlockLike
      <3> QED
        BY <3>2, LikeFields
    <2>4. CASE node[i].worker_id = w
      <3>1. /\ State(self, i)' = s /\ Unit(i)' = Unit(i)
            /\ Owner(self, i)' =
                 IF s = "DISOWNED" THEN NoWorker ELSE node[i].worker_id
        BY <1>1, <2>2, <2>4 DEF State, Owner, Unit
      <3>2. Block(self, i)' \in Like(Unit(i), s, IF s = "DISOWNED" THEN NoWorker
                                           ELSE node[i].worker_id)
        BY <3>1, BlockLike
      <3>3. ~Block(self, i)'.expired
        BY <2>2, <2>4, BlockLike
      <3>4. Block(self, i)' = Ledger!Marked(Block(self, i), s)
        BY <2>3, <3>2, <3>3, MarkedIs
      <3> QED
        BY <2>3, <2>4, <3>4
    <2>5. CASE node[i].worker_id # w
      <3>1. Marks(self, i)' <=> Marks(self, i)
        BY <1>2, <2>2, <2>5
      <3>2. node'[i] = node[i]
        BY <1>1
      <3>3. Block(self, i)' = Block(self, i)
        BY <1>1, <1>2, <3>1, <3>2, BlockAlike
      <3> QED
        BY <2>3, <2>5, <3>3
    <2> QED
      BY <2>4, <2>5
  <1>6. Blocks(self) = {Block(self, i) : i \in Held(self)}
        /\ Blocks(self)' = {Block(self, i)' : i \in Held(self)}
    <2>1. Blocks(self)' = {Block(self, i) : i \in Held(self)}'
      BY <1>4 DEF Blocks
    <2> QED
      BY <1>3, <1>4, <2>1 DEF Blocks
  <1>7. Blocks(self)' = {IF c.worker_id = w THEN Ledger!Marked(c, s) ELSE c :
                           c \in Blocks(self)}
    BY <1>5, <1>6
  <1>8. UNCHANGED Finished
    BY <1>1, FinishedKept DEF UnitsKept
  <1> QED
    BY <1>1, <1>7, <1>8

LEMMA SubmitCallMaps ==
    ASSUME NEW self \in Threads,
           TurnInv(self), NEW i \in DOMAIN node, SubmitCall(self, i),
           LedgerUnits = Blocks(self), LedgerUnits' = Blocks(self)'
    PROVE  /\ Unit(i).start \in 0..next_digit
           /\ LedgerUnits' =
                {c \in LedgerUnits : c.work_unit.start # Unit(i).start}
           /\ Finished' = Finished \union
                {c.work_unit : c \in
                   {o \in LedgerUnits : o.work_unit.start = Unit(i).start}}
           /\ UNCHANGED next_digit
  <1>t. TypeOK /\ Sorted /\ ListInv(self)
    BY DEF TurnInv, BelowInv, ListInv
  <1>n. node \in Seq(ControlBlocks) /\ next_digit \in Nat
    BY <1>t DEF TypeOK
  <1>1. /\ pc[self] = "idle" /\ pc'[self] = "remove"
        /\ submitted' = submitted \union {Unit(i).start}
        /\ unit'[self] = Unit(i) /\ at'[self] = First
        /\ UNCHANGED <<next_digit, node, chain, freed, alive>>
    BY <1>t, SubmitCallIs
  <1>2. \A j : ~Doomed(self, j) /\ ~Marks(self, j) /\ ~Marks(self, j)'
    BY <1>1 DEF Doomed, Marks
  <1>3. ASSUME NEW j, InChain(j)
        PROVE  Doomed(self, j)' <=> Unit(j).start = Unit(i).start
    <2>1. First # 0 /\ First <= j
      <3>1. InChain(First) /\ First <= j
        BY <1>t, <1>3, FirstIs
      <3> QED
        BY <3>1, Listed
    <2> QED
      BY <1>1, <2>1 DEF Doomed, Unit
  <1>4. Held(self)' = {j \in Held(self) : Unit(j).start # Unit(i).start}
    BY <1>1, <1>2, <1>3 DEF Held, InChain
  <1>5. ASSUME NEW j \in Held(self) PROVE Block(self, j)' = Block(self, j)
    BY <1>1, <1>2, BlockAlike
  <1>6. Fresh(self) = {} /\ Fresh(self)' = {}
    BY <1>1 DEF Fresh
  <1>7. \A j : Block(self, j).work_unit = Unit(j)
    BY DEF Block
  <1>8. Blocks(self)' = {c \in Blocks(self) : c.work_unit.start # Unit(i).start}
    <2>1. Blocks(self)' = {Block(self, j) : j \in Held(self)}'
      BY <1>6 DEF Blocks
    <2>2. Blocks(self) = {Block(self, j) : j \in Held(self)}
      BY <1>6 DEF Blocks
    <2> QED
      BY <1>4, <1>5, <1>7, <2>1, <2>2
  <1>9. Finished' = Finished \union
          {c.work_unit : c \in
               {o \in Blocks(self) : o.work_unit.start = Unit(i).start}}
    <2>1. Finished' = {Unit(j) : j \in {j \in DOMAIN node :
                                          Unit(j).start \in submitted'}}
      BY <1>1 DEF Finished, Unit
    <2>2. Blocks(self) = {Block(self, j) : j \in Held(self)}
      BY <1>6 DEF Blocks
    <2>3. ASSUME NEW j \in DOMAIN node, Unit(j).start = Unit(i).start
          PROVE  Unit(j) \in Finished \/ j \in Held(self)
      BY <1>t, <1>2, <2>3 DEF ListInv, ListedUntilSubmitted, Finished, Held
    <2>4. ASSUME NEW j \in Held(self) PROVE j \in DOMAIN node
      BY DEF Held
    <2>5. ASSUME NEW u \in Finished'
          PROVE  u \in Finished \union
            {c.work_unit : c \in
               {o \in Blocks(self) : o.work_unit.start = Unit(i).start}}
      <3>1. PICK j \in DOMAIN node : u = Unit(j) /\ Unit(j).start \in submitted'
        BY <2>1
      <3>2. CASE Unit(j).start \in submitted
        BY <3>1, <3>2 DEF Finished
      <3>3. CASE Unit(j).start = Unit(i).start
        BY <1>7, <2>2, <2>3, <3>1, <3>3
      <3> QED
        BY <1>1, <3>1, <3>2, <3>3
    <2>6. ASSUME NEW c \in Blocks(self), c.work_unit.start = Unit(i).start
          PROVE  c.work_unit \in Finished'
      <3>1. PICK j \in Held(self) : c = Block(self, j)
        BY <2>2
      <3> QED
        BY <1>1, <1>7, <2>1, <2>4, <2>6, <3>1
    <2>7. Finished \subseteq Finished'
      BY <1>1, <2>1 DEF Finished
    <2> QED
      BY <2>5, <2>6, <2>7
  <1>10. Unit(i).start \in 0..next_digit
    <2>1. Unit(i) \in Units /\ Ends(Unit(i)) <= next_digit
      BY StartsDiffer DEF TurnInv, BelowInv, UnitsBelowNext, Unit
    <2> QED
      BY <1>n, <2>1 DEF Ends, Units
  <1> QED
    BY <1>1, <1>8, <1>9, <1>10

LEMMA ExpireMaps ==
    ASSUME NEW self \in Threads,
           TurnInv(self), NEW i \in DOMAIN node, Expire(i),
           LedgerUnits = Blocks(self),
           LedgerUnits' = Blocks(self)'
    PROVE  /\ UNCHANGED <<next_digit, Finished>>
           /\ \/ UNCHANGED LedgerUnits
              \/ \E c \in LedgerUnits :
                   /\ c.state = "ORPHANED" /\ ~c.expired
                   /\ LedgerUnits' = (LedgerUnits \ {c}) \union
                                       {[c EXCEPT !.expired = TRUE]}
  <1>t. TypeOK /\ CallInv(self)
    BY DEF TurnInv, BelowInv
  <1>n. node \in Seq(ControlBlocks)
    BY <1>t DEF TypeOK
  <1>1. /\ InChain(i) /\ ~node[i].expired
        /\ node' = [node EXCEPT ![i].expired = TRUE]
        /\ UNCHANGED <<next_digit, chain, freed, submitted, alive>>
        /\ UNCHANGED <<pc, worker, at, unit, want>>
    BY DEF Expire, locals
  <1>2. UnitsKept
    BY <1>t, <1>1, FieldChanged
  <1>3. ASSUME NEW j \in DOMAIN node
        PROVE  /\ node'[j].work_unit = node[j].work_unit
               /\ node'[j].state = node[j].state
               /\ node'[j].worker_id = node[j].worker_id
               /\ j # i => node'[j] = node[j]
               /\ node'[i].expired
    <2>1. node[j] \in ControlBlocks /\ node[i] \in ControlBlocks
      BY <1>n
    <2> QED
      BY <1>n, <1>1, <2>1 DEF ControlBlocks
  <1>4. \A j \in DOMAIN node : (Doomed(self, j)' <=> Doomed(self, j))
                               /\ (Marks(self, j)' <=> Marks(self, j))
    BY <1>1, <1>3 DEF Doomed, Marks, Unit
  <1>5. Held(self)' = Held(self)
    BY <1>1, <1>2, <1>4 DEF Held, InChain, UnitsKept
  <1>6. UNCHANGED Fresh(self)
    BY <1>1 DEF Fresh
  <1>7. ASSUME NEW j \in DOMAIN node
        PROVE  State(self, j)' = State(self, j) /\ Owner(self, j)' = Owner(self, j)
    BY <1>1, <1>3, <1>4 DEF State, Owner
  <1>8. ASSUME NEW j \in Held(self), j # i PROVE Block(self, j)' = Block(self, j)
    <2>1. j \in DOMAIN node
      BY DEF Held
    <2> QED
      BY <1>3, <1>4, <1>7, <1>8, <2>1, BlockKept
  <1>9. UNCHANGED <<next_digit, Finished>>
    BY <1>1, <1>2, FinishedKept
  <1>10. CASE i \notin Held(self)
    <2>1. UNCHANGED Blocks(self)
      BY <1>5, <1>6, <1>8, <1>10, BlocksKept
    <2> QED
      BY <1>9, <2>1
  <1>11. CASE i \in Held(self) /\ (Marks(self, i) \/ State(self, i) # "ORPHANED")
    <2>1. Block(self, i)' = Block(self, i)
      BY <1>3, <1>4, <1>7, <1>11, BlockKept
    <2>2. UNCHANGED Blocks(self)
      BY <1>5, <1>6, <1>8, <2>1, BlocksKept
    <2> QED
      BY <1>9, <2>2
  <1>12. CASE i \in Held(self) /\ ~Marks(self, i) /\ State(self, i) = "ORPHANED"
    <2>1. /\ Block(self, i) \in Like(Unit(i), "ORPHANED", Owner(self, i))
          /\ Block(self, i).state = "ORPHANED" /\ ~Block(self, i).expired
      <3>1. Block(self, i) \in Like(Unit(i), "ORPHANED", Owner(self, i))
        BY <1>12, BlockLike
      <3>2. ~Block(self, i).expired
        BY <1>1, BlockLike
      <3> QED
        BY <3>1, <3>2, LikeFields
    <2>2. Block(self, i)' \in Like(Unit(i), "ORPHANED", Owner(self, i))
          /\ Block(self, i)'.expired
      <3>1. State(self, i)' = "ORPHANED" /\ Owner(self, i)' = Owner(self, i)
            /\ Unit(i)' = Unit(i)
        BY <1>3, <1>7, <1>12 DEF Unit
      <3>2. (node[i].expired /\ ~Marks(self, i) /\ State(self, i) = "ORPHANED")'
        BY <1>3, <1>4, <1>12, <3>1
      <3> QED
        BY <3>1, <3>2, BlockLike
    <2>3. Block(self, i)' = [Block(self, i) EXCEPT !.expired = TRUE]
      BY <2>1, <2>2, ExpiredIs
    <2>4. Block(self, i) \notin Fresh(self)
      BY <2>1 DEF Fresh
    <2>5. Blocks(self)' = (Blocks(self) \ {Block(self, i)}) \union {Block(self, i)'}
      BY <1>5, <1>6, <1>8, <1>12, <2>4, OneReplaced
    <2>6. Block(self, i) \in Blocks(self)
      BY <1>12 DEF Blocks
    <2> QED
      BY <1>9, <2>1, <2>3, <2>5, <2>6
  <1> QED
    BY <1>10, <1>11, <1>12

-----------------------------------------------------------------------------
(* The refinement *)

LEMMA FinishedIs ==
    /\ Finished = {node[i].work_unit : i \in
                     {i \in DOMAIN node : node[i].work_unit.start \in submitted}}
    /\ Finished' = {node[i].work_unit : i \in
                     {i \in DOMAIN node : node[i].work_unit.start \in submitted}}'
  BY DEF Finished, Unit

(* Every step of self is one of the ledger's, or changes nothing. *)
LEMMA StepMaps ==
    ASSUME NEW self \in Threads, TurnInv(self),
           LedgerUnits = Blocks(self), LedgerUnits' = Blocks(self)',
           StepOf(self) \/ \E i \in DOMAIN node : Expire(i)
    PROVE  [Ledger!Next]_Ledger!vars
  <1>s. UNCHANGED <<next_digit, LedgerUnits, Finished>> => UNCHANGED Ledger!vars
    BY FinishedIs DEF Ledger!vars
  <1>1. ASSUME \/ \E w \in Workers : AssignCall(self, w)
               \/ FindAvailable(self) \/ NothingAvailable(self)
               \/ GenSize(self) \/ GenStart(self) \/ PushTail(self)
               \/ MarkTest(self) \/ MarkEnd(self) \/ RemoveEnd(self)
        PROVE  UNCHANGED Ledger!vars
    BY <1>1, <1>s, LoopMaps
  <1>2. ASSUME \/ ClaimOwner(self) \/ MarkState(self) \/ MarkRest(self)
               \/ PushLink(self) \/ RemoveTest(self)
        PROVE  UNCHANGED Ledger!vars
    BY <1>2, <1>s, RestMaps
  <1>3. ASSUME ClaimState(self) PROVE Ledger!Next
    <2>1. PICK c \in LedgerUnits :
            /\ Ledger!Available(c)
            /\ \A o \in LedgerUnits : Ledger!NeverMissed(o) =>
                 c.work_unit.start <= o.work_unit.start
            /\ LedgerUnits' = (LedgerUnits \ {c}) \union
                 {[c EXCEPT !.state = "OWNED", !.worker_id = worker[self],
                            !.expired = FALSE]}
      BY <1>3, ClaimStateMaps
    <2>2. worker[self] \in Workers /\ UNCHANGED <<next_digit, Finished>>
      BY <1>3, ClaimStateMaps
    <2>3. Ledger!Claim(worker[self], c)
      BY <2>1, <2>2, FinishedIs DEF Ledger!Claim
    <2> QED
      BY <2>2, <2>3 DEF Ledger!Next, Ledger!assign_work_unit
  <1>4. ASSUME GenAdd(self) PROVE Ledger!Next
    <2>1. /\ worker[self] \in Workers
          /\ \A c \in LedgerUnits : ~Ledger!NeverMissed(c)
          /\ next_digit < MaxDigit
          /\ LedgerUnits' = LedgerUnits \union
               {[work_unit |-> [start |-> next_digit,
                                n_digits |-> UnitSize(next_digit)],
                 state |-> "OWNED", worker_id |-> worker[self],
                 expired |-> FALSE]}
          /\ next_digit' = next_digit + UnitSize(next_digit)
          /\ UNCHANGED Finished
      BY <1>4, GenAddMaps
    <2>2. Ledger!UnitSize(next_digit) = UnitSize(next_digit)
      BY DEF UnitSize, Ledger!UnitSize
    <2>3. Ledger!DispatchNew(worker[self])
      BY <2>1, <2>2, FinishedIs DEF Ledger!DispatchNew
    <2> QED
      BY <2>1, <2>3 DEF Ledger!Next, Ledger!assign_work_unit
  <1>5. ASSUME NEW w \in Workers, NEW s \in States, MarkCall(self, w, s)
        PROVE  Ledger!Next
    <2>1. Ledger!MarkAll(w, s)
      BY <1>5, MarkCallMaps, FinishedIs DEF Ledger!MarkAll
    <2>2. s \in Ledger!States
      BY DEF States, Ledger!States
    <2> QED
      BY <2>1, <2>2 DEF Ledger!Next
  <1>6. ASSUME NEW i \in DOMAIN node, SubmitCall(self, i) PROVE Ledger!Next
    <2>1. Unit(i).start \in 0..next_digit
      BY <1>6, SubmitCallMaps
    <2>2. PICK start \in 0..next_digit : start = Unit(i).start
      BY <2>1
    <2>3. Ledger!Submit(start)
      BY <1>6, <2>2, SubmitCallMaps, FinishedIs DEF Ledger!Submit
    <2> QED
      BY <2>3 DEF Ledger!Next
  <1>7. ASSUME NEW i \in DOMAIN node, Expire(i)
        PROVE  Ledger!Next \/ UNCHANGED Ledger!vars
    <2>1. UNCHANGED <<next_digit, Finished>>
      BY <1>7, ExpireMaps
    <2>2. CASE UNCHANGED LedgerUnits
      BY <1>s, <2>1, <2>2
    <2>3. ASSUME NEW c \in LedgerUnits, c.state = "ORPHANED", ~c.expired,
                 LedgerUnits' = (LedgerUnits \ {c}) \union
                                  {[c EXCEPT !.expired = TRUE]}
          PROVE  Ledger!Next
      <3>1. Ledger!Expire(c)
        BY <2>1, <2>3, FinishedIs DEF Ledger!Expire
      <3> QED
        BY <2>3, <3>1 DEF Ledger!Next
    <2> QED
      BY <1>7, <2>2, <2>3, ExpireMaps
  <1> QED
    BY <1>1, <1>2, <1>3, <1>4, <1>5, <1>6, <1>7 DEF StepOf

(* At first there are no units. *)
LEMMA InitMaps == Init => Ledger!Init
  <1> SUFFICES ASSUME Init PROVE Ledger!Init
    OBVIOUS
  <1>1. PICK self \in Threads : LedgerUnits = Blocks(self)
    BY TurnInit, LedgerUnitsAre DEF TurnsInv
  <1>2. Held(self) = {} /\ Fresh(self) = {} /\ Finished = {}
    BY DEF Init, Held, Fresh, Finished
  <1>3. LedgerUnits = {}
    BY <1>1, <1>2 DEF Blocks
  <1> QED
    BY <1>2, <1>3, FinishedIs DEF Ledger!Init, Init

(* The mapping, after a step. *)
UnitsAreBlocks(self) == LedgerUnits = Blocks(self)

LEMMA LedgerUnitsAfter ==
    ASSUME NEW self \in Threads
    PROVE  TurnInv(self)' => LedgerUnits' = Blocks(self)'
  <1>1. TurnInv(self) => UnitsAreBlocks(self)
    BY LedgerUnitsAre DEF UnitsAreBlocks
  <1>2. TurnInv(self)' => UnitsAreBlocks(self)'
    BY <1>1, PTL
  <1> QED
    BY <1>2 DEF UnitsAreBlocks

LEMMA TurnMaps == TurnsInv /\ [Next /\ NoOverlap']_vars => [Ledger!Next]_Ledger!vars
  <1> SUFFICES ASSUME NEW t \in Threads, TurnInv(t), [Next /\ NoOverlap']_vars
               PROVE  [Ledger!Next]_Ledger!vars
    BY DEF TurnsInv
  <1>1. CASE Next /\ NoOverlap'
    <2>1. PICK self \in Threads :
            /\ TurnInv(self) /\ InTurn(self)' /\ AtRest'
            /\ StepOf(self) \/ \E i \in DOMAIN node : Expire(i)
      BY <1>1, StepInTurn
    <2>2. TurnInv(self)'
      <3>1. BelowInv'
        BY BelowStep DEF TurnInv
      <3> QED
        BY <2>1, <3>1, SelfStep
    <2>3. LedgerUnits = Blocks(self) /\ LedgerUnits' = Blocks(self)'
      BY <2>1, <2>2, LedgerUnitsAre, LedgerUnitsAfter
    <2> QED
      BY <2>1, <2>3, StepMaps
  <1>2. CASE UNCHANGED vars
    <2>1. TurnInv(t)'
      BY <1>2, Stutter
    <2>2. UNCHANGED <<next_digit, node, submitted>> /\ Blocks(t)' = Blocks(t)
      BY <1>2 DEF vars, shared, locals, Blocks, Block, Held, Fresh, Doomed,
         Marks, State, Owner, Unit, InChain
    <2> QED
      BY <2>1, <2>2, LedgerUnitsAre, LedgerUnitsAfter DEF Ledger!vars
  <1> QED
    BY <1>1, <1>2

(***************************************************************************)
(* The manager implements the ledger when the calls of its threads do not  *)
(* overlap: what its comments promise of the lock is what the ledger does  *)
(* in one step, and the list, its loops and the order of their writes add  *)
(* nothing that a caller could see.                                        *)
(***************************************************************************)
THEOREM Refinement == TurnSpec => ImplementsLedger
  BY InitMaps, TurnMaps, InTurnSafe, PTL DEF TurnSpec, ImplementsLedger, Ledger!Spec

-----------------------------------------------------------------------------
(* What the ledger promises, of the manager *)

LP == INSTANCE WorkUnitLedgerProofs WITH
        active_work_units <- LedgerUnits, finished <- {node[i].work_unit : i \in
                       {i \in DOMAIN node : node[i].work_unit.start \in submitted}}

(* Each unit of the ledger is a node's, or the one being linked. *)
LEMMA UnitsOfNodes ==
    ASSUME NEW self \in Threads,
           LedgerUnits = Blocks(self), NEW u \in Ledger!Units,
           pc[self] \notin {"push", "link"}
    PROVE  \E i \in DOMAIN node : u = Unit(i)
  <1>1. u \in Finished \/ \E c \in LedgerUnits : u = c.work_unit
    BY FinishedIs DEF Ledger!Units
  <1>2. ASSUME u \in Finished
        PROVE  \E i \in DOMAIN node : u = Unit(i)
    BY <1>2 DEF Finished
  <1>3. ASSUME NEW c \in LedgerUnits, u = c.work_unit
        PROVE  \E i \in DOMAIN node : u = Unit(i)
    <2>1. PICK i \in Held(self) : c = Block(self, i)
      BY <1>3 DEF Blocks, Fresh
    <2> QED
      BY <1>3, <2>1 DEF Block, Held
  <1> QED
    BY <1>1, <1>2, <1>3

LEMMA TilingCovers ==
    ASSUME NEW self \in Threads,
           TurnInv(self), LedgerUnits = Blocks(self), Ledger!Tiling
    PROVE  NoDigitSkipped
  <1> SUFFICES ASSUME \A t \in Threads : pc[t] \notin {"gen_add", "push", "link"},
                      NEW d \in InitialDigit..(next_digit - 1)
               PROVE  \E i \in DOMAIN node :
                        LET u == node[i].work_unit IN u.start <= d /\ d < Ends(u)
    BY DEF NoDigitSkipped
  <1>1. pc[self] \notin {"push", "link"}
    OBVIOUS
  <1>2. PICK u \in Ledger!Units : Ledger!Covers(u, d)
    BY DEF Ledger!Tiling
  <1>3. PICK i \in DOMAIN node : u = Unit(i)
    BY <1>1, <1>2, UnitsOfNodes
  <1> QED
    BY <1>2, <1>3 DEF Ledger!Covers, Ends, Unit

(* LP has the ledger's specification. *)
LEMMA SameLedger ==
    /\ LP!Init <=> Ledger!Init
    /\ [LP!Next]_LP!vars <=> [Ledger!Next]_Ledger!vars
    /\ LP!Tiling <=> Ledger!Tiling
    /\ LP!NothingForgotten <=> Ledger!NothingForgotten
    /\ LP!OwnerKnown <=> Ledger!OwnerKnown
  <1>1. LP!Init <=> Ledger!Init
    BY DEF LP!Init, Ledger!Init
  <1>2. ASSUME NEW w PROVE LP!assign_work_unit(w) <=> Ledger!assign_work_unit(w)
    BY DEF LP!assign_work_unit, LP!Claim, LP!DispatchNew, LP!Available,
       LP!NeverMissed, LP!UnitSize, Ledger!assign_work_unit, Ledger!Claim,
       Ledger!DispatchNew, Ledger!Available, Ledger!NeverMissed, Ledger!UnitSize
  <1>3. ASSUME NEW w, NEW s PROVE LP!MarkAll(w, s) <=> Ledger!MarkAll(w, s)
    BY DEF LP!MarkAll, LP!Marked, Ledger!MarkAll, Ledger!Marked
  <1>4. ASSUME NEW c PROVE LP!Expire(c) <=> Ledger!Expire(c)
    BY DEF LP!Expire, Ledger!Expire
  <1>5. ASSUME NEW start PROVE LP!Submit(start) <=> Ledger!Submit(start)
    BY DEF LP!Submit, Ledger!Submit
  <1>6. LP!Next <=> Ledger!Next
    BY <1>2, <1>3, <1>4, <1>5 DEF LP!Next, Ledger!Next, LP!States, Ledger!States
  <1>7. UNCHANGED LP!vars <=> UNCHANGED Ledger!vars
    BY DEF LP!vars, Ledger!vars
  <1>8. \A u, d : LP!Covers(u, d) <=> Ledger!Covers(u, d)
    BY DEF LP!Covers, Ledger!Covers
  <1>9. LP!Tiling <=> Ledger!Tiling
    BY <1>8 DEF LP!Tiling, LP!Units, Ledger!Tiling, Ledger!Units
  <1>10. LP!NothingForgotten <=> Ledger!NothingForgotten
    BY <1>8 DEF LP!NothingForgotten, Ledger!NothingForgotten
  <1>11. LP!OwnerKnown <=> Ledger!OwnerKnown
    BY DEF LP!OwnerKnown, Ledger!OwnerKnown
  <1> QED
    BY <1>1, <1>6, <1>7, <1>9, <1>10, <1>11

(***************************************************************************)
(* What the ledger promises holds of the manager when its calls do not     *)
(* overlap: its units tile the digits given away, a digit no result has    *)
(* come for is in one listed unit, and a unit has a worker exactly when it *)
(* is owned or orphaned.                                                   *)
(***************************************************************************)
THEOREM LedgerKept ==
    TurnSpec => [](Ledger!Tiling /\ Ledger!NothingForgotten /\ Ledger!OwnerKnown)
  <1>1. LP!Spec => []LP!Tiling
    BY LP!UnitsTile, ThreadsAssumption, LimitAssumption, SizesAssumption
       DEF LP!NoWorkerAssumption, LP!InitialDigitAssumption,
           LP!MaxDigitAssumption, LP!QuotaAssumption
  <1>2. LP!Spec => []LP!NothingForgotten
    BY LP!Remembered, ThreadsAssumption, LimitAssumption, SizesAssumption
       DEF LP!NoWorkerAssumption, LP!InitialDigitAssumption,
           LP!MaxDigitAssumption, LP!QuotaAssumption
  <1>3. LP!Spec => []LP!OwnerKnown
    BY LP!OwnersKnown, ThreadsAssumption, LimitAssumption, SizesAssumption
       DEF LP!NoWorkerAssumption, LP!InitialDigitAssumption,
           LP!MaxDigitAssumption, LP!QuotaAssumption
  <1>4. TurnSpec => Ledger!Spec
    BY Refinement DEF ImplementsLedger
  <1>5. LP!Tiling /\ LP!NothingForgotten /\ LP!OwnerKnown
        => Ledger!Tiling /\ Ledger!NothingForgotten /\ Ledger!OwnerKnown
    BY SameLedger
  <1>6. Ledger!Spec => LP!Spec
    BY SameLedger, PTL DEF Ledger!Spec, LP!Spec
  <1> QED
    BY <1>1, <1>2, <1>3, <1>4, <1>5, <1>6, PTL

(***************************************************************************)
(* "Next digit from which to dispatch work units": when the calls do not   *)
(* overlap, every digit before it is in a unit that was created.           *)
(***************************************************************************)
THEOREM NothingSkipped == TurnSpec => []NoDigitSkipped
  <1>1. TurnsInv /\ Ledger!Tiling => NoDigitSkipped
    BY LedgerUnitsAre, TilingCovers DEF TurnsInv
  <1> QED
    BY <1>1, InTurnSafe, LedgerKept, PTL

(***************************************************************************)
(* A worker that comes back in time finds its units as it left them: a     *)
(* step of the manager gives a unit to another worker only when the unit   *)
(* is disowned, or was orphaned for longer than the timeout.               *)
(***************************************************************************)
THEOREM KeptThroughout == TurnSpec => Ledger!KeptForOwner
  <1>1. LP!Spec => LP!KeptForOwner
    BY LP!UnitsKeptForOwner, ThreadsAssumption, LimitAssumption, SizesAssumption
       DEF LP!NoWorkerAssumption, LP!InitialDigitAssumption,
           LP!MaxDigitAssumption, LP!QuotaAssumption
  <1>2. TurnSpec => Ledger!Spec
    BY Refinement DEF ImplementsLedger
  <1>3. Ledger!Spec => LP!Spec
    BY SameLedger, PTL DEF Ledger!Spec, LP!Spec
  <1>4. UNCHANGED LP!vars <=> UNCHANGED Ledger!vars
    BY DEF LP!vars, Ledger!vars
  <1> QED
    BY <1>1, <1>2, <1>3, <1>4, PTL DEF LP!KeptForOwner, Ledger!KeptForOwner
=============================================================================
