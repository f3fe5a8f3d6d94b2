------------------------ MODULE WorkUnitLedgerProofs ------------------------
(***************************************************************************)
(* Proofs about WorkUnitLedger: for any workers, sizes, first digit and    *)
(* bound, the types are kept, the work units tile the digits given away,   *)
(* none is forgotten or listed twice, every unit has the owner its state   *)
(* says, and passes to another only when that one is gone.                 *)
(***************************************************************************)
EXTENDS WorkUnitLedger, TLAPS

(* Unit sizes are positive numbers, whatever the formula yields. *)
LEMMA UnitSizeType ==
    ASSUME NEW d \in 0..MaxDigit
    PROVE  UnitSize(d) \in Nat \ {0}
  BY QuotaAssumption, MaxDigitAssumption DEF UnitSize

(* The unit DispatchNew cuts. *)
NewUnit == [start |-> next_digit, n_digits |-> UnitSize(next_digit)]

LEMMA NewUnitType ==
    ASSUME TypeOK, next_digit < MaxDigit
    PROVE  /\ NewUnit \in WorkUnits
           /\ UnitSize(next_digit) \in Nat \ {0}
  <1>1. next_digit \in 0..MaxDigit
    BY MaxDigitAssumption DEF TypeOK
  <1> QED
    BY <1>1, UnitSizeType DEF NewUnit, WorkUnits, TypeOK

(* Marking keeps a control block's type and its work unit. *)
LEMMA MarkedType ==
    ASSUME NEW c \in ControlBlocks, NEW s \in States
    PROVE  /\ Marked(c, s) \in ControlBlocks
           /\ Marked(c, s).work_unit = c.work_unit
           /\ Marked(c, s).state = s
           /\ Marked(c, s).worker_id = IF s = "DISOWNED" THEN NoWorker
                                       ELSE c.worker_id
  BY DEF Marked, ControlBlocks

-----------------------------------------------------------------------------
(* TypeOK is inductive: every operation of the manager keeps the types. *)
LEMMA TypeStep == TypeOK /\ [Next]_vars => TypeOK'
  <1> SUFFICES ASSUME TypeOK, [Next]_vars
               PROVE  TypeOK'
    OBVIOUS
  <1>1. ASSUME NEW w \in Workers, NEW c \in active_work_units, Claim(w, c)
        PROVE  TypeOK'
    <2>1. [c EXCEPT !.state = "OWNED", !.worker_id = w, !.expired = FALSE]
              \in ControlBlocks
      BY DEF TypeOK, ControlBlocks, States
    <2> QED
      BY <1>1, <2>1 DEF Claim, TypeOK
  <1>2. ASSUME NEW w \in Workers, DispatchNew(w)
        PROVE  TypeOK'
    <2>1. NewUnit \in WorkUnits /\ UnitSize(next_digit) \in Nat
      BY <1>2, NewUnitType DEF DispatchNew
    <2>2. [work_unit |-> NewUnit, state |-> "OWNED", worker_id |-> w,
           expired |-> FALSE] \in ControlBlocks
      BY <2>1 DEF ControlBlocks, States
    <2>3. active_work_units' \subseteq ControlBlocks
      BY <1>2, <2>2 DEF DispatchNew, NewUnit, TypeOK
    <2> QED
      BY <1>2, <2>1, <2>3 DEF DispatchNew, TypeOK
  <1>3. ASSUME NEW w \in Workers, NEW s \in States, MarkAll(w, s)
        PROVE  TypeOK'
    <2>1. active_work_units' \subseteq ControlBlocks
      BY <1>3, MarkedType DEF MarkAll, TypeOK
    <2> QED
      BY <1>3, <2>1 DEF MarkAll, TypeOK
  <1>4. ASSUME NEW c \in active_work_units, Expire(c)
        PROVE  TypeOK'
    <2>1. [c EXCEPT !.expired = TRUE] \in ControlBlocks
      BY DEF TypeOK, ControlBlocks
    <2> QED
      BY <1>4, <2>1 DEF Expire, TypeOK
  <1>5. ASSUME NEW start \in 0..next_digit, Submit(start)
        PROVE  TypeOK'
    <2>1. \A c \in active_work_units : c.work_unit \in WorkUnits
      BY DEF TypeOK, ControlBlocks
    <2> QED
      BY <1>5, <2>1 DEF Submit, TypeOK
  <1>6. CASE UNCHANGED vars
    BY <1>6 DEF vars, TypeOK
  <1> QED
    BY <1>1, <1>2, <1>3, <1>4, <1>5, <1>6 DEF Next, assign_work_unit

(* The variables of the ledger keep their types. *)
THEOREM TypeCorrect == Spec => []TypeOK
  <1>1. Init => TypeOK
    BY InitialDigitAssumption DEF Init, TypeOK
  <1> QED
    BY <1>1, TypeStep, PTL DEF Spec

-----------------------------------------------------------------------------
(* Tiling *)

(* A step leaves the units as they are or adds one at the end. *)
LEMMA UnitsStep ==
    ASSUME TypeOK, [Next]_vars
    PROVE  \/ Units' = Units /\ next_digit' = next_digit
           \/ /\ next_digit < MaxDigit
              /\ Units' = Units \union {NewUnit}
              /\ next_digit' = next_digit + UnitSize(next_digit)
  <1>1. ASSUME NEW w \in Workers, NEW c \in active_work_units, Claim(w, c)
        PROVE  Units' = Units /\ next_digit' = next_digit
    <2> DEFINE e == [c EXCEPT !.state = "OWNED", !.worker_id = w,
                              !.expired = FALSE]
    <2>1. e.work_unit = c.work_unit
      BY DEF TypeOK, ControlBlocks
    <2>2. /\ active_work_units' = (active_work_units \ {c}) \union {e}
          /\ UNCHANGED <<next_digit, finished>>
      BY <1>1 DEF Claim
    <2> HIDE DEF e
    <2> QED
      BY <2>1, <2>2 DEF Units
  <1>2. ASSUME NEW w \in Workers, DispatchNew(w)
        PROVE  /\ next_digit < MaxDigit
               /\ Units' = Units \union {NewUnit}
               /\ next_digit' = next_digit + UnitSize(next_digit)
    <2> DEFINE e == [work_unit |-> NewUnit, state |-> "OWNED", worker_id |-> w,
                     expired |-> FALSE]
    <2>1. e.work_unit = NewUnit
      OBVIOUS
    <2>2. /\ active_work_units' = active_work_units \union {e}
          /\ finished' = finished
      BY <1>2 DEF DispatchNew, NewUnit
    <2> HIDE DEF e
    <2>3. Units' = Units \union {NewUnit}
      BY <2>1, <2>2 DEF Units
    <2> QED
      BY <1>2, <2>3 DEF DispatchNew
  <1>3. ASSUME NEW w \in Workers, NEW s \in States, MarkAll(w, s)
        PROVE  Units' = Units /\ next_digit' = next_digit
    <2>1. \A c \in active_work_units : Marked(c, s).work_unit = c.work_unit
      BY MarkedType DEF TypeOK
    <2> QED
      BY <1>3, <2>1 DEF MarkAll, Units
  <1>4. ASSUME NEW c \in active_work_units, Expire(c)
        PROVE  Units' = Units /\ next_digit' = next_digit
    <2> DEFINE e == [c EXCEPT !.expired = TRUE]
    <2>1. e.work_unit = c.work_unit
      BY DEF TypeOK, ControlBlocks
    <2>2. /\ active_work_units' = (active_work_units \ {c}) \union {e}
          /\ UNCHANGED <<next_digit, finished>>
      BY <1>4 DEF Expire
    <2> HIDE DEF e
    <2> QED
      BY <2>1, <2>2 DEF Units
  <1>5. ASSUME NEW start \in 0..next_digit, Submit(start)
        PROVE  Units' = Units /\ next_digit' = next_digit
    BY <1>5 DEF Submit, Units
  <1>6. CASE UNCHANGED vars
    BY <1>6 DEF vars, Units
  <1> QED
    BY <1>1, <1>2, <1>3, <1>4, <1>5, <1>6 DEF Next, assign_work_unit

(* Units are work units. *)
LEMMA UnitsType == TypeOK => Units \subseteq WorkUnits
  BY DEF TypeOK, ControlBlocks, Units

(* The new unit is next to the others, so bounds and tiling are kept. *)
LEMMA TilingStep ==
    ASSUME TypeOK, TypeOK', WithinBounds, Tiling, [Next]_vars
    PROVE  WithinBounds' /\ Tiling'
  <1>1. CASE Units' = Units /\ next_digit' = next_digit
    BY <1>1 DEF WithinBounds, Tiling
  <1>2. CASE /\ next_digit < MaxDigit
             /\ Units' = Units \union {NewUnit}
             /\ next_digit' = next_digit + UnitSize(next_digit)
    <2> DEFINE n == UnitSize(next_digit)
    <2>1. n \in Nat \ {0}
      BY <1>2, NewUnitType
    <2>2. next_digit' = next_digit + n
      BY <1>2
    <2>3. NewUnit.start = next_digit /\ NewUnit.n_digits = n
      BY DEF NewUnit
    <2> HIDE DEF n
    <2>4. next_digit \in Nat /\ InitialDigit \in Nat
      BY InitialDigitAssumption DEF TypeOK
    <2>5. \A u \in Units : /\ u.start \in Nat /\ u.n_digits \in Nat
                           /\ InitialDigit <= u.start
                           /\ u.start + u.n_digits <= next_digit
      BY UnitsType DEF WithinBounds, WorkUnits
    <2>6. InitialDigit <= next_digit
      BY DEF WithinBounds
    <2>7. WithinBounds'
      BY <1>2, <2>1, <2>2, <2>3, <2>4, <2>5, <2>6 DEF WithinBounds
    <2>8. ASSUME NEW d \in InitialDigit..(next_digit' - 1)
          PROVE  \E u \in Units' : Covers(u, d)
      <3>1. CASE d < next_digit
        <4>1. d \in InitialDigit..(next_digit - 1)
          BY <2>4, <3>1
        <4>2. PICK u \in Units : Covers(u, d)
          BY <4>1 DEF Tiling
        <4> QED
          BY <1>2, <4>2
      <3>2. CASE ~(d < next_digit)
        <4>1. Covers(NewUnit, d)
          BY <2>1, <2>2, <2>3, <2>4, <3>2 DEF Covers
        <4> QED
          BY <1>2, <4>1
      <3> QED
        BY <3>1, <3>2
    <2>9. ASSUME NEW d \in InitialDigit..(next_digit' - 1),
                 NEW u \in Units', NEW v \in Units', Covers(u, d), Covers(v, d)
          PROVE  u = v
      <3>1. CASE d < next_digit
        <4>1. u # NewUnit /\ v # NewUnit
          BY <2>3, <2>4, <2>9, <3>1 DEF Covers
        <4>2. u \in Units /\ v \in Units
          BY <1>2, <4>1
        <4>3. d \in InitialDigit..(next_digit - 1)
          BY <2>4, <3>1
        <4> QED
          BY <2>9, <4>2, <4>3 DEF Tiling
      <3>2. CASE ~(d < next_digit)
        <4>1. \A x \in Units : ~Covers(x, d)
          BY <2>4, <2>5, <3>2 DEF Covers
        <4> QED
          BY <1>2, <2>9, <4>1
      <3> QED
        BY <3>1, <3>2
    <2>10. Tiling'
      BY <2>8, <2>9 DEF Tiling
    <2> QED
      BY <2>7, <2>10
  <1> QED
    BY <1>1, <1>2, UnitsStep

(* The work units cut so far tile the digits given away: no digit is in    *)
(* none of them and no digit in two, whatever happened to the workers.     *)
THEOREM UnitsTile == Spec => []Tiling
  <1>1. Init => WithinBounds /\ Tiling
    BY InitialDigitAssumption DEF Init, WithinBounds, Tiling, Units
  <1>2. TypeOK /\ TypeOK' /\ WithinBounds /\ Tiling /\ [Next]_vars
          => WithinBounds' /\ Tiling'
    BY TilingStep
  <1> QED
    BY <1>1, <1>2, TypeCorrect, PTL DEF Spec

-----------------------------------------------------------------------------
(* Owners *)

(* HELO, goodbye, a lost connection and a claim change state and worker id *)
(* of a unit together.                                                     *)
LEMMA OwnerStep == TypeOK /\ OwnerKnown /\ [Next]_vars => OwnerKnown'
  <1> SUFFICES ASSUME TypeOK, OwnerKnown, [Next]_vars
               PROVE  OwnerKnown'
    OBVIOUS
  <1>1. ASSUME NEW w \in Workers, NEW c \in active_work_units, Claim(w, c)
        PROVE  OwnerKnown'
    <2> DEFINE e == [c EXCEPT !.state = "OWNED", !.worker_id = w,
                              !.expired = FALSE]
    <2>1. e.state = "OWNED" /\ e.worker_id = w
      BY DEF TypeOK, ControlBlocks
    <2>2. active_work_units' = (active_work_units \ {c}) \union {e}
      BY <1>1 DEF Claim
    <2> HIDE DEF e
    <2> QED
      BY <2>1, <2>2, NoWorkerAssumption DEF OwnerKnown
  <1>2. ASSUME NEW w \in Workers, DispatchNew(w)
        PROVE  OwnerKnown'
    BY <1>2, NoWorkerAssumption DEF DispatchNew, OwnerKnown
  <1>3. ASSUME NEW w \in Workers, NEW s \in States, MarkAll(w, s)
        PROVE  OwnerKnown'
    <2>1. \A c \in active_work_units :
             c.worker_id = w =>
               /\ Marked(c, s).state = s
               /\ Marked(c, s).worker_id = IF s = "DISOWNED" THEN NoWorker ELSE w
      BY MarkedType DEF TypeOK
    <2> QED
      BY <1>3, <2>1, NoWorkerAssumption DEF MarkAll, OwnerKnown
  <1>4. ASSUME NEW c \in active_work_units, Expire(c)
        PROVE  OwnerKnown'
    <2> DEFINE e == [c EXCEPT !.expired = TRUE]
    <2>1. e.state = c.state /\ e.worker_id = c.worker_id
      BY DEF TypeOK, ControlBlocks
    <2>2. active_work_units' = (active_work_units \ {c}) \union {e}
      BY <1>4 DEF Expire
    <2> HIDE DEF e
    <2> QED
      BY <2>1, <2>2 DEF OwnerKnown
  <1>5. ASSUME NEW start \in 0..next_digit, Submit(start)
        PROVE  OwnerKnown'
    BY <1>5 DEF Submit, OwnerKnown
  <1>6. CASE UNCHANGED vars
    BY <1>6 DEF vars, OwnerKnown
  <1> QED
    BY <1>1, <1>2, <1>3, <1>4, <1>5, <1>6 DEF Next, assign_work_unit

(* A unit is owned or orphaned exactly when it has a worker id: HELO,      *)
(* goodbye, a lost connection and a claim change both together.            *)
THEOREM OwnersKnown == Spec => []OwnerKnown
  <1>1. Init => OwnerKnown
    BY DEF Init, OwnerKnown
  <1> QED
    BY <1>1, OwnerStep, TypeCorrect, PTL DEF Spec
-----------------------------------------------------------------------------
(* Each unit once *)

(***************************************************************************)
(* What the code relies on when it looks a unit up by its start: no two    *)
(* control blocks have the same one.                                       *)
(***************************************************************************)
UniqueStarts ==
    \A c, o \in active_work_units :
        c.work_unit.start = o.work_unit.start => c = o

UniqueInv == TypeOK /\ WithinBounds /\ UniqueStarts

(* One block is exchanged for another with the same unit. *)
LEMMA ExchangeUnique ==
    ASSUME UniqueStarts, NEW c \in active_work_units, NEW e,
           e.work_unit = c.work_unit,
           active_work_units' = (active_work_units \ {c}) \union {e}
    PROVE  UniqueStarts'
  BY DEF UniqueStarts

(* A unit of the list starts below next_digit. *)
LEMMA StartsBelowNext ==
    ASSUME TypeOK, WithinBounds, NEW c \in active_work_units
    PROVE  c.work_unit.start < next_digit
  <1>1. c.work_unit \in Units
    BY DEF Units
  <1>2. c.work_unit \in WorkUnits
    BY <1>1, UnitsType
  <1>3. c.work_unit.start + c.work_unit.n_digits <= next_digit
    BY <1>1 DEF WithinBounds
  <1> QED
    BY <1>2, <1>3 DEF WorkUnits, TypeOK

(* No operation makes a second block with a start that is in the list. *)
LEMMA UniqueStep ==
    ASSUME UniqueInv, [Next]_vars
    PROVE  UniqueStarts'
  <1> USE DEF UniqueInv
  <1>1. ASSUME NEW w \in Workers, NEW c \in active_work_units, Claim(w, c)
        PROVE  UniqueStarts'
    <2> DEFINE e == [c EXCEPT !.state = "OWNED", !.worker_id = w,
                              !.expired = FALSE]
    <2>1. e.work_unit = c.work_unit
      BY DEF TypeOK, ControlBlocks
    <2>2. active_work_units' = (active_work_units \ {c}) \union {e}
      BY <1>1 DEF Claim
    <2> HIDE DEF e
    <2> QED
      BY <2>1, <2>2, ExchangeUnique
  <1>2. ASSUME NEW w \in Workers, DispatchNew(w)
        PROVE  UniqueStarts'
    <2> DEFINE e == [work_unit |-> NewUnit, state |-> "OWNED", worker_id |-> w,
                     expired |-> FALSE]
    <2>1. e.work_unit.start = next_digit /\ next_digit \in Nat
      BY DEF NewUnit, TypeOK
    <2>2. active_work_units' = active_work_units \union {e}
      BY <1>2 DEF DispatchNew, NewUnit
    <2> HIDE DEF e
    <2>3. \A c \in active_work_units : c.work_unit.start # next_digit
      <3>1. \A c \in active_work_units : c.work_unit \in WorkUnits
        BY UnitsType DEF Units
      <3> QED
        BY <2>1, <3>1, StartsBelowNext DEF WorkUnits
    <2> QED
      BY <2>1, <2>2, <2>3 DEF UniqueStarts
  <1>3. ASSUME NEW w \in Workers, NEW s \in States, MarkAll(w, s)
        PROVE  UniqueStarts'
    <2> DEFINE m(c) == IF c.worker_id = w THEN Marked(c, s) ELSE c
    <2>1. \A c \in active_work_units : m(c).work_unit = c.work_unit
      BY MarkedType DEF TypeOK
    <2>2. active_work_units' = {m(c) : c \in active_work_units}
      BY <1>3 DEF MarkAll
    <2> HIDE DEF m
    <2> QED
      BY <2>1, <2>2 DEF UniqueStarts
  <1>4. ASSUME NEW c \in active_work_units, Expire(c)
        PROVE  UniqueStarts'
    <2> DEFINE e == [c EXCEPT !.expired = TRUE]
    <2>1. e.work_unit = c.work_unit
      BY DEF TypeOK, ControlBlocks
    <2>2. active_work_units' = (active_work_units \ {c}) \union {e}
      BY <1>4 DEF Expire
    <2> HIDE DEF e
    <2> QED
      BY <2>1, <2>2, ExchangeUnique
  <1>5. ASSUME NEW start \in 0..next_digit, Submit(start)
        PROVE  UniqueStarts'
    BY <1>5 DEF Submit, UniqueStarts
  <1>6. CASE UNCHANGED vars
    BY <1>6 DEF vars, UniqueStarts
  <1> QED
    BY <1>1, <1>2, <1>3, <1>4, <1>5, <1>6 DEF Next, assign_work_unit

LEMMA UniqueCorrect == Spec => [](UniqueInv /\ Tiling)
  <1>1. Init => WithinBounds /\ Tiling /\ UniqueStarts
    BY InitialDigitAssumption DEF Init, WithinBounds, Tiling, Units, UniqueStarts
  <1>2. TypeOK /\ TypeOK' /\ WithinBounds /\ Tiling /\ UniqueStarts /\ [Next]_vars
          => WithinBounds' /\ Tiling' /\ UniqueStarts'
    BY TilingStep, UniqueStep DEF UniqueInv
  <1>3. TypeOK /\ WithinBounds /\ Tiling /\ UniqueStarts <=> UniqueInv /\ Tiling
    BY DEF UniqueInv
  <1> QED
    BY <1>1, <1>2, <1>3, TypeCorrect, PTL DEF Spec

(* A digit that was given away and that no result has come for is in the   *)
(* list, in one block: some request will be answered with it.              *)
THEOREM Remembered == Spec => []NothingForgotten
  <1>1. UniqueInv /\ Tiling => NothingForgotten
    <2> SUFFICES ASSUME UniqueInv, Tiling,
                        NEW d \in InitialDigit..(next_digit - 1),
                        \A u \in finished : ~Covers(u, d)
                 PROVE  \E c \in active_work_units :
                          /\ Covers(c.work_unit, d)
                          /\ \A o \in active_work_units :
                                Covers(o.work_unit, d) => o = c
      BY DEF NothingForgotten
    <2>1. PICK u \in Units : Covers(u, d)
      BY DEF Tiling
    <2>2. PICK c \in active_work_units : u = c.work_unit
      BY <2>1 DEF Units
    <2>3. ASSUME NEW o \in active_work_units, Covers(o.work_unit, d)
          PROVE  o = c
      <3>1. o.work_unit \in Units
        BY DEF Units
      <3>2. o.work_unit = u
        BY <2>1, <2>3, <3>1 DEF Tiling
      <3> QED
        BY <2>2, <3>2 DEF UniqueInv, UniqueStarts
    <2> QED
      BY <2>1, <2>2, <2>3
  <1> QED
    BY <1>1, UniqueCorrect, PTL

-----------------------------------------------------------------------------
(* Changes of owner *)

(* The condition KeptForOwner puts on a block before and after a step. *)
MayPass(c, d) ==
    \/ c.state = "DISOWNED"
    \/ c.state = "ORPHANED" /\ c.expired
    \/ d.state = "DISOWNED"

(* Only Claim and a goodbye change the worker of a unit. *)
LEMMA PassStep ==
    ASSUME UniqueInv, [Next]_vars,
           NEW c \in active_work_units, NEW d \in active_work_units',
           c.work_unit = d.work_unit, c.worker_id # d.worker_id
    PROVE  MayPass(c, d)
  <1> USE DEF UniqueInv
  (* A block with d's unit that was in the list is c. *)
  <1>u. \A o \in active_work_units : o.work_unit = d.work_unit => o = c
    BY DEF UniqueStarts
  <1>1. ASSUME NEW w \in Workers, NEW b \in active_work_units, Claim(w, b)
        PROVE  MayPass(c, d)
    <2> DEFINE e == [b EXCEPT !.state = "OWNED", !.worker_id = w,
                              !.expired = FALSE]
    <2>1. e.work_unit = b.work_unit
      BY DEF TypeOK, ControlBlocks
    <2>2. active_work_units' = (active_work_units \ {b}) \union {e}
      BY <1>1 DEF Claim
    <2> HIDE DEF e
    <2>3. d = e
      BY <1>u, <2>2
    <2>4. b = c
      BY <1>u, <2>1, <2>3
    <2> QED
      BY <1>1, <2>4 DEF Claim, Available, MayPass
  <1>2. ASSUME NEW w \in Workers, DispatchNew(w)
        PROVE  MayPass(c, d)
    <2> DEFINE e == [work_unit |-> NewUnit, state |-> "OWNED", worker_id |-> w,
                     expired |-> FALSE]
    <2>1. e.work_unit.start = next_digit /\ next_digit \in Nat
      BY DEF NewUnit, TypeOK
    <2>2. active_work_units' = active_work_units \union {e}
      BY <1>2 DEF DispatchNew, NewUnit
    <2> HIDE DEF e
    <2>3. d = e
      BY <1>u, <2>2
    <2>4. c.work_unit.start < next_digit
      BY StartsBelowNext
    <2> QED
      BY <2>1, <2>3, <2>4
  <1>3. ASSUME NEW w \in Workers, NEW s \in States, MarkAll(w, s)
        PROVE  MayPass(c, d)
    <2>1. PICK b \in active_work_units :
             d = IF b.worker_id = w THEN Marked(b, s) ELSE b
      BY <1>3 DEF MarkAll
    <2>2. b \in ControlBlocks
      BY DEF TypeOK
    <2>3. Marked(b, s).work_unit = b.work_unit
      BY <2>2, MarkedType
    <2>4. b = c
      BY <1>u, <2>1, <2>3
    <2>5. d = Marked(c, s)
      BY <2>1, <2>4
    <2>6. s = "DISOWNED"
      BY <2>2, <2>4, <2>5, MarkedType
    <2> QED
      BY <2>2, <2>4, <2>5, <2>6, MarkedType DEF MayPass
  <1>4. ASSUME NEW b \in active_work_units, Expire(b)
        PROVE  MayPass(c, d)
    <2> DEFINE e == [b EXCEPT !.expired = TRUE]
    <2>1. e.work_unit = b.work_unit /\ e.worker_id = b.worker_id
      BY DEF TypeOK, ControlBlocks
    <2>2. active_work_units' = (active_work_units \ {b}) \union {e}
      BY <1>4 DEF Expire
    <2> HIDE DEF e
    <2> QED
      BY <1>u, <2>1, <2>2
  <1>5. ASSUME NEW start \in 0..next_digit, Submit(start)
        PROVE  MayPass(c, d)
    BY <1>u, <1>5 DEF Submit
  <1>6. CASE UNCHANGED vars
    BY <1>u, <1>6 DEF vars
  <1> QED
    BY <1>1, <1>2, <1>3, <1>4, <1>5, <1>6 DEF Next, assign_work_unit

(* A unit passes to another worker only after its owner said goodbye or    *)
(* stayed away for the whole timeout.                                      *)
THEOREM UnitsKeptForOwner == Spec => KeptForOwner
  <1>1. UniqueInv /\ [Next]_vars =>
          [\A c \in active_work_units, d \in active_work_units' :
             (c.work_unit = d.work_unit /\ c.worker_id # d.worker_id) =>
                 \/ c.state = "DISOWNED"
                 \/ c.state = "ORPHANED" /\ c.expired
                 \/ d.state = "DISOWNED"]_vars
    BY PassStep DEF MayPass
  <1> QED
    BY <1>1, UniqueCorrect, PTL DEF Spec, KeptForOwner
=============================================================================
