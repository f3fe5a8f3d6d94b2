----------------------- MODULE WorkUnitCombinerProofs -----------------------
(***************************************************************************)
(* Proofs about WorkUnitCombiner: for any results, any files left by       *)
(* earlier runs and any limits, its variables keep their types, pi_hex.txt *)
(* holds the first digits of pi, and it behaves as PiFile promises; the    *)
(* processor never waits while it holds the result that comes next, an     *)
(* orderly exit loses no result, and the statistics are those of the file. *)
(***************************************************************************)
EXTENDS WorkUnitCombiner, SequenceTheorems, TLAPS

-----------------------------------------------------------------------------
(* Strings of digits *)

(* Digits(start, n) is a string of n digits; digit i is at start + i - 1. *)
LEMMA DigitsType ==
    ASSUME NEW start \in Nat, NEW n \in Nat
    PROVE  /\ Digits(start, n) \in Seq(Nat)
           /\ Len(Digits(start, n)) = n
           /\ DOMAIN Digits(start, n) = 1..n
           /\ \A i \in 1..n : Digits(start, n)[i] = start + i - 1
  <1>1. \A i \in 1..n : start + i - 1 \in Nat
    OBVIOUS
  <1>2. Digits(start, n) \in [1..n -> Nat]
    BY <1>1 DEF Digits
  <1> QED
    BY <1>2 DEF Digits

(* Consecutive strings make one string when they are concatenated. *)
LEMMA DigitsConcat ==
    ASSUME NEW start \in Nat, NEW m \in Nat, NEW n \in Nat
    PROVE  /\ Digits(start, m) \o Digits(start + m, n) = Digits(start, m + n)
           /\ Len(Digits(start, m) \o Digits(start + m, n)) = m + n
  <1> DEFINE s == Digits(start, m)
             t == Digits(start + m, n)
             u == Digits(start, m + n)
  <1>1. /\ s \in Seq(Nat) /\ Len(s) = m
        /\ \A i \in 1..m : s[i] = start + i - 1
    BY DigitsType
  <1>2. /\ t \in Seq(Nat) /\ Len(t) = n
        /\ \A i \in 1..n : t[i] = start + m + i - 1
    BY DigitsType, start + m \in Nat
  <1>3. /\ u \in Seq(Nat) /\ Len(u) = m + n
        /\ \A i \in 1..(m + n) : u[i] = start + i - 1
    BY DigitsType, m + n \in Nat
  <1> HIDE DEF s, t, u
  <1>4. s \o t \in Seq(Nat) /\ Len(s \o t) = m + n
    BY <1>1, <1>2, ConcatProperties
  <1>5. ASSUME NEW i \in 1..(m + n)
        PROVE  (s \o t)[i] = u[i]
    <2>1. CASE i <= m
      BY <2>1, <1>1, <1>2, <1>3, ConcatProperties
    <2>2. CASE i > m
      <3>1. (s \o t)[i] = t[i - m]
        BY <2>2, <1>1, <1>2, ConcatProperties
      <3>2. t[i - m] = start + m + (i - m) - 1
        BY <2>2, <1>2
      <3> QED
        BY <3>1, <3>2, <1>3
    <2>3. i <= m \/ i > m
      OBVIOUS
    <2> QED
      BY <2>1, <2>2, <2>3, Zenon
  <1>6. s \o t = u
    BY <1>3, <1>4, <1>5, SeqEqual
  <1> QED
    BY <1>4, <1>6 DEF s, t, u

(* The parts of a string of digits on both sides of a cut. *)
LEMMA DigitsCut ==
    ASSUME NEW start \in Nat, NEW n \in Nat, NEW k \in Nat, k <= n
    PROVE  /\ SubSeq(Digits(start, n), 1, k) = Digits(start, k)
           /\ SubSeq(Digits(start, n), k + 1, n) = Digits(start + k, n - k)
  <1> DEFINE s == Digits(start, n)
             a == Digits(start, k)
             b == Digits(start + k, n - k)
  <1>1. /\ s \in Seq(Nat) /\ Len(s) = n
        /\ \A i \in 1..n : s[i] = start + i - 1
    BY DigitsType
  <1>2. /\ a \in Seq(Nat) /\ Len(a) = k
        /\ \A i \in 1..k : a[i] = start + i - 1
    BY DigitsType
  <1>3. /\ b \in Seq(Nat) /\ Len(b) = n - k
        /\ \A i \in 1..(n - k) : b[i] = start + k + i - 1
    BY DigitsType, start + k \in Nat, n - k \in Nat
  <1> HIDE DEF s, a, b
  <1>4. SubSeq(s, 1, k) = a
    <2>1. /\ SubSeq(s, 1, k) \in Seq(Nat)
          /\ Len(SubSeq(s, 1, k)) = k
          /\ \A i \in 1..k : SubSeq(s, 1, k)[i] = s[i]
      BY <1>1
    <2> QED
      BY <2>1, <1>1, <1>2, SeqEqual
  <1>5. SubSeq(s, k + 1, n) = b
    <2>1. /\ SubSeq(s, k + 1, n) \in Seq(Nat)
          /\ Len(SubSeq(s, k + 1, n)) = n - k
          /\ \A i \in 1..(n - k) : SubSeq(s, k + 1, n)[i] = s[k + i]
      BY <1>1
    <2>2. ASSUME NEW i \in 1..(n - k)
          PROVE  SubSeq(s, k + 1, n)[i] = b[i]
      <3>1. SubSeq(s, k + 1, n)[i] = start + (k + i) - 1
        BY <2>1, <1>1
      <3>2. b[i] = start + k + i - 1
        BY <1>3
      <3> QED
        BY <3>1, <3>2
    <2> QED
      BY <2>1, <2>2, <1>3, SeqEqual
  <1> QED
    BY <1>4, <1>5 DEF s, a, b

-----------------------------------------------------------------------------
(* Type correctness *)

(* A part of a string is a string; its positions are those of the whole. *)
LEMMA PartType ==
    ASSUME NEW S, NEW s \in Seq(S), NEW i \in Nat \ {0}, NEW j \in 0..Len(s)
    PROVE  SubSeq(s, i, j) \in Seq(S)
  <1>1. \A k \in i..j : s[k] \in S
    BY ElementOfSeq
  <1> QED
    BY <1>1, SubSeqProperties

(* erase() of one element of the processing area leaves a vector. *)
LEMMA RemoveAtType ==
    ASSUME NEW S, NEW s \in Seq(S), NEW i \in 1..Len(s)
    PROVE  RemoveAt(s, i) \in Seq(S)
  <1>1. SubSeq(s, 1, i - 1) \in Seq(S)
    BY PartType, i - 1 \in 0..Len(s)
  <1>2. SubSeq(s, i + 1, Len(s)) \in Seq(S)
    BY PartType, i + 1 \in Nat \ {0}, Len(s) \in 0..Len(s)
  <1> QED
    BY <1>1, <1>2, ConcatProperties DEF RemoveAt

(* The string substr returns when it does not throw is a string. *)
LEMMA LastDigitsType ==
    ASSUME NEW s \in Seq(Nat)
    PROVE  LastDigits(s) \in Seq(Nat)
  <1>1. SubstrPos(s) \in Nat
    <2>1. SizeMod + Len(s) - Window \in Nat /\ SizeMod \in Nat \ {0}
      BY WindowAssumption, SizeModAssumption, LenProperties
    <2> QED
      BY <2>1 DEF SubstrPos
  <1>2. Len(s) \in 0..Len(s)
    BY LenProperties
  <1> QED
    BY <1>1, <1>2, PartType DEF LastDigits

(* Death of the process leaves every variable in its type. *)
LEMMA HaltTypeOK ==
    ASSUME NEW state \in Stopped, Halt(state),
           disk' \in Seq(Nat), overwrite' \in BOOLEAN, accepted' \subseteq Results
    PROVE  TypeOK'
  BY EmptySeq DEF Halt, TypeOK, Stopped

(* A start leaves every variable in its type. *)
LEMMA StartTypeOK ==
    ASSUME NEW o \in BOOLEAN, TypeOK, Start(o)
    PROVE  TypeOK'
  <1> DEFINE initial == PreviousDigits(o)
  <1>1. initial \in Seq(Nat)
    BY EmptySeq DEF TypeOK, PreviousDigits, ReadHexDigits
  <1>2. /\ disk' \in Seq(Nat)
        /\ overwrite' \in BOOLEAN
        /\ accepted' \subseteq Results
    BY <1>1 DEF Start, OpenFile, PreviousDigits, ReadHexDigits
  <1>3. Prime(initial)
    BY DEF Start
  <1> HIDE DEF initial
  <1>4. CASE Halt("terminated")
    BY <1>2, <1>4, HaltTypeOK DEF Stopped
  <1>5. CASE ~Halt("terminated")
    <2>1. Len(initial) \in Nat
      BY <1>1, LenProperties
    <2>2. LastDigits(initial) \in Seq(Nat)
      BY <1>1, LastDigitsType
    <2>3. /\ coord' = "up"
          /\ next_digit' = Len(initial)
          /\ hex_digits_generated' = Len(initial)
          /\ last_100_digits' = IF initial = <<>> THEN <<>>
                                ELSE LastDigits(initial)
          /\ UNCHANGED <<stream, to_process, processing_area, new_digits,
                         processor>>
      BY <1>3, <1>5 DEF Prime
    <2>4. last_100_digits' \in Seq(Nat)
      BY <2>2, <2>3, EmptySeq
    <2> QED
      BY <1>2, <2>1, <2>3, <2>4 DEF TypeOK
  <1> QED
    BY <1>4, <1>5

(* TypeOK is an inductive invariant: every operation of the combiner, of   *)
(* its processor thread and of the process keeps the types.                *)
THEOREM TypeCorrect == Spec => []TypeOK
  <1>1. Init => TypeOK
    <2> SUFFICES ASSUME Init
                 PROVE  TypeOK
      OBVIOUS
    <2>1. PICK n \in InitialFiles : disk = Digits(0, n)
      BY DEF Init
    <2>2. n \in Nat
      BY InitialFilesAssumption
    <2>3. disk \in Seq(Nat)
      BY <2>1, <2>2, DigitsType
    <2> QED
      BY <2>3, EmptySeq DEF Init, TypeOK, Stopped
  <1>2. TypeOK /\ [Next]_vars => TypeOK'
    <2> SUFFICES ASSUME TypeOK, [Next]_vars
                 PROVE  TypeOK'
      OBVIOUS
    <2>1. ASSUME NEW o \in BOOLEAN, Start(o)
          PROVE  TypeOK'
      BY <2>1, StartTypeOK
    <2>2. ASSUME NEW r \in Results, Submit(r)
          PROVE  TypeOK'
      <3>1. [start |-> r.start, n |-> r.n, processor_exit |-> FALSE]
                \in InternalResults
        BY ResultsAssumption DEF InternalResults
      <3>2. to_process' \in Seq(InternalResults)
        BY <2>2, <3>1, AppendProperties DEF Submit, TypeOK
      <3> QED
        BY <2>2, <3>2 DEF Submit, TypeOK, statVars
    <2>3. CASE PopResult
      <3>1. /\ Head(to_process) \in InternalResults
            /\ Tail(to_process) \in Seq(InternalResults)
        BY <2>3, HeadTailProperties DEF PopResult, TypeOK
      <3>2. Append(processing_area, Head(to_process)) \in Seq(InternalResults)
        BY <3>1, AppendProperties DEF TypeOK
      <3> QED
        BY <2>3, <3>1, <3>2, EmptySeq DEF PopResult, TypeOK, statVars
    <2>4. CASE PopExit
      <3>1. Tail(to_process) \in Seq(InternalResults)
        BY <2>4, HeadTailProperties DEF PopExit, TypeOK
      <3> QED
        BY <2>4, <3>1 DEF PopExit, TypeOK, statVars
    <2>5. CASE TakeNext
      <3>1. PICK i \in FindNextWorkUnit :
                /\ new_digits' = new_digits \o Digits(processing_area[i].start,
                                                     processing_area[i].n)
                /\ next_digit' = next_digit + processing_area[i].n
                /\ processing_area' = RemoveAt(processing_area, i)
        BY <2>5 DEF TakeNext
      <3>2. i \in 1..Len(processing_area)
        BY LenProperties DEF FindNextWorkUnit, TypeOK
      <3>3. processing_area[i] \in InternalResults
        BY <3>2, ElementOfSeq DEF TypeOK
      <3>4. Digits(processing_area[i].start, processing_area[i].n) \in Seq(Nat)
        BY <3>3, DigitsType DEF InternalResults
      <3>5. new_digits' \in Seq(Nat)
        BY <3>1, <3>4, ConcatProperties DEF TypeOK
      <3>6. next_digit' \in Nat
        BY <3>1, <3>3 DEF TypeOK, InternalResults
      <3>7. processing_area' \in Seq(InternalResults)
        BY <3>1, <3>2, RemoveAtType DEF TypeOK
      <3> QED
        BY <2>5, <3>5, <3>6, <3>7 DEF TakeNext, TypeOK, statVars
    <2>6. CASE NothingNew
      BY <2>6 DEF NothingNew, TypeOK, statVars
    <2>7. CASE WriteHex
      <3> DEFINE given == stream \o new_digits
      <3>1. given \in Seq(Nat)
        BY ConcatProperties DEF TypeOK
      <3>2. PICK k \in 0..Len(given) :
                /\ disk' = disk \o SubSeq(given, 1, k)
                /\ stream' = SubSeq(given, k + 1, Len(given))
        BY <2>7 DEF WriteHex
      <3> HIDE DEF given
      <3>3. Len(given) \in 0..Len(given) /\ k + 1 \in Nat \ {0}
        BY <3>1, LenProperties
      <3>4. /\ SubSeq(given, 1, k) \in Seq(Nat)
            /\ SubSeq(given, k + 1, Len(given)) \in Seq(Nat)
        BY <3>1, <3>3, PartType
      <3>5. disk' \in Seq(Nat) /\ stream' \in Seq(Nat)
        BY <3>2, <3>4, ConcatProperties DEF TypeOK
      <3> QED
        BY <2>7, <3>5 DEF WriteHex, TypeOK, statVars
    <2>8. CASE UpdateStats
      <3> DEFINE tmp == last_100_digits \o new_digits
      <3>1. tmp \in Seq(Nat)
        BY ConcatProperties DEF TypeOK
      <3>2. LastDigits(tmp) \in Seq(Nat)
        BY <3>1, LastDigitsType
      <3> HIDE DEF tmp
      <3>3. disk' \in Seq(Nat) /\ accepted' \subseteq Results /\ overwrite' \in BOOLEAN
        BY <2>8 DEF UpdateStats, TypeOK
      <3>4. CASE SubstrThrows(tmp)
        <4>1. Halt("terminated")
          BY <2>8, <3>4 DEF UpdateStats, tmp
        <4> QED
          BY <3>3, <4>1, HaltTypeOK DEF Stopped
      <3>5. CASE ~SubstrThrows(tmp)
        <4>1. /\ hex_digits_generated' = next_digit
              /\ last_100_digits' = LastDigits(tmp)
              /\ new_digits' = <<>>
              /\ processor' = "pop"
              /\ UNCHANGED <<stream, to_process, processing_area, next_digit,
                             coord>>
          BY <2>8, <3>5 DEF UpdateStats, tmp
        <4> QED
          BY <3>2, <3>3, <4>1, EmptySeq DEF TypeOK
      <3> QED
        BY <3>4, <3>5
    <2>9. CASE BeginClose
      <3>1. ExitResult \in InternalResults
        BY DEF ExitResult, InternalResults
      <3>2. to_process' \in Seq(InternalResults)
        BY <2>9, <3>1, AppendProperties DEF BeginClose, TypeOK
      <3> QED
        BY <2>9, <3>2 DEF BeginClose, TypeOK, statVars
    <2>10. CASE FinishClose
      <3>1. disk' \in Seq(Nat) /\ accepted' \subseteq Results /\ overwrite' \in BOOLEAN
        BY <2>10, ConcatProperties DEF FinishClose, TypeOK
      <3> QED
        BY <2>10, <3>1, HaltTypeOK DEF FinishClose, Stopped
    <2>11. CASE Crash
      BY <2>11, HaltTypeOK DEF Crash, Stopped, TypeOK
    <2>12. CASE UNCHANGED vars
      BY <2>12 DEF vars, workVars, statVars, TypeOK
    <2> QED
      BY <2>1, <2>2, <2>3, <2>4, <2>5, <2>6, <2>7, <2>8, <2>9, <2>10, <2>11,
         <2>12 DEF Next, Processor
  <1> QED
    BY <1>1, <1>2, PTL DEF Spec

-----------------------------------------------------------------------------
(* The output file holds the first digits of pi *)

(* The string of no digits is the empty one, wherever it would begin. *)
LEMMA DigitsEmpty ==
    ASSUME NEW start \in Nat
    PROVE  Digits(start, 0) = <<>> /\ Len(<<>>) = 0
  BY DigitsType, EmptySeq

(* DigitsInOrder holds when the process is gone and the file is in order. *)
LEMMA HaltInOrder ==
    ASSUME NEW state \in Stopped, Halt(state),
           disk' \in Seq(Nat), IsPiPrefix(disk')
    PROVE  DigitsInOrder'
  <1>1. Len(disk') \in Nat
    BY LenProperties
  <1>2. stream' = Digits(Len(disk'), Len(stream'))
    BY <1>1, DigitsEmpty DEF Halt
  <1> QED
    BY <1>2 DEF Halt, DigitsInOrder, Stopped, Alive

(* Each operation keeps file, stream and unwritten digits in order. *)
LEMMA InOrderStep ==
    ASSUME TypeOK, TypeOK', DigitsInOrder, [Next]_vars
    PROVE  DigitsInOrder'
  <1> DEFINE d == Len(disk)
             s == Len(stream)
             n == Len(new_digits)
  <1>a. d \in Nat /\ s \in Nat /\ n \in Nat
    BY LenProperties DEF TypeOK
  <1>b. /\ disk = Digits(0, d)
        /\ stream = Digits(d, s)
    BY DEF DigitsInOrder, IsPiPrefix
  <1>c. d = 0 + d
    BY <1>a
  <1>1. ASSUME NEW o \in BOOLEAN, Start(o)
        PROVE  DigitsInOrder'
    <2> DEFINE initial == PreviousDigits(o)
    <2>1. initial \in Seq(Nat) /\ IsPiPrefix(initial)
      BY DigitsEmpty, EmptySeq
      DEF PreviousDigits, ReadHexDigits, DigitsInOrder, TypeOK, IsPiPrefix
    <2>2. disk' = initial /\ Prime(initial) /\ coord \in Stopped
      BY <1>1 DEF Start, OpenFile, PreviousDigits, ReadHexDigits
    <2> HIDE DEF initial
    <2>3. CASE Halt("terminated")
      BY <2>1, <2>2, <2>3, HaltInOrder DEF Stopped
    <2>4. CASE ~Halt("terminated")
      <3>1. /\ coord' = "up"
            /\ next_digit' = Len(initial)
            /\ stream' = stream
            /\ processor' = processor
        BY <2>2, <2>4 DEF Prime
      <3>2. stream = <<>> /\ processor = "pop"
        BY <2>2 DEF DigitsInOrder, Alive
      <3>3. Len(initial) \in Nat
        BY <2>1, LenProperties
      <3>4. stream' = Digits(Len(disk'), Len(stream'))
        BY <2>2, <3>1, <3>2, <3>3, DigitsEmpty
      <3>5. next_digit' = Len(disk') + Len(stream') + 0
        BY <2>2, <3>1, <3>2, <3>3, DigitsEmpty
      <3> QED
        BY <2>1, <2>2, <3>1, <3>2, <3>4, <3>5
        DEF DigitsInOrder, Alive, Stopped
    <2> QED
      BY <2>3, <2>4
  <1>2. ASSUME NEW r \in Results, Submit(r)
        PROVE  DigitsInOrder'
    BY <1>2 DEF Submit, DigitsInOrder, Alive, Stopped
  <1>3. CASE PopResult
    <2>1. /\ UNCHANGED <<disk, stream, next_digit, coord>>
          /\ Alive /\ processor = "pop"
          /\ new_digits' = <<>> /\ processor' = "process"
      BY <1>3 DEF PopResult
    <2>2. next_digit = d + s + 0
      BY <2>1 DEF DigitsInOrder
    <2>3. new_digits' = Digits(d + s, Len(new_digits')) /\ Len(new_digits') = 0
      BY <2>1, <1>a, DigitsEmpty
    <2> QED
      BY <2>1, <2>2, <2>3 DEF DigitsInOrder, Alive
  <1>4. CASE PopExit
    BY <1>4 DEF PopExit, DigitsInOrder, Alive
  <1>5. CASE TakeNext
    <2>1. PICK i \in FindNextWorkUnit :
              /\ new_digits' = new_digits \o Digits(processing_area[i].start,
                                                   processing_area[i].n)
              /\ next_digit' = next_digit + processing_area[i].n
      BY <1>5 DEF TakeNext
    <2>2. /\ UNCHANGED <<disk, stream, coord, processor>>
          /\ Alive /\ processor = "process"
      BY <1>5 DEF TakeNext
    <2>3. processing_area[i].start = next_digit /\ processing_area[i].n \in Nat
      <3>1. i \in 1..Len(processing_area)
        BY LenProperties DEF FindNextWorkUnit, TypeOK
      <3>2. processing_area[i] \in InternalResults
        BY <3>1, ElementOfSeq DEF TypeOK
      <3> QED
        BY <3>2 DEF FindNextWorkUnit, Needed, InternalResults
    <2> DEFINE m == processing_area[i].n
    <2>4. new_digits = Digits(d + s, n) /\ next_digit = d + s + n
      BY <2>2 DEF DigitsInOrder
    <2>5. new_digits' = Digits(d + s, n) \o Digits(d + s + n, m)
      BY <2>1, <2>3, <2>4
    <2> HIDE DEF m
    <2>6. new_digits' = Digits(d + s, n + m) /\ Len(new_digits') = n + m
      <3>1. d + s \in Nat /\ m \in Nat /\ n \in Nat
        BY <1>a, <2>3 DEF m
      <3> HIDE DEF d, s, n
      <3> QED
        BY <2>5, <3>1, DigitsConcat
    <2>7. next_digit' = d + s + (n + m)
      BY <2>1, <2>3, <2>4, <1>a DEF m
    <2> QED
      BY <2>2, <2>6, <2>7 DEF DigitsInOrder, Alive
  <1>6. CASE NothingNew
    <2>1. n = 0
      BY <1>6, DigitsEmpty DEF NothingNew
    <2>2. next_digit = d + s + 0
      BY <1>6, <2>1 DEF NothingNew, DigitsInOrder
    <2> QED
      BY <1>6, <2>2 DEF NothingNew, DigitsInOrder, Alive
  <1>7. CASE WriteHex
    <2>1. PICK k \in 0..Len(stream \o new_digits) :
              /\ disk' = disk \o SubSeq(stream \o new_digits, 1, k)
              /\ stream' = SubSeq(stream \o new_digits, k + 1,
                                  Len(stream \o new_digits))
      BY <1>7 DEF WriteHex
    <2>2. /\ UNCHANGED <<next_digit, coord>>
          /\ Alive /\ processor = "process" /\ processor' = "stats"
      BY <1>7 DEF WriteHex
    <2>3. new_digits = Digits(d + s, n) /\ next_digit = d + s + n
      BY <2>2 DEF DigitsInOrder
    <2> HIDE DEF d, s, n
    <2> DEFINE l == s + n
    <2>4. stream \o new_digits = Digits(d, l) /\ Len(stream \o new_digits) = l
      BY <1>a, <1>b, <2>3, DigitsConcat
    <2>5. k <= l /\ k \in Nat /\ l \in Nat /\ d + k \in Nat /\ l - k \in Nat
      BY <1>a, <2>1, <2>4
    <2> HIDE DEF l
    <2>6. /\ SubSeq(Digits(d, l), 1, k) = Digits(d, k)
          /\ SubSeq(Digits(d, l), k + 1, l) = Digits(d + k, l - k)
      <3>1. d \in Nat /\ l \in Nat /\ k \in Nat /\ k <= l
        BY <1>a, <2>5
      <3> QED
        BY <3>1, DigitsCut
    <2>7. stream' = Digits(d + k, l - k)
      BY <2>1, <2>4, <2>6
    <2>8. disk' = Digits(0, d + k) /\ Len(disk') = d + k
      <3>1. disk' = disk \o Digits(0 + d, k)
        BY <1>c, <2>1, <2>4, <2>6
      <3>2. /\ Digits(0, d) \o Digits(0 + d, k) = Digits(0, d + k)
            /\ Len(Digits(0, d) \o Digits(0 + d, k)) = d + k
        BY <1>a, <2>5, 0 \in Nat, DigitsConcat, Zenon
      <3> QED
        BY <1>b, <3>1, <3>2
    <2>9. Len(stream') = l - k
      BY <2>5, <2>7, DigitsType
    <2>10. next_digit' = Len(disk') + Len(stream') + 0
      BY <1>a, <2>2, <2>3, <2>5, <2>8, <2>9 DEF l
    <2> QED
      BY <2>2, <2>7, <2>8, <2>9, <2>10 DEF DigitsInOrder, Alive, IsPiPrefix
  <1>8. CASE UpdateStats
    <2>1. disk' = disk
      BY <1>8 DEF UpdateStats
    <2>2. CASE Halt("terminated")
      BY <2>1, <2>2, HaltInOrder DEF DigitsInOrder, TypeOK, Stopped
    <2>3. CASE ~Halt("terminated")
      BY <1>8, <2>1, <2>3 DEF UpdateStats, DigitsInOrder, Alive
    <2> QED
      BY <2>2, <2>3
  <1>9. CASE BeginClose
    BY <1>9 DEF BeginClose, DigitsInOrder, Alive, Stopped
  <1>10. CASE FinishClose
    <2>1. disk' = disk \o stream
      BY <1>10 DEF FinishClose
    <2>2. disk' = Digits(0, d + s) /\ Len(disk') = d + s
      <3>1. stream = Digits(0 + d, s)
        BY <1>b, <1>c
      <3> HIDE DEF d, s
      <3>2. /\ Digits(0, d) \o Digits(0 + d, s) = Digits(0, d + s)
            /\ Len(Digits(0, d) \o Digits(0 + d, s)) = d + s
        BY <1>a, 0 \in Nat, DigitsConcat, Zenon
      <3> QED
        BY <1>b, <2>1, <3>1, <3>2
    <2> QED
      BY <1>10, <2>2, HaltInOrder
      DEF FinishClose, Stopped, IsPiPrefix, TypeOK
  <1>11. CASE Crash
    BY <1>11, HaltInOrder DEF Crash, Stopped, DigitsInOrder, TypeOK
  <1>12. CASE UNCHANGED vars
    BY <1>12 DEF vars, workVars, statVars, DigitsInOrder, Alive
  <1> QED
    BY <1>1, <1>2, <1>3, <1>4, <1>5, <1>6, <1>7, <1>8, <1>9, <1>10, <1>11,
       <1>12 DEF Next, Processor

(* Together, file, stream and unwritten digits are always the first        *)
(* next_digit digits of pi: the strengthening that makes OutputIsPrefix    *)
(* inductive, since process() and write_hex only ever look at next_digit.  *)
THEOREM AlwaysInOrder == Spec => []DigitsInOrder
  <1>1. Init => DigitsInOrder
    <2> SUFFICES ASSUME Init
                 PROVE  DigitsInOrder
      OBVIOUS
    <2>1. PICK n \in InitialFiles : disk = Digits(0, n)
      BY DEF Init
    <2>2. n \in Nat
      BY InitialFilesAssumption
    <2>3. Len(disk) = n
      BY <2>1, <2>2, DigitsType
    <2>4. stream = Digits(Len(disk), Len(stream))
      BY <2>2, <2>3, DigitsEmpty DEF Init
    <2> QED
      BY <2>1, <2>3, <2>4 DEF Init, DigitsInOrder, IsPiPrefix, Alive, Stopped
  <1>2. TypeOK /\ TypeOK' /\ DigitsInOrder /\ [Next]_vars => DigitsInOrder'
    BY InOrderStep
  <1> QED
    BY <1>1, <1>2, TypeCorrect, PTL DEF Spec

(* For any results and any crashes and restarts, pi_hex.txt, and what its  *)
(* stream holds after it, are the first digits of pi.                      *)
THEOREM OutputCorrect == Spec => []OutputIsPrefix
  <1>1. TypeOK /\ DigitsInOrder => OutputIsPrefix
    <2> SUFFICES ASSUME TypeOK, DigitsInOrder
                 PROVE  OutputIsPrefix
      OBVIOUS
    <2> DEFINE d == Len(disk)
               s == Len(stream)
    <2>1. d \in Nat /\ s \in Nat
      BY LenProperties DEF TypeOK
    <2>2. disk = Digits(0, d) /\ stream = Digits(0 + d, s)
      BY <2>1 DEF DigitsInOrder, IsPiPrefix
    <2> HIDE DEF d, s
    <2>3. disk \o stream = Digits(0, d + s) /\ Len(disk \o stream) = d + s
      BY <2>1, <2>2, DigitsConcat
    <2> QED
      BY <2>3 DEF OutputIsPrefix, IsPiPrefix, DigitsInOrder
  <1> QED
    BY <1>1, TypeCorrect, AlwaysInOrder, PTL

-----------------------------------------------------------------------------
(* The combiner implements the abstract file *)

(* Appending to a string keeps it as a prefix. *)
LEMMA PrefixConcat ==
    ASSUME NEW s \in Seq(Nat), NEW t \in Seq(Nat)
    PROVE  IsPrefix(s, s \o t)
  <1> DEFINE u == s \o t
  <1>1. /\ u \in Seq(Nat)
        /\ Len(u) = Len(s) + Len(t)
        /\ \A i \in 1..Len(s) : u[i] = s[i]
        /\ Len(s) \in Nat /\ Len(t) \in Nat
    <2>1. Len(s) \in Nat /\ Len(t) \in Nat
      BY LenProperties
    <2> QED
      BY <2>1, ConcatProperties
  <1> HIDE DEF u
  <1>2. /\ SubSeq(s, 1, Len(s)) = s
    BY SubSeqFull
  <1>3. /\ SubSeq(u, 1, Len(s)) \in Seq(Nat)
        /\ Len(SubSeq(u, 1, Len(s))) = Len(s)
        /\ \A i \in 1..Len(s) : SubSeq(u, 1, Len(s))[i] = s[i]
    <2>1. \A i \in 1..Len(s) : u[i] \in Nat
      BY <1>1, ElementOfSeq
    <2> QED
      BY <1>1, <2>1, SubSeqProperties
  <1>4. SubSeq(u, 1, Len(s)) = s
    BY <1>3, SeqEqual
  <1>5. IsPrefix(s, u)
    BY <1>1, <1>2, <1>4 DEF IsPrefix
  <1> QED
    BY <1>5 DEF u

(* write_hex adds digits after those of the file and loses none. *)
LEMMA WriteHexGrows ==
    ASSUME TypeOK, TypeOK', DigitsInOrder, DigitsInOrder', WriteHex
    PROVE  /\ IsPrefix(disk, disk')
           /\ Len(disk) + Len(stream) < Len(disk') + Len(stream')
  <1>1. PICK k \in 0..Len(stream \o new_digits) :
            disk' = disk \o SubSeq(stream \o new_digits, 1, k)
    BY DEF WriteHex
  <1>2. stream \o new_digits \in Seq(Nat)
    BY ConcatProperties DEF TypeOK
  <1>3. SubSeq(stream \o new_digits, 1, k) \in Seq(Nat)
    BY <1>2, PartType, 1 \in Nat \ {0}
  <1>4. IsPrefix(disk, disk')
    BY <1>1, <1>3, PrefixConcat DEF TypeOK
  <1>5. Len(new_digits) \in Nat \ {0}
    BY EmptySeq DEF WriteHex, TypeOK
  <1>6. next_digit = Len(disk) + Len(stream) + Len(new_digits)
    BY DEF WriteHex, DigitsInOrder
  <1>7. next_digit = Len(disk') + Len(stream') + 0
    BY DEF WriteHex, DigitsInOrder, Alive
  <1>8. Len(disk) \in Nat /\ Len(stream) \in Nat
    BY LenProperties DEF TypeOK
  <1>9. Len(disk') \in Nat /\ Len(stream') \in Nat
    BY LenProperties DEF TypeOK
  <1>10. Len(disk) + Len(stream) < Len(disk') + Len(stream')
    BY <1>5, <1>6, <1>7, <1>8, <1>9
  <1> QED
    BY <1>4, <1>10

(* Whatever happens to the process, digits in the file stay there, unless  *)
(* the operator starts with --overwrite.                                   *)
THEOREM FileGrows == Spec => FileOnlyGrows
  <1>1. TypeOK /\ TypeOK' /\ DigitsInOrder /\ DigitsInOrder' /\ [Next]_vars
          => [IsPrefix(disk, disk') \/ (coord \in Stopped /\ overwrite')]_vars
    <2> SUFFICES ASSUME TypeOK, TypeOK', DigitsInOrder, DigitsInOrder', Next
                 PROVE  IsPrefix(disk, disk') \/ (coord \in Stopped /\ overwrite')
      OBVIOUS
    <2>1. ASSUME disk' = disk
          PROVE  IsPrefix(disk, disk')
      <3>1. Len(disk) <= Len(disk)
        BY LenProperties DEF TypeOK
      <3> QED
        BY <2>1, <3>1 DEF IsPrefix
    <2>2. ASSUME NEW o \in BOOLEAN, Start(o)
          PROVE  IsPrefix(disk, disk') \/ (coord \in Stopped /\ overwrite')
      <3>1. CASE o
        BY <2>2, <3>1 DEF Start
      <3>2. CASE ~o
        BY <2>1, <2>2, <3>2 DEF Start, OpenFile
      <3> QED
        BY <3>1, <3>2
    <2>3. CASE WriteHex
      BY <2>3, WriteHexGrows
    <2>4. CASE FinishClose
      BY <2>4, PrefixConcat DEF FinishClose, TypeOK
    <2>5. CASE \/ \E r \in Results : Submit(r)
               \/ PopResult \/ PopExit \/ TakeNext \/ NothingNew
               \/ UpdateStats \/ BeginClose \/ Crash
      BY <2>1, <2>5 DEF Submit, PopResult, PopExit, TakeNext, NothingNew,
                        UpdateStats, BeginClose, Crash
    <2> QED
      BY <2>2, <2>3, <2>4, <2>5 DEF Next, Processor
  <1> QED
    BY <1>1, TypeCorrect, AlwaysInOrder, PTL DEF Spec, FileOnlyGrows

(* The output file behaves as PiFile promises: every step of the combiner, *)
(* of its threads and of the process is a write, a close, a loss of        *)
(* buffered digits or a truncation of the abstract file, or leaves it be.  *)
THEOREM Implements == Spec => ImplementsPiFile
  <1>1. Init => OutputFile!FileInit
    BY DEF Init, OutputFile!FileInit, Digits, OutputFile!Digits
  <1>2. /\ TypeOK /\ TypeOK' /\ DigitsInOrder /\ DigitsInOrder'
        /\ OutputIsPrefix' /\ [Next]_vars
        => [OutputFile!FileNext]_(OutputFile!fileVars)
    <2> SUFFICES ASSUME TypeOK, TypeOK', DigitsInOrder, DigitsInOrder',
                        OutputIsPrefix', [Next]_vars
                 PROVE  \/ OutputFile!FileNext
                        \/ UNCHANGED <<disk, stream>>
      BY DEF OutputFile!fileVars
    <2>1. ASSUME NEW o \in BOOLEAN, Start(o)
          PROVE  \/ OutputFile!FileNext
                 \/ UNCHANGED <<disk, stream>>
      <3>1. stream = <<>>
        BY <2>1 DEF Start, DigitsInOrder, Alive
      <3>2. stream' = <<>>
        BY <2>1, <3>1 DEF Start, Prime, Halt
      <3>3. CASE o
        <4>1. disk' = <<>>
          BY <2>1, <3>3 DEF Start, OpenFile
        <4> QED
          BY <3>2, <4>1 DEF OutputFile!FileNext, OutputFile!Truncate
      <3>4. CASE ~o
        BY <2>1, <3>1, <3>2, <3>4 DEF Start, OpenFile
      <3> QED
        BY <3>3, <3>4
    <2>2. CASE WriteHex
      <3>1. IsPiPrefix(disk' \o stream')
        BY DEF OutputIsPrefix
      <3>2. OutputFile!IsPiPrefix(disk' \o stream')
        BY <3>1 DEF IsPiPrefix, OutputFile!IsPiPrefix, Digits, OutputFile!Digits
      <3>3. OutputFile!IsPrefix(disk, disk')
        BY <2>2, WriteHexGrows DEF IsPrefix, OutputFile!IsPrefix
      <3> QED
        BY <2>2, <3>2, <3>3, WriteHexGrows
        DEF OutputFile!FileNext, OutputFile!Write
    <2>3. CASE UpdateStats
      <3>1. disk' = disk
        BY <2>3 DEF UpdateStats
      <3>2. stream' = stream \/ stream' = <<>>
        BY <2>3 DEF UpdateStats, Halt
      <3> QED
        BY <3>1, <3>2 DEF OutputFile!FileNext, OutputFile!Lose
    <2>4. CASE FinishClose
      BY <2>4 DEF FinishClose, Halt, OutputFile!FileNext, OutputFile!Close
    <2>5. CASE Crash
      BY <2>5 DEF Crash, Halt, OutputFile!FileNext, OutputFile!Lose
    <2>6. CASE \/ \E r \in Results : Submit(r)
               \/ PopResult \/ PopExit \/ TakeNext \/ NothingNew
               \/ BeginClose \/ UNCHANGED vars
      BY <2>6 DEF Submit, PopResult, PopExit, TakeNext, NothingNew,
                  BeginClose, vars
    <2> QED
      BY <2>1, <2>2, <2>3, <2>4, <2>5, <2>6 DEF Next, Processor
  <1> QED
    BY <1>1, <1>2, TypeCorrect, AlwaysInOrder, OutputCorrect, PTL
    DEF Spec, ImplementsPiFile, OutputFile!FileSpec

-----------------------------------------------------------------------------
(* Nothing that can be written is held back, and nothing is lost *)

(* Between two turns of its loop the processor holds nothing it needs, and *)
(* a process that is gone holds nothing at all.                            *)
Drained ==
    /\ Alive /\ processor # "process" => NoneNeeded
    /\ ~Alive => to_process = <<>> /\ processing_area = <<>>

(* A result as it is queued, and where it may be until it is written. *)
Queueable(r) == [start |-> r.start, n |-> r.n, processor_exit |-> FALSE]
In(r, s) == \E i \in 1..Len(s) : s[i] = Queueable(r)
Kept(r) ==
    In(r, to_process) \/ In(r, processing_area) \/ r.start < next_digit

(* The exit result is the last one queued, and the processor exits by it. *)
OnlyLastExits ==
    \A i \in 1..Len(to_process) :
        to_process[i].processor_exit <=> i = Len(to_process)
ExitLast ==
    /\ coord = "up" => /\ processor # "exited"
                       /\ \A i \in 1..Len(to_process) :
                              ~to_process[i].processor_exit
    /\ coord = "closing" =>
         IF processor = "exited" THEN to_process = <<>> ELSE OnlyLastExits

NothingLost ==
    /\ Alive => \A r \in accepted : r.n > 0 => Kept(r)
    /\ ExitLast
    /\ CleanExitLosesNothing

(* A process that is gone has an empty queue and an empty area. *)
LEMMA HaltDrained ==
    ASSUME NEW state \in Stopped, Halt(state)
    PROVE  Drained' /\ ~Alive'
  BY EmptySeq DEF Halt, Drained, Stopped, Alive

LEMMA DrainedStep ==
    ASSUME TypeOK, TypeOK', Drained, [Next]_vars
    PROVE  Drained'
  <1>1. ASSUME UNCHANGED <<processing_area, next_digit>>, Alive, Alive',
               processor' # "process" => NoneNeeded
        PROVE  Drained'
    BY <1>1 DEF Drained, NoneNeeded, Needed
  <1>2. ASSUME NEW o \in BOOLEAN, Start(o)
        PROVE  Drained'
    <2>1. CASE Halt("terminated")
      BY <2>1, HaltDrained DEF Stopped
    <2>2. CASE ~Halt("terminated")
      <3>1. /\ coord' = "up"
            /\ UNCHANGED <<to_process, processing_area>>
        BY <1>2, <2>2 DEF Start, Prime
      <3>2. processing_area' = <<>>
        BY <1>2, <3>1 DEF Start, Drained, Alive
      <3> QED
        BY <3>1, <3>2 DEF Drained, NoneNeeded, Alive, Stopped
    <2> QED
      BY <2>1, <2>2
  <1>3. ASSUME NEW r \in Results, Submit(r)
        PROVE  Drained'
    BY <1>1, <1>3 DEF Submit, Drained, Alive, Stopped
  <1>4. CASE PopResult
    BY <1>4 DEF PopResult, Drained, Alive
  <1>5. CASE PopExit
    BY <1>1, <1>5 DEF PopExit, Drained, Alive
  <1>6. CASE TakeNext
    BY <1>6 DEF TakeNext, Drained, Alive
  <1>7. CASE NothingNew
    BY <1>1, <1>7 DEF NothingNew, Alive
  <1>8. CASE WriteHex
    BY <1>1, <1>8 DEF WriteHex, Alive
  <1>9. CASE UpdateStats
    <2>1. CASE Halt("terminated")
      BY <2>1, HaltDrained DEF Stopped
    <2>2. CASE ~Halt("terminated")
      BY <1>1, <1>9, <2>2 DEF UpdateStats, Drained, Alive
    <2> QED
      BY <2>1, <2>2
  <1>10. CASE BeginClose
    BY <1>1, <1>10 DEF BeginClose, Drained, Alive, Stopped
  <1>11. CASE FinishClose
    BY <1>11, HaltDrained DEF FinishClose, Stopped
  <1>12. CASE Crash
    BY <1>12, HaltDrained DEF Crash, Stopped
  <1>13. CASE UNCHANGED vars
    BY <1>13 DEF vars, workVars, Drained, Alive, NoneNeeded, Needed
  <1> QED
    BY <1>2, <1>3, <1>4, <1>5, <1>6, <1>7, <1>8, <1>9, <1>10, <1>11, <1>12,
       <1>13 DEF Next, Processor

LEMMA AlwaysDrained == Spec => []Drained
  <1>1. Init => Drained
    BY DEF Init, Drained, Alive, Stopped
  <1>2. TypeOK /\ TypeOK' /\ Drained /\ [Next]_vars => Drained'
    BY DrainedStep
  <1> QED
    BY <1>1, <1>2, TypeCorrect, PTL DEF Spec

(* The processor never goes back to waiting on the queue while it holds    *)
(* the result that comes next, whatever arrived in whatever order.         *)
THEOREM NeededNotHeld == Spec => []NothingNeededHeld
  <1>1. Drained => NothingNeededHeld
    BY DEF Drained, NothingNeededHeld
  <1> QED
    BY <1>1, AlwaysDrained, PTL

(* A result stays queued when another joins the queue, and the new one is. *)
LEMMA AppendIn ==
    ASSUME NEW s \in Seq(InternalResults), NEW e \in InternalResults, NEW r
    PROVE  /\ In(r, s) => In(r, Append(s, e))
           /\ e = Queueable(r) => In(r, Append(s, e))
  <1>1. /\ Len(Append(s, e)) = Len(s) + 1 /\ Len(s) \in Nat
        /\ \A i \in 1..Len(s) : Append(s, e)[i] = s[i]
        /\ Append(s, e)[Len(s) + 1] = e
    BY AppendProperties, LenProperties
  <1>2. ASSUME In(r, s)
        PROVE  In(r, Append(s, e))
    <2>1. PICK i \in 1..Len(s) : s[i] = Queueable(r)
      BY <1>2 DEF In
    <2>2. i \in 1..Len(Append(s, e)) /\ Append(s, e)[i] = Queueable(r)
      BY <1>1, <2>1
    <2> QED
      BY <2>2 DEF In
  <1>3. ASSUME e = Queueable(r)
        PROVE  In(r, Append(s, e))
    <2>1. Len(s) + 1 \in 1..Len(Append(s, e))
      BY <1>1
    <2> QED
      BY <1>1, <1>3, <2>1 DEF In
  <1> QED
    BY <1>2, <1>3

(* When the first element is popped, a result is that one or still queued. *)
LEMMA TailIn ==
    ASSUME NEW s \in Seq(InternalResults), s # <<>>, NEW r, In(r, s)
    PROVE  Head(s) = Queueable(r) \/ In(r, Tail(s))
  <1>1. /\ Head(s) = s[1] /\ Len(Tail(s)) = Len(s) - 1 /\ Len(s) \in Nat
        /\ \A i \in 1..Len(Tail(s)) : Tail(s)[i] = s[i + 1]
    BY HeadTailProperties, LenProperties
  <1>2. PICK i \in 1..Len(s) : s[i] = Queueable(r)
    BY DEF In
  <1>3. CASE i = 1
    BY <1>1, <1>2, <1>3
  <1>4. CASE i # 1
    <2>1. i - 1 \in 1..Len(Tail(s)) /\ (i - 1) + 1 = i
      BY <1>1, <1>4
    <2>2. Tail(s)[i - 1] = Queueable(r)
      BY <1>1, <1>2, <2>1
    <2> QED
      BY <2>1, <2>2 DEF In
  <1> QED
    BY <1>3, <1>4

(* erase() takes the element at its position and leaves the others. *)
LEMMA RemoveAtIn ==
    ASSUME NEW s \in Seq(InternalResults), NEW k \in 1..Len(s), NEW r, In(r, s)
    PROVE  s[k] = Queueable(r) \/ In(r, RemoveAt(s, k))
  <1> DEFINE a == SubSeq(s, 1, k - 1)
             b == SubSeq(s, k + 1, Len(s))
  <1>1. Len(s) \in Nat /\ \A i \in 1..Len(s) : s[i] \in InternalResults
    BY LenProperties, ElementOfSeq
  <1>2. /\ a \in Seq(InternalResults) /\ Len(a) = k - 1
        /\ \A i \in 1..(k - 1) : a[i] = s[i]
    BY <1>1
  <1>3. /\ b \in Seq(InternalResults) /\ Len(b) = Len(s) - k
        /\ \A i \in 1..(Len(s) - k) : b[i] = s[k + i]
    BY <1>1
  <1>4. RemoveAt(s, k) = a \o b
    BY DEF RemoveAt
  <1> HIDE DEF a, b
  <1>5. /\ Len(a \o b) = Len(s) - 1
        /\ \A i \in 1..(k - 1) : (a \o b)[i] = s[i]
        /\ \A i \in k..(Len(s) - 1) : (a \o b)[i] = s[i + 1]
    <2>1. ASSUME NEW i \in k..(Len(s) - 1)
          PROVE  (a \o b)[i] = s[i + 1]
      <3>1. (a \o b)[i] = b[i - (k - 1)]
        BY <1>1, <1>2, <1>3, ConcatProperties
      <3>2. b[i - (k - 1)] = s[k + (i - (k - 1))]
        BY <1>1, <1>3
      <3>3. k + (i - (k - 1)) = i + 1
        BY <1>1
      <3> QED
        BY <3>1, <3>2, <3>3
    <2>2. Len(a \o b) = Len(a) + Len(b)
      BY <1>2, <1>3, ConcatProperties
    <2>3. \A i \in 1..(k - 1) : (a \o b)[i] = s[i]
      BY <1>1, <1>2, <1>3, ConcatProperties
    <2>4. Len(a) + Len(b) = Len(s) - 1
      BY <1>1, <1>2, <1>3
    <2> QED
      BY <2>1, <2>2, <2>3, <2>4
  <1>6. PICK i \in 1..Len(s) : s[i] = Queueable(r)
    BY DEF In
  <1>7. CASE i = k
    BY <1>6, <1>7
  <1>8. CASE i < k
    <2>1. i \in 1..Len(a \o b) /\ (a \o b)[i] = Queueable(r)
      BY <1>1, <1>5, <1>6, <1>8
    <2> QED
      BY <1>4, <2>1 DEF In
  <1>9. CASE i > k
    <2>1. i - 1 \in 1..Len(a \o b) /\ (a \o b)[i - 1] = Queueable(r)
      BY <1>1, <1>5, <1>6, <1>9
    <2> QED
      BY <1>4, <2>1 DEF In
  <1> QED
    BY <1>1, <1>7, <1>8, <1>9

(* A process that is gone owes nothing but what an orderly exit left. *)
LEMMA HaltLost ==
    ASSUME NEW state \in {"down", "terminated"}, Halt(state)
    PROVE  NothingLost'
  BY DEF Halt, NothingLost, ExitLast, CleanExitLosesNothing, Alive, Stopped

(* A step that moves no result and no digit, and lets nobody exit. *)
LEMMA KeptIn ==
    ASSUME NothingLost, UNCHANGED <<to_process, processing_area, next_digit,
                                    coord, accepted>>,
           Alive, processor # "exited", processor' # "exited"
    PROVE  NothingLost'
  BY DEF NothingLost, ExitLast, OnlyLastExits, CleanExitLosesNothing, Kept, In,
         Alive, Stopped

(* A result is queued behind the others. *)
LEMMA SubmitLost ==
    ASSUME TypeOK, NothingLost, NEW r \in Results, Submit(r)
    PROVE  NothingLost'
  <1>1. Queueable(r) \in InternalResults
    BY ResultsAssumption DEF Queueable, InternalResults
  <1>2. to_process' = Append(to_process, Queueable(r))
    BY DEF Submit, Queueable
  <1>3. to_process \in Seq(InternalResults)
    BY DEF TypeOK
  <1>4. ASSUME NEW q \in accepted', q.n > 0
        PROVE  Kept(q)'
    <2>1. In(q, to_process) => In(q, to_process')
      BY <1>1, <1>2, <1>3, AppendIn
    <2>2. CASE q = r
      <3>1. In(q, to_process')
        BY <1>1, <1>2, <1>3, <2>2, AppendIn
      <3> QED
        BY <3>1 DEF Kept, In
    <2>3. CASE q # r
      <3>1. Kept(q)
        BY <1>4, <2>3 DEF Submit, NothingLost, Alive, Stopped
      <3> QED
        BY <2>1, <3>1 DEF Submit, Kept, In
    <2> QED
      BY <2>2, <2>3
  <1>5. ExitLast'
    <2>1. processor' # "exited" /\ coord' = "up"
      BY DEF Submit, NothingLost, ExitLast
    <2>2. ASSUME NEW i \in 1..Len(to_process')
          PROVE  ~to_process'[i].processor_exit
      <3>1. /\ Len(to_process') = Len(to_process) + 1
            /\ Len(to_process) \in Nat
            /\ \A j \in 1..Len(to_process) : to_process'[j] = to_process[j]
            /\ to_process'[Len(to_process) + 1] = Queueable(r)
        BY <1>1, <1>2, <1>3, AppendProperties, LenProperties
      <3>2. CASE i \in 1..Len(to_process)
        BY <3>1, <3>2 DEF Submit, NothingLost, ExitLast
      <3>3. CASE i = Len(to_process) + 1
        BY <3>1, <3>3 DEF Queueable
      <3> QED
        BY <3>1, <3>2, <3>3
    <2> QED
      BY <2>1, <2>2 DEF ExitLast
  <1> QED
    BY <1>4, <1>5 DEF NothingLost, CleanExitLosesNothing, Submit

(* The exit result is queued behind all others. *)
LEMMA BeginCloseLost ==
    ASSUME TypeOK, NothingLost, BeginClose
    PROVE  NothingLost'
  <1>1. ExitResult \in InternalResults
    BY DEF ExitResult, InternalResults
  <1>2. to_process' = Append(to_process, ExitResult) /\ coord' = "closing"
    BY DEF BeginClose
  <1>3. to_process \in Seq(InternalResults)
    BY DEF TypeOK
  <1>4. ASSUME NEW q \in accepted', q.n > 0
        PROVE  Kept(q)'
    <2>1. In(q, to_process) => In(q, to_process')
      BY <1>1, <1>2, <1>3, AppendIn
    <2>2. Kept(q)
      BY <1>4 DEF BeginClose, NothingLost, Alive, Stopped
    <2> QED
      BY <2>1, <2>2 DEF BeginClose, Kept, In
  <1>5. OnlyLastExits'
    <2>1. /\ Len(to_process') = Len(to_process) + 1
          /\ Len(to_process) \in Nat
          /\ \A j \in 1..Len(to_process) : to_process'[j] = to_process[j]
          /\ to_process'[Len(to_process) + 1] = ExitResult
      BY <1>1, <1>2, <1>3, AppendProperties, LenProperties
    <2>2. ASSUME NEW i \in 1..Len(to_process')
          PROVE  to_process'[i].processor_exit <=> i = Len(to_process')
      <3>1. CASE i \in 1..Len(to_process)
        BY <2>1, <3>1 DEF BeginClose, NothingLost, ExitLast
      <3>2. CASE i = Len(to_process) + 1
        BY <2>1, <3>2 DEF ExitResult
      <3> QED
        BY <2>1, <3>1, <3>2
    <2> QED
      BY <2>2 DEF OnlyLastExits
  <1>6. ExitLast'
    BY <1>2, <1>5 DEF BeginClose, NothingLost, ExitLast
  <1> QED
    BY <1>2, <1>4, <1>6 DEF NothingLost, CleanExitLosesNothing

(* The first element of the queue is taken: what is true of those after it. *)
LEMMA PopExits ==
    ASSUME TypeOK, NothingLost, Alive, processor # "exited",
           to_process # <<>>, to_process' = Tail(to_process), coord' = coord
    PROVE  /\ coord = "up" =>
                /\ ~Head(to_process).processor_exit
                /\ \A i \in 1..Len(to_process') : ~to_process'[i].processor_exit
           /\ coord = "closing" =>
                /\ OnlyLastExits'
                /\ Head(to_process).processor_exit => to_process' = <<>>
  <1>1. /\ Len(to_process) \in Nat \ {0}
        /\ Head(to_process) = to_process[1]
        /\ to_process' \in Seq(InternalResults)
        /\ Len(to_process') = Len(to_process) - 1
        /\ \A i \in 1..Len(to_process') : to_process'[i] = to_process[i + 1]
    BY HeadTailProperties, LenProperties, EmptySeq DEF TypeOK
  <1>2. 1 \in 1..Len(to_process)
    BY <1>1
  <1>3. ASSUME NEW i \in 1..Len(to_process')
        PROVE  /\ i + 1 \in 1..Len(to_process)
               /\ i + 1 = Len(to_process) <=> i = Len(to_process')
    BY <1>1
  <1>4. CASE coord = "up"
    BY <1>1, <1>2, <1>3, <1>4 DEF NothingLost, ExitLast
  <1>5. CASE coord = "closing"
    <2>1. OnlyLastExits
      BY <1>5 DEF NothingLost, ExitLast
    <2>2. ASSUME Head(to_process).processor_exit
          PROVE  to_process' = <<>>
      <3>1. 1 = Len(to_process)
        BY <1>1, <1>2, <2>1, <2>2 DEF OnlyLastExits
      <3>2. Len(to_process') = 0
        BY <1>1, <3>1
      <3> QED
        BY <1>1, <3>2, EmptySeq
    <2>3. OnlyLastExits'
      BY <1>1, <1>3, <2>1 DEF OnlyLastExits
    <2> QED
      BY <1>5, <2>2, <2>3
  <1> QED
    BY <1>4, <1>5

(* A result is taken from the queue into the area. *)
LEMMA PopResultLost ==
    ASSUME TypeOK, NothingLost, PopResult
    PROVE  NothingLost'
  <1>1. /\ Alive /\ processor = "pop" /\ to_process # <<>>
        /\ to_process' = Tail(to_process)
        /\ processing_area' = Append(processing_area, Head(to_process))
        /\ processor' = "process"
        /\ UNCHANGED <<next_digit, coord, accepted>>
    BY DEF PopResult
  <1>2. /\ Head(to_process) \in InternalResults
        /\ to_process \in Seq(InternalResults)
        /\ processing_area \in Seq(InternalResults)
    BY <1>1, HeadTailProperties DEF TypeOK
  <1>3. ASSUME NEW q \in accepted', q.n > 0
        PROVE  Kept(q)'
    <2>1. Kept(q)
      BY <1>1, <1>3 DEF NothingLost
    <2>2. CASE In(q, to_process)
      <3>1. Head(to_process) = Queueable(q) \/ In(q, Tail(to_process))
        BY <1>1, <1>2, <2>2, TailIn
      <3>2. CASE Head(to_process) = Queueable(q)
        <4>1. In(q, processing_area')
          BY <1>1, <1>2, <3>2, AppendIn
        <4> QED
          BY <4>1 DEF Kept, In
      <3>3. CASE In(q, Tail(to_process))
        BY <1>1, <3>3 DEF Kept, In
      <3> QED
        BY <3>1, <3>2, <3>3
    <2>3. CASE In(q, processing_area)
      <3>1. In(q, processing_area')
        BY <1>1, <1>2, <2>3, AppendIn
      <3> QED
        BY <3>1 DEF Kept, In
    <2>4. CASE q.start < next_digit
      BY <1>1, <2>4 DEF Kept
    <2> QED
      BY <2>1, <2>2, <2>3, <2>4 DEF Kept
  <1>4. ExitLast'
    BY <1>1, PopExits DEF ExitLast
  <1> QED
    BY <1>1, <1>3, <1>4
    DEF NothingLost, CleanExitLosesNothing, Alive, Stopped

(* The exit result is taken: nothing is left behind it. *)
LEMMA PopExitLost ==
    ASSUME TypeOK, NothingLost, PopExit
    PROVE  NothingLost'
  <1>1. /\ Alive /\ processor = "pop" /\ to_process # <<>>
        /\ Head(to_process).processor_exit
        /\ to_process' = Tail(to_process)
        /\ processor' = "exited"
        /\ UNCHANGED <<processing_area, next_digit, coord, accepted>>
    BY DEF PopExit
  <1>2. /\ coord # "up"
        /\ coord = "closing" => to_process' = <<>>
    BY <1>1, PopExits
  <1>3. ASSUME NEW q \in accepted', q.n > 0
        PROVE  Kept(q)'
    <2>1. Kept(q)
      BY <1>1, <1>3 DEF NothingLost
    <2>2. to_process \in Seq(InternalResults)
      BY DEF TypeOK
    <2>3. ~(Head(to_process) = Queueable(q))
      BY <1>1 DEF Queueable
    <2>4. In(q, to_process) => In(q, to_process')
      BY <1>1, <2>2, <2>3, TailIn
    <2> QED
      BY <1>1, <2>1, <2>4 DEF Kept, In
  <1> QED
    BY <1>1, <1>2, <1>3
    DEF NothingLost, ExitLast, CleanExitLosesNothing, Alive, Stopped

(* The result that leaves the area is the one that next_digit passes. *)
LEMMA TakeNextLost ==
    ASSUME TypeOK, NothingLost, TakeNext
    PROVE  NothingLost'
  <1>1. PICK i \in FindNextWorkUnit :
            /\ next_digit' = next_digit + processing_area[i].n
            /\ processing_area' = RemoveAt(processing_area, i)
    BY DEF TakeNext
  <1>2. /\ Alive /\ processor = "process"
        /\ UNCHANGED <<to_process, processor, coord, accepted>>
    BY DEF TakeNext
  <1>3. /\ i \in 1..Len(processing_area)
        /\ processing_area[i].start = next_digit
        /\ processing_area \in Seq(InternalResults)
    BY LenProperties DEF FindNextWorkUnit, Needed, TypeOK
  <1>4. processing_area[i].n \in Nat /\ next_digit \in Nat
    <2>1. processing_area[i] \in InternalResults
      BY <1>3, ElementOfSeq
    <2> QED
      BY <2>1 DEF InternalResults, TypeOK
  <1>5. ASSUME NEW q \in accepted', q.n > 0
        PROVE  Kept(q)'
    <2>1. Kept(q) /\ q.start \in Nat /\ q.n \in Nat
      BY <1>2, <1>5, ResultsAssumption DEF NothingLost, TypeOK
    <2>2. CASE In(q, to_process)
      BY <1>2, <2>2 DEF Kept, In
    <2>3. CASE In(q, processing_area)
      <3>1. processing_area[i] = Queueable(q) \/ In(q, processing_area')
        BY <1>1, <1>3, <2>3, RemoveAtIn
      <3>2. CASE processing_area[i] = Queueable(q)
        <4>1. q.start = next_digit /\ q.n = processing_area[i].n
          BY <1>3, <3>2 DEF Queueable
        <4>2. q.start < next_digit'
          BY <1>1, <1>4, <1>5, <2>1, <4>1
        <4> QED
          BY <4>2 DEF Kept
      <3>3. CASE In(q, processing_area')
        BY <3>3 DEF Kept, In
      <3> QED
        BY <3>1, <3>2, <3>3
    <2>4. CASE q.start < next_digit
      <3>1. q.start < next_digit'
        BY <1>1, <1>4, <2>1, <2>4
      <3> QED
        BY <3>1 DEF Kept
    <2> QED
      BY <2>1, <2>2, <2>3, <2>4 DEF Kept
  <1>6. ExitLast'
    BY <1>2 DEF NothingLost, ExitLast, OnlyLastExits
  <1> QED
    BY <1>2, <1>5, <1>6
    DEF NothingLost, CleanExitLosesNothing, Alive, Stopped

(* When the file is closed, all that was submitted is written or held back *)
(* because digits before it are missing.                                   *)
LEMMA FinishCloseLost ==
    ASSUME TypeOK, DigitsInOrder, Drained, NothingLost, FinishClose
    PROVE  NothingLost'
  <1>1. /\ coord = "closing" /\ processor = "exited"
        /\ disk' = disk \o stream /\ coord' = "closed"
        /\ UNCHANGED accepted
    BY DEF FinishClose, Halt
  <1>2. /\ to_process = <<>> /\ NoneNeeded
        /\ next_digit = Len(disk) + Len(stream) + 0
    BY <1>1 DEF NothingLost, ExitLast, Drained, DigitsInOrder, Alive, Stopped
  <1>3. Len(disk') = next_digit
    BY <1>1, <1>2, ConcatProperties, LenProperties DEF TypeOK
  <1>4. ASSUME NEW q \in accepted', q.n > 0
        PROVE  q.start # Len(disk')
    <2>1. Kept(q) /\ q.start \in Nat
      BY <1>1, <1>4, ResultsAssumption DEF NothingLost, TypeOK, Alive, Stopped
    <2>2. ~In(q, to_process)
      BY <1>2, EmptySeq DEF In
    <2>3. CASE In(q, processing_area)
      <3>1. PICK i \in 1..Len(processing_area) :
                processing_area[i] = Queueable(q)
        BY <2>3 DEF In
      <3>2. i \in DOMAIN processing_area
        BY <3>1, LenProperties DEF TypeOK
      <3>3. processing_area[i].start # next_digit
        BY <1>2, <3>2 DEF NoneNeeded, Needed
      <3> QED
        BY <1>3, <3>1, <3>3 DEF Queueable
    <2>4. CASE q.start < next_digit
      BY <1>3, <2>1, <2>4 DEF TypeOK
    <2> QED
      BY <2>1, <2>2, <2>3, <2>4 DEF Kept
  <1> QED
    BY <1>1, <1>4
    DEF NothingLost, ExitLast, CleanExitLosesNothing, Alive, Stopped

(* Every step of the combiner keeps what was submitted. *)
LEMMA NothingLostStep ==
    ASSUME TypeOK, DigitsInOrder, Drained, NothingLost, [Next]_vars
    PROVE  NothingLost'
  <1>1. ASSUME NEW o \in BOOLEAN, Start(o)
        PROVE  NothingLost'
    <2>1. CASE Halt("terminated")
      BY <2>1, HaltLost
    <2>2. CASE ~Halt("terminated")
      <3>1. /\ coord' = "up" /\ accepted' = {}
            /\ UNCHANGED <<to_process, processor>>
        BY <1>1, <2>2 DEF Start, Prime
      <3>2. to_process' = <<>> /\ processor' # "exited"
        BY <1>1, <3>1 DEF Start, Drained, DigitsInOrder, Alive
      <3> QED
        BY <3>1, <3>2, EmptySeq
        DEF NothingLost, ExitLast, CleanExitLosesNothing, Alive, Stopped
    <2> QED
      BY <2>1, <2>2
  <1>2. ASSUME NEW r \in Results, Submit(r)
        PROVE  NothingLost'
    BY <1>2, SubmitLost
  <1>3. CASE NothingNew \/ WriteHex
    BY <1>3, KeptIn DEF NothingNew, WriteHex
  <1>4. CASE UpdateStats
    <2>1. CASE Halt("terminated")
      BY <2>1, HaltLost
    <2>2. CASE ~Halt("terminated")
      BY <1>4, <2>2, KeptIn DEF UpdateStats
    <2> QED
      BY <2>1, <2>2
  <1>5. CASE Crash
    BY <1>5, HaltLost DEF Crash
  <1>6. CASE UNCHANGED vars
    BY <1>6 DEF vars, workVars, NothingLost, ExitLast, OnlyLastExits,
                CleanExitLosesNothing, Kept, In, Alive
  <1> QED
    BY <1>1, <1>2, <1>3, <1>4, <1>5, <1>6, PopResultLost, PopExitLost,
       TakeNextLost, BeginCloseLost, FinishCloseLost DEF Next, Processor

(* An orderly exit loses nothing: every submitted result that continues    *)
(* the file, even one still queued when the destructor ran, is in it.      *)
THEOREM LosesNothing == Spec => []CleanExitLosesNothing
  <1>1. Init => NothingLost
    BY DEF Init, NothingLost, ExitLast, CleanExitLosesNothing, Alive, Stopped
  <1>2. TypeOK /\ DigitsInOrder /\ Drained /\ NothingLost /\ [Next]_vars
          => NothingLost'
    BY NothingLostStep
  <1>3. NothingLost => CleanExitLosesNothing
    BY DEF NothingLost
  <1> QED
    BY <1>1, <1>2, <1>3, TypeCorrect, AlwaysInOrder, AlwaysDrained, PTL DEF Spec

-----------------------------------------------------------------------------
(* The statistics *)

(***************************************************************************)
(* The two strings update_stats measures are shorter than size_t can tell: *)
(* no std::string is longer.                                               *)
(***************************************************************************)
Fits == Len(disk) < SizeMod /\ Len(new_digits) < SizeMod

(* Digits that next_digit counts and the statistics do not, yet. *)
Unshown == IF processor \in {"process", "stats"} THEN Len(new_digits) ELSE 0

(***************************************************************************)
(* The inductive invariant: the statistics are those of the digits before  *)
(* the ones in process, and the window is either full or has no digit.     *)
(***************************************************************************)
WindowShown(shown, last) ==
    \/ shown = 0 /\ last = <<>>
    \/ Window <= shown /\ last = Digits(shown - Window, Window)

StatsBehind ==
    Alive =>
        /\ hex_digits_generated + Unshown = next_digit
        /\ WindowShown(hex_digits_generated, last_100_digits)
        /\ processor \in {"process", "stats"} =>
             new_digits = Digits(hex_digits_generated, Len(new_digits))

(* substr does not throw exactly when there are Window digits to return.   *)
LEMMA SubstrCuts ==
    ASSUME NEW l \in Nat, l < SizeMod + Window,
           NEW start \in Nat, ~SubstrThrows(Digits(start, l))
    PROVE  /\ Window <= l
           /\ LastDigits(Digits(start, l)) = Digits(start + l - Window, Window)
  <1> DEFINE s == Digits(start, l)
  <1>1. Len(s) = l /\ s \in Seq(Nat)
    BY DigitsType
  <1>2. /\ Window \in Nat /\ SizeMod \in Nat /\ Window < SizeMod
    BY WindowAssumption, SizeModAssumption
  <1>3. ~(SubstrPos(s) > l)
    BY <1>1 DEF SubstrThrows
  <1>4. SubstrPos(s) = (SizeMod + l - Window) % SizeMod
    BY <1>1 DEF SubstrPos
  <1>5. CASE l < Window
    <2>1. SizeMod + l - Window \in 0..(SizeMod - 1)
      BY <1>2, <1>5
    <2>2. (SizeMod + l - Window) % SizeMod = SizeMod + l - Window
      BY <1>2, <2>1
    <2> QED
      BY <1>2, <1>3, <1>4, <2>2
  <1>6. CASE Window <= l
    <2>1. l - Window \in 0..(SizeMod - 1)
      BY <1>2, <1>6
    <2>2. (SizeMod + (l - Window)) % SizeMod = l - Window
      BY <1>2, <2>1
    <2>3. SubstrPos(s) = l - Window
      BY <1>2, <1>4, <2>2, SizeMod + l - Window = SizeMod + (l - Window)
    <2>4. LastDigits(s) = SubSeq(s, (l - Window) + 1, l)
      BY <1>1, <2>3 DEF LastDigits
    <2>5. SubSeq(s, (l - Window) + 1, l)
            = Digits(start + (l - Window), l - (l - Window))
      <3>1. l - Window \in Nat /\ l - Window <= l
        BY <1>2, <1>6
      <3> QED
        BY <3>1, DigitsCut
    <2>6. start + (l - Window) = start + l - Window /\ l - (l - Window) = Window
      BY <1>2
    <2> QED
      BY <1>6, <2>4, <2>5, <2>6
  <1> QED
    BY <1>2, <1>5, <1>6

(* A start shows the digits read, or terminates. *)
LEMMA StartStats ==
    ASSUME TypeOK, DigitsInOrder, Fits, NEW o \in BOOLEAN, Start(o)
    PROVE  StatsBehind'
  <1>1. PICK initial : initial = PreviousDigits(o)
    OBVIOUS
  <1>2. initial = <<>> \/ initial = disk
    BY <1>1 DEF PreviousDigits, ReadHexDigits
  <1>3. PICK l \in Nat : l < SizeMod /\ initial = Digits(0, l) /\ Len(initial) = l
    <2>1. CASE initial = <<>>
      BY <2>1, DigitsEmpty, 0 \in Nat, SizeModAssumption, WindowAssumption
    <2>2. CASE initial = disk
      BY <2>2, LenProperties DEF Fits, TypeOK, DigitsInOrder, IsPiPrefix
    <2> QED
      BY <1>2, <2>1, <2>2
  <1>4. Prime(initial) /\ coord \in Stopped
    BY <1>1 DEF Start
  <1>5. CASE Halt("terminated")
    BY <1>5 DEF Halt, StatsBehind, Alive, Stopped
  <1>6. CASE ~Halt("terminated")
    <2>1. /\ initial # <<>> => ~SubstrThrows(initial)
          /\ coord' = "up"
          /\ next_digit' = l
          /\ hex_digits_generated' = l
          /\ last_100_digits' = IF initial = <<>> THEN <<>> ELSE LastDigits(initial)
          /\ processor' = "pop"
      BY <1>3, <1>4, <1>6 DEF Prime, DigitsInOrder, Alive
    <2>2. WindowShown(l, last_100_digits')
      <3>1. CASE initial = <<>>
        BY <1>3, <2>1, <3>1, DigitsEmpty DEF WindowShown
      <3>2. CASE initial # <<>>
        <4>1. Window <= l /\ last_100_digits' = Digits(0 + l - Window, Window)
          BY <1>3, <2>1, <3>2, SubstrCuts, 0 \in Nat, WindowAssumption,
             SizeModAssumption
        <4>2. 0 + l - Window = l - Window
          BY WindowAssumption
        <4> QED
          BY <4>1, <4>2 DEF WindowShown
      <3> QED
        BY <3>1, <3>2
    <2> QED
      BY <2>1, <2>2 DEF StatsBehind, Unshown
  <1> QED
    BY <1>5, <1>6

(* The result taken continues the digits in process. *)
LEMMA TakeNextStats ==
    ASSUME TypeOK, StatsBehind, TakeNext
    PROVE  StatsBehind'
  <1>1. PICK i \in FindNextWorkUnit :
            /\ new_digits' = new_digits \o Digits(processing_area[i].start,
                                                 processing_area[i].n)
            /\ next_digit' = next_digit + processing_area[i].n
    BY DEF TakeNext
  <1>2. /\ UNCHANGED <<coord, processor, hex_digits_generated, last_100_digits>>
        /\ Alive /\ processor = "process"
    BY DEF TakeNext, statVars
  <1>3. processing_area[i].start = next_digit /\ processing_area[i].n \in Nat
    <2>1. i \in 1..Len(processing_area)
      BY LenProperties DEF FindNextWorkUnit, TypeOK
    <2>2. processing_area[i] \in InternalResults
      BY <2>1, ElementOfSeq DEF TypeOK
    <2> QED
      BY <2>2 DEF FindNextWorkUnit, Needed, InternalResults
  <1>4. PICK m \in Nat : m = processing_area[i].n
    BY <1>3
  <1>5. PICK n \in Nat : n = Len(new_digits)
    BY LenProperties DEF TypeOK
  <1>6. PICK h \in Nat : h = hex_digits_generated
    BY DEF TypeOK
  <1>7. h + n = next_digit /\ new_digits = Digits(h, n)
        /\ WindowShown(h, last_100_digits)
    BY <1>2, <1>5, <1>6 DEF StatsBehind, Unshown
  <1>8. new_digits' = Digits(h, n) \o Digits(h + n, m)
    BY <1>1, <1>3, <1>4, <1>7
  <1>9. new_digits' = Digits(h, n + m) /\ Len(new_digits') = n + m
    BY <1>8, DigitsConcat
  <1>10. next_digit' = h + (n + m)
    BY <1>1, <1>4, <1>7
  <1> QED
    BY <1>2, <1>6, <1>7, <1>9, <1>10 DEF StatsBehind, Unshown

(* The statistics catch up with the digits written. *)
LEMMA UpdateStatsStats ==
    ASSUME TypeOK, StatsBehind, Fits, UpdateStats
    PROVE  StatsBehind'
  <1>1. Alive /\ processor = "stats"
    BY DEF UpdateStats
  <1>2. PICK n \in Nat : n = Len(new_digits) /\ n < SizeMod
    BY LenProperties DEF TypeOK, Fits
  <1>3. PICK h \in Nat : h = hex_digits_generated
    BY DEF TypeOK
  <1>4. h + n = next_digit /\ new_digits = Digits(h, n)
        /\ WindowShown(h, last_100_digits)
    BY <1>1, <1>2, <1>3 DEF StatsBehind, Unshown
  <1>5. CASE Halt("terminated")
    BY <1>5 DEF Halt, StatsBehind, Alive, Stopped
  <1>6. CASE ~Halt("terminated")
    <2>1. PICK tmp : tmp = last_100_digits \o new_digits
      OBVIOUS
    <2>2. /\ ~SubstrThrows(tmp)
          /\ hex_digits_generated' = next_digit
          /\ last_100_digits' = LastDigits(tmp)
          /\ processor' = "pop" /\ UNCHANGED next_digit
      BY <1>6, <2>1 DEF UpdateStats
    <2>3. WindowShown(h + n, last_100_digits')
      <3>0. Window \in Nat /\ SizeMod \in Nat
        BY WindowAssumption, SizeModAssumption
      <3>1. CASE h = 0 /\ last_100_digits = <<>>
        <4>1. tmp = Digits(0, n)
          BY <1>4, <2>1, <3>1, DigitsType, ConcatEmptySeq
        <4>2. Window <= n /\ last_100_digits' = Digits(0 + n - Window, Window)
          BY <1>2, <2>2, <3>0, <4>1, SubstrCuts, 0 \in Nat
        <4>3. 0 + n - Window = n - Window /\ h + n = n
          BY <3>0, <3>1
        <4> QED
          BY <4>2, <4>3 DEF WindowShown
      <3>2. CASE Window <= h /\ last_100_digits = Digits(h - Window, Window)
        <4>1. h - Window \in Nat /\ (h - Window) + Window = h
              /\ Window + n \in Nat
          BY <3>0, <3>2
        <4>2. tmp = Digits(h - Window, Window) \o Digits((h - Window) + Window, n)
          BY <1>4, <2>1, <3>2, <4>1
        <4>3. tmp = Digits(h - Window, Window + n)
          BY <3>0, <4>1, <4>2, DigitsConcat
        <4>4. Window + n < SizeMod + Window
          BY <1>2, <3>0
        <4>5. last_100_digits'
                = Digits((h - Window) + (Window + n) - Window, Window)
          BY <2>2, <4>1, <4>3, <4>4, SubstrCuts
        <4>6. (h - Window) + (Window + n) - Window = (h + n) - Window
              /\ Window <= h + n
          BY <3>0, <3>2
        <4> QED
          BY <4>5, <4>6 DEF WindowShown
      <3> QED
        BY <1>4, <3>1, <3>2 DEF WindowShown
    <2> QED
      BY <1>4, <2>2, <2>3 DEF StatsBehind, Unshown
  <1> QED
    BY <1>5, <1>6

(* Every step keeps the statistics behind the digits in process. *)
LEMMA StatsStep ==
    ASSUME TypeOK, DigitsInOrder, StatsBehind, Fits, [Next]_vars
    PROVE  StatsBehind'
  <1>1. ASSUME NEW r \in Results, Submit(r)
        PROVE  StatsBehind'
    BY <1>1 DEF Submit, statVars, StatsBehind, Unshown, Alive, Stopped
  <1>2. CASE PopResult
    <2>1. /\ Alive /\ processor = "pop" /\ processor' = "process"
          /\ new_digits' = <<>>
          /\ UNCHANGED <<next_digit, hex_digits_generated, last_100_digits, coord>>
      BY <1>2 DEF PopResult, statVars
    <2>2. new_digits' = Digits(hex_digits_generated, 0) /\ Len(new_digits') = 0
      BY <2>1, DigitsEmpty DEF TypeOK
    <2>3. hex_digits_generated + 0 = next_digit
      BY <2>1 DEF StatsBehind, Unshown
    <2> QED
      BY <2>1, <2>2, <2>3 DEF StatsBehind, Unshown
  <1>3. CASE NothingNew
    <2>1. /\ Alive /\ processor = "process" /\ processor' = "pop"
          /\ new_digits = <<>>
          /\ UNCHANGED <<next_digit, hex_digits_generated, last_100_digits, coord>>
      BY <1>3 DEF NothingNew, statVars
    <2>2. hex_digits_generated + 0 = next_digit
      BY <2>1, DigitsEmpty, 0 \in Nat DEF StatsBehind, Unshown
    <2> QED
      BY <2>1, <2>2 DEF StatsBehind, Unshown
  <1>4. CASE WriteHex
    BY <1>4 DEF WriteHex, statVars, StatsBehind, Unshown
  <1>5. CASE PopExit
    BY <1>5 DEF PopExit, statVars, StatsBehind, Unshown
  <1>6. CASE BeginClose
    BY <1>6 DEF BeginClose, statVars, StatsBehind, Unshown, Alive, Stopped
  <1>7. CASE FinishClose \/ Crash
    BY <1>7 DEF FinishClose, Crash, Halt, StatsBehind, Alive, Stopped
  <1>8. CASE UNCHANGED vars
    BY <1>8 DEF vars, workVars, statVars, StatsBehind, Unshown, Alive
  <1> QED
    BY <1>1, <1>2, <1>3, <1>4, <1>5, <1>6, <1>7, <1>8, StartStats,
       TakeNextStats, UpdateStatsStats DEF Next, Processor

(* What the statistics are of, when the processor waits. *)
LEMMA StatsAre ==
    ASSUME TypeOK, DigitsInOrder, OutputIsPrefix, StatsBehind
    PROVE  StatsFollowFile
  <1> SUFFICES ASSUME Alive PROVE StatsFollowFile
    BY DEF StatsFollowFile
  <1>1. PICK w \in Nat : w = Len(disk) + Len(stream)
    BY LenProperties DEF TypeOK
  <1>2. PICK h \in Nat : h = hex_digits_generated
    BY DEF TypeOK
  <1>3. Len(new_digits) \in Nat
    BY LenProperties DEF TypeOK
  <1>4. h + Unshown = next_digit /\ WindowShown(h, last_100_digits)
    BY <1>2 DEF StatsBehind
  <1>5. h <= w
    <2>1. next_digit = w + IF processor = "process" THEN Len(new_digits) ELSE 0
      BY <1>1 DEF DigitsInOrder
    <2>2. h + (IF processor \in {"process", "stats"} THEN Len(new_digits) ELSE 0)
            = next_digit
      BY <1>4 DEF Unshown
    <2> QED
      BY <1>3, <2>1, <2>2
  <1>6. ASSUME processor = "pop"
        PROVE  /\ h = w
               /\ w > 0 => last_100_digits = SubSeq(disk \o stream,
                                                    w - Window + 1, w)
    <2>1. h = w
      BY <1>1, <1>4, <1>6 DEF DigitsInOrder, Unshown
    <2>2. Window \in Nat
      BY WindowAssumption
    <2>3. ASSUME w > 0
          PROVE  last_100_digits = SubSeq(disk \o stream, w - Window + 1, w)
      <3>1. Window <= w /\ last_100_digits = Digits(w - Window, Window)
        BY <1>4, <2>1, <2>3 DEF WindowShown
      <3>2. disk \o stream = Digits(0, w)
        <4>1. Len(disk \o stream) = w
          BY <1>1, ConcatProperties DEF TypeOK
        <4> QED
          BY <4>1 DEF OutputIsPrefix, IsPiPrefix
      <3>3. w - Window \in Nat /\ w - Window <= w /\ w - (w - Window) = Window
            /\ 0 + (w - Window) = w - Window
        BY <2>2, <3>1
      <3>4. SubSeq(Digits(0, w), (w - Window) + 1, w)
              = Digits(0 + (w - Window), w - (w - Window))
        BY <3>3, DigitsCut, 0 \in Nat
      <3> QED
        BY <3>1, <3>2, <3>3, <3>4
    <2> QED
      BY <2>1, <2>3
  <1> QED
    BY <1>1, <1>2, <1>5, <1>6 DEF StatsFollowFile

(***************************************************************************)
(* The front end is never told of digits that were not handed to the file  *)
(* first, and when the processor is idle the statistics are exactly those  *)
(* of the file, as long as its strings fit size_t.                         *)
(***************************************************************************)
THEOREM StatsFollow == Spec /\ []Fits => []StatsFollowFile
  <1>1. Init => StatsBehind
    BY DEF Init, StatsBehind, Alive, Stopped
  <1>2. TypeOK /\ DigitsInOrder /\ StatsBehind /\ Fits /\ [Next]_vars
          => StatsBehind'
    BY StatsStep
  <1>3. TypeOK /\ DigitsInOrder /\ OutputIsPrefix /\ StatsBehind
          => StatsFollowFile
    BY StatsAre
  <1> QED
    BY <1>1, <1>2, <1>3, TypeCorrect, AlwaysInOrder, OutputCorrect, PTL DEF Spec
=============================================================================
