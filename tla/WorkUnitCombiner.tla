-------------------------- MODULE WorkUnitCombiner --------------------------
(***************************************************************************)
(* The coordinator's WorkUnitCombiner and FileWriter over several runs of  *)
(* the process.  Connection threads submit results, in any order and with  *)
(* repetitions, into the to_process queue; the processor thread keeps them *)
(* in the processing area until the digits before them are there, appends  *)
(* the digits that have become sequential to pi_hex.txt and refreshes the  *)
(* statistics.  The process may be stopped (the destructors run), may      *)
(* crash, and may be started again on the file it left.                    *)
(***************************************************************************)
EXTENDS PiDigits, SequencesExt

CONSTANTS
    Results,       \* work units whose results may arrive: records [start, n]
    InitialFiles,  \* lengths pi_hex.txt may have before the first start
    Window,        \* digits kept for the front end: 100 in the code
    SizeMod,       \* number of values of size_t: 2^64 in the code
    MaxHeld        \* bound: results queued or in the processing area

ASSUME ResultsAssumption == Results \subseteq [start : Nat, n : Nat]
ASSUME InitialFilesAssumption == InitialFiles \subseteq Nat
ASSUME WindowAssumption == Window \in Nat
ASSUME SizeModAssumption == SizeMod \in Nat /\ Window < SizeMod
ASSUME MaxHeldAssumption == MaxHeld \in Nat

VARIABLES
    disk,                  \* digits in pi_hex.txt
    stream,                \* digits in the ofstream's buffer
    to_process,            \* queue of results from the connection threads
    processing_area,       \* results the processor holds back
    next_digit,            \* first missing digit of pi
    new_digits,            \* the processor's local string of process()
    processor,             \* where the processor thread is
    hex_digits_generated,  \* statistics read by the front end
    last_100_digits,
    coord,                 \* the coordinator process
    overwrite,             \* its configuration's overwrite flag
    accepted               \* history: results submitted in this run

workVars == <<to_process, processing_area, next_digit, new_digits, processor>>
statVars == <<hex_digits_generated, last_100_digits>>
vars == <<disk, stream, workVars, statVars, coord, overwrite, accepted>>

Stopped == {"down", "closed", "terminated"}
Alive == coord \notin Stopped

InternalResults == [start : Nat, n : Nat, processor_exit : BOOLEAN]

(* Mutant: the exit result is one before the first digit. *)
ExitResultNegative == [start |-> 0 - 1, n |-> 0, processor_exit |-> TRUE]

(* The result that tells the processor to exit. *)
ExitResult == [start |-> 0, n |-> 0, processor_exit |-> TRUE]

Init ==
    /\ disk \in {Digits(0, n) : n \in InitialFiles}
    /\ stream = <<>>
    /\ to_process = <<>>
    /\ processing_area = <<>>
    /\ next_digit = 0
    /\ new_digits = <<>>
    /\ processor = "pop"
    /\ hex_digits_generated = 0
    /\ last_100_digits = <<>>
    /\ coord = "down"
    /\ overwrite = FALSE
    /\ accepted = {}

(***************************************************************************)
(* update_stats keeps the last Window digits.  The position handed to      *)
(* substr is a difference of unsigned numbers: it wraps around when there  *)
(* are fewer digits than that, and substr throws.  Nothing catches it, so  *)
(* the process terminates.                                                 *)
(***************************************************************************)
SubstrPos(s) == (SizeMod + Len(s) - Window) % SizeMod
SubstrThrows(s) == SubstrPos(s) > Len(s)
LastDigits(s) == SubSeq(s, SubstrPos(s) + 1, Len(s))

(* The process is gone, and with it everything that was not in the file. *)
Halt(state) ==
    /\ coord' = state
    /\ stream' = <<>>
    /\ to_process' = <<>>
    /\ processing_area' = <<>>
    /\ next_digit' = 0
    /\ new_digits' = <<>>
    /\ processor' = "pop"
    /\ hex_digits_generated' = 0
    /\ last_100_digits' = <<>>

(* The digits of an earlier run: the whole file, nothing without a file. *)
ReadHexDigits == disk
PreviousDigits(o) == IF o THEN <<>> ELSE ReadHexDigits

(* The file is opened to append, or emptied. *)
OpenFile(o) == disk' = IF o THEN <<>> ELSE disk

(* Mutant: next_digit is not set from the digits read. *)
PrimeUnset(initial) ==
    /\ coord' = "up"
    /\ UNCHANGED <<stream, workVars, statVars>>

(* The combiner is constructed and primed with the digits read. *)
Prime(initial) ==
    \/ /\ initial # <<>>
       /\ SubstrThrows(initial)
       /\ Halt("terminated")
    \/ /\ initial # <<>> => ~SubstrThrows(initial)
       /\ coord' = "up"
       /\ next_digit' = Len(initial)
       /\ hex_digits_generated' = Len(initial)
       /\ last_100_digits' = IF initial = <<>> THEN <<>> ELSE LastDigits(initial)
       /\ UNCHANGED <<stream, to_process, processing_area, new_digits, processor>>

(* The coordinator is started, with or without --overwrite. *)
Start(o) ==
    /\ coord \in Stopped
    /\ OpenFile(o)
    /\ Prime(PreviousDigits(o))
    /\ overwrite' = o
    /\ accepted' = {}

(* A connection thread hands over a result. *)
Submit(r) ==
    /\ coord = "up"
    /\ Len(to_process) + Len(processing_area) < MaxHeld
    /\ to_process' = Append(to_process,
                        [start |-> r.start, n |-> r.n, processor_exit |-> FALSE])
    /\ accepted' = accepted \union {r}
    /\ UNCHANGED <<disk, stream, processing_area, next_digit, new_digits,
                   processor, statVars, coord, overwrite>>

(* Mutant: a result is only stored, to be processed with a later one. *)
PopResultUnprocessed ==
    /\ Alive
    /\ processor = "pop"
    /\ to_process # <<>>
    /\ ~Head(to_process).processor_exit
    /\ to_process' = Tail(to_process)
    /\ processing_area' = Append(processing_area, Head(to_process))
    /\ UNCHANGED <<disk, stream, next_digit, new_digits, processor, statVars,
                   coord, overwrite, accepted>>

(***************************************************************************)
(* The processor thread.                                                   *)
(***************************************************************************)
PopResult ==
    /\ Alive
    /\ processor = "pop"
    /\ to_process # <<>>
    /\ ~Head(to_process).processor_exit
    /\ to_process' = Tail(to_process)
    /\ processing_area' = Append(processing_area, Head(to_process))
    /\ new_digits' = <<>>
    /\ processor' = "process"
    /\ UNCHANGED <<disk, stream, next_digit, statVars, coord, overwrite, accepted>>

(* Mutant: the processor exits only with an empty processing area. *)
PopExitWhenEmpty ==
    /\ Alive
    /\ processor = "pop"
    /\ processing_area = <<>>
    /\ to_process # <<>>
    /\ Head(to_process).processor_exit
    /\ to_process' = Tail(to_process)
    /\ processor' = "exited"
    /\ UNCHANGED <<disk, stream, processing_area, next_digit, new_digits,
                   statVars, coord, overwrite, accepted>>

PopExit ==
    /\ Alive
    /\ processor = "pop"
    /\ to_process # <<>>
    /\ Head(to_process).processor_exit
    /\ to_process' = Tail(to_process)
    /\ processor' = "exited"
    /\ UNCHANGED <<disk, stream, processing_area, next_digit, new_digits,
                   statVars, coord, overwrite, accepted>>

(* Mutant: a result that overlaps what is there is taken too. *)
NeededOverlap(r) == r.start <= next_digit

(* find_next_work_unit: the needed result that was added first. *)
Needed(r) == r.start = next_digit
FindNextWorkUnit ==
    {i \in DOMAIN processing_area :
        /\ Needed(processing_area[i])
        /\ \A j \in 1..(i - 1) : ~Needed(processing_area[j])}

(* It returns end(): nothing in the processing area is needed. *)
NoneNeeded == \A i \in DOMAIN processing_area : ~Needed(processing_area[i])

(* Mutant: the statistics follow next_digit, before the digits are written. *)
TakeNextCounted ==
    /\ Alive
    /\ processor = "process"
    /\ \E i \in FindNextWorkUnit :
         /\ new_digits' = new_digits \o Digits(processing_area[i].start,
                                              processing_area[i].n)
         /\ next_digit' = next_digit + processing_area[i].n
         /\ hex_digits_generated' = next_digit + processing_area[i].n
         /\ processing_area' = RemoveAt(processing_area, i)
    /\ UNCHANGED <<disk, stream, to_process, processor, last_100_digits, coord,
                   overwrite, accepted>>

(* One turn of the loop of process(). *)
TakeNext ==
    /\ Alive
    /\ processor = "process"
    /\ \E i \in FindNextWorkUnit :
         /\ new_digits' = new_digits \o Digits(processing_area[i].start,
                                              processing_area[i].n)
         /\ next_digit' = next_digit + processing_area[i].n
         /\ processing_area' = RemoveAt(processing_area, i)
    /\ UNCHANGED <<disk, stream, to_process, processor, statVars, coord, overwrite,
                   accepted>>

(* The loop ends without new digits. *)
NothingNew ==
    /\ Alive
    /\ processor = "process"
    /\ NoneNeeded
    /\ new_digits = <<>>
    /\ processor' = "pop"
    /\ UNCHANGED <<disk, stream, to_process, processing_area, next_digit,
                   new_digits, statVars, coord, overwrite, accepted>>

(* Mutant: process() writes after the first result it finds. *)
WriteHexEarly ==
    /\ Alive
    /\ processor = "process"
    /\ new_digits # <<>>
    /\ stream' = stream \o new_digits
    /\ processor' = "stats"
    /\ UNCHANGED <<disk, to_process, processing_area, next_digit, new_digits,
                   statVars, coord, overwrite, accepted>>

(* Mutant: the new digits go to the file past those still buffered. *)
WriteHexUnordered ==
    /\ Alive
    /\ processor = "process"
    /\ NoneNeeded
    /\ new_digits # <<>>
    /\ \/ disk' = disk \o new_digits /\ UNCHANGED stream
       \/ stream' = stream \o new_digits /\ UNCHANGED disk
    /\ processor' = "stats"
    /\ UNCHANGED <<to_process, processing_area, next_digit, new_digits,
                   statVars, coord, overwrite, accepted>>

(***************************************************************************)
(* The loop ends with new digits: write_hex.  The ofstream keeps any       *)
(* suffix of what it was given in its buffer.                              *)
(***************************************************************************)
WriteHex ==
    /\ Alive
    /\ processor = "process"
    /\ NoneNeeded
    /\ new_digits # <<>>
    /\ LET given == stream \o new_digits IN
         \E k \in 0..Len(given) :
           /\ disk' = disk \o SubSeq(given, 1, k)
           /\ stream' = SubSeq(given, k + 1, Len(given))
    /\ processor' = "stats"
    /\ UNCHANGED <<to_process, processing_area, next_digit, new_digits,
                   statVars, coord, overwrite, accepted>>

UpdateStats ==
    /\ Alive
    /\ processor = "stats"
    /\ LET tmp == last_100_digits \o new_digits IN
         IF SubstrThrows(tmp)
         THEN Halt("terminated")
         ELSE /\ hex_digits_generated' = next_digit
              /\ last_100_digits' = LastDigits(tmp)
              /\ new_digits' = <<>>
              /\ processor' = "pop"
              /\ UNCHANGED <<stream, to_process, processing_area, next_digit,
                             coord>>
    /\ UNCHANGED <<disk, overwrite, accepted>>

(* Mutant: the exit result overtakes the results still queued. *)
BeginCloseFirst ==
    /\ coord = "up"
    /\ to_process' = <<ExitResult>> \o to_process
    /\ coord' = "closing"
    /\ UNCHANGED <<disk, stream, processing_area, next_digit, new_digits,
                   processor, statVars, overwrite, accepted>>

(***************************************************************************)
(* The process ends.  On CTRL-C the server and the manager are destroyed   *)
(* first, so nothing is submitted any more; then the combiner's destructor *)
(* sends the exit result and joins, and the file is closed.                *)
(***************************************************************************)
BeginClose ==
    /\ coord = "up"
    /\ to_process' = Append(to_process, ExitResult)
    /\ coord' = "closing"
    /\ UNCHANGED <<disk, stream, processing_area, next_digit, new_digits,
                   processor, statVars, overwrite, accepted>>

FinishClose ==
    /\ coord = "closing"
    /\ processor = "exited"
    /\ disk' = disk \o stream
    /\ Halt("closed")
    /\ UNCHANGED <<overwrite, accepted>>

(* The process is killed at any point. *)
Crash ==
    /\ Alive
    /\ Halt("down")
    /\ UNCHANGED <<disk, overwrite, accepted>>

Processor ==
    PopResult \/ PopExit \/ TakeNext \/ NothingNew \/ WriteHex \/ UpdateStats

Next ==
    \/ \E o \in BOOLEAN : Start(o)
    \/ \E r \in Results : Submit(r)
    \/ Processor
    \/ BeginClose
    \/ FinishClose
    \/ Crash

Spec == Init /\ [][Next]_vars

(***************************************************************************)
(* The processor and the thread that runs the destructors are scheduled by *)
(* the operating system; nothing obliges workers, operators or crashes.    *)
(***************************************************************************)
FairSpec == Spec /\ WF_vars(Processor) /\ WF_vars(FinishClose)

-----------------------------------------------------------------------------

TypeOK ==
    /\ disk \in Seq(Nat)
    /\ stream \in Seq(Nat)
    /\ to_process \in Seq(InternalResults)
    /\ processing_area \in Seq(InternalResults)
    /\ next_digit \in Nat
    /\ new_digits \in Seq(Nat)
    /\ processor \in {"pop", "process", "stats", "exited"}
    /\ hex_digits_generated \in Nat
    /\ last_100_digits \in Seq(Nat)
    /\ coord \in {"up", "closing"} \union Stopped
    /\ overwrite \in BOOLEAN
    /\ accepted \subseteq Results

(***************************************************************************)
(* pi_hex.txt, and what its stream holds after it, are the first digits of *)
(* pi: results that arrive out of order, twice, with overlaps, or after a  *)
(* restart never leave a gap or a repetition in the file.                  *)
(***************************************************************************)
OutputIsPrefix == IsPiPrefix(disk) /\ IsPiPrefix(disk \o stream)

(***************************************************************************)
(* The processor never goes back to waiting on the queue while it holds    *)
(* the result that comes next: the loop of process() drains the area.      *)
(***************************************************************************)
NothingNeededHeld ==
    Alive /\ processor = "pop" => NoneNeeded

(***************************************************************************)
(* The front end is never told of digits that were not handed to the file  *)
(* first, and when the processor is idle the statistics are exactly those  *)
(* of the file: its length and its last Window digits.                     *)
(***************************************************************************)
StatsFollowFile ==
    LET written == Len(disk) + Len(stream) IN
    Alive =>
        /\ hex_digits_generated <= written
        /\ processor = "pop" =>
             /\ hex_digits_generated = written
             /\ written > 0 =>
                  last_100_digits = SubSeq(disk \o stream,
                                           written - Window + 1, written)

(***************************************************************************)
(* An orderly exit loses nothing: every submitted result that continues    *)
(* the file, even one still queued when the destructor ran, is in it.      *)
(***************************************************************************)
CleanExitLosesNothing ==
    coord = "closed" =>
        \A r \in accepted : r.n > 0 => r.start # Len(disk)

(***************************************************************************)
(* Whatever happens to the process, digits in the file stay there, unless  *)
(* the operator starts with --overwrite.                                   *)
(***************************************************************************)
FileOnlyGrows ==
    [][IsPrefix(disk, disk') \/ (coord \in Stopped /\ overwrite')]_vars

(***************************************************************************)
(* The inductive invariant: file, stream and the digits not yet written    *)
(* make up the first next_digit digits of pi.                              *)
(***************************************************************************)
DigitsInOrder ==
    /\ IsPiPrefix(disk)
    /\ stream = Digits(Len(disk), Len(stream))
    /\ processor = "process" =>
         new_digits = Digits(Len(disk) + Len(stream), Len(new_digits))
    /\ Alive => next_digit = Len(disk) + Len(stream)
                             + IF processor = "process" THEN Len(new_digits) ELSE 0
    /\ ~Alive => stream = <<>> /\ processor = "pop"

(* The output file behaves as PiFile promises. *)
OutputFile == INSTANCE PiFile WITH file <- disk, pending <- stream
ImplementsPiFile == OutputFile!FileSpec

(***************************************************************************)
(* A result that is needed next is eventually appended, unless the process *)
(* stops first.                                                            *)
(***************************************************************************)
NeededIsWritten ==
    \A r \in Results :
        (coord = "up" /\ r \in accepted /\ r.n > 0 /\ r.start = next_digit)
            ~> (Len(disk) + Len(stream) > r.start \/ coord # "up")

(* The destructor's join() returns: an orderly exit completes. *)
CloseCompletes == coord = "closing" ~> coord \in Stopped
=============================================================================
