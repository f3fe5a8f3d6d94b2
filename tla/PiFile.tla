------------------------------- MODULE PiFile -------------------------------
(***************************************************************************)
(* What the coordinator promises about its output, pi_hex.txt: the file    *)
(* and what has been handed to its stream are, together, the first digits  *)
(* of pi; digits are only ever added at the end; a digit that reached the  *)
(* file is lost only by a start with --overwrite.  Digits still buffered   *)
(* in the process may be lost with it.                                     *)
(***************************************************************************)
EXTENDS PiDigits, SequencesExt

CONSTANT
    InitialFiles   \* lengths the file may have before the first start

VARIABLES
    file,          \* digits in the file
    pending        \* digits handed to the stream that are not in the file yet

fileVars == <<file, pending>>

FileInit ==
    /\ file \in {Digits(0, n) : n \in InitialFiles}
    /\ pending = <<>>

(* Digits are added; the stream passes any prefix of what it holds on. *)
Write ==
    /\ Len(file) + Len(pending) < Len(file') + Len(pending')
    /\ IsPiPrefix(file' \o pending')
    /\ IsPrefix(file, file')

(* The stream is closed: everything it held is in the file. *)
Close ==
    /\ file' = file \o pending
    /\ pending' = <<>>

(* The process dies with digits in its buffer. *)
Lose ==
    /\ pending' = <<>>
    /\ UNCHANGED file

(* A start with --overwrite empties the file. *)
Truncate ==
    /\ file' = <<>>
    /\ pending' = <<>>

FileNext == Write \/ Close \/ Lose \/ Truncate

FileSpec == FileInit /\ [][FileNext]_fileVars
=============================================================================
