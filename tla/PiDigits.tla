------------------------------ MODULE PiDigits ------------------------------
(***************************************************************************)
(* The data every component exchanges.  A hexadecimal digit of pi is       *)
(* modelled by its position (position 0 is the 3 before the point), so a   *)
(* string of digits is the sequence of the positions it covers, and a gap, *)
(* a repetition or a reordering in it is visible.                          *)
(***************************************************************************)
EXTENDS Naturals, Sequences

(* The n digits of pi that begin at position start: what a worker computes *)
(* for the work unit [start, n].                                           *)
Digits(start, n) == [i \in 1..n |-> start + i - 1]

(* A string that holds the first digits of pi and nothing else. *)
IsPiPrefix(s) == s = Digits(0, Len(s))
=============================================================================
