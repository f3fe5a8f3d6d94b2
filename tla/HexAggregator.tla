----------------------------- MODULE HexAggregator -----------------------------
(***************************************************************************)
(* hex2dec's conversion of hexadecimal digits of pi to decimal ones: digits*)
(* are inserted one after the other, and get_dec returns those decimal     *)
(* digits that no later hexadecimal digit can change.                      *)
(*                                                                         *)
(* result and power_of_16 are exact binary fractions: their precision      *)
(* grows with each digit and all their decimals are printed.  The latter   *)
(* is 1 over a power of 16, and both have this denominator, which is       *)
(* called power_of_16 here.  Decimals are found by long division.          *)
(***************************************************************************)
EXTENDS Integers, SequencesExt, FiniteSetsExt

CONSTANTS
    HexDigits,  \* hexadecimal digits after the first
    MaxDigits   \* bound: digits inserted

ASSUME HexDigitsAssumption == HexDigits \subseteq 0..15
ASSUME MaxDigitsAssumption == MaxDigits \in Nat \ {0}

VARIABLES
    digit_count,
    result,       \* its numerator
    power_of_16,  \* the denominator: what one is divided by
    got           \* what get_dec returned last, and after how many digits

vars == <<digit_count, result, power_of_16, got>>

Init ==
    /\ digit_count = 0
    /\ result = 0
    /\ power_of_16 = 1
    /\ got = [dec |-> <<>>, after |-> 0]

(* The remainders of the long division of num by den. *)
Remainders(num, den) ==
    LET remainder[j \in Nat] ==
            IF j = 0 THEN num % den ELSE (10 * remainder[j - 1]) % den
    IN  remainder

(* The i-th decimal of num / den. *)
Decimal(num, den, i) == (10 * Remainders(num, den)[i - 1]) \div den

(* The strings are cut to 2 * digit_count + 1 characters. *)
Length == 2 * digit_count + 1

(* Where the first decimal of power_of_16 that is not 0 is, in its string, *)
(* of which the first two characters are "0.".                             *)
FirstNonZero ==
    Min({n \in 2..Length : n = Length \/ Decimal(1, power_of_16, n - 1) # 0}
          \union IF Length < 2 THEN {2} ELSE {})

Places == Max({FirstNonZero, 3}) - 3

(* Mutant: a carry is not thought of. *)
n_digits_dec_carrying == Places

(* A carry into a 9 or an 8 might go on to the decimals before it. *)
n_digits_dec ==
    Max({n \in 0..Places :
           n = 0 \/ Decimal(result, power_of_16, n) \notin {8, 9}})

(* The first n + 1 characters of result: digit, point, n - 1 decimals. *)
get_dec_string(n) ==
    <<result \div power_of_16>>
      \o [i \in 1..(n - 1) |-> Decimal(result, power_of_16, i)]

insert_digit(digit) ==
    /\ digit_count < MaxDigits
    /\ digit_count' = digit_count + 1
    /\ result' = 16 * (result + digit)
    /\ power_of_16' = 16 * power_of_16
    /\ UNCHANGED got

get_dec ==
    /\ got' = [dec |-> get_dec_string(n_digits_dec), after |-> digit_count]
    /\ UNCHANGED <<digit_count, result, power_of_16>>

(* The first digit of pi is 3. *)
Next ==
    \/ \E digit \in IF digit_count = 0 THEN {3} ELSE HexDigits :
          insert_digit(digit)
    \/ get_dec

Spec == Init /\ [][Next]_vars

-----------------------------------------------------------------------------

(***************************************************************************)
(* "Get string of certain decimal digits": what get_dec returned are the   *)
(* first digits of result ever after, whatever is inserted.  (Without any  *)
(* digit it returns "0", for an empty file.)                               *)
(***************************************************************************)
DigitsCertain ==
    got.after > 0 => IsPrefix(got.dec, get_dec_string(Len(got.dec)))
=============================================================================
