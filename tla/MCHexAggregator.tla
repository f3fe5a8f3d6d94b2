---------------------------- MODULE MCHexAggregator ----------------------------
EXTENDS HexAggregator

(* Every hexadecimal digit. *)
AllDigits == 0..15
=============================================================================
