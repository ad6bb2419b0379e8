------------------------------ MODULE Numerals ------------------------------
(***************************************************************************)
(* How the parser prints a number, as the sequence of its digits: str(n)   *)
(* of a section's number, of a list item's marker and of an anchor's       *)
(* suffix.  The program prints them in base ten.                           *)
(***************************************************************************)
EXTENDS Integers, Sequences

CONSTANT RADIX

ASSUME NumeralsAssumption == RADIX \in Nat \ {0, 1}

Digits[n \in Nat] == IF n < RADIX THEN <<n>> ELSE Append(Digits[n \div RADIX], n % RADIX)

=============================================================================
