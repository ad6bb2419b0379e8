------------------------------- MODULE MCPins -------------------------------
(***************************************************************************)
(* Three patches at once of pins that hold two guides and one that is      *)
(* gone; two attempts each, so that one may see the list change under both.*)
(***************************************************************************)
EXTENDS Pins, TLC

CONSTANTS a, b, c, x

MCGuides == {a, b, c, x}
MCExisting == {a, b, c}
MCInitialPins == <<a, x, b>>

Symmetry == Permutations(Requests)

=============================================================================
