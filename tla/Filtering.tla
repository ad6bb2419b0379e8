------------------------------ MODULE Filtering ------------------------------
(***************************************************************************)
(* What [x for x in xs if x in some] makes: of a list, what is in a set.   *)
(***************************************************************************)
EXTENDS Sequences, SequencesExt

Only(list, some) ==
  FoldLeft(LAMBDA kept, entry : IF entry \in some THEN Append(kept, entry) ELSE kept, <<>>, list)

=============================================================================
