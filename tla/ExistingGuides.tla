--------------------------- MODULE ExistingGuides ---------------------------
(***************************************************************************)
(* The guides that a user's record or a request may name, and which of     *)
(* them there are: the program never removes one, and a pin that names     *)
(* none was left by hand.                                                  *)
(***************************************************************************)
CONSTANTS
  Guides,     \* every guide a pin, a patch or an opening may name
  Existing    \* those that exist

ASSUME GuidesAssumption == Existing \subseteq Guides

=============================================================================
