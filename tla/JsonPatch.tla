----------------------------- MODULE JsonPatch -----------------------------
(***************************************************************************)
(* JSON Patch on a user's pins: the four operations of users/json_patch.py *)
(* on the positions of a list, which is all users/pins.py lets them reach. *)
(* Positions count from 0, as in a patch; pointers' spelling is left out.  *)
(***************************************************************************)
EXTENDS ExistingGuides, Integers, Filtering

END == -1     \* the position "-"

PatchOperation ==
  [op : {"add", "test"}, path : Int, value : Guides]
    \cup [op : {"remove"}, path : Int]
    \cup [op : {"move"}, from : Int, path : Int]

\* What applying an operation, or a patch, comes to.
Made(list) == [is |-> "patched", list |-> list]
PatchRefused == [is |-> "refused", list |-> <<>>]
PatchTestFailed == [is |-> "stale", list |-> <<>>]

IsIndex(list, position) == position \in 0 .. Len(list) - 1

PatchAdd(list, path, value) ==
  IF path = END THEN Made(Append(list, value))
  ELSE IF path \in 0 .. Len(list) THEN Made(InsertAt(list, path + 1, value))
  ELSE PatchRefused

PatchRemove(list, path) ==
  IF IsIndex(list, path) THEN Made(RemoveAt(list, path + 1)) ELSE PatchRefused

\* Mutant of PatchMove: the target is read in the list as it was, with the guide.
MoveBefore(list, from, path) ==
  IF IsIndex(list, from)
  THEN PatchAdd(RemoveAt(list, from + 1), IF path > from THEN path - 1 ELSE path, list[from + 1])
  ELSE PatchRefused

\* The target is read in what is left when the guide is out.
PatchMove(list, from, path) ==
  IF IsIndex(list, from)
  THEN PatchAdd(RemoveAt(list, from + 1), path, list[from + 1])
  ELSE PatchRefused

\* Mutant of PatchTest: it finds the guide wherever it now is.
TestAnywhere(list, path, value) ==
  IF \E i \in DOMAIN list : list[i] = value THEN Made(list) ELSE PatchTestFailed

PatchTest(list, path, value) ==
  IF IsIndex(list, path) /\ list[path + 1] = value THEN Made(list) ELSE PatchTestFailed

\* One operation on what those before it made; nothing follows a failure.
Apply(made, operation) ==
  IF made.is # "patched" THEN made
  ELSE CASE operation.op = "add" -> PatchAdd(made.list, operation.path, operation.value)
         [] operation.op = "remove" -> PatchRemove(made.list, operation.path)
         [] operation.op = "move" -> PatchMove(made.list, operation.from, operation.path)
         [] operation.op = "test" -> PatchTest(made.list, operation.path, operation.value)

Distinct(list) == \A i, j \in DOMAIN list : list[i] = list[j] => i = j

\* Mutant of Applied: a guide may be pinned twice.
AppliedUnchecked(list, patch) == FoldLeft(Apply, Made(list), patch)

\* The pins once a patch is applied, each guide at most once.
Applied(list, patch) ==
  LET made == FoldLeft(Apply, Made(list), patch)
  IN  IF made.is = "stale" THEN PatchTestFailed
      ELSE IF made.is = "patched" /\ Distinct(made.list) THEN Made(made.list)
      ELSE PatchRefused

GuidesAdded(patch) == {patch[i].value : i \in {j \in DOMAIN patch : patch[j].op = "add"}}

\* The guides on a list.
Pinned(list) == {list[i] : i \in DOMAIN list}

\* A list with some guides left out, the others in their order.
Without(list, gone) == Only(list, Pinned(list) \ gone)

\* The pins as a page shows them, and as a patch counts positions.
Live(list) == Only(list, Existing)

=============================================================================
