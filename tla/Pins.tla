-------------------------------- MODULE Pins --------------------------------
(***************************************************************************)
(* PATCH /users/{id}/pins: a patch made on a page that showed the pins is  *)
(* applied by compare-and-set.  The handler reads the user and leaves out  *)
(* of their pins the guides that are gone; then it reads the list, makes   *)
(* the new one, and writes it if the record still holds what was read,     *)
(* trying again a bounded number of times if not.                          *)
(***************************************************************************)
EXTENDS JsonPatch, FiniteSets

CONSTANTS
  Requests,        \* one patch each, any number of them at once
  InitialPins,     \* what the user has pinned already
  PATCH_ATTEMPTS   \* how often a patch is tried

ASSUME PinsAssumption ==
  /\ IsFiniteSet(Requests)
  /\ InitialPins \in Seq(Guides) /\ Distinct(InitialPins)
  /\ PATCH_ATTEMPTS \in Nat \ {0}

VARIABLES
  pins,      \* the record's list
  request    \* Requests -> where each handler has got to

vars == <<pins, request>>

Answers == {"patched", "refused", "stale", "changing"}

Handler == [pc    : {"idle", "finding", "reading", "writing"} \cup Answers,
            patch : Seq(PatchOperation),
            shown : Seq(Guides),         \* the page the patch was made on: history
            gone  : SUBSET Guides,
            read  : Seq(Guides),
            tries : 0 .. PATCH_ATTEMPTS - 1]

\* The list holds guides and each handler is at a step of patch_pins, within
\* its attempts.
TypeOK ==
  /\ pins \in Seq(Guides)
  /\ request \in [Requests -> Handler]

Init ==
  /\ pins = InitialPins
  /\ request = [r \in Requests |->
       [pc |-> "idle", patch |-> <<>>, shown |-> <<>>, gone |-> {}, read |-> <<>>, tries |-> 0]]

-----------------------------------------------------------------------------
(* The page                                                                *)

Pin(guide) == <<[op |-> "add", path |-> 0, value |-> guide]>>

Unpin(page, i) == <<[op |-> "test", path |-> i, value |-> page[i + 1]],
                    [op |-> "remove", path |-> i]>>

Reorder(page, i, j) == <<[op |-> "test", path |-> i, value |-> page[i + 1]],
                         [op |-> "move", from |-> i, path |-> j]>>

\* A patch whose test comes after a change.
PinAbove(page, guide) == <<[op |-> "add", path |-> 0, value |-> guide],
                           [op |-> "test", path |-> 1, value |-> page[1]]>>

MoveFirstToEnd == <<[op |-> "move", from |-> 0, path |-> END]>>

PatchesOn(page) ==
  LET shown == 0 .. Len(page) - 1
  IN  {Pin(guide) : guide \in Guides}
        \cup {Unpin(page, i) : i \in shown}
        \cup {Reorder(page, i, j) : i, j \in shown}
        \cup {PinAbove(page, guide) : guide \in IF page = <<>> THEN {} ELSE Guides}
        \cup {MoveFirstToEnd}

\* The hub asks for the pins, and some time later sends a patch of them.
Ask(r) ==
  /\ request[r].pc = "idle"
  /\ \E patch \in PatchesOn(Live(pins)) :
       request' = [request EXCEPT ![r].pc = "finding",
                     ![r].patch = patch, ![r].shown = Live(pins)]
  /\ UNCHANGED pins

-----------------------------------------------------------------------------
(* The handler                                                             *)

Answer(r, outcome) == [request EXCEPT ![r].pc = outcome, ![r].read = <<>>, ![r].gone = {}]

\* The user is found, and which of their guides are gone; a guide to pin that
\* does not exist is refused.
Find(r) ==
  /\ request[r].pc = "finding"
  /\ request' =
       IF GuidesAdded(request[r].patch) \subseteq Existing
       THEN [request EXCEPT ![r].pc = "reading", ![r].gone = Pinned(pins) \ Existing]
       ELSE Answer(r, "refused")
  /\ UNCHANGED pins

\* What the patch makes of the list that was read.
PatchedBy(r, list) == Applied(Without(list, request[r].gone), request[r].patch)

Read(r) ==
  /\ request[r].pc = "reading"
  /\ LET made == PatchedBy(r, pins)
     IN  request' = IF made.is = "patched"
                    THEN [request EXCEPT ![r].pc = "writing", ![r].read = pins]
                    ELSE Answer(r, made.is)
  /\ UNCHANGED pins

\* Mutant of Write: the list is written whatever the record now holds.
WriteAnyway(r) ==
  /\ request[r].pc = "writing"
  /\ pins' = PatchedBy(r, request[r].read).list
  /\ request' = Answer(r, "patched")

\* Mutant of Write: it is tried for as long as the list changes.
WriteUntilItHolds(r) ==
  /\ request[r].pc = "writing"
  /\ IF pins = request[r].read
     THEN /\ pins' = PatchedBy(r, request[r].read).list
          /\ request' = Answer(r, "patched")
     ELSE /\ request' = [request EXCEPT ![r].pc = "reading", ![r].read = <<>>, ![r].tries = @ + 1]
          /\ UNCHANGED pins

\* Mutant of Write: one attempt too few.
WriteOneTryLess(r) ==
  /\ request[r].pc = "writing"
  /\ IF pins = request[r].read
     THEN /\ pins' = PatchedBy(r, request[r].read).list
          /\ request' = Answer(r, "patched")
     ELSE /\ request' = IF request[r].tries + 2 >= PATCH_ATTEMPTS
                        THEN Answer(r, "changing")
                        ELSE [request EXCEPT ![r].pc = "reading", ![r].read = <<>>,
                                             ![r].tries = @ + 1]
          /\ UNCHANGED pins

\* The write is made only on the list that was read.
Write(r) ==
  /\ request[r].pc = "writing"
  /\ IF pins = request[r].read
     THEN /\ pins' = PatchedBy(r, request[r].read).list
          /\ request' = Answer(r, "patched")
     ELSE /\ request' = IF request[r].tries + 1 = PATCH_ATTEMPTS
                        THEN Answer(r, "changing")
                        ELSE [request EXCEPT ![r].pc = "reading", ![r].read = <<>>,
                                             ![r].tries = @ + 1]
          /\ UNCHANGED pins

Next == \E r \in Requests : Ask(r) \/ Find(r) \/ Read(r) \/ Write(r)

Spec == Init /\ [][Next]_vars

-----------------------------------------------------------------------------
(* Properties                                                              *)

\* No history of patches pins a guide twice (pins.py applied), though each was
\* made on a page that may be out of date.
NoGuideTwice == \A i, j \in DOMAIN pins : i # j => pins[i] # pins[j]

\* A moved guide ends at the position named, and the rest keep their order:
\* the position is one in the list that results (json_patch.py _move).
MovedWhereAsked ==
  \A i, j \in 0 .. Len(pins) - 1 :
    LET made == PatchMove(pins, i, j)
    IN  /\ made.list[j + 1] = pins[i + 1]
        /\ RemoveAt(made.list, j + 1) = RemoveAt(pins, i + 1)

Patched == {r \in Requests : request[r].pc = "patched"}

\* A patch is told that the list kept changing only when that many patches of
\* others were applied meanwhile (records.py _patch_list).
GivesUpOnlyOnChanges ==
  \A r \in Requests : request[r].pc = "changing" =>
    Cardinality(Patched) >= PATCH_ATTEMPTS

\* A guide leaves the pins only if it is gone, or by a patch that removes a
\* position at which the page it was made on showed that very guide: the test
\* before the remove guards it, however the pins moved since.
UnpinsTheGuideShown ==
  [][\A guide \in (Pinned(pins) \cap Existing) \ Pinned(pins') :
       \E r \in Requests : \E i \in DOMAIN request[r].shown :
         /\ request[r].pc = "writing" /\ request'[r].pc = "patched"
         /\ request[r].shown[i] = guide
         /\ request[r].patch = Unpin(request[r].shown, i - 1)]_vars

\* Patches made at once each apply whole to the pins as they are, none lost
\* and none undone.
Abstract == INSTANCE PinnedList WITH
  asked  <- [r \in Requests |-> request[r].patch],
  answer <- [r \in Requests |-> IF request[r].pc \in Answers THEN request[r].pc ELSE "none"]

PatchesAtOnce == Abstract!Spec

=============================================================================
