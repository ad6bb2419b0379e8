----------------------------- MODULE PinnedList -----------------------------
(***************************************************************************)
(* What PATCH /users/{id}/pins promises however many patches are made at   *)
(* once: each is applied whole, in one step, to the pins as they then are, *)
(* or refused for what they then are, or given up.  Pins implements this.  *)
(***************************************************************************)
EXTENDS JsonPatch

CONSTANTS
  Requests,
  InitialPins

VARIABLES
  pins,      \* the user's pins
  asked,     \* Requests -> the patch each carries, <<>> before it is sent
  answer     \* Requests -> what each came to, "none" before it is answered

vars == <<pins, asked, answer>>

Init ==
  /\ pins = InitialPins
  /\ asked = [r \in Requests |-> <<>>]
  /\ answer = [r \in Requests |-> "none"]

Ask(r) ==
  /\ asked[r] = <<>>
  /\ asked' = [asked EXCEPT ![r] = asked'[r]]
  /\ UNCHANGED <<pins, answer>>

Patch(r) ==
  /\ answer[r] = "none" /\ asked[r] # <<>>
  /\ LET made == Applied(Live(pins), asked[r])
     IN  \/ /\ made.is = "patched" /\ GuidesAdded(asked[r]) \subseteq Existing
            /\ pins' = made.list
            /\ answer' = [answer EXCEPT ![r] = "patched"]
         \/ /\ made.is # "patched"
            /\ answer' = [answer EXCEPT ![r] = made.is]
            /\ UNCHANGED pins
         \/ /\ ~(GuidesAdded(asked[r]) \subseteq Existing)
            /\ answer' = [answer EXCEPT ![r] = "refused"]
            /\ UNCHANGED pins
  /\ UNCHANGED asked

GiveUp(r) ==
  /\ answer[r] = "none" /\ asked[r] # <<>>
  /\ answer' = [answer EXCEPT ![r] = "changing"]
  /\ UNCHANGED <<pins, asked>>

Next == \E r \in Requests : Ask(r) \/ Patch(r) \/ GiveUp(r)

Spec == Init /\ [][Next]_vars

=============================================================================
