---------------------------- MODULE GuideCommit ----------------------------
(***************************************************************************)
(* What POST /guides promises, whatever is retried, raced or interrupted:  *)
(* an upload becomes one guide, all at once, and every answer about the    *)
(* upload is that guide.  GuideCreation is shown to implement this.        *)
(***************************************************************************)
CONSTANTS
  Uploads,
  Guides     \* the records a guide may be: each with an id, and wholly stored

VARIABLES
  committed,   \* the <<upload, guide>> pairs there are
  answered     \* those of them that callers have been given

vars == <<committed, answered>>

Init ==
  /\ committed = {}
  /\ answered = {}

\* An upload not yet committed becomes a guide no other upload became.
Commit(u) ==
  /\ \A x \in committed : x[1] # u
  /\ \E g \in {x[2] : x \in committed' \ committed} :
       /\ g \in Guides
       /\ \A x \in committed : x[2].id # g.id
       /\ committed' = committed \cup {<<u, g>>}
  /\ UNCHANGED answered

Answer(u) ==
  /\ \E x \in committed : x[1] = u /\ answered' = answered \cup {x}
  /\ UNCHANGED committed

Next == \E u \in Uploads : Commit(u) \/ Answer(u)

Spec == Init /\ [][Next]_vars

=============================================================================
