--------------------------- MODULE RecentlyOpened ---------------------------
(***************************************************************************)
(* POST /users/{id}/recently-opened: an opening is pushed on the user's    *)
(* record, and what the push shows to be on the list no longer is pulled   *)
(* out, in a second call.  Openings arrive in any order: each carries the  *)
(* clock reading of its request, taken before the push.                    *)
(*                                                                         *)
(* The record's array is the set of its entries, each with its arrival:    *)
(* a push appends and a pull keeps the order, so the array is always in    *)
(* the order of arrivals.  The list is a set likewise, as Newer orders it. *)
(*                                                                         *)
(* What this module defines is named apart from SignIn and Pins, so that   *)
(* one module may extend them all.                                         *)
(***************************************************************************)
EXTENDS ExistingGuides, Naturals, Sequences, FiniteSets

CONSTANTS
  Visits,               \* requests of one opening each, any number of them at once
  Times,                \* clock readings
  RECENTLY_OPENED_KEPT  \* how many guides the list keeps

ASSUME OpenedAssumption ==
  /\ Times \subseteq Nat
  /\ RECENTLY_OPENED_KEPT \in Nat

VARIABLES
  openings,   \* the openings the record holds
  visit,      \* Visits -> where each handler has got to
  arrived     \* every opening ever pushed: history

openingVars == <<openings, visit, arrived>>

Opened == [documentId : Guides, openedAt : Times]
Entry == [documentId : Guides, openedAt : Times, arrival : Nat]

OpeningHandler ==
  [pc      : {"idle", "pushing", "pulling", "done", "refused", "failed"},
   opening : Seq(Opened),    \* the one it records
   surplus : SUBSET Opened]

\* The record holds openings of guides that exist, and each handler is at a step
\* of record_opened.
OpeningTypeOK ==
  /\ openings \subseteq {entry \in Entry : entry.documentId \in Existing}
  /\ visit \in [Visits -> OpeningHandler]
  /\ arrived \subseteq Entry

OpeningInit ==
  /\ openings = {}
  /\ visit = [r \in Visits |-> [pc |-> "idle", opening |-> <<>>, surplus |-> {}]]
  /\ arrived = {}

-----------------------------------------------------------------------------
(* The list                                                                *)

\* Later first, and of the same time the one that arrived first.
Newer(d, e) ==
  \/ d.openedAt > e.openedAt
  \/ d.openedAt = e.openedAt /\ d.arrival < e.arrival

\* Each guide's latest opening.
Latest(s) ==
  {e \in s : \A d \in s \ {e} : d.documentId = e.documentId => Newer(e, d)}

\* What the user sees: the newest guides, each by its latest opening.
Listed(s) ==
  {e \in Latest(s) : Cardinality({d \in Latest(s) : Newer(d, e)}) < RECENTLY_OPENED_KEPT}

\* An entry as it is stored.
Stored(e) == [documentId |-> e.documentId, openedAt |-> e.openedAt]

\* The openings stored that the list does not show.
Surplus(s) == {Stored(e) : e \in s} \ {Stored(e) : e \in Listed(s)}

\* Those left when some are pulled, by what they say.
Pulled(s, surplus) == {e \in s : Stored(e) \notin surplus}

\* An opening as it reaches the database.
Arriving(r) ==
  LET opening == Head(visit[r].opening)
  IN  [documentId |-> opening.documentId, openedAt |-> opening.openedAt,
       arrival |-> Cardinality(arrived) + 1]

-----------------------------------------------------------------------------
(* The handler                                                             *)

\* Mutant of Open: it is not asked whether the guide exists.
OpenUnchecked(r) ==
  /\ visit[r].pc = "idle"
  /\ \E guide \in Guides, now \in Times :
       visit' = [visit EXCEPT ![r].pc = "pushing",
                              ![r].opening = <<[documentId |-> guide, openedAt |-> now]>>]
  /\ UNCHANGED <<openings, arrived>>

\* A page says a guide was opened; the clock is read.
Open(r) ==
  /\ visit[r].pc = "idle"
  /\ \E guide \in Guides, now \in Times :
       visit' = [visit EXCEPT ![r].pc = IF guide \in Existing THEN "pushing" ELSE "refused",
                              ![r].opening = <<[documentId |-> guide, openedAt |-> now]>>]
  /\ UNCHANGED <<openings, arrived>>

\* Mutant of Push: what to pull is worked out from the record before the push.
PushReadingBefore(r) ==
  /\ visit[r].pc = "pushing"
  /\ openings' = openings \cup {Arriving(r)}
  /\ arrived' = arrived \cup {Arriving(r)}
  /\ visit' = [visit EXCEPT ![r].surplus = Surplus(openings),
                            ![r].pc = IF Surplus(openings) = {} THEN "done" ELSE "pulling"]

\* Mutant of Push: the list is the openings that arrived last, whatever their
\* times.
PushByArrival(r) ==
  /\ visit[r].pc = "pushing"
  /\ openings' = openings \cup {Arriving(r)}
  /\ arrived' = arrived \cup {Arriving(r)}
  /\ LET later(e) == {d \in openings' : d.arrival > e.arrival}
         surplus  == {Stored(e) : e \in {d \in openings' :
                        Cardinality(later(d)) >= RECENTLY_OPENED_KEPT}}
     IN  visit' = [visit EXCEPT ![r].surplus = surplus,
                                ![r].pc = IF surplus = {} THEN "done" ELSE "pulling"]

\* One call adds the opening and answers the record with it.
Push(r) ==
  /\ visit[r].pc = "pushing"
  /\ openings' = openings \cup {Arriving(r)}
  /\ arrived' = arrived \cup {Arriving(r)}
  /\ visit' = [visit EXCEPT ![r].surplus = Surplus(openings'),
                            ![r].pc = IF Surplus(openings') = {} THEN "done" ELSE "pulling"]

\* Another takes out what was surplus then, by value.
Pull(r) ==
  /\ visit[r].pc = "pulling"
  /\ openings' = Pulled(openings, visit[r].surplus)
  /\ visit' = [visit EXCEPT ![r].pc = "done", ![r].surplus = {}]
  /\ UNCHANGED arrived

\* The database fails the pull, or the process dies before it; the update may
\* have been made all the same.
PullFails(r) ==
  /\ visit[r].pc = "pulling"
  /\ \/ UNCHANGED openings
     \/ openings' = Pulled(openings, visit[r].surplus)
  /\ visit' = [visit EXCEPT ![r].pc = "failed"]
  /\ UNCHANGED arrived

\* The same of the push.
PushFails(r) ==
  /\ visit[r].pc = "pushing"
  /\ \/ UNCHANGED <<openings, arrived>>
     \/ /\ openings' = openings \cup {Arriving(r)}
        /\ arrived' = arrived \cup {Arriving(r)}
  /\ visit' = [visit EXCEPT ![r].pc = "failed"]

OpeningNext == \E r \in Visits : Open(r) \/ Push(r) \/ Pull(r) \/ PushFails(r) \/ PullFails(r)

OpeningSpec == OpeningInit /\ [][OpeningNext]_openingVars

-----------------------------------------------------------------------------
(* Properties                                                              *)

\* The list is what it would be had no opening ever been pulled: whatever
\* order openings arrive in, and whichever pulls - late, repeated, of a record
\* that has changed since - come between, no guide that belongs on the list is
\* lost and none comes back (records.py record_opened).
ListIsOfEveryOpening == Listed(openings) = Listed(arrived)

\* The record stays small: an opening it holds and the list does not show is
\* about to be pulled, unless a request failed.  So when all are done the
\* record holds only what the list shows.
SurplusIsPulled ==
  \A opened \in Surplus(openings) : \E r \in Visits :
    \/ visit[r].pc = "pulling" /\ opened \in visit[r].surplus
    \/ visit[r].pc = "failed"

=============================================================================
