--------------------------- MODULE StagingRecords ---------------------------
(***************************************************************************)
(* The staging collection: one MongoDB record per delivered file, and the  *)
(* single-document updates MongoStagingStore makes on it.  Both sides of   *)
(* the system write here: the callback (Staging.tla) claims a file and     *)
(* marks its verdict, POST /guides (GuideCreation.tla) reserves ids on it  *)
(* and promotes it, and MongoDB's TTL monitor deletes it.                  *)
(*                                                                         *)
(* An absent record is a record value too, so that every operator below is *)
(* total.  Timestamps, title and version text are left out: no property    *)
(* tells them apart.                                                       *)
(***************************************************************************)
EXTENDS Naturals

CONSTANTS
  Files,     \* the files cdp-uploader delivers
  Readable   \* those that open as a Word document: what a parse finds

ASSUME ReadableAssumption == Readable \subseteq Files

VARIABLES
  staged,    \* Files -> record
  lives      \* history: how many times each file's record has been inserted

stagingVars == <<staged, lives>>

ParsingStatus == {"pending", "in_progress", "complete", "failed"}

\* A reserved pair of ids; 0 is no id at all.
NoIds == [document |-> 0, version |-> 0]
ReservedIds == [document : Nat, version : Nat]

StagedDocument ==
  [status   : ParsingStatus \cup {"absent"},
   expires  : BOOLEAN,
   ids      : ReservedIds,
   promoted : BOOLEAN]

NoRecord == [status |-> "absent", expires |-> FALSE, ids |-> NoIds, promoted |-> FALSE]

Present(f) == staged[f].status # "absent"

StagedTypeOK ==
  /\ staged \in [Files -> StagedDocument]
  /\ lives \in [Files -> Nat]

StagedInit ==
  /\ staged = [f \in Files |-> NoRecord]
  /\ lives  = [f \in Files |-> 0]

-----------------------------------------------------------------------------
(* MongoStagingStore                                                       *)

\* Mutants of Claimable: no filter on the status; every status but a claimed one.
ClaimableWhatever(f) == f \in Files
ClaimableUnlessClaimed(f) == staged[f].status # "in_progress"

\* The upsert's filter: a new record is inserted, or a pending one matched.
\* Any other status makes the insert clash on _id, which is "not claimed".
Claimable(f) == staged[f].status \in {"absent", "pending"}

\* Mutant of Claim: expires_at left to be set by somebody else.
ClaimWithoutExpiry(f) ==
  /\ staged' = [staged EXCEPT ![f] = [@ EXCEPT !.status = "in_progress"]]
  /\ lives'  = IF Present(f) THEN lives ELSE [lives EXCEPT ![f] = @ + 1]

Claim(f) ==
  /\ staged' = [staged EXCEPT ![f] = [@ EXCEPT !.status = "in_progress", !.expires = TRUE]]
  /\ lives'  = IF Present(f) THEN lives ELSE [lives EXCEPT ![f] = @ + 1]

\* Mutant of Mark: the update upserts.
MarkUpserting(f, verdict) ==
  /\ staged' = [staged EXCEPT ![f].status = verdict]
  /\ UNCHANGED lives

\* update_one by _id alone, without upsert: a record that has gone stays gone,
\* and one that has been claimed again takes the verdict of the older task.
Mark(f, verdict) ==
  /\ staged' = IF Present(f) THEN [staged EXCEPT ![f].status = verdict] ELSE staged
  /\ UNCHANGED lives

MarkComplete(f) == Mark(f, "complete")

\* Mutant of MarkFailed: a status outside the enumeration.
MarkRejected(f) == Mark(f, "rejected")

MarkFailed(f) == Mark(f, "failed")

\* Mutant of Reservable: ids are set whether or not there are some already.
ReservableAgain(f) == staged[f].status = "complete"

\* The filter of reserve_ids: a complete parse with no ids on it yet.
Reservable(f) == staged[f].status = "complete" /\ staged[f].ids = NoIds

ReserveIds(f, fresh) ==
  /\ staged' = IF Reservable(f) THEN [staged EXCEPT ![f].ids = fresh] ELSE staged
  /\ UNCHANGED lives

Promote(f) ==
  /\ staged' = IF Present(f) THEN [staged EXCEPT ![f].promoted = TRUE] ELSE staged
  /\ UNCHANGED lives

\* The TTL index on expires_at: a record without that field is never deleted.
Expire(f) ==
  /\ Present(f) /\ staged[f].expires
  /\ staged' = [staged EXCEPT ![f] = NoRecord]
  /\ UNCHANGED lives

-----------------------------------------------------------------------------
(* What the callback side may do to a record, as POST /guides sees it.     *)

\* Mutant of Verdict: a status outside the enumeration.
VerdictMisnamed(f) == IF f \in Readable THEN "parsed" ELSE "failed"

Verdict(f) == IF f \in Readable THEN "complete" ELSE "failed"

CallbackSide(f) ==
  \/ Claimable(f) /\ Claim(f)
  \/ lives[f] > 0 /\ Mark(f, Verdict(f))

=============================================================================
