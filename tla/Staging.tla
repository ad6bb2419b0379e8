------------------------------ MODULE Staging ------------------------------
(***************************************************************************)
(* POST /callback: cdp-uploader says which files of an upload it has       *)
(* scanned and delivered.  The handler claims each file, one database call *)
(* after another, and leaves one background task per claimed file; the     *)
(* tasks run one after another once the response is sent.  A task fetches  *)
(* the bytes, parses them and marks the verdict on the file's record.      *)
(*                                                                         *)
(* An exception in the handler drops the tasks it had gathered; one in a   *)
(* task drops those behind it; a process that dies drops both.  Nothing    *)
(* but the record's expiry gives such a file back.                         *)
(*                                                                         *)
(* POST /guides is the environment here: SubmissionSide is what            *)
(* GuideCreation does to a record.                                         *)
(***************************************************************************)
EXTENDS StagingRecords, Sequences

CONSTANTS
  Callbacks,   \* deliveries and redeliveries, each handled once
  Payloads     \* the forms they carry: sequences of [file, status] entries

ASSUME PayloadsAssumption ==
  Payloads \subseteq Seq([file : Files, status : {"complete", "pending", "rejected"}])

VARIABLE callback   \* Callbacks -> where each handler and its tasks have got to

vars == <<staged, lives, callback>>

\* A task remembers which life of the record it was claimed in: history only.
Task == [file : Files, life : Nat]

\* A delivered file, at its place among the payload's entries.
Document == [place : Nat, file : Files]

Handler == [pc    : {"idle", "claiming", "fetching", "parsing", "done", "failed"},
            todo  : SUBSET Document,
            tasks : Seq(Task)]

Idle == [pc |-> "idle", todo |-> {}, tasks |-> <<>>]
Done == [pc |-> "done", todo |-> {}, tasks |-> <<>>]
Failed == [pc |-> "failed", todo |-> {}, tasks |-> <<>>]

\* Every record is one the store could hold, and every handler is at a step of
\* handle_callback or its tasks.
TypeOK ==
  /\ StagedTypeOK
  /\ callback \in [Callbacks -> Handler]

Init ==
  /\ StagedInit
  /\ callback = [c \in Callbacks |-> Idle]

-----------------------------------------------------------------------------
(* The handler                                                             *)

\* The files a payload names as scanned, clean and copied.
UploadedDocuments(payload) ==
  {[place |-> i, file |-> payload[i].file] :
     i \in {j \in DOMAIN payload : payload[j].status = "complete"}}

\* A payload with no delivered file is answered 204 and claims nothing.
Deliver(c) ==
  /\ callback[c].pc = "idle"
  /\ \E payload \in Payloads :
       LET documents == UploadedDocuments(payload)
       IN  callback' = [callback EXCEPT ![c] =
             IF documents = {} THEN Done
             ELSE [@ EXCEPT !.pc = "claiming", !.todo = documents]]
  /\ UNCHANGED stagingVars

\* The loop comes to the documents in the payload's order.
ComesNext(document, c) ==
  /\ callback[c].pc = "claiming"
  /\ document \in callback[c].todo
  /\ \A other \in callback[c].todo : document.place <= other.place

\* Mutant of ClaimNext: the response carries one task, the last.
ClaimNextLastTask(c) ==
  \E document \in callback[c].todo :
    /\ ComesNext(document, c)
    /\ LET f    == document.file
           rest == [callback[c] EXCEPT !.todo = @ \ {document}]
       IN  IF Claimable(f)
           THEN /\ Claim(f)
                /\ callback' = [callback EXCEPT ![c] =
                     [rest EXCEPT !.tasks = <<[file |-> f, life |-> lives'[f]]>>]]
           ELSE /\ callback' = [callback EXCEPT ![c] = rest]
                /\ UNCHANGED stagingVars

\* One turn of the loop: claim the next file, and leave a task for it unless
\* somebody has it already.
ClaimNext(c) ==
  \E document \in callback[c].todo :
    /\ ComesNext(document, c)
    /\ LET f    == document.file
           rest == [callback[c] EXCEPT !.todo = @ \ {document}]
       IN  IF Claimable(f)
           THEN /\ Claim(f)
                /\ callback' = [callback EXCEPT ![c] =
                     [rest EXCEPT !.tasks = Append(@, [file |-> f, life |-> lives'[f]])]]
           ELSE /\ callback' = [callback EXCEPT ![c] = rest]
                /\ UNCHANGED stagingVars

\* The 202 is sent and the tasks gathered begin.
Respond(c) ==
  /\ callback[c].pc = "claiming" /\ callback[c].todo = {}
  /\ callback' = [callback EXCEPT ![c] =
       IF @.tasks = <<>> THEN Done ELSE [@ EXCEPT !.pc = "fetching"]]
  /\ UNCHANGED stagingVars

\* The database fails the claim: the tasks gathered so far go with the
\* response they were attached to.  The update may have been made all the same.
ClaimRaises(c) ==
  /\ \E document \in callback[c].todo :
       /\ ComesNext(document, c)
       /\ \/ Claimable(document.file) /\ Claim(document.file)
          \/ UNCHANGED stagingVars
  /\ callback' = [callback EXCEPT ![c] = Failed]

-----------------------------------------------------------------------------
(* The tasks                                                               *)

Current(c) == Head(callback[c].tasks).file

Fetch(c) ==
  /\ callback[c].pc = "fetching"
  /\ callback' = [callback EXCEPT ![c].pc = "parsing"]
  /\ UNCHANGED stagingVars

\* What follows the task at the head of the queue.
NextTask(c) ==
  IF Len(callback[c].tasks) = 1 THEN Done
  ELSE [callback[c] EXCEPT !.pc = "fetching", !.tasks = Tail(@)]

\* Mutant of ValidateAndParse: a file is marked complete whatever it is.
ParseWithoutValidating(c) ==
  /\ callback[c].pc = "parsing"
  /\ MarkComplete(Current(c))
  /\ callback' = [callback EXCEPT ![c] = NextTask(c)]

ValidateAndParse(c) ==
  /\ callback[c].pc = "parsing"
  /\ IF Current(c) \in Readable THEN MarkComplete(Current(c)) ELSE MarkFailed(Current(c))
  /\ callback' = [callback EXCEPT ![c] = NextTask(c)]

\* S3 or the database fails a task, which nothing catches: the tasks behind it
\* never start.
TaskRaises(c) ==
  /\ callback[c].pc \in {"fetching", "parsing"}
  /\ callback' = [callback EXCEPT ![c] = Failed]
  /\ UNCHANGED stagingVars

\* The process dies, with whatever this callback had in hand.
Crash(c) ==
  /\ callback[c].pc \in {"claiming", "fetching", "parsing"}
  /\ callback' = [callback EXCEPT ![c] = Failed]
  /\ UNCHANGED stagingVars

-----------------------------------------------------------------------------

Progress(c) == Deliver(c) \/ ClaimNext(c) \/ Respond(c) \/ Fetch(c) \/ ValidateAndParse(c)

Failure(c) == ClaimRaises(c) \/ TaskRaises(c) \/ Crash(c)

\* POST /guides reserving ids on a record and promoting it, at any time: it read
\* the record some time before it writes.
SubmissionSide(f) ==
  /\ lives[f] > 0
  /\ \/ ReserveIds(f, [document |-> 2 * lives[f] - 1, version |-> 2 * lives[f]])
     \/ Promote(f)
  /\ UNCHANGED callback

Expiry(f) == Expire(f) /\ UNCHANGED callback

Next ==
  \/ \E c \in Callbacks : Progress(c) \/ Failure(c)
  \/ \E f \in Files : SubmissionSide(f) \/ Expiry(f)

\* Starlette runs what it is given and MongoDB's TTL monitor comes round every
\* minute; nothing else is owed.
Fairness ==
  /\ \A c \in Callbacks : WF_vars(Progress(c))
  /\ \A f \in Files : WF_vars(Expiry(f))

Spec == Init /\ [][Next]_vars /\ Fairness

-----------------------------------------------------------------------------
(* Properties                                                              *)

Attending(c, f, life) ==
  \E i \in DOMAIN callback[c].tasks : callback[c].tasks[i] = [file |-> f, life |-> life]

\* A claim is exclusive: however many times a file is delivered, and whatever
\* order the deliveries' claims interleave in, one life of its record gives
\* out at most one task (store.py claim).
OneTaskPerClaim ==
  \A c, d \in Callbacks :
    \A i \in DOMAIN callback[c].tasks, j \in DOMAIN callback[d].tasks :
      callback[c].tasks[i] = callback[d].tasks[j] => c = d /\ i = j

\* A file claimed and not yet judged has a task that will judge it, unless a
\* callback failed: a file is not left behind by the ordinary course of the
\* loop, the response and the queue of tasks (router.py handle_callback).
ClaimIsAttended ==
  \A f \in Files :
    staged[f].status = "in_progress" =>
      \E c \in Callbacks : callback[c].pc = "failed" \/ Attending(c, f, lives[f])

\* No write that comes late - a task's verdict, a promotion, of a record that
\* has expired meanwhile - brings into being a record that would never expire.
EveryRecordExpires == \A f \in Files : Present(f) => staged[f].expires

\* A verdict stands until the record expires: a redelivered callback, or the
\* late task of an earlier life, never takes a judged file back.
VerdictIsFinal ==
  [][\A f \in Files : staged[f].status \in {"complete", "failed"} =>
       staged'[f].status \in {staged[f].status, "absent"}]_vars

\* Every step on a record is one that GuideCreation assumes of its environment
\* (CallbackSide), one that GuideCreation makes, or the record's expiry.
RecordStepsAreShared ==
  [][\E f \in Files : \/ CallbackSide(f) \/ Expire(f) \/ Promote(f)
                      \/ \E fresh \in {staged'[f].ids} : ReserveIds(f, fresh)]_stagingVars

\* A file whose callback was lost half way is not lost for good: its record is
\* judged or expires, after which a redelivery can claim it again.
StuckFileIsFreed ==
  \A f \in Files : staged[f].status = "in_progress" ~> staged[f].status # "in_progress"

=============================================================================
