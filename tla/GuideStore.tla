----------------------------- MODULE GuideStore -----------------------------
(***************************************************************************)
(* documents/store.py save, into S3: one version's pictures are written by *)
(* a pool of PARALLEL_WRITES threads, and its Markdown once all of them    *)
(* are stored.  Every save here is of the same version, as attempts that   *)
(* share a reservation are: a later attempt takes over from one that       *)
(* failed, and two may run at once.  They may find different pictures in   *)
(* the same file, since the parser may have changed between them.          *)
(*                                                                         *)
(* S3 is external, as the code's error paths describe it.  A put creates,  *)
(* or answers 412 where there is an object, or 409 where another creation  *)
(* of it is in flight.  A put whose caller gave up on it - both of the     *)
(* client's attempts timed out, or the process died - may stay in flight   *)
(* and still land: such a put is a stray.                                  *)
(***************************************************************************)
EXTENDS Naturals, FiniteSets

CONSTANTS
  Saves,
  Pictures,
  Content,           \* the key of content.md
  PicturesOf,        \* Saves -> the pictures the save has to write
  PARALLEL_WRITES,
  MaxFaults          \* bound: how many puts and processes may fail

ASSUME StoreAssumption ==
  /\ Content \notin Pictures
  /\ PicturesOf \in [Saves -> SUBSET Pictures]
  /\ PARALLEL_WRITES \in Nat \ {0}
  /\ MaxFaults \in Nat

VARIABLES
  pc,       \* Saves -> what the calling thread is doing
  write,    \* Saves -> Keys -> what has become of the write
  stored,   \* the objects there are
  drawn,    \* the pictures the stored Markdown draws
  strays,   \* <<save, key>> puts still in flight that nobody waits for
  faults    \* how many puts and processes have failed

vars == <<pc, write, stored, drawn, strays, faults>>

Keys == Pictures \cup {Content}

\* "asked" and "asked again" are a thread waiting for its first and second put.
WriteState == {"none", "queued", "asked", "asked again", "done", "raised", "cancelled"}

\* Every save and every one of its writes is at a step the code has.
TypeOK ==
  /\ pc \in [Saves -> {"new", "pictures", "stopping", "content", "saved", "failed", "dead"}]
  /\ write \in [Saves -> [Keys -> WriteState]]
  /\ stored \subseteq Keys
  /\ drawn \subseteq Pictures
  /\ strays \subseteq Saves \X Keys
  /\ faults \in Nat

Init ==
  /\ pc = [s \in Saves |-> "new"]
  /\ write = [s \in Saves |-> [k \in Keys |-> "none"]]
  /\ stored = {} /\ drawn = {} /\ strays = {} /\ faults = 0

InFlight(s) == {k \in Keys : write[s][k] \in {"asked", "asked again"}}

-----------------------------------------------------------------------------
(* save and _save_assets                                                   *)

\* Every picture is handed to the pool.
Begin(s) ==
  /\ pc[s] = "new"
  /\ pc' = [pc EXCEPT ![s] = "pictures"]
  /\ write' = [write EXCEPT ![s] =
                 [k \in Keys |-> IF k \in PicturesOf[s] THEN "queued" ELSE "none"]]
  /\ UNCHANGED <<stored, drawn, strays, faults>>

\* A free thread of the pool takes a picture and puts it.  Until the calling
\* thread has seen a failure, threads go on taking pictures.
StartPicture(s) ==
  /\ pc[s] = "pictures"
  /\ Cardinality(InFlight(s)) < PARALLEL_WRITES
  /\ \E p \in Pictures :
       /\ write[s][p] = "queued"
       /\ write' = [write EXCEPT ![s][p] = "asked"]
  /\ UNCHANGED <<pc, stored, drawn, strays, faults>>

\* The calling thread comes to a picture that failed: what has not started is
\* cancelled, and what is under way is waited for.
Cancel(s) ==
  /\ pc[s] = "pictures"
  /\ \E p \in Pictures : write[s][p] = "raised"
  /\ pc' = [pc EXCEPT ![s] = "stopping"]
  /\ write' = [write EXCEPT ![s] =
                 [k \in Keys |-> IF @[k] = "queued" THEN "cancelled" ELSE @[k]]]
  /\ UNCHANGED <<stored, drawn, strays, faults>>

\* Mutants of Raise: without waiting for what is under way; waiting for what was
\* cancelled too; into a state no save has.
RaiseAtOnce(s) ==
  /\ pc[s] = "stopping"
  /\ pc' = [pc EXCEPT ![s] = "failed"]
  /\ UNCHANGED <<write, stored, drawn, strays, faults>>

RaiseWhenAllRan(s) ==
  /\ pc[s] = "stopping"
  /\ \A p \in PicturesOf[s] : write[s][p] \in {"done", "raised"}
  /\ pc' = [pc EXCEPT ![s] = "failed"]
  /\ UNCHANGED <<write, stored, drawn, strays, faults>>

RaiseNowhere(s) ==
  /\ pc[s] = "stopping"
  /\ InFlight(s) = {}
  /\ pc' = [pc EXCEPT ![s] = "raised"]
  /\ UNCHANGED <<write, stored, drawn, strays, faults>>

Raise(s) ==
  /\ pc[s] = "stopping"
  /\ InFlight(s) = {}
  /\ pc' = [pc EXCEPT ![s] = "failed"]
  /\ UNCHANGED <<write, stored, drawn, strays, faults>>

\* Mutant of StartContent: the writes are waited for, their results not asked for.
StartContentRegardless(s) ==
  /\ pc[s] = "pictures"
  /\ \A p \in PicturesOf[s] : write[s][p] \in {"done", "raised"}
  /\ pc' = [pc EXCEPT ![s] = "content"]
  /\ write' = [write EXCEPT ![s][Content] = "asked"]
  /\ UNCHANGED <<stored, drawn, strays, faults>>

StartContent(s) ==
  /\ pc[s] = "pictures"
  /\ \A p \in PicturesOf[s] : write[s][p] = "done"
  /\ pc' = [pc EXCEPT ![s] = "content"]
  /\ write' = [write EXCEPT ![s][Content] = "asked"]
  /\ UNCHANGED <<stored, drawn, strays, faults>>

-----------------------------------------------------------------------------
(* _write_s3                                                               *)

\* The put of k is answered, and the thread that made it goes on: the calling
\* thread itself, where it is the Markdown that was put.
Answered(s, k, outcome) ==
  /\ write' = [write EXCEPT ![s][k] = outcome]
  /\ pc' = IF k # Content \/ outcome = "asked again" THEN pc
           ELSE [pc EXCEPT ![s] = IF outcome = "done" THEN "saved" ELSE "failed"]

\* An object comes into being: Markdown of the save that wrote it.
Create(s, k) ==
  /\ stored' = stored \cup {k}
  /\ drawn' = IF k = Content THEN PicturesOf[s] ELSE drawn

PutCreates(s) ==
  /\ \E k \in InFlight(s) \ stored : Create(s, k) /\ Answered(s, k, "done")
  /\ UNCHANGED <<strays, faults>>

\* Mutant of PutAlreadyThere: a put without If-None-Match, which replaces.
PutReplaces(s) ==
  /\ \E k \in InFlight(s) \cap stored : Create(s, k) /\ Answered(s, k, "done")
  /\ UNCHANGED <<strays, faults>>

PutAlreadyThere(s) ==
  /\ \E k \in InFlight(s) \cap stored : Answered(s, k, "done")
  /\ UNCHANGED <<stored, drawn, strays, faults>>

Contended(s, k) ==
  \/ \E t \in Saves \ {s} : k \in InFlight(t)
  \/ \E t \in Saves : <<t, k>> \in strays

\* Mutant of PutConflicts: somebody else is writing it, so it is as good as there.
PutConflictsTrusted(s) ==
  /\ \E k \in InFlight(s) \ stored : Contended(s, k) /\ Answered(s, k, "done")
  /\ UNCHANGED <<stored, drawn, strays, faults>>

\* 409: asked once more, and given up the second time.
PutConflicts(s) ==
  /\ \E k \in InFlight(s) \ stored :
       /\ Contended(s, k)
       /\ Answered(s, k, IF write[s][k] = "asked" THEN "asked again" ELSE "raised")
  /\ UNCHANGED <<stored, drawn, strays, faults>>

\* Any other error, raised as it is; the put may be in flight still.
PutFails(s) ==
  /\ faults < MaxFaults
  /\ faults' = faults + 1
  /\ \E k \in InFlight(s) :
       /\ Answered(s, k, "raised")
       /\ strays' \in {strays, strays \cup {<<s, k>>}}
  /\ UNCHANGED <<stored, drawn>>

\* The process dies in the middle of the save.
Die(s) ==
  /\ pc[s] \in {"pictures", "stopping", "content"}
  /\ faults < MaxFaults
  /\ faults' = faults + 1
  /\ pc' = [pc EXCEPT ![s] = "dead"]
  /\ write' = [write EXCEPT ![s] = [k \in Keys |-> "none"]]
  /\ \E left \in SUBSET InFlight(s) : strays' = strays \cup ({s} \X left)
  /\ UNCHANGED <<stored, drawn>>

\* A stray put lands, where there is nothing yet, or comes to nothing.
StrayEnds ==
  /\ \E x \in strays :
       /\ strays' = strays \ {x}
       /\ \/ UNCHANGED <<stored, drawn>>
          \/ x[2] \notin stored /\ Create(x[1], x[2])
  /\ UNCHANGED <<pc, write, faults>>

-----------------------------------------------------------------------------

Progress(s) ==
  \/ StartPicture(s) \/ Cancel(s) \/ Raise(s) \/ StartContent(s)
  \/ PutCreates(s) \/ PutAlreadyThere(s) \/ PutConflicts(s)

Next ==
  \/ \E s \in Saves : Begin(s) \/ Progress(s) \/ PutFails(s) \/ Die(s)
  \/ StrayEnds

\* A thread that can run does, and S3 answers what it is asked within the
\* client's timeouts.
Fairness == \A s \in Saves : WF_vars(Progress(s))

Spec == Init /\ [][Next]_vars /\ Fairness

-----------------------------------------------------------------------------
(* Properties                                                              *)

\* Stored Markdown draws only pictures that are stored, whichever save wrote it
\* and whatever became of the others (store.py save).
ContentDrawsStored == Content \in stored => drawn \subseteq stored

\* A save that returns has left every object it was to write in the store,
\* written by itself or found there, so a later attempt can go on from it.
SavedMeansStored ==
  \A s \in Saves : pc[s] = "saved" => PicturesOf[s] \cup {Content} \subseteq stored

\* A save that has returned or raised has no thread still writing, even where
\* the failure came while others were under way (store.py _save_assets).
NothingRunsOn == \A s \in Saves : pc[s] \in {"saved", "failed"} => InFlight(s) = {}

\* Nothing stored is taken away or replaced, and Markdown comes into the store
\* after the pictures it draws: what GuideCreation takes a save to do.
StoreOnlyGrows ==
  [][/\ stored \subseteq stored'
     /\ IF Content \in stored THEN drawn' = drawn
        ELSE Content \in stored' => drawn' \subseteq stored]_vars

\* A save that has begun ends: the pool never waits for a write that no thread
\* will make, however many pictures failed and however late that was seen.
EverySaveEnds == \A s \in Saves : pc[s] = "pictures" ~> pc[s] \in {"saved", "failed", "dead"}

\* A put in flight "settles one way or the other if asked again" (store.py
\* _IN_FLIGHT, and _write_s3): where nothing fails, no save does.
ConflictsSettle == faults = 0 => \A s \in Saves : pc[s] # "failed"

=============================================================================
