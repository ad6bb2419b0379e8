-------------------------- MODULE GuideStore_proofs --------------------------
(***************************************************************************)
(* What a save of a version does to the store, for every number of saves,  *)
(* pictures, threads and faults.  The argument is that pictures precede    *)
(* the Markdown that draws them: the Markdown's put is asked for only when *)
(* every picture of the save is stored, and is asked for still, by a       *)
(* thread or by nobody, only where that is so.                             *)
(***************************************************************************)
EXTENDS GuideStore, TLAPS

Waiting == {"asked", "asked again"}

\* A write that is done is stored.
DoneIsStored ==
  \A s \in Saves : \A k \in Keys : write[s][k] = "done" => k \in stored

\* A thread writes a picture of its own save, and the calling thread the
\* Markdown: each only at the step that waits for it.
WritesBelong ==
  \A s \in Saves :
    /\ \A p \in Pictures :
         /\ write[s][p] # "none" => p \in PicturesOf[s]
         /\ write[s][p] \in Waiting => pc[s] \in {"pictures", "stopping"}
    /\ write[s][Content] \in Waiting => pc[s] = "content"

\* Markdown asked for, written or adrift has its pictures in the store.
PicturesFirst ==
  \A s \in Saves :
    \/ pc[s] \notin {"content", "saved"} /\ <<s, Content>> \notin strays
    \/ PicturesOf[s] \subseteq stored

SavedIsStored == \A s \in Saves : pc[s] = "saved" => Content \in stored

IInv ==
  /\ TypeOK
  /\ DoneIsStored
  /\ WritesBelong
  /\ PicturesFirst
  /\ SavedIsStored
  /\ ContentDrawsStored

-----------------------------------------------------------------------------

\* The Markdown is no picture.
LEMMA KeysApart == Content \in Keys /\ Content \notin Pictures /\ Pictures \subseteq Keys
BY StoreAssumption DEF Keys

\* A step of the pool that stores nothing: threads start, are cancelled or are
\* waited for.
LEMMA PoolStep ==
  ASSUME IInv, NEW s \in Saves, UNCHANGED <<stored, drawn, strays>>,
         faults' \in Nat,
         NEW at \in {"pictures", "stopping", "failed"}, pc' = [pc EXCEPT ![s] = at],
         NEW w \in [Keys -> WriteState], write' = [write EXCEPT ![s] = w],
         \A k \in Keys : w[k] = "done" => write[s][k] = "done",
         \A p \in Pictures :
           /\ w[p] # "none" => p \in PicturesOf[s]
           /\ w[p] \in Waiting => at \in {"pictures", "stopping"},
         w[Content] \notin Waiting
  PROVE  IInv'
<1> USE DEF IInv
<1>1. TypeOK'
  BY DEF TypeOK
<1>2. DoneIsStored'
  BY DEF DoneIsStored, TypeOK
<1>3. WritesBelong'
  BY KeysApart DEF WritesBelong, TypeOK
<1>4. PicturesFirst'
  BY DEF PicturesFirst, TypeOK
<1>5. SavedIsStored'
  BY DEF SavedIsStored, TypeOK
<1>6. ContentDrawsStored'
  BY DEF ContentDrawsStored
<1> QED BY <1>1, <1>2, <1>3, <1>4, <1>5, <1>6

\* An object comes into being only where its pictures, if it is Markdown, are
\* stored: it keeps what is known of the store.
LEMMA CreateKeeps ==
  ASSUME IInv, NEW s \in Saves, NEW k \in Keys \ stored, Create(s, k),
         k = Content => PicturesOf[s] \subseteq stored
  PROVE  /\ stored \subseteq stored' /\ stored' \subseteq Keys /\ k \in stored'
         /\ drawn' \subseteq Pictures
         /\ ContentDrawsStored'
<1> USE DEF IInv
<1>1. CASE k = Content
  BY <1>1, StoreAssumption, KeysApart DEF Create, ContentDrawsStored, TypeOK
<1>2. CASE k # Content
  BY <1>2, KeysApart DEF Create, ContentDrawsStored, TypeOK
<1> QED BY <1>1, <1>2

\* A put is answered: its object is stored if it is done, and the store has only
\* grown meanwhile.
LEMMA AnsweredStep ==
  ASSUME IInv, NEW s \in Saves, NEW k \in InFlight(s),
         NEW outcome \in {"done", "raised", "asked again"}, Answered(s, k, outcome),
         stored \subseteq stored', stored' \subseteq Keys, drawn' \subseteq Pictures,
         outcome = "done" => k \in stored',
         ContentDrawsStored',
         strays' \in {strays, strays \cup {<<s, k>>}}, faults' \in Nat
  PROVE  IInv'
<1> USE DEF IInv
<1>1. k \in Keys /\ write[s][k] \in Waiting
  BY DEF InFlight, Waiting
<1>2. /\ k = Content => pc[s] = "content"
      /\ k # Content => k \in Pictures /\ pc[s] \in {"pictures", "stopping"}
  BY <1>1, KeysApart DEF WritesBelong, Keys
<1>3. pc' = [pc EXCEPT ![s] =
              IF k # Content \/ outcome = "asked again" THEN pc[s]
              ELSE IF outcome = "done" THEN "saved" ELSE "failed"]
  BY DEF Answered, TypeOK
<1>4. TypeOK'
  <2>1. write' \in [Saves -> [Keys -> WriteState]]
    BY <1>1 DEF Answered, TypeOK, WriteState
  <2>2. pc' \in [Saves -> {"new", "pictures", "stopping", "content", "saved", "failed", "dead"}]
    BY <1>3 DEF TypeOK
  <2>3. strays' \subseteq Saves \X Keys
    <3>1. <<s, k>> \in Saves \X Keys
      BY <1>1
    <3> QED BY <3>1 DEF TypeOK
  <2> QED BY <2>1, <2>2, <2>3 DEF TypeOK
<1>5. /\ \A t \in Saves \ {s} : write'[t] = write[t] /\ pc'[t] = pc[t]
      /\ \A j \in Keys \ {k} : write'[s][j] = write[s][j]
      /\ write'[s][k] = outcome
  BY <1>1, <1>3 DEF Answered, TypeOK
<1>6. DoneIsStored'
  BY <1>5 DEF DoneIsStored
<1>7. WritesBelong'
  <2> SUFFICES ASSUME NEW t \in Saves
      PROVE  /\ \A p \in Pictures :
                  /\ write'[t][p] # "none" => p \in PicturesOf[t]
                  /\ write'[t][p] \in Waiting => pc'[t] \in {"pictures", "stopping"}
             /\ write'[t][Content] \in Waiting => pc'[t] = "content"
    BY DEF WritesBelong
  <2>1. CASE t # s
    BY <2>1, <1>5 DEF WritesBelong
  <2>2. CASE t = s /\ k = Content
    <3>1. \A p \in Pictures : write'[s][p] = write[s][p]
      BY <2>2, <1>5, KeysApart
    <3>2. \A p \in Pictures : write[s][p] \notin Waiting
      BY <2>2, <1>2 DEF WritesBelong
    <3>3. outcome \in Waiting => pc'[s] = "content"
      BY <2>2, <1>2, <1>3 DEF Waiting, TypeOK
    <3> QED BY <2>2, <3>1, <3>2, <3>3, <1>5 DEF WritesBelong
  <2>3. CASE t = s /\ k # Content
    <3>1. pc'[s] = pc[s]
      BY <2>3, <1>3 DEF TypeOK
    <3>2. write'[s][Content] = write[s][Content]
      BY <2>3, <1>5, KeysApart
    <3>3. write[s][k] # "none"
      BY <1>1 DEF Waiting
    <3>4. \A p \in Pictures : p # k => write'[s][p] = write[s][p]
      BY <1>5, KeysApart
    <3> QED BY <2>3, <3>1, <3>2, <3>3, <3>4, <1>2 DEF WritesBelong
  <2> QED BY <2>1, <2>2, <2>3
<1>8. PicturesFirst'
  <2> SUFFICES ASSUME NEW t \in Saves,
                      pc'[t] \in {"content", "saved"} \/ <<t, Content>> \in strays'
      PROVE  PicturesOf[t] \subseteq stored'
    BY DEF PicturesFirst
  <2>1. pc[t] \in {"content", "saved"} \/ <<t, Content>> \in strays
    <3>1. CASE t # s
      BY <3>1, <1>5
    <3>2. CASE t = s /\ k = Content
      BY <3>2, <1>2
    <3>3. CASE t = s /\ k # Content
      BY <3>3, <1>3 DEF TypeOK
    <3> QED BY <3>1, <3>2, <3>3
  <2> QED BY <2>1 DEF PicturesFirst
<1>9. SavedIsStored'
  <2> SUFFICES ASSUME NEW t \in Saves, pc'[t] = "saved"
      PROVE  Content \in stored'
    BY DEF SavedIsStored
  <2>1. CASE pc[t] = "saved"
    BY <2>1 DEF SavedIsStored
  <2>2. CASE pc[t] # "saved"
    BY <2>2, <1>3, <1>5 DEF TypeOK
  <2> QED BY <2>1, <2>2
<1> QED BY <1>4, <1>6, <1>7, <1>8, <1>9

\* Markdown is put by a save whose pictures are stored.
LEMMA ContentHasPictures ==
  ASSUME IInv, NEW s \in Saves, Content \in InFlight(s)
  PROVE  PicturesOf[s] \subseteq stored
<1>1. pc[s] = "content"
  BY DEF IInv, WritesBelong, InFlight, Waiting
<1> QED BY <1>1 DEF IInv, PicturesFirst

-----------------------------------------------------------------------------

\* Nothing is asked of the store before a save begins.
LEMMA InitInv == Init => IInv
<1> SUFFICES ASSUME Init PROVE IInv
  OBVIOUS
<1>1. TypeOK
  BY StoreAssumption DEF Init, TypeOK, WriteState
<1>2. DoneIsStored /\ PicturesFirst /\ SavedIsStored /\ ContentDrawsStored
  BY DEF Init, DoneIsStored, PicturesFirst, SavedIsStored, ContentDrawsStored
<1>3. WritesBelong
  BY KeysApart DEF Init, WritesBelong, Waiting
<1> QED BY <1>1, <1>2, <1>3 DEF IInv

LEMMA BeginKeeps == ASSUME IInv, NEW s \in Saves, Begin(s) PROVE IInv'
<1> DEFINE w == [k \in Keys |-> IF k \in PicturesOf[s] THEN "queued" ELSE "none"]
<1>1. w \in [Keys -> WriteState]
  BY DEF WriteState
<1>2. PicturesOf[s] \subseteq Pictures
  BY StoreAssumption
<1>3. \A k \in Keys : w[k] \notin Waiting \cup {"done"}
  BY DEF Waiting
<1>4. \A p \in Pictures : w[p] # "none" => p \in PicturesOf[s]
  BY KeysApart
<1>5. /\ UNCHANGED <<stored, drawn, strays>> /\ faults' \in Nat
      /\ pc' = [pc EXCEPT ![s] = "pictures"]
      /\ write' = [write EXCEPT ![s] = w]
  BY DEF Begin, IInv, TypeOK
<1> HIDE DEF w
<1> QED BY <1>1, <1>3, <1>4, <1>5, PoolStep, KeysApart

LEMMA StartPictureKeeps == ASSUME IInv, NEW s \in Saves, StartPicture(s) PROVE IInv'
<1> USE DEF IInv
<1>1. PICK p \in Pictures : write[s][p] = "queued" /\ write' = [write EXCEPT ![s][p] = "asked"]
  BY DEF StartPicture
<1> DEFINE w == [write[s] EXCEPT ![p] = "asked"]
<1>2. write[s] \in [Keys -> WriteState]
  BY DEF TypeOK
<1>3. w \in [Keys -> WriteState]
  BY <1>2 DEF WriteState
<1>4. /\ UNCHANGED <<stored, drawn, strays>> /\ faults' \in Nat
      /\ pc' = [pc EXCEPT ![s] = "pictures"]
      /\ write' = [write EXCEPT ![s] = w]
  BY <1>1 DEF StartPicture, TypeOK
<1>5. \A k \in Keys : w[k] = "done" => write[s][k] = "done"
  BY <1>2
<1>6. \A q \in Pictures : w[q] # "none" => q \in PicturesOf[s]
  BY <1>1, <1>2, KeysApart DEF WritesBelong
<1>7. w[Content] \notin Waiting
  <2>1. w[Content] = write[s][Content]
    BY <1>2, KeysApart
  <2> QED BY <2>1 DEF WritesBelong, StartPicture
<1> HIDE DEF w
<1> QED BY <1>3, <1>4, <1>5, <1>6, <1>7, PoolStep

LEMMA CancelKeeps == ASSUME IInv, NEW s \in Saves, Cancel(s) PROVE IInv'
<1> USE DEF IInv
<1> DEFINE w == [k \in Keys |-> IF write[s][k] = "queued" THEN "cancelled" ELSE write[s][k]]
<1>1. w \in [Keys -> WriteState]
  BY DEF TypeOK, WriteState
<1>2. /\ UNCHANGED <<stored, drawn, strays>> /\ faults' \in Nat
      /\ pc' = [pc EXCEPT ![s] = "stopping"]
      /\ write' = [write EXCEPT ![s] = w]
  BY DEF Cancel, TypeOK
<1>3. \A k \in Keys : w[k] = "done" => write[s][k] = "done"
  OBVIOUS
<1>4. \A p \in Pictures : w[p] # "none" => p \in PicturesOf[s]
  BY KeysApart DEF WritesBelong
<1>5. w[Content] \notin Waiting
  BY KeysApart DEF WritesBelong, Cancel, Waiting
<1> HIDE DEF w
<1> QED BY <1>1, <1>2, <1>3, <1>4, <1>5, PoolStep

LEMMA RaiseKeeps == ASSUME IInv, NEW s \in Saves, Raise(s) PROVE IInv'
<1> USE DEF IInv
<1>1. /\ UNCHANGED <<stored, drawn, strays>> /\ faults' \in Nat
      /\ pc' = [pc EXCEPT ![s] = "failed"]
      /\ write' = [write EXCEPT ![s] = write[s]]
      /\ write[s] \in [Keys -> WriteState]
  BY DEF Raise, TypeOK
<1>2. \A k \in Keys : write[s][k] \notin Waiting
  BY DEF Raise, InFlight, Waiting
<1>3. \A p \in Pictures : write[s][p] # "none" => p \in PicturesOf[s]
  BY DEF WritesBelong
<1> QED BY <1>1, <1>2, <1>3, PoolStep, KeysApart

\* The calling thread goes on to the Markdown when every picture is stored.
LEMMA StartContentKeeps == ASSUME IInv, NEW s \in Saves, StartContent(s) PROVE IInv'
<1> USE DEF IInv
<1>1. PicturesOf[s] \subseteq stored
  BY StoreAssumption, KeysApart DEF StartContent, DoneIsStored
<1>2. /\ pc' = [pc EXCEPT ![s] = "content"]
      /\ write' = [write EXCEPT ![s][Content] = "asked"]
      /\ UNCHANGED <<stored, drawn, strays, faults>>
  BY DEF StartContent
<1>3. TypeOK'
  <2>1. write' \in [Saves -> [Keys -> WriteState]]
    BY <1>2, KeysApart DEF TypeOK, WriteState
  <2> QED BY <1>2, <2>1 DEF TypeOK
<1>4. /\ \A t \in Saves \ {s} : write'[t] = write[t] /\ pc'[t] = pc[t]
      /\ \A p \in Keys \ {Content} : write'[s][p] = write[s][p]
      /\ write'[s][Content] = "asked" /\ pc'[s] = "content"
  BY <1>2, KeysApart DEF TypeOK
<1>5. DoneIsStored'
  BY <1>2, <1>4 DEF DoneIsStored
<1>6. \A p \in Pictures : write'[s][p] = write[s][p] /\ write[s][p] \notin Waiting
  BY <1>4, KeysApart DEF WritesBelong, StartContent, Waiting
<1>7. WritesBelong'
  BY <1>4, <1>6 DEF WritesBelong
<1>8. PicturesFirst' /\ SavedIsStored' /\ ContentDrawsStored'
  BY <1>1, <1>2, <1>4 DEF PicturesFirst, SavedIsStored, ContentDrawsStored
<1> QED BY <1>3, <1>5, <1>7, <1>8

LEMMA PutCreatesKeeps == ASSUME IInv, NEW s \in Saves, PutCreates(s) PROVE IInv'
<1>1. PICK k \in InFlight(s) \ stored : Create(s, k) /\ Answered(s, k, "done")
  BY DEF PutCreates
<1>2. k \in Keys
  BY DEF InFlight
<1>3. k = Content => PicturesOf[s] \subseteq stored
  BY ContentHasPictures
<1>4. strays' = strays /\ faults' \in Nat
  BY DEF PutCreates, IInv, TypeOK
<1>5. /\ stored \subseteq stored' /\ stored' \subseteq Keys /\ k \in stored'
      /\ drawn' \subseteq Pictures
      /\ ContentDrawsStored'
  BY <1>1, <1>2, <1>3, CreateKeeps
<1> QED BY <1>1, <1>4, <1>5, AnsweredStep

\* An answer that leaves the store as it was.
LEMMA AnsweredAlone ==
  ASSUME IInv, NEW s \in Saves, NEW k \in InFlight(s),
         NEW outcome \in {"done", "raised", "asked again"}, Answered(s, k, outcome),
         UNCHANGED <<stored, drawn>>, outcome = "done" => k \in stored,
         strays' \in {strays, strays \cup {<<s, k>>}}, faults' \in Nat
  PROVE  IInv'
<1>1. /\ stored \subseteq stored' /\ stored' \subseteq Keys /\ drawn' \subseteq Pictures
      /\ ContentDrawsStored'
  BY DEF IInv, TypeOK, ContentDrawsStored
<1> QED BY <1>1, AnsweredStep

LEMMA PutAlreadyThereKeeps == ASSUME IInv, NEW s \in Saves, PutAlreadyThere(s) PROVE IInv'
<1>1. PICK k \in InFlight(s) \cap stored : Answered(s, k, "done")
  BY DEF PutAlreadyThere
<1>2. UNCHANGED <<stored, drawn, strays>> /\ faults' \in Nat
  BY DEF PutAlreadyThere, IInv, TypeOK
<1> QED BY <1>1, <1>2, AnsweredAlone

LEMMA PutConflictsKeeps == ASSUME IInv, NEW s \in Saves, PutConflicts(s) PROVE IInv'
<1>1. PICK k \in InFlight(s) \ stored :
        Answered(s, k, IF write[s][k] = "asked" THEN "asked again" ELSE "raised")
  BY DEF PutConflicts
<1>2. UNCHANGED <<stored, drawn, strays>> /\ faults' \in Nat
  BY DEF PutConflicts, IInv, TypeOK
<1> QED BY <1>1, <1>2, AnsweredAlone

LEMMA PutFailsKeeps == ASSUME IInv, NEW s \in Saves, PutFails(s) PROVE IInv'
<1>1. PICK k \in InFlight(s) :
        Answered(s, k, "raised") /\ strays' \in {strays, strays \cup {<<s, k>>}}
  BY DEF PutFails
<1>2. UNCHANGED <<stored, drawn>> /\ faults' \in Nat
  BY DEF PutFails, IInv, TypeOK
<1> QED BY <1>1, <1>2, AnsweredAlone

\* A process that dies leaves strays behind, of Markdown only where its pictures
\* are stored.
LEMMA DieKeeps == ASSUME IInv, NEW s \in Saves, Die(s) PROVE IInv'
<1> USE DEF IInv
<1>1. PICK left \in SUBSET InFlight(s) : strays' = strays \cup ({s} \X left)
  BY DEF Die
<1>2. /\ UNCHANGED <<stored, drawn>>
      /\ pc' = [pc EXCEPT ![s] = "dead"]
      /\ write' = [write EXCEPT ![s] = [k \in Keys |-> "none"]]
      /\ faults' \in Nat
  BY DEF Die, TypeOK
<1>3. TypeOK'
  <2>1. strays' \subseteq Saves \X Keys
    BY <1>1 DEF TypeOK, InFlight
  <2>2. write' \in [Saves -> [Keys -> WriteState]]
    BY <1>2 DEF TypeOK, WriteState
  <2> QED BY <1>2, <2>1, <2>2 DEF TypeOK
<1>4. DoneIsStored'
  BY <1>2 DEF DoneIsStored, TypeOK
<1>5. WritesBelong'
  BY <1>2, KeysApart DEF WritesBelong, TypeOK, Waiting
<1>6. PicturesFirst'
  <2> SUFFICES ASSUME NEW t \in Saves,
                      pc'[t] \in {"content", "saved"} \/ <<t, Content>> \in strays'
      PROVE  PicturesOf[t] \subseteq stored
    BY <1>2 DEF PicturesFirst
  <2>1. CASE pc'[t] \in {"content", "saved"}
    BY <2>1, <1>2 DEF PicturesFirst, TypeOK
  <2>2. CASE <<t, Content>> \in strays
    BY <2>2 DEF PicturesFirst
  <2>3. CASE <<t, Content>> \in {s} \X left
    BY <2>3, ContentHasPictures
  <2> QED BY <1>1, <2>1, <2>2, <2>3
<1>7. SavedIsStored' /\ ContentDrawsStored'
  BY <1>2 DEF SavedIsStored, ContentDrawsStored, TypeOK
<1> QED BY <1>3, <1>4, <1>5, <1>6, <1>7

\* A stray that is Markdown has its pictures in the store when it lands.
LEMMA StrayKeeps == ASSUME IInv, StrayEnds PROVE IInv'
<1> USE DEF IInv
<1>1. PICK x \in strays :
        /\ strays' = strays \ {x}
        /\ \/ UNCHANGED <<stored, drawn>>
           \/ x[2] \notin stored /\ Create(x[1], x[2])
  BY DEF StrayEnds
<1>2. x \in Saves \X Keys /\ x = <<x[1], x[2]>>
  BY DEF TypeOK
<1>3. x[2] = Content => PicturesOf[x[1]] \subseteq stored
  BY <1>2 DEF PicturesFirst
<1>4. /\ stored \subseteq stored' /\ stored' \subseteq Keys /\ drawn' \subseteq Pictures
      /\ ContentDrawsStored'
  <2>1. CASE UNCHANGED <<stored, drawn>>
    BY <2>1 DEF TypeOK, ContentDrawsStored
  <2>2. CASE x[2] \notin stored /\ Create(x[1], x[2])
    BY <2>2, <1>2, <1>3, CreateKeeps
  <2> QED BY <1>1, <2>1, <2>2
<1>5. UNCHANGED <<pc, write, faults>>
  BY DEF StrayEnds
<1>6. TypeOK'
  BY <1>1, <1>4, <1>5 DEF TypeOK
<1>7. DoneIsStored' /\ WritesBelong' /\ SavedIsStored'
  BY <1>4, <1>5 DEF DoneIsStored, WritesBelong, SavedIsStored
<1>8. PicturesFirst'
  BY <1>1, <1>4, <1>5 DEF PicturesFirst
<1> QED BY <1>4, <1>6, <1>7, <1>8

\* The invariant is inductive.
LEMMA NextInv == IInv /\ [Next]_vars => IInv'
<1> SUFFICES ASSUME IInv, [Next]_vars PROVE IInv'
  OBVIOUS
<1>1. ASSUME NEW s \in Saves, Progress(s) PROVE IInv'
  BY <1>1, StartPictureKeeps, CancelKeeps, RaiseKeeps, StartContentKeeps,
     PutCreatesKeeps, PutAlreadyThereKeeps, PutConflictsKeeps DEF Progress
<1>2. CASE UNCHANGED vars
  BY <1>2 DEF vars, IInv, TypeOK, DoneIsStored, WritesBelong, PicturesFirst,
     SavedIsStored, ContentDrawsStored
<1> QED BY <1>1, <1>2, BeginKeeps, PutFailsKeeps, DieKeeps, StrayKeeps DEF Next

\* The invariant holds throughout.
LEMMA Invariance == Spec => []IInv
  BY InitInv, NextInv, PTL DEF Spec

-----------------------------------------------------------------------------

\* Every save and every one of its writes is at a step the code has.
THEOREM TypeCorrect == Spec => []TypeOK
<1>1. IInv => TypeOK
  BY DEF IInv
<1> QED BY Invariance, <1>1, PTL

\* Whichever saves die, give up, run at once or leave puts adrift, the Markdown
\* in the store draws pictures that are in the store.
THEOREM NoPictureMissing == Spec => []ContentDrawsStored
<1>1. IInv => ContentDrawsStored
  BY DEF IInv
<1> QED BY Invariance, <1>1, PTL

\* A save that returns has left everything it was to write in the store.
THEOREM SavesAreComplete == Spec => []SavedMeansStored
<1>1. IInv => SavedMeansStored
  BY DEF IInv, SavedMeansStored, PicturesFirst, SavedIsStored
<1> QED BY Invariance, <1>1, PTL

\* A save that has returned or raised has no thread still writing.
THEOREM PoolIsAtRest == Spec => []NothingRunsOn
<1>1. IInv => NothingRunsOn
  <2> SUFFICES ASSUME IInv, NEW s \in Saves, pc[s] \in {"saved", "failed"},
                      NEW k \in InFlight(s)
      PROVE  FALSE
    BY DEF NothingRunsOn
  <2>1. write[s][k] \in Waiting /\ k \in Pictures \cup {Content}
    BY DEF InFlight, Waiting, Keys
  <2> QED BY <2>1 DEF IInv, WritesBelong
<1> QED BY Invariance, <1>1, PTL

\* Nothing stored is replaced or taken away, and Markdown comes after the
\* pictures it draws.
THEOREM StoreGrows == Spec => StoreOnlyGrows
<1> DEFINE Grows ==
      /\ stored \subseteq stored'
      /\ IF Content \in stored THEN drawn' = drawn
         ELSE Content \in stored' => drawn' \subseteq stored
<1>1. ASSUME IInv, NEW s \in Saves, NEW k \in Keys \ stored, Create(s, k),
             k = Content => PicturesOf[s] \subseteq stored
      PROVE  Grows
  BY <1>1 DEF Create
<1>2. ASSUME UNCHANGED <<stored, drawn>> PROVE Grows
  BY <1>2
<1>3. ASSUME IInv, NEW s \in Saves, PutCreates(s) PROVE Grows
  BY <1>1, <1>3, ContentHasPictures DEF PutCreates, InFlight
<1>4. ASSUME IInv, StrayEnds PROVE Grows
  <2>1. PICK x \in strays : \/ UNCHANGED <<stored, drawn>>
                            \/ x[2] \notin stored /\ Create(x[1], x[2])
    BY <1>4 DEF StrayEnds
  <2>2. x[1] \in Saves /\ x[2] \in Keys /\ x = <<x[1], x[2]>>
    BY <1>4 DEF IInv, TypeOK
  <2>3. x[2] = Content => PicturesOf[x[1]] \subseteq stored
    BY <1>4, <2>2 DEF IInv, PicturesFirst
  <2> QED BY <1>1, <1>2, <1>4, <2>1, <2>2, <2>3
<1>5. ASSUME NEW s \in Saves,
             Begin(s) \/ StartPicture(s) \/ Cancel(s) \/ Raise(s) \/ StartContent(s)
               \/ PutAlreadyThere(s) \/ PutConflicts(s) \/ PutFails(s) \/ Die(s)
      PROVE  UNCHANGED <<stored, drawn>>
  BY <1>5 DEF Begin, StartPicture, Cancel, Raise, StartContent, PutAlreadyThere,
     PutConflicts, PutFails, Die
<1>6. ASSUME IInv, [Next]_vars PROVE [Grows]_vars
  <2> HIDE DEF Grows
  <2>1. ASSUME NEW s \in Saves, Begin(s) \/ Progress(s) \/ PutFails(s) \/ Die(s)
        PROVE  Grows
    BY <1>2, <1>3, <1>5, <1>6, <2>1 DEF Progress
  <2> QED BY <1>4, <1>6, <2>1 DEF Next
<1>7. IInv /\ [Next]_vars => [Grows]_vars
  BY <1>6
<1> QED BY Invariance, <1>7, PTL DEF Spec, StoreOnlyGrows

=============================================================================
