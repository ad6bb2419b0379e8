--------------------------- MODULE Staging_proofs ---------------------------
(***************************************************************************)
(* What POST /callback does to the staging records, for every number of    *)
(* files, deliveries and payloads.  The argument is about lives: a record  *)
(* is claimed only when it is inserted, so the task of a claim carries a   *)
(* life that no earlier task of the file does.  A verdict is a matter of   *)
(* the file, so that a late task of an earlier life says what the task of  *)
(* this one would.                                                         *)
(***************************************************************************)
EXTENDS Staging, TLAPS

\* A handler that runs tasks has some, and one at rest has none.
Stages ==
  \A c \in Callbacks :
    /\ callback[c].pc \in {"fetching", "parsing"} => callback[c].tasks # <<>>
    /\ callback[c].pc \in {"idle", "done", "failed"} => callback[c].tasks = <<>>

\* A task is of a life its file's record has had.
LivesKnown ==
  \A c \in Callbacks : \A i \in DOMAIN callback[c].tasks :
    callback[c].tasks[i].life \in 1..lives[callback[c].tasks[i].file]

\* A record is being parsed or says of its file what a parse finds.
SaysWhatItIs ==
  \A f \in Files : staged[f].status \in {"absent", "in_progress", Verdict(f)}

IInv ==
  /\ TypeOK
  /\ Stages
  /\ LivesKnown
  /\ SaysWhatItIs
  /\ OneTaskPerClaim
  /\ ClaimIsAttended
  /\ EveryRecordExpires

-----------------------------------------------------------------------------

\* A handler goes on without touching a record, and keeps its tasks unless it
\* fails.
LEMMA HandlerStep ==
  ASSUME IInv, NEW c \in Callbacks, UNCHANGED stagingVars,
         NEW h \in Handler, callback' = [callback EXCEPT ![c] = h],
         h.tasks = callback[c].tasks \/ (h.pc = "failed" /\ h.tasks = <<>>),
         callback[c].pc = "failed" => h.pc = "failed",
         h.pc \in {"fetching", "parsing"} => h.tasks # <<>>,
         h.pc \in {"idle", "done", "failed"} => h.tasks = <<>>
  PROVE  IInv'
<1> USE DEF IInv, stagingVars
<1>1. TypeOK'
  BY DEF TypeOK, StagedTypeOK
<1>2. /\ callback'[c] = h
      /\ \A d \in Callbacks \ {c} : callback'[d] = callback[d]
  BY DEF TypeOK
<1>3. Stages'
  BY <1>2 DEF Stages
<1>4. \A d \in Callbacks : callback'[d].tasks \in {callback[d].tasks, <<>>}
  BY <1>2
<1>5. LivesKnown'
  BY <1>4 DEF LivesKnown
<1>6. SaysWhatItIs'
  BY DEF SaysWhatItIs
<1>7. OneTaskPerClaim'
  BY <1>4 DEF OneTaskPerClaim
<1>8. ClaimIsAttended'
  <2> SUFFICES ASSUME NEW f \in Files, staged'[f].status = "in_progress"
      PROVE  \E d \in Callbacks : callback'[d].pc = "failed" \/ Attending(d, f, lives[f])'
    BY DEF ClaimIsAttended
  <2>1. PICK d \in Callbacks : callback[d].pc = "failed" \/ Attending(d, f, lives[f])
    BY DEF ClaimIsAttended
  <2>2. callback'[d].pc = "failed" \/ Attending(d, f, lives[f])'
    BY <1>2, <2>1 DEF Attending
  <2> QED BY <2>2
<1>9. EveryRecordExpires'
  BY DEF EveryRecordExpires, Present
<1> QED BY <1>1, <1>3, <1>5, <1>6, <1>7, <1>8, <1>9

\* A record that expires, or takes ids or a promotion, is of no concern to the
\* tasks: it is claimed or judged as before, or gone.
LEMMA RecordStep ==
  ASSUME IInv, UNCHANGED <<callback, lives>>, staged' \in [Files -> StagedDocument],
         \A f \in Files :
           \/ staged'[f].status = "absent"
           \/ /\ staged'[f].status = staged[f].status
              /\ staged'[f].expires = staged[f].expires
  PROVE  IInv'
<1> USE DEF IInv
<1>1. TypeOK'
  BY DEF TypeOK, StagedTypeOK
<1>2. Stages' /\ LivesKnown' /\ OneTaskPerClaim'
  BY DEF Stages, LivesKnown, OneTaskPerClaim
<1>3. SaysWhatItIs'
  BY DEF SaysWhatItIs, Verdict
<1>4. ClaimIsAttended'
  BY DEF ClaimIsAttended, Attending
<1>5. EveryRecordExpires'
  BY DEF EveryRecordExpires, Present
<1> QED BY <1>1, <1>2, <1>3, <1>4, <1>5

\* The database inserts a record and begins its life: its task, if the handler
\* lives to keep it, is the first of that life.
LEMMA ClaimStep ==
  ASSUME IInv, NEW c \in Callbacks, callback[c].pc = "claiming",
         NEW f \in Files, Claimable(f), Claim(f),
         NEW h \in Handler, callback' = [callback EXCEPT ![c] = h],
         \/ /\ h.pc = "claiming"
            /\ h.tasks = Append(callback[c].tasks, [file |-> f, life |-> lives'[f]])
         \/ h.pc = "failed" /\ h.tasks = <<>>
  PROVE  IInv'
<1> USE DEF IInv
<1>1. /\ staged \in [Files -> StagedDocument] /\ lives \in [Files -> Nat]
      /\ callback \in [Callbacks -> Handler]
  BY DEF TypeOK, StagedTypeOK
<1>2. staged[f].status = "absent"
  BY DEF Claimable, SaysWhatItIs, Verdict
<1>3. /\ lives' \in [Files -> Nat] /\ lives'[f] = lives[f] + 1
      /\ \A g \in Files \ {f} : lives'[g] = lives[g]
  BY <1>1, <1>2 DEF Claim, Present
<1>4. /\ staged' \in [Files -> StagedDocument]
      /\ staged'[f].status = "in_progress" /\ staged'[f].expires
      /\ \A g \in Files \ {f} : staged'[g] = staged[g]
  BY <1>1 DEF Claim, StagedDocument, ParsingStatus
<1>5. callback' \in [Callbacks -> Handler]
  BY <1>1
<1>6. /\ callback'[c] = h
      /\ \A d \in Callbacks \ {c} : callback'[d] = callback[d]
  BY <1>1
<1>7. \A d \in Callbacks : callback[d].tasks \in Seq(Task)
  BY <1>1 DEF Handler
<1>8. TypeOK'
  BY <1>3, <1>4, <1>5 DEF TypeOK, StagedTypeOK
<1>9. Stages'
  BY <1>6 DEF Stages
<1> DEFINE new == [file |-> f, life |-> lives'[f]]
<1>10. \A d \in Callbacks : \A i \in DOMAIN callback[d].tasks :
         /\ callback[d].tasks[i] \in Task
         /\ callback[d].tasks[i] # new
         /\ callback[d].tasks[i].life \in 1..lives'[callback[d].tasks[i].file]
  <2> SUFFICES ASSUME NEW d \in Callbacks, NEW i \in DOMAIN callback[d].tasks
      PROVE  /\ callback[d].tasks[i] \in Task
             /\ callback[d].tasks[i] # new
             /\ callback[d].tasks[i].life \in 1..lives'[callback[d].tasks[i].file]
    OBVIOUS
  <2>1. callback[d].tasks[i] \in Task
    BY <1>7
  <2>2. callback[d].tasks[i].life \in 1..lives[callback[d].tasks[i].file]
    BY DEF LivesKnown
  <2> QED BY <1>1, <1>3, <2>1, <2>2 DEF Task
<1>11. new \in Task /\ new.life \in 1..lives'[new.file]
  BY <1>1, <1>3 DEF Task
<1> HIDE DEF new
<1>12. ASSUME h.tasks = <<>>, h.pc = "failed"
       PROVE  LivesKnown' /\ OneTaskPerClaim' /\ ClaimIsAttended'
  <2>1. LivesKnown'
    BY <1>6, <1>10, <1>12 DEF LivesKnown
  <2>2. OneTaskPerClaim'
    BY <1>6, <1>12 DEF OneTaskPerClaim
  <2>3. ClaimIsAttended'
    BY <1>6, <1>12 DEF ClaimIsAttended
  <2> QED BY <2>1, <2>2, <2>3
<1>13. ASSUME h.tasks = Append(callback[c].tasks, new)
       PROVE  LivesKnown' /\ OneTaskPerClaim' /\ ClaimIsAttended'
  <2> DEFINE n == Len(callback[c].tasks)
  <2>1. /\ n \in Nat
        /\ DOMAIN callback[c].tasks = 1..n
        /\ DOMAIN h.tasks = 1..(n + 1)
        /\ h.tasks[n + 1] = new
        /\ \A i \in 1..n : h.tasks[i] = callback[c].tasks[i]
    BY <1>7, <1>11, <1>13
  <2> HIDE DEF n
  <2>2. \A i \in 1..(n + 1) : i \in 1..n \/ i = n + 1
    BY <2>1
  <2>3. LivesKnown'
    BY <1>6, <1>10, <1>11, <2>1, <2>2 DEF LivesKnown
  <2>4. OneTaskPerClaim'
    <3> SUFFICES ASSUME NEW d \in Callbacks, NEW e \in Callbacks,
                        NEW i \in DOMAIN callback'[d].tasks, NEW j \in DOMAIN callback'[e].tasks,
                        callback'[d].tasks[i] = callback'[e].tasks[j]
        PROVE  d = e /\ i = j
      BY DEF OneTaskPerClaim
    <3>1. \/ d = c /\ i = n + 1
          \/ i \in DOMAIN callback[d].tasks /\ callback'[d].tasks[i] = callback[d].tasks[i]
      BY <1>6, <2>1, <2>2
    <3>2. \/ e = c /\ j = n + 1
          \/ j \in DOMAIN callback[e].tasks /\ callback'[e].tasks[j] = callback[e].tasks[j]
      BY <1>6, <2>1, <2>2
    <3> QED BY <1>6, <1>10, <2>1, <3>1, <3>2 DEF OneTaskPerClaim
  <2>5. ClaimIsAttended'
    <3> SUFFICES ASSUME NEW g \in Files, staged'[g].status = "in_progress"
        PROVE  \E d \in Callbacks : callback'[d].pc = "failed" \/ Attending(d, g, lives[g])'
      BY DEF ClaimIsAttended
    <3>1. CASE g = f
      <4>1. callback'[c].tasks[n + 1] = [file |-> g, life |-> lives'[g]]
        BY <1>6, <2>1, <3>1 DEF new
      <4> QED BY <1>6, <2>1, <4>1 DEF Attending
    <3>2. CASE g # f
      <4>1. PICK d \in Callbacks : callback[d].pc = "failed" \/ Attending(d, g, lives[g])
        BY <1>4, <3>2 DEF ClaimIsAttended
      <4>2. CASE callback[d].pc = "failed"
        BY <1>6, <4>2
      <4>3. CASE Attending(d, g, lives[g])
        <5>1. PICK i \in DOMAIN callback[d].tasks :
                callback[d].tasks[i] = [file |-> g, life |-> lives[g]]
          BY <4>3 DEF Attending
        <5>2. i \in DOMAIN callback'[d].tasks /\ callback'[d].tasks[i] = callback[d].tasks[i]
          BY <1>6, <2>1, <2>2
        <5> QED BY <1>3, <3>2, <5>1, <5>2 DEF Attending
      <4> QED BY <4>1, <4>2, <4>3
    <3> QED BY <3>1, <3>2
  <2> QED BY <2>3, <2>4, <2>5
<1>14. LivesKnown' /\ OneTaskPerClaim' /\ ClaimIsAttended'
  BY <1>12, <1>13 DEF new
<1>15. SaysWhatItIs'
  BY <1>4 DEF SaysWhatItIs, Verdict
<1>16. EveryRecordExpires'
  BY <1>4 DEF EveryRecordExpires, Present
<1> QED BY <1>8, <1>9, <1>14, <1>15, <1>16

-----------------------------------------------------------------------------

\* Nothing is delivered yet.
LEMMA InitInv == Init => IInv
<1> SUFFICES ASSUME Init PROVE IInv
  OBVIOUS
<1>1. TypeOK
  BY DEF Init, StagedInit, TypeOK, StagedTypeOK, NoRecord, NoIds, StagedDocument,
     ReservedIds, Idle, Handler
<1>2. \A c \in Callbacks : callback[c].tasks = <<>> /\ callback[c].pc = "idle"
  BY DEF Init, Idle
<1>3. \A f \in Files : staged[f].status = "absent"
  BY DEF Init, StagedInit, NoRecord
<1>4. Stages /\ LivesKnown /\ OneTaskPerClaim
  BY <1>2 DEF Stages, LivesKnown, OneTaskPerClaim
<1>5. SaysWhatItIs /\ ClaimIsAttended /\ EveryRecordExpires
  BY <1>3 DEF SaysWhatItIs, ClaimIsAttended, EveryRecordExpires, Present
<1> QED BY <1>1, <1>4, <1>5 DEF IInv

LEMMA DeliverKeeps == ASSUME IInv, NEW c \in Callbacks, Deliver(c) PROVE IInv'
<1> USE DEF IInv
<1>1. PICK payload \in Payloads :
        callback' = [callback EXCEPT ![c] =
          IF UploadedDocuments(payload) = {} THEN Done
          ELSE [callback[c] EXCEPT !.pc = "claiming", !.todo = UploadedDocuments(payload)]]
  BY DEF Deliver
<1>2. UploadedDocuments(payload) \in SUBSET Document
  <2>1. payload \in Seq([file : Files, status : {"complete", "pending", "rejected"}])
    BY PayloadsAssumption
  <2>2. ASSUME NEW i \in DOMAIN payload
        PROVE  [place |-> i, file |-> payload[i].file] \in Document
    <3> DEFINE Entry == [file : Files, status : {"complete", "pending", "rejected"}]
    <3>1. i \in Nat /\ payload[i] \in Entry
      <4>1. payload \in Seq(Entry)
        BY <2>1
      <4> HIDE DEF Entry
      <4> QED BY <2>2, <4>1
    <3> QED BY <3>1 DEF Document
  <2> QED BY <2>2 DEF UploadedDocuments
<1> DEFINE h == IF UploadedDocuments(payload) = {} THEN Done
                ELSE [callback[c] EXCEPT !.pc = "claiming", !.todo = UploadedDocuments(payload)]
<1>3. callback[c] \in Handler /\ callback[c].pc = "idle" /\ callback[c].tasks = <<>>
  BY DEF Deliver, TypeOK, Stages
<1>4. h \in Handler /\ h.tasks = callback[c].tasks /\ h.pc \in {"done", "claiming"}
  BY <1>2, <1>3 DEF Handler, Done
<1>5. UNCHANGED stagingVars
  BY DEF Deliver
<1> HIDE DEF h
<1> QED BY <1>1, <1>3, <1>4, <1>5, HandlerStep DEF h

LEMMA ClaimNextKeeps == ASSUME IInv, NEW c \in Callbacks, ClaimNext(c) PROVE IInv'
<1> USE DEF IInv
<1>1. PICK document \in callback[c].todo :
        /\ ComesNext(document, c)
        /\ LET f    == document.file
               rest == [callback[c] EXCEPT !.todo = @ \ {document}]
           IN  IF Claimable(f)
               THEN /\ Claim(f)
                    /\ callback' = [callback EXCEPT ![c] =
                         [rest EXCEPT !.tasks = Append(@, [file |-> f, life |-> lives'[f]])]]
               ELSE /\ callback' = [callback EXCEPT ![c] = rest]
                    /\ UNCHANGED stagingVars
  BY DEF ClaimNext
<1> DEFINE f    == document.file
           rest == [callback[c] EXCEPT !.todo = @ \ {document}]
           h    == [rest EXCEPT !.tasks = Append(@, [file |-> f, life |-> lives'[f]])]
<1>2. callback[c] \in Handler /\ callback[c].pc = "claiming"
  BY <1>1 DEF ComesNext, TypeOK
<1>3. f \in Files
  BY <1>1, <1>2 DEF Handler, Document
<1>4. rest \in Handler /\ rest.pc = "claiming" /\ rest.tasks = callback[c].tasks
  BY <1>2 DEF Handler
<1>5. CASE Claimable(f)
  <2>1. lives'[f] \in Nat
    BY <1>1, <1>3, <1>5 DEF Claim, TypeOK, StagedTypeOK
  <2>2. [file |-> f, life |-> lives'[f]] \in Task
    BY <1>3, <2>1 DEF Task
  <2> DEFINE longer == Append(callback[c].tasks, [file |-> f, life |-> lives'[f]])
  <2>3. /\ h \in Handler /\ h.pc = "claiming" /\ h.tasks = longer
    <3>1. longer \in Seq(Task)
      BY <1>2, <2>2 DEF Handler
    <3>2. h = [rest EXCEPT !.tasks = longer]
      BY <1>4
    <3> HIDE DEF longer, h, rest
    <3> QED BY <1>4, <3>1, <3>2 DEF Handler
  <2>4. Claim(f) /\ callback' = [callback EXCEPT ![c] = h]
    BY <1>1, <1>5
  <2> HIDE DEF h, f
  <2> QED BY <1>2, <1>3, <1>5, <2>3, <2>4, ClaimStep
<1>6. CASE ~Claimable(f)
  <2>1. UNCHANGED stagingVars /\ callback' = [callback EXCEPT ![c] = rest]
    BY <1>1, <1>6
  <2> HIDE DEF rest
  <2> QED BY <1>2, <1>4, <2>1, HandlerStep
<1> QED BY <1>5, <1>6

LEMMA ClaimRaisesKeeps == ASSUME IInv, NEW c \in Callbacks, ClaimRaises(c) PROVE IInv'
<1> USE DEF IInv
<1>1. PICK document \in callback[c].todo :
        /\ ComesNext(document, c)
        /\ \/ Claimable(document.file) /\ Claim(document.file)
           \/ UNCHANGED stagingVars
  BY DEF ClaimRaises
<1>2. callback' = [callback EXCEPT ![c] = Failed]
  BY DEF ClaimRaises
<1>3. document.file \in Files /\ callback[c].pc = "claiming"
  BY <1>1 DEF ComesNext, TypeOK, Handler, Document
<1>4. Failed \in Handler /\ Failed.pc = "failed" /\ Failed.tasks = <<>>
  BY DEF Failed, Handler
<1> QED BY <1>1, <1>2, <1>3, <1>4, ClaimStep, HandlerStep

LEMMA RespondKeeps == ASSUME IInv, NEW c \in Callbacks, Respond(c) PROVE IInv'
<1> USE DEF IInv
<1> DEFINE h == IF callback[c].tasks = <<>> THEN Done
                ELSE [callback[c] EXCEPT !.pc = "fetching"]
<1>1. /\ callback[c] \in Handler /\ callback[c].pc = "claiming"
      /\ callback' = [callback EXCEPT ![c] = h] /\ UNCHANGED stagingVars
  BY DEF Respond, TypeOK
<1>2. /\ h \in Handler /\ h.tasks = callback[c].tasks
      /\ h.pc = (IF h.tasks = <<>> THEN "done" ELSE "fetching")
  BY <1>1 DEF Handler, Done
<1> HIDE DEF h
<1> QED BY <1>1, <1>2, HandlerStep

LEMMA FetchKeeps == ASSUME IInv, NEW c \in Callbacks, Fetch(c) PROVE IInv'
<1> USE DEF IInv
<1> DEFINE h == [callback[c] EXCEPT !.pc = "parsing"]
<1>1. /\ callback[c] \in Handler /\ callback[c].pc = "fetching"
      /\ callback' = [callback EXCEPT ![c] = h] /\ UNCHANGED stagingVars
      /\ callback[c].tasks # <<>>
  BY DEF Fetch, TypeOK, Stages
<1>2. h \in Handler /\ h.tasks = callback[c].tasks /\ h.pc = "parsing"
  BY <1>1 DEF Handler
<1> HIDE DEF h
<1> QED BY <1>1, <1>2, HandlerStep

LEMMA FailureKeeps ==
  ASSUME IInv, NEW c \in Callbacks, TaskRaises(c) \/ Crash(c)
  PROVE  IInv'
<1>1. UNCHANGED stagingVars /\ callback' = [callback EXCEPT ![c] = Failed]
  BY DEF TaskRaises, Crash
<1>2. Failed \in Handler /\ Failed.pc = "failed" /\ Failed.tasks = <<>>
  BY DEF Failed, Handler
<1> QED BY <1>1, <1>2, HandlerStep

\* A task marks what a parse of its file finds.
LEMMA JudgeMarks ==
  ASSUME NEW c \in Callbacks, ValidateAndParse(c)
  PROVE  Mark(Current(c), Verdict(Current(c)))
BY DEF ValidateAndParse, MarkComplete, MarkFailed, Verdict

\* The task at the head of the queue.
LEMMA CurrentIsKnown ==
  ASSUME IInv, NEW c \in Callbacks, callback[c].pc = "parsing"
  PROVE  /\ Current(c) \in Files
         /\ callback[c].tasks \in Seq(Task) /\ callback[c].tasks # <<>>
         /\ lives[Current(c)] > 0
<1>1. callback[c].tasks \in Seq(Task) /\ callback[c].tasks # <<>>
  BY DEF IInv, TypeOK, Handler, Stages
<1>2. 1 \in DOMAIN callback[c].tasks /\ callback[c].tasks[1] \in Task
  BY <1>1
<1>3. callback[c].tasks[1].life \in 1..lives[callback[c].tasks[1].file]
  BY <1>2 DEF IInv, LivesKnown
<1>4. lives \in [Files -> Nat]
  BY DEF IInv, TypeOK, StagedTypeOK
<1> QED BY <1>1, <1>2, <1>3, <1>4 DEF Current, Task

LEMMA ValidateAndParseKeeps ==
  ASSUME IInv, NEW c \in Callbacks, ValidateAndParse(c)
  PROVE  IInv'
<1> USE DEF IInv
<1> DEFINE f == Current(c)
           n == Len(callback[c].tasks)
<1>1. callback[c].pc = "parsing" /\ callback' = [callback EXCEPT ![c] = NextTask(c)]
  BY DEF ValidateAndParse
<1>2. f \in Files /\ callback[c].tasks \in Seq(Task) /\ callback[c].tasks # <<>>
  BY <1>1, CurrentIsKnown
<1>3. /\ staged \in [Files -> StagedDocument] /\ lives \in [Files -> Nat]
      /\ callback \in [Callbacks -> Handler]
  BY DEF TypeOK, StagedTypeOK
<1>4. Mark(f, Verdict(f))
  BY JudgeMarks
<1>5. /\ staged' \in [Files -> StagedDocument] /\ lives' = lives
      /\ staged'[f].status \in {"absent", Verdict(f)}
      /\ \A g \in Files \ {f} : staged'[g] = staged[g]
      /\ \A g \in Files : staged'[g].expires = staged[g].expires
      /\ \A g \in Files : staged'[g].status # "absent" => staged[g].status # "absent"
  BY <1>2, <1>3, <1>4 DEF Mark, Present, Verdict, StagedDocument, ParsingStatus
<1>6. /\ n \in Nat \ {0} /\ DOMAIN callback[c].tasks = 1..n
      /\ callback[c].tasks[1].file = f
  BY <1>2 DEF Current
<1>7. /\ NextTask(c) \in Handler
      /\ \/ n = 1 /\ NextTask(c).pc = "done" /\ NextTask(c).tasks = <<>>
         \/ /\ n > 1 /\ NextTask(c).pc = "fetching"
            /\ NextTask(c).tasks = Tail(callback[c].tasks)
  <2>1. CASE n = 1
    BY <2>1 DEF NextTask, Done, Handler
  <2>2. CASE n # 1
    <3>1. Tail(callback[c].tasks) \in Seq(Task) /\ callback[c] \in Handler
      BY <1>2, <1>3
    <3>2. NextTask(c) = [callback[c] EXCEPT !.pc = "fetching", !.tasks = Tail(callback[c].tasks)]
      BY <2>2 DEF NextTask
    <3>3. n > 1
      <4> HIDE DEF n
      <4> QED BY <1>6, <2>2
    <3> QED BY <3>1, <3>2, <3>3 DEF Handler
  <2> QED BY <2>1, <2>2
<1>8. /\ DOMAIN NextTask(c).tasks = 1..(n - 1)
      /\ \A i \in 1..(n - 1) :
           /\ i + 1 \in 1..n
           /\ NextTask(c).tasks[i] = callback[c].tasks[i + 1]
  <2>1. CASE n = 1 /\ NextTask(c).tasks = <<>>
    BY <2>1
  <2>2. CASE n > 1 /\ NextTask(c).tasks = Tail(callback[c].tasks)
    <3>1. /\ DOMAIN Tail(callback[c].tasks) = 1..(n - 1)
          /\ \A i \in 1..(n - 1) : Tail(callback[c].tasks)[i] = callback[c].tasks[i + 1]
      BY <1>2, <1>6
    <3> QED BY <1>6, <2>2, <3>1
  <2> QED BY <1>7, <2>1, <2>2
<1> HIDE DEF n, f
<1>9. /\ callback'[c] = NextTask(c)
      /\ \A d \in Callbacks \ {c} : callback'[d] = callback[d]
  BY <1>1, <1>3
<1>10. TypeOK'
  BY <1>1, <1>3, <1>5, <1>7 DEF TypeOK, StagedTypeOK
<1>11. Stages'
  <2>1. NextTask(c).pc = "fetching" => NextTask(c).tasks # <<>>
    BY <1>6, <1>7, <1>8
  <2> QED BY <1>7, <1>9, <2>1 DEF Stages
<1>12. LivesKnown'
  <2> SUFFICES ASSUME NEW d \in Callbacks, NEW i \in DOMAIN callback'[d].tasks
      PROVE  callback'[d].tasks[i].life \in 1..lives[callback'[d].tasks[i].file]
    BY <1>5 DEF LivesKnown
  <2>1. CASE d # c
    BY <1>9, <2>1 DEF LivesKnown
  <2>2. CASE d = c
    <3>1. i + 1 \in DOMAIN callback[c].tasks /\ callback'[d].tasks[i] = callback[c].tasks[i + 1]
      BY <1>6, <1>8, <1>9, <2>2
    <3> QED BY <3>1 DEF LivesKnown
  <2> QED BY <2>1, <2>2
<1>13. SaysWhatItIs'
  BY <1>5 DEF SaysWhatItIs
<1>14. OneTaskPerClaim'
  <2> SUFFICES ASSUME NEW d \in Callbacks, NEW e \in Callbacks,
                      NEW i \in DOMAIN callback'[d].tasks, NEW j \in DOMAIN callback'[e].tasks,
                      callback'[d].tasks[i] = callback'[e].tasks[j]
      PROVE  d = e /\ i = j
    BY DEF OneTaskPerClaim
  <2> DEFINE k == IF d = c THEN i + 1 ELSE i
             l == IF e = c THEN j + 1 ELSE j
  <2>1. k \in DOMAIN callback[d].tasks /\ callback'[d].tasks[i] = callback[d].tasks[k]
    BY <1>6, <1>8, <1>9
  <2>2. l \in DOMAIN callback[e].tasks /\ callback'[e].tasks[j] = callback[e].tasks[l]
    BY <1>6, <1>8, <1>9
  <2>3. d = e /\ k = l
    <3>1. callback[d].tasks[k] = callback[e].tasks[l]
      BY <2>1, <2>2
    <3> HIDE DEF k, l
    <3> QED BY <2>1, <2>2, <3>1 DEF OneTaskPerClaim
  <2>4. CASE d # c
    BY <2>3, <2>4
  <2>5. CASE d = c
    BY <1>6, <1>8, <1>9, <2>3, <2>5
  <2> QED BY <2>3, <2>4, <2>5
<1>15. ClaimIsAttended'
  <2> SUFFICES ASSUME NEW g \in Files, staged'[g].status = "in_progress"
      PROVE  \E d \in Callbacks : callback'[d].pc = "failed" \/ Attending(d, g, lives[g])'
    BY DEF ClaimIsAttended
  <2>1. g # f
    BY <1>5 DEF Verdict
  <2>2. PICK d \in Callbacks : callback[d].pc = "failed" \/ Attending(d, g, lives[g])
    BY <1>5, <2>1 DEF ClaimIsAttended
  <2>3. CASE d # c
    BY <1>5, <1>9, <2>2, <2>3 DEF Attending
  <2>4. CASE d = c
    <3>1. PICK i \in DOMAIN callback[c].tasks :
            callback[c].tasks[i] = [file |-> g, life |-> lives[g]]
      BY <1>1, <2>2, <2>4 DEF Attending
    <3>2. i # 1
      BY <1>6, <2>1, <3>1
    <3>3. i - 1 \in 1..(n - 1) /\ i = (i - 1) + 1
      BY <1>6, <3>1, <3>2
    <3>4. callback'[c].tasks[i - 1] = [file |-> g, life |-> lives'[g]]
      BY <1>5, <1>8, <1>9, <3>1, <3>3
    <3> QED BY <1>8, <1>9, <3>3, <3>4 DEF Attending
  <2> QED BY <2>3, <2>4
<1>16. EveryRecordExpires'
  BY <1>5 DEF EveryRecordExpires, Present
<1> QED BY <1>10, <1>11, <1>12, <1>13, <1>14, <1>15, <1>16

\* POST /guides and the record's expiry.
LEMMA OthersKeep ==
  ASSUME IInv, NEW f \in Files, SubmissionSide(f) \/ Expiry(f)
  PROVE  IInv'
<1>1. staged \in [Files -> StagedDocument] /\ lives \in [Files -> Nat]
  BY DEF IInv, TypeOK, StagedTypeOK
<1>2. CASE SubmissionSide(f)
  <2>1. [document |-> 2 * lives[f] - 1, version |-> 2 * lives[f]] \in ReservedIds
    BY <1>1, <1>2 DEF SubmissionSide, ReservedIds
  <2>2. UNCHANGED <<callback, lives>>
    BY <1>2 DEF SubmissionSide, ReserveIds, Promote
  <2>3. /\ staged' \in [Files -> StagedDocument]
        /\ \A g \in Files : /\ staged'[g].status = staged[g].status
                            /\ staged'[g].expires = staged[g].expires
    <3> DEFINE ids == [document |-> 2 * lives[f] - 1, version |-> 2 * lives[f]]
    <3>1. CASE staged' = [staged EXCEPT ![f].ids = ids]
      <4>1. [staged[f] EXCEPT !.ids = ids] \in StagedDocument
        BY <1>1, <2>1 DEF StagedDocument
      <4> HIDE DEF ids
      <4> QED BY <1>1, <3>1, <4>1 DEF StagedDocument
    <3>2. CASE staged' = [staged EXCEPT ![f].promoted = TRUE]
      <4>1. [staged[f] EXCEPT !.promoted = TRUE] \in StagedDocument
        BY <1>1 DEF StagedDocument
      <4> QED BY <1>1, <3>2, <4>1 DEF StagedDocument
    <3>3. CASE staged' = staged
      BY <1>1, <3>3
    <3> QED BY <1>2, <3>1, <3>2, <3>3 DEF SubmissionSide, ReserveIds, Promote
  <2> QED BY <2>2, <2>3, RecordStep
<1>3. CASE Expiry(f)
  <2>1. UNCHANGED <<callback, lives>>
    BY <1>3 DEF Expiry, Expire
  <2>2. NoRecord \in StagedDocument /\ NoRecord.status = "absent"
    BY DEF NoRecord, NoIds, StagedDocument, ReservedIds
  <2>3. /\ staged' \in [Files -> StagedDocument]
        /\ \A g \in Files : staged'[g] \in {staged[g], NoRecord}
    BY <1>1, <1>3, <2>2 DEF Expiry, Expire
  <2> QED BY <2>1, <2>2, <2>3, RecordStep
<1> QED BY <1>2, <1>3

\* The invariant is inductive.
LEMMA NextInv == IInv /\ [Next]_vars => IInv'
<1> SUFFICES ASSUME IInv, [Next]_vars PROVE IInv'
  OBVIOUS
<1>1. ASSUME NEW c \in Callbacks, Progress(c) \/ Failure(c) PROVE IInv'
  BY <1>1, DeliverKeeps, ClaimNextKeeps, RespondKeeps, FetchKeeps, ValidateAndParseKeeps,
     ClaimRaisesKeeps, FailureKeeps DEF Progress, Failure
<1>2. CASE UNCHANGED vars
  BY <1>2 DEF vars, IInv, TypeOK, StagedTypeOK, Stages, LivesKnown, SaysWhatItIs, Verdict,
     OneTaskPerClaim, ClaimIsAttended, Attending, EveryRecordExpires, Present
<1> QED BY <1>1, <1>2, OthersKeep DEF Next

\* The invariant holds throughout.
LEMMA Invariance == Spec => []IInv
  BY InitInv, NextInv, PTL DEF Spec

-----------------------------------------------------------------------------

\* Every record is one the store could hold, and every handler is at a step.
THEOREM TypeCorrect == Spec => []TypeOK
<1>1. IInv => TypeOK
  BY DEF IInv
<1> QED BY Invariance, <1>1, PTL

\* However many times files are delivered, a life of a record has one task.
THEOREM ClaimsAreExclusive == Spec => []OneTaskPerClaim
<1>1. IInv => OneTaskPerClaim
  BY DEF IInv
<1> QED BY Invariance, <1>1, PTL

\* A file claimed and not judged has a task, unless a callback failed.
THEOREM NoClaimForgotten == Spec => []ClaimIsAttended
<1>1. IInv => ClaimIsAttended
  BY DEF IInv
<1> QED BY Invariance, <1>1, PTL

\* No write brings into being a record that would never expire.
THEOREM RecordsExpire == Spec => []EveryRecordExpires
<1>1. IInv => EveryRecordExpires
  BY DEF IInv
<1> QED BY Invariance, <1>1, PTL

\* A judged file stays as judged until its record expires.
THEOREM VerdictsStand == Spec => VerdictIsFinal
<1> DEFINE Stands == \A f \in Files : staged[f].status \in {"complete", "failed"} =>
                       staged'[f].status \in {staged[f].status, "absent"}
<1>1. ASSUME IInv, NEW f \in Files, Claimable(f), Claim(f) PROVE Stands
  BY <1>1 DEF Claimable, Claim, IInv, TypeOK, StagedTypeOK
<1>2. ASSUME UNCHANGED stagingVars PROVE Stands
  BY <1>2 DEF stagingVars
<1>3. ASSUME IInv, NEW f \in Files, Mark(f, Verdict(f)) PROVE Stands
  BY <1>3 DEF Mark, Present, IInv, SaysWhatItIs, TypeOK, StagedTypeOK, StagedDocument
<1>4. ASSUME IInv, NEW f \in Files, SubmissionSide(f) \/ Expiry(f) PROVE Stands
  BY <1>4 DEF SubmissionSide, Expiry, ReserveIds, Promote, Expire, NoRecord, IInv, TypeOK,
     StagedTypeOK, StagedDocument
<1>5. ASSUME IInv, NEW c \in Callbacks, NEW document \in callback[c].todo
      PROVE  document.file \in Files
  BY <1>5 DEF IInv, TypeOK, Handler, Document
<1> HIDE DEF Stands
<1>6. ASSUME IInv, NEW c \in Callbacks, ClaimNext(c) \/ ClaimRaises(c) PROVE Stands
  BY <1>1, <1>2, <1>5, <1>6 DEF ClaimNext, ClaimRaises
<1>7. ASSUME IInv, NEW c \in Callbacks, ValidateAndParse(c) PROVE Stands
  <2>1. Current(c) \in Files /\ Mark(Current(c), Verdict(Current(c)))
    BY <1>7, JudgeMarks, CurrentIsKnown DEF ValidateAndParse
  <2> QED BY <1>3, <1>7, <2>1
<1>8. ASSUME NEW c \in Callbacks, Deliver(c) \/ Respond(c) \/ Fetch(c) \/ TaskRaises(c) \/ Crash(c)
      PROVE  UNCHANGED stagingVars
  BY <1>8 DEF Deliver, Respond, Fetch, TaskRaises, Crash
<1>9. IInv /\ [Next]_vars => [Stands]_vars
  <2> SUFFICES ASSUME IInv, Next PROVE Stands
    OBVIOUS
  <2>1. ASSUME NEW c \in Callbacks, Progress(c) \/ Failure(c) PROVE Stands
    BY <1>2, <1>6, <1>7, <1>8, <2>1 DEF Progress, Failure
  <2> QED BY <1>4, <2>1 DEF Next
<1> QED BY Invariance, <1>9, PTL DEF Spec, VerdictIsFinal, Stands

\* The callback side does to a record what GuideCreation assumes of it.
THEOREM StepsAreShared == Spec => RecordStepsAreShared
<1> DEFINE Shared == \E f \in Files : \/ CallbackSide(f) \/ Expire(f) \/ Promote(f)
                                      \/ \E fresh \in {staged'[f].ids} : ReserveIds(f, fresh)
<1>1. ASSUME IInv, NEW c \in Callbacks, ClaimNext(c) \/ ClaimRaises(c)
      PROVE  Shared \/ UNCHANGED stagingVars
  <2>1. \A document \in callback[c].todo : document.file \in Files
    BY <1>1 DEF IInv, TypeOK, Handler, Document
  <2> QED BY <1>1, <2>1 DEF ClaimNext, ClaimRaises, CallbackSide
<1>2. ASSUME IInv, NEW c \in Callbacks, ValidateAndParse(c) PROVE Shared
  <2>1. /\ Current(c) \in Files /\ lives[Current(c)] > 0
        /\ Mark(Current(c), Verdict(Current(c)))
    BY <1>2, JudgeMarks, CurrentIsKnown DEF ValidateAndParse
  <2>2. CallbackSide(Current(c))
    BY <2>1 DEF CallbackSide
  <2> QED BY <2>1, <2>2
<1>3. ASSUME IInv, NEW f \in Files, SubmissionSide(f) PROVE Shared \/ UNCHANGED stagingVars
  <2> DEFINE ids == [document |-> 2 * lives[f] - 1, version |-> 2 * lives[f]]
  <2>1. Promote(f) \/ ReserveIds(f, ids)
    BY <1>3 DEF SubmissionSide
  <2>2. CASE ReserveIds(f, ids) /\ Reservable(f)
    <3>1. staged'[f].ids = ids
      BY <1>3, <2>2 DEF ReserveIds, IInv, TypeOK, StagedTypeOK, StagedDocument
    <3> QED BY <2>2, <3>1
  <2>3. CASE ReserveIds(f, ids) /\ ~Reservable(f)
    BY <2>3 DEF ReserveIds, stagingVars
  <2> QED BY <2>1, <2>2, <2>3
<1>4. ASSUME NEW f \in Files, Expiry(f) PROVE Shared
  BY <1>4 DEF Expiry
<1> HIDE DEF Shared
<1>5. ASSUME NEW c \in Callbacks, Deliver(c) \/ Respond(c) \/ Fetch(c) \/ TaskRaises(c) \/ Crash(c)
      PROVE  UNCHANGED stagingVars
  BY <1>5 DEF Deliver, Respond, Fetch, TaskRaises, Crash
<1>6. IInv /\ [Next]_vars => [Shared]_stagingVars
  <2> SUFFICES ASSUME IInv, [Next]_vars PROVE Shared \/ UNCHANGED stagingVars
    OBVIOUS
  <2>1. ASSUME NEW c \in Callbacks, Progress(c) \/ Failure(c)
        PROVE  Shared \/ UNCHANGED stagingVars
    BY <1>1, <1>2, <1>5, <2>1 DEF Progress, Failure
  <2>2. UNCHANGED vars => UNCHANGED stagingVars
    BY DEF vars, stagingVars
  <2> QED BY <1>3, <1>4, <2>1, <2>2 DEF Next
<1> QED BY Invariance, <1>6, PTL DEF Spec, RecordStepsAreShared, Shared

=============================================================================
