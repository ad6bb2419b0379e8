----------------------- MODULE GuideCreation_proofs -----------------------
(***************************************************************************)
(* Proofs about GuideCreation, for any clients, files, uploads, pictures   *)
(* and bounds.  The invariant is built in layers, each inductive relative  *)
(* to those before it:                                                     *)
(*                                                                         *)
(*   TypeOK        the types                                               *)
(*   Reservations  who holds which ids, and that no two reservations share *)
(*                 any                                                     *)
(*   Stored        what is in the bucket for the ids that are held         *)
(*   Recorded      what the two collections hold, and how far each attempt *)
(*                 has got                                                 *)
(*                                                                         *)
(* and then that GuideCreation implements GuideCommit.                     *)
(***************************************************************************)
EXTENDS GuideCreation, TLAPS

USE ReadableAssumption, CreationAssumption

-----------------------------------------------------------------------------
(* The inductive invariant                                                 *)

Holding(c) == client[c].pc \in {"saving", "versioning", "documenting", "promoting"}

\* The reservation a file's record carries, where it carries one.
OnRecord(f) == [file |-> f, life |-> lives[f], ids |-> staged[f].ids]

ReservationsOfLives ==
  /\ \A f \in Files : staged[f].status = "absent" => staged[f] = NoRecord
  /\ \A f \in Files : staged[f].ids # NoIds => OnRecord(f) \in reserved
  /\ \A r \in reserved : r.life <= lives[r.file]
  /\ \A f \in Files : Present(f) /\ staged[f].ids = NoIds =>
       \A r \in reserved : r.file = f => r.life < lives[f]

ReservedApart ==
  /\ \A r \in reserved : /\ 0 < r.ids.document /\ r.ids.document <= minted
                         /\ 0 < r.ids.version /\ r.ids.version <= minted
  /\ \A r, s \in reserved : r.ids.document = s.ids.document => r = s
  /\ \A r, s \in reserved : r.ids.version = s.ids.version => r = s

HeldIsReserved ==
  \A c \in Clients : Holding(c) =>
    \E r \in reserved : r.file = client[c].file /\ r.ids = client[c].ids

Reservations ==
  /\ ReservationsOfLives
  /\ OneReservationPerDelivery
  /\ ReservedApart
  /\ HeldIsReserved

Stored ==
  /\ ContentHasItsPictures
  /\ \A x \in contents : \E r \in reserved : x = <<r.ids.document, r.ids.version>>
  /\ \A c \in Clients : client[c].pc \in {"versioning", "documenting", "promoting"} =>
       <<client[c].ids.document, client[c].ids.version>> \in contents

VersionRecorded(ids) == \E v \in versions : v.id = ids.version /\ v.document = ids.document

Recorded ==
  /\ VersionIsWhole
  /\ \A v, w \in versions : v.id = w.id => v = w
  /\ \A c \in Clients : client[c].pc \in {"documenting", "promoting"} =>
       VersionRecorded(client[c].ids)
  /\ \A d \in documents :
       \E r \in reserved : r.file = d.file /\ r.ids.document = d.id /\ VersionRecorded(r.ids)
  /\ \A d, e \in documents : d.id = e.id => d = e
  /\ \A d, e \in documents : d.upload = e.upload => d = e
  /\ \A c \in Clients : client[c].pc = "promoting" =>
       \E d \in documents : d.id = client[c].ids.document
  /\ PromotedWasCommitted

-----------------------------------------------------------------------------
(* Types                                                                   *)

\* Every update of the staging collection leaves records of the right shape.
LEMMA StagedTypes ==
  ASSUME StagedTypeOK, NEW f \in Files
  PROVE  /\ Claim(f) => StagedTypeOK'
         /\ \A verdict \in ParsingStatus : Mark(f, verdict) => StagedTypeOK'
         /\ \A fresh \in ReservedIds : ReserveIds(f, fresh) => StagedTypeOK'
         /\ Promote(f) => StagedTypeOK'
         /\ Expire(f) => StagedTypeOK'
<1>1. Claim(f) => StagedTypeOK'
  <2> DEFINE claimed == [staged[f] EXCEPT !.status = "in_progress", !.expires = TRUE]
  <2>1. claimed \in StagedDocument
    BY DEF StagedTypeOK, StagedDocument, ParsingStatus
  <2> HIDE DEF claimed
  <2>2. Claim(f) => staged' = [staged EXCEPT ![f] = claimed]
    BY DEF Claim, claimed
  <2>3. Claim(f) => lives' \in [Files -> Nat]
    BY DEF StagedTypeOK, Claim
  <2> QED  BY <2>1, <2>2, <2>3 DEF StagedTypeOK
<1>2. \A verdict \in ParsingStatus : Mark(f, verdict) => StagedTypeOK'
  BY DEF StagedTypeOK, StagedDocument, ParsingStatus, Mark
<1>3. \A fresh \in ReservedIds : ReserveIds(f, fresh) => StagedTypeOK'
  BY DEF StagedTypeOK, StagedDocument, ReserveIds
<1>4. Promote(f) => StagedTypeOK'
  <2>1. [staged[f] EXCEPT !.promoted = TRUE] \in StagedDocument
    BY DEF StagedTypeOK, StagedDocument
  <2> QED  BY <2>1 DEF StagedTypeOK, Promote
<1>5. Expire(f) => StagedTypeOK'
  BY DEF StagedTypeOK, StagedDocument, Expire, NoRecord, NoIds, ReservedIds
<1> QED  BY <1>1, <1>2, <1>3, <1>4, <1>5

\* The initial states are of the right types.
LEMMA TypesInit == Init => TypeOK
BY DEF Init, TypeOK, StagedInit, StagedTypeOK, StagedDocument, NoRecord, NoIds,
       ReservedIds, Attempt

\* An attempt that moves on is still an attempt.
LEMMA GotoTypes ==
  ASSUME client \in [Clients -> Attempt], NEW c \in Clients,
         NEW pc \in {"finding", "getting", "reserving", "rereading",
                    "versioning", "documenting", "promoting"},
         Goto(c, pc)
  PROVE  client' \in [Clients -> Attempt]
BY DEF Attempt, Goto

\* An attempt that ends is still an attempt, and holds no ids.
LEMMA EndTypes ==
  ASSUME client \in [Clients -> Attempt], NEW c \in Clients, End(c)
  PROVE  client' \in [Clients -> Attempt]
<1>1. [client[c] EXCEPT !.pc = "idle", !.ids = NoIds] \in Attempt
  BY DEF Attempt, NoIds, ReservedIds
<1> QED  BY <1>1 DEF End

\* Steps of one client change only that client's attempt.
LEMMA TypesStep == TypeOK /\ [Next]_vars => TypeOK'
<1> SUFFICES ASSUME TypeOK, [Next]_vars  PROVE TypeOK'
  OBVIOUS
<1> USE DEF TypeOK
<1>1. CASE UNCHANGED vars
  BY <1>1 DEF vars, StagedTypeOK
<1>2. ASSUME NEW c \in Clients, Progress(c)  PROVE TypeOK'
  <2> USE DEF At, Goto, End, Attempt, stagingVars, records, objects
  <2>1. CASE Submit(c)
    BY <2>1 DEF Submit, StagedTypeOK
  <2>2. CASE FoundByUpload(c)
    <3>1. answered' \subseteq Uploads \X Document
      BY <2>2 DEF FoundByUpload, Document
    <3>2. client' \in [Clients -> Attempt]
      BY <2>2, EndTypes DEF FoundByUpload
    <3> QED  BY <2>2, <3>1, <3>2 DEF FoundByUpload, StagedTypeOK
  <2>3. CASE NotFoundByUpload(c)
    BY <2>3 DEF NotFoundByUpload, StagedTypeOK
  <2>4. CASE GetStaged(c)
    <3>1. client' \in [Clients -> Attempt]
      BY <2>4, GotoTypes, EndTypes DEF GetStaged
    <3> QED  BY <2>4, <3>1 DEF GetStaged, StagedTypeOK
  <2>5. CASE Reserve(c)
    <3> DEFINE f == client[c].file
               fresh == [document |-> minted + 1, version |-> minted + 2]
    <3>1. f \in Files /\ fresh \in ReservedIds
      BY DEF ReservedIds
    <3>2. StagedTypeOK'
      BY <2>5, <3>1, StagedTypes DEF Reserve
    <3>3. minted' \in Nat /\ reserved' \subseteq [file : Files, life : Nat, ids : ReservedIds]
      BY <2>5, <3>1 DEF Reserve, StagedTypeOK
    <3> QED  BY <2>5, <3>2, <3>3 DEF Reserve
  <2>6. CASE Reread(c)
    <3>1. staged[client[c].file].ids \in ReservedIds
      BY DEF StagedTypeOK, StagedDocument
    <3>2. client' \in [Clients -> Attempt]
      <4>1. [client[c] EXCEPT !.pc = "saving", !.ids = staged[client[c].file].ids] \in Attempt
        BY <3>1 DEF Attempt
      <4> QED  BY <2>6, <4>1, EndTypes DEF Reread
    <3> QED  BY <2>6, <3>2 DEF Reread, StagedTypeOK
  <2>7. CASE SavePicture(c)
    <3>1. client[c].ids.document \in Nat /\ Unsaved(c) \subseteq Pictures
      BY DEF ReservedIds, Unsaved
    <3> QED  BY <2>7, <3>1 DEF SavePicture, StagedTypeOK
  <2>8. CASE SaveContent(c)
    <3>1. client[c].ids.document \in Nat /\ client[c].ids.version \in Nat
      BY DEF ReservedIds
    <3> QED  BY <2>8, <3>1 DEF SaveContent, StagedTypeOK
  <2>9. CASE RecordVersion(c)
    <3>1. NewVersion(c) \in Version
      BY DEF NewVersion, Version, ReservedIds
    <3>2. client' \in [Clients -> Attempt]
      BY <2>9, GotoTypes, EndTypes DEF RecordVersion
    <3>3. versions' \subseteq Version
      BY <2>9, <3>1 DEF RecordVersion
    <3> QED  BY <2>9, <3>2, <3>3 DEF RecordVersion, StagedTypeOK
  <2>10. CASE RecordDocument(c)
    <3>1. NewDocument(c) \in Document
      BY DEF NewDocument, Document, ReservedIds
    <3>2. client' \in [Clients -> Attempt]
      BY <2>10, GotoTypes, EndTypes DEF RecordDocument
    <3>3. documents' \subseteq Document
      BY <2>10, <3>1 DEF RecordDocument
    <3> QED  BY <2>10, <3>2, <3>3 DEF RecordDocument, StagedTypeOK
  <2>11. CASE PromoteStaged(c)
    <3>1. StagedTypeOK'
      BY <2>11, StagedTypes DEF PromoteStaged, StagedTypeOK
    <3>2. answered' \subseteq Uploads \X Document
      BY <2>11 DEF PromoteStaged, AnswerCreated
    <3>3. client' \in [Clients -> Attempt]
      BY <2>11, EndTypes DEF PromoteStaged
    <3> QED  BY <2>11, <3>1, <3>2, <3>3 DEF PromoteStaged
  <2> QED  BY <1>2, <2>1, <2>2, <2>3, <2>4, <2>5, <2>6, <2>7, <2>8, <2>9, <2>10, <2>11
              DEF Progress
<1>3. ASSUME NEW c \in Clients, Fail(c)  PROVE TypeOK'
  <2>1. client' \in [Clients -> Attempt]
    BY <1>3, EndTypes DEF Fail
  <2> QED  BY <1>3, <2>1 DEF Fail, stagingVars, records, objects, StagedTypeOK
<1>4. ASSUME NEW f \in Files, Callback(f)  PROVE TypeOK'
  <2>1. Verdict(f) \in ParsingStatus
    BY DEF Verdict, ParsingStatus
  <2>2. StagedTypeOK'
    BY <1>4, <2>1, StagedTypes DEF Callback, CallbackSide
  <2> QED  BY <1>4, <2>2 DEF Callback, records, objects
<1>5. ASSUME NEW f \in Files, Expiry(f)  PROVE TypeOK'
  BY <1>5, StagedTypes DEF Expiry, records, objects
<1> QED  BY <1>1, <1>2, <1>3, <1>4, <1>5 DEF Next

\* Every variable keeps its type, whatever the constants are.
THEOREM TypeCorrect == Spec => []TypeOK
BY TypesInit, TypesStep, PTL DEF Spec

-----------------------------------------------------------------------------
(* Reservations                                                            *)

\* Nothing is reserved or held at first.
LEMMA ReservationsInit == Init => Reservations
BY DEF Init, StagedInit, Reservations, ReservationsOfLives, OneReservationPerDelivery,
       ReservedApart, HeldIsReserved, Holding, NoRecord, Present

\* The files and uploads of the clients are theirs for good, and an attempt
\* holds ids only from Reread on.
KeepsHolding ==
  \A c \in Clients : Holding(c)' =>
    /\ Holding(c)
    /\ client'[c].ids = client[c].ids
    /\ client'[c].file = client[c].file

\* Steps that touch neither the staging records nor the reservations, and give
\* no attempt ids it did not hold.
LEMMA ReservationsFrame ==
  ASSUME Reservations, UNCHANGED <<stagingVars, reserved, minted>>, KeepsHolding
  PROVE  Reservations'
<1> USE DEF Reservations, stagingVars
<1>1. ReservationsOfLives' /\ OneReservationPerDelivery' /\ ReservedApart'
  BY DEF ReservationsOfLives, OneReservationPerDelivery, ReservedApart, OnRecord, Present
<1>2. HeldIsReserved'
  BY DEF HeldIsReserved, KeepsHolding
<1> QED  BY <1>1, <1>2

\* What the steps that only move one attempt on have in common.
LEMMA GotoKeepsHolding ==
  ASSUME TypeOK, NEW c \in Clients,
         \/ End(c)
         \/ Goto(c, "finding") \/ Goto(c, "getting") \/ Goto(c, "reserving")
         \/ Goto(c, "rereading")
         \/ Holding(c) /\ \E pc \in {"versioning", "documenting", "promoting"} : Goto(c, pc)
  PROVE  KeepsHolding
<1> USE DEF TypeOK, Attempt, Holding, KeepsHolding
<1>1. CASE End(c)
  BY <1>1 DEF End
<1>2. ASSUME NEW pc \in {"finding", "getting", "reserving", "rereading"}, Goto(c, pc)
      PROVE  KeepsHolding
  BY <1>2 DEF Goto
<1>3. ASSUME Holding(c), NEW pc \in {"versioning", "documenting", "promoting"}, Goto(c, pc)
      PROVE  KeepsHolding
  BY <1>3 DEF Goto
<1> QED  BY <1>1, <1>2, <1>3

\* Updates of the staging collection that leave ids and presence as they are.
KeepsIds ==
  \A f \in Files :
    /\ staged'[f].ids = staged[f].ids
    /\ (staged'[f].status = "absent") = (staged[f].status = "absent")
    /\ staged[f].status = "absent" => staged'[f] = staged[f]

\* Steps that change a staging record but neither its ids nor its presence.
LEMMA ReservationsRecordFrame ==
  ASSUME Reservations, UNCHANGED <<lives, reserved, minted>>, KeepsHolding, KeepsIds
  PROVE  Reservations'
<1> USE DEF Reservations
<1>1. ReservationsOfLives'
  BY DEF ReservationsOfLives, OnRecord, Present, KeepsIds
<1>2. OneReservationPerDelivery' /\ ReservedApart'
  BY DEF OneReservationPerDelivery, ReservedApart
<1>3. HeldIsReserved'
  BY DEF HeldIsReserved, KeepsHolding
<1> QED  BY <1>1, <1>2, <1>3

\* Verdicts and promotions are such steps: neither writes ids, and neither
\* brings a record into being (update_one without upsert).
LEMMA MarkKeepsIds ==
  ASSUME TypeOK, NEW f \in Files, NEW verdict \in ParsingStatus,
         Mark(f, verdict) \/ Promote(f)
  PROVE  KeepsIds
BY DEF TypeOK, StagedTypeOK, StagedDocument, ParsingStatus, Mark, Promote, Present, KeepsIds

\* A claim begins a new life, which no reservation is of yet.
LEMMA ReservationsClaim ==
  ASSUME TypeOK, Reservations, NEW f \in Files, Claimable(f), Claim(f),
         UNCHANGED <<client, reserved, minted>>
  PROVE  Reservations'
<1> USE DEF Reservations
<1>1. /\ staged'[f].ids = staged[f].ids /\ staged'[f].status = "in_progress"
      /\ \A g \in Files \ {f} : staged'[g] = staged[g] /\ lives'[g] = lives[g]
  BY DEF TypeOK, StagedTypeOK, StagedDocument, Claim
<1>2. /\ staged[f].status = "absent" => staged[f].ids = NoIds /\ lives'[f] = lives[f] + 1
      /\ staged[f].status # "absent" => lives'[f] = lives[f]
  BY DEF TypeOK, StagedTypeOK, Claim, Present, ReservationsOfLives, NoRecord
<1>3. \A r \in reserved : r.file \in Files /\ r.life \in Nat /\ lives[r.file] \in Nat
  BY DEF TypeOK, StagedTypeOK
<1>4. ReservationsOfLives'
  <2>1. \A g \in Files : staged'[g].status = "absent" => staged'[g] = NoRecord
    BY <1>1 DEF ReservationsOfLives
  <2>2. \A g \in Files : staged'[g].ids # NoIds => OnRecord(g)' \in reserved
    BY <1>1, <1>2 DEF ReservationsOfLives, OnRecord
  <2>3. \A r \in reserved : r.life <= lives'[r.file]
    BY <1>1, <1>2, <1>3 DEF ReservationsOfLives
  <2>4. \A g \in Files : Present(g)' /\ staged'[g].ids = NoIds =>
          \A r \in reserved : r.file = g => r.life < lives'[g]
    BY <1>1, <1>2, <1>3 DEF ReservationsOfLives, Present
  <2> QED  BY <2>1, <2>2, <2>3, <2>4 DEF ReservationsOfLives
<1>5. OneReservationPerDelivery' /\ ReservedApart' /\ HeldIsReserved'
  BY DEF OneReservationPerDelivery, ReservedApart, HeldIsReserved, Holding
<1> QED  BY <1>4, <1>5

\* A record that expires takes its ids with it; the reservation stays known.
LEMMA ReservationsExpire ==
  ASSUME TypeOK, Reservations, NEW f \in Files, Expire(f),
         UNCHANGED <<client, reserved, minted>>
  PROVE  Reservations'
<1> USE DEF Reservations
<1>1. staged'[f] = NoRecord /\ \A g \in Files \ {f} : staged'[g] = staged[g]
  BY DEF TypeOK, StagedTypeOK, Expire
<1>2. NoRecord.ids = NoIds /\ NoRecord.status = "absent" /\ UNCHANGED lives
  BY DEF NoRecord, Expire
<1>3. ReservationsOfLives'
  BY <1>1, <1>2 DEF ReservationsOfLives, OnRecord, Present
<1>4. OneReservationPerDelivery' /\ ReservedApart' /\ HeldIsReserved'
  BY DEF OneReservationPerDelivery, ReservedApart, HeldIsReserved, Holding
<1> QED  BY <1>3, <1>4

\* Ids are set on a record that has none, and are above all there have been.
LEMMA ReservationsReserve ==
  ASSUME TypeOK, TypeOK', Reservations, NEW c \in Clients, Reserve(c)
  PROVE  Reservations'
<1> DEFINE f == client[c].file
           fresh == [document |-> minted + 1, version |-> minted + 2]
           new == [file |-> f, life |-> lives[f], ids |-> fresh]
<1>0. KeepsHolding
  BY GotoKeepsHolding DEF Reserve
<1>1. CASE ~ Reservable(f)
  BY <1>0, <1>1, ReservationsFrame DEF Reserve, ReserveIds, stagingVars
<1>2. CASE Reservable(f)
  <2> USE DEF Reservations
  <2>1. f \in Files /\ minted \in Nat
    BY DEF TypeOK, Attempt
  <2>2. /\ reserved' = reserved \cup {new} /\ minted' = minted + 2 /\ UNCHANGED lives
        /\ staged' = [staged EXCEPT ![f].ids = fresh]
    BY <1>2 DEF Reserve, ReserveIds
  <2>3. /\ staged'[f].ids = fresh /\ staged'[f].status = staged[f].status
        /\ \A g \in Files \ {f} : staged'[g] = staged[g]
    BY <2>1, <2>2 DEF TypeOK, StagedTypeOK, StagedDocument
  <2>4. staged[f].status = "complete" /\ staged[f].ids = NoIds /\ Present(f)
    BY <1>2 DEF Reservable, Present
  <2>5. \A r \in reserved : r.file = f => r.life < lives[f]
    BY <2>1, <2>4 DEF ReservationsOfLives
  <2>6. \A r \in reserved : /\ r.ids.document \in Nat /\ r.ids.version \in Nat
                            /\ r.life \in Nat /\ lives[r.file] \in Nat
    BY DEF TypeOK, StagedTypeOK, ReservedIds
  <2>7. ReservationsOfLives'
    <3>1. \A g \in Files : staged'[g].status = "absent" => staged'[g] = NoRecord
      BY <2>3, <2>4 DEF ReservationsOfLives
    <3>2. \A g \in Files : staged'[g].ids # NoIds => OnRecord(g)' \in reserved'
      BY <2>2, <2>3 DEF ReservationsOfLives, OnRecord
    <3>3. \A r \in reserved' : r.life <= lives'[r.file]
      BY <2>1, <2>2 DEF ReservationsOfLives, TypeOK, StagedTypeOK
    <3>4. fresh # NoIds
      BY <2>1 DEF NoIds
    <3>5. \A g \in Files : Present(g)' /\ staged'[g].ids = NoIds =>
            \A r \in reserved' : r.file = g => r.life < lives'[g]
      BY <2>2, <2>3, <3>4 DEF ReservationsOfLives, Present
    <3> QED  BY <3>1, <3>2, <3>3, <3>5 DEF ReservationsOfLives
  <2>8. OneReservationPerDelivery'
    BY <2>2, <2>5, <2>6 DEF OneReservationPerDelivery
  <2>9. ReservedApart'
    BY <2>1, <2>2, <2>6 DEF ReservedApart
  <2>10. HeldIsReserved'
    BY <1>0, <2>2 DEF HeldIsReserved, KeepsHolding
  <2> QED  BY <2>7, <2>8, <2>9, <2>10
<1> QED  BY <1>1, <1>2

\* An attempt takes its ids from the record, whose reservation is known.
LEMMA ReservationsReread ==
  ASSUME TypeOK, Reservations, NEW c \in Clients, Reread(c)
  PROVE  Reservations'
<1> DEFINE record == staged[client[c].file]
<1>1. UNCHANGED <<stagingVars, reserved, minted>>
  BY DEF Reread
<1>2. CASE record.status = "complete" /\ record.ids # NoIds
  <2> USE DEF Reservations
  <2>1. /\ client'[c].ids = record.ids /\ client'[c].file = client[c].file
        /\ \A d \in Clients \ {c} : client'[d] = client[d]
        /\ client[c].file \in Files
    BY <1>2 DEF Reread, TypeOK, Attempt
  <2>2. OnRecord(client[c].file) \in reserved
    BY <1>2, <2>1 DEF ReservationsOfLives
  <2>3. HeldIsReserved'
    <3>1. \E r \in reserved : r.file = client[c].file /\ r.ids = record.ids
      BY <2>2 DEF OnRecord
    <3> QED  BY <1>1, <2>1, <3>1 DEF HeldIsReserved, Holding
  <2>4. ReservationsOfLives' /\ OneReservationPerDelivery' /\ ReservedApart'
    BY <1>1 DEF ReservationsOfLives, OneReservationPerDelivery, ReservedApart, OnRecord,
                Present, stagingVars
  <2> QED  BY <2>3, <2>4
<1>3. CASE ~ (record.status = "complete" /\ record.ids # NoIds)
  <2>1. KeepsHolding
    BY <1>3, GotoKeepsHolding DEF Reread
  <2> QED  BY <1>1, <2>1, ReservationsFrame
<1> QED  BY <1>2, <1>3

\* Every step keeps the reservations apart and the held ids reserved.
LEMMA ReservationsStep ==
  TypeOK /\ TypeOK' /\ Reservations /\ [Next]_vars => Reservations'
<1> SUFFICES ASSUME TypeOK, TypeOK', Reservations, [Next]_vars  PROVE Reservations'
  OBVIOUS
<1>1. CASE UNCHANGED vars
  <2>1. KeepsHolding
    BY <1>1 DEF vars, KeepsHolding, Holding
  <2> QED  BY <1>1, <2>1, ReservationsFrame DEF vars, stagingVars
<1>2. ASSUME NEW c \in Clients, Progress(c)  PROVE Reservations'
  <2>1. CASE Reserve(c)
    BY <2>1, ReservationsReserve
  <2>2. CASE Reread(c)
    BY <2>2, ReservationsReread
  <2>3. CASE Submit(c) \/ FoundByUpload(c) \/ NotFoundByUpload(c) \/ GetStaged(c)
    <3>1. KeepsHolding
      BY <2>3, GotoKeepsHolding DEF Submit, FoundByUpload, NotFoundByUpload, GetStaged
    <3> QED  BY <2>3, <3>1, ReservationsFrame
                DEF Submit, FoundByUpload, NotFoundByUpload, GetStaged
  <2>4. CASE SavePicture(c) \/ SaveContent(c) \/ RecordVersion(c) \/ RecordDocument(c)
    <3>1. KeepsHolding
      <4>1. CASE SavePicture(c)
        BY <4>1 DEF SavePicture, KeepsHolding, Holding
      <4>2. CASE SaveContent(c) \/ RecordVersion(c) \/ RecordDocument(c)
        BY <4>2, GotoKeepsHolding DEF SaveContent, RecordVersion, RecordDocument, At, Holding
      <4> QED  BY <2>4, <4>1, <4>2
    <3> QED  BY <2>4, <3>1, ReservationsFrame
                DEF SavePicture, SaveContent, RecordVersion, RecordDocument
  <2>5. CASE PromoteStaged(c)
    <3>1. KeepsHolding /\ client[c].file \in Files
      BY <2>5, GotoKeepsHolding DEF PromoteStaged, TypeOK, Attempt
    <3>2. UNCHANGED <<reserved, minted>>
      BY <2>5 DEF PromoteStaged
    <3>3. CASE Promote(client[c].file)
      <4>1. KeepsIds /\ UNCHANGED lives
        BY <3>1, <3>3, MarkKeepsIds DEF Promote, ParsingStatus
      <4> QED  BY <3>1, <3>2, <4>1, ReservationsRecordFrame
    <3>4. CASE UNCHANGED stagingVars
      BY <3>1, <3>2, <3>4, ReservationsFrame
    <3> QED  BY <2>5, <3>3, <3>4 DEF PromoteStaged
  <2> QED  BY <1>2, <2>1, <2>2, <2>3, <2>4, <2>5 DEF Progress
<1>3. ASSUME NEW c \in Clients, Fail(c)  PROVE Reservations'
  <2>1. KeepsHolding
    BY <1>3, GotoKeepsHolding DEF Fail
  <2> QED  BY <1>3, <2>1, ReservationsFrame DEF Fail
<1>4. ASSUME NEW f \in Files, Callback(f)  PROVE Reservations'
  <2>1. UNCHANGED <<client, reserved, minted>>
    BY <1>4 DEF Callback
  <2>2. CASE Claimable(f) /\ Claim(f)
    BY <2>1, <2>2, ReservationsClaim
  <2>3. CASE Mark(f, Verdict(f))
    <3>1. Verdict(f) \in ParsingStatus
      BY DEF Verdict, ParsingStatus
    <3>2. KeepsIds /\ UNCHANGED lives
      BY <2>3, <3>1, MarkKeepsIds DEF Mark
    <3>3. KeepsHolding
      BY <2>1 DEF KeepsHolding, Holding
    <3> QED  BY <2>1, <3>2, <3>3, ReservationsRecordFrame
  <2> QED  BY <1>4, <2>2, <2>3 DEF Callback, CallbackSide
<1>5. ASSUME NEW f \in Files, Expiry(f)  PROVE Reservations'
  BY <1>5, ReservationsExpire DEF Expiry
<1> QED  BY <1>1, <1>2, <1>3, <1>4, <1>5 DEF Next

\* However often, and in whatever order, submissions of one delivered file
\* interleave, fail and begin again, they reserve one pair of ids.
THEOREM ReservesOnce == Spec => []OneReservationPerDelivery
<1>1. Init /\ [][Next]_vars => [](TypeOK /\ Reservations)
  BY TypesInit, TypesStep, ReservationsInit, ReservationsStep, PTL
<1>2. Reservations => OneReservationPerDelivery
  BY DEF Reservations
<1> QED  BY <1>1, <1>2, PTL DEF Spec

-----------------------------------------------------------------------------
(* The bucket                                                              *)

PastSaving == {"versioning", "documenting", "promoting"}

\* The bucket is empty at first.
LEMMA StoredInit == Init => Stored
BY DEF Init, Stored, ContentHasItsPictures

\* Steps that write no Markdown and reserve nothing.
LEMMA StoredFrame ==
  ASSUME Stored, UNCHANGED <<contents, reserved>>, assets \subseteq assets',
         \A c \in Clients : client'[c].pc \in PastSaving =>
           client[c].pc \in PastSaving /\ client'[c].ids = client[c].ids
  PROVE  Stored'
BY DEF Stored, ContentHasItsPictures, PicturesStored, PastSaving

\* A new reservation's ids are on nothing that is stored.
LEMMA StoredReserve ==
  ASSUME TypeOK, Reservations, Stored, NEW c \in Clients, Reserve(c)
  PROVE  Stored'
<1> DEFINE f == client[c].file
           fresh == [document |-> minted + 1, version |-> minted + 2]
<1>1. /\ UNCHANGED <<contents, assets>>
      /\ \A d \in Clients : client'[d].pc \in PastSaving =>
           client[d].pc \in PastSaving /\ client'[d].ids = client[d].ids
  BY DEF Reserve, objects, Goto, At, TypeOK, Attempt, PastSaving
<1>2. CASE ~ Reservable(f)
  BY <1>1, <1>2, StoredFrame DEF Reserve
<1>3. CASE Reservable(f)
  <2>1. reserved' = reserved \cup {[file |-> f, life |-> lives[f], ids |-> fresh]}
    BY <1>3 DEF Reserve
  <2>2. <<fresh.document, fresh.version>> \notin contents
    <3>1. \A r \in reserved : r.ids.document <= minted
      BY DEF Reservations, ReservedApart
    <3>2. minted \in Nat
      BY DEF TypeOK
    <3> QED  BY <3>1, <3>2 DEF Stored
  <2> QED  BY <1>1, <2>1, <2>2 DEF Stored, ContentHasItsPictures, PicturesStored, PastSaving
<1> QED  BY <1>2, <1>3

\* The Markdown is written when every picture of the file is there, and the ids
\* it is written under are of no other file's reservation.
LEMMA StoredSaveContent ==
  ASSUME TypeOK, Reservations, Stored, NEW c \in Clients, SaveContent(c)
  PROVE  Stored'
<1> DEFINE ids == client[c].ids
<1>1. PICK r \in reserved : r.file = client[c].file /\ r.ids = ids
  BY DEF SaveContent, At, Reservations, HeldIsReserved, Holding
<1>2. /\ contents' = contents \cup {<<ids.document, ids.version>>}
      /\ UNCHANGED <<assets, reserved>>
      /\ PicturesStored(ids.document, client[c].file)
  BY DEF SaveContent, Unsaved, PicturesStored
<1>3. ContentHasItsPictures'
  <2> SUFFICES ASSUME NEW s \in reserved, <<s.ids.document, s.ids.version>> \in contents'
               PROVE  PicturesStored(s.ids.document, s.file)
    BY <1>2 DEF ContentHasItsPictures, PicturesStored
  <2>1. CASE <<s.ids.document, s.ids.version>> \in contents
    BY <2>1 DEF Stored, ContentHasItsPictures
  <2>2. CASE s.ids.document = ids.document
    BY <1>1, <1>2, <2>2 DEF Reservations, ReservedApart
  <2> QED  BY <1>2, <2>1, <2>2
<1>4. \A x \in contents' : \E s \in reserved' : x = <<s.ids.document, s.ids.version>>
  BY <1>1, <1>2 DEF Stored
<1>5. \A d \in Clients : client'[d].pc \in PastSaving =>
        <<client'[d].ids.document, client'[d].ids.version>> \in contents'
  <2>1. /\ client'[c].ids = ids
        /\ \A d \in Clients \ {c} : client'[d] = client[d]
    BY DEF SaveContent, Goto, TypeOK, Attempt
  <2> QED  BY <1>2, <2>1 DEF Stored, PastSaving
<1> QED  BY <1>3, <1>4, <1>5 DEF Stored, PastSaving

\* Every step leaves each stored Markdown file with its pictures.
LEMMA StoredStep ==
  TypeOK /\ TypeOK' /\ Reservations /\ Stored /\ [Next]_vars => Stored'
<1> SUFFICES ASSUME TypeOK, TypeOK', Reservations, Stored, [Next]_vars  PROVE Stored'
  OBVIOUS
<1> USE DEF PastSaving
<1>1. CASE UNCHANGED vars
  BY <1>1, StoredFrame DEF vars
<1>2. ASSUME NEW c \in Clients, Progress(c)  PROVE Stored'
  <2> USE DEF TypeOK, Attempt, At, Goto, End, objects
  <2>1. CASE Submit(c)
    BY <2>1, StoredFrame DEF Submit
  <2>2. CASE FoundByUpload(c)
    BY <2>2, StoredFrame DEF FoundByUpload
  <2>3. CASE NotFoundByUpload(c)
    BY <2>3, StoredFrame DEF NotFoundByUpload
  <2>4. CASE GetStaged(c)
    BY <2>4, StoredFrame DEF GetStaged
  <2>5. CASE Reserve(c)
    BY <2>5, StoredReserve
  <2>6. CASE Reread(c)
    BY <2>6, StoredFrame DEF Reread
  <2>7. CASE SavePicture(c)
    BY <2>7, StoredFrame DEF SavePicture
  <2>8. CASE SaveContent(c)
    BY <2>8, StoredSaveContent
  <2>9. CASE RecordVersion(c)
    BY <2>9, StoredFrame DEF RecordVersion
  <2>10. CASE RecordDocument(c)
    BY <2>10, StoredFrame DEF RecordDocument
  <2>11. CASE PromoteStaged(c)
    BY <2>11, StoredFrame DEF PromoteStaged
  <2> QED  BY <1>2, <2>1, <2>2, <2>3, <2>4, <2>5, <2>6, <2>7, <2>8, <2>9, <2>10, <2>11
              DEF Progress
<1>3. ASSUME NEW c \in Clients, Fail(c)  PROVE Stored'
  BY <1>3, StoredFrame DEF Fail, End, objects, TypeOK, Attempt
<1>4. ASSUME NEW f \in Files, Callback(f)  PROVE Stored'
  BY <1>4, StoredFrame DEF Callback, objects
<1>5. ASSUME NEW f \in Files, Expiry(f)  PROVE Stored'
  BY <1>5, StoredFrame DEF Expiry, objects
<1> QED  BY <1>1, <1>2, <1>3, <1>4, <1>5 DEF Next

\* Stored Markdown never draws a picture that is not stored, for any number of
\* racing and failing attempts.
THEOREM ContentIsWhole == Spec => []ContentHasItsPictures
<1>1. Init /\ [][Next]_vars => [](TypeOK /\ Reservations /\ Stored)
  BY TypesInit, TypesStep, ReservationsInit, ReservationsStep, StoredInit, StoredStep, PTL
<1>2. Stored => ContentHasItsPictures
  BY DEF Stored
<1> QED  BY <1>1, <1>2, PTL DEF Spec

-----------------------------------------------------------------------------
(* The collections                                                         *)

\* The collections are empty at first.
LEMMA RecordedInit == Init => Recorded
BY DEF Init, StagedInit, NoRecord, Recorded, VersionIsWhole, PromotedWasCommitted

\* No attempt comes to "documenting" or "promoting" that was not there.
KeepsRecording ==
  \A c \in Clients :
    /\ client'[c].pc = "promoting" =>
         client[c].pc = "promoting" /\ client'[c].ids = client[c].ids
    /\ client'[c].pc = "documenting" =>
         client[c].pc = "documenting" /\ client'[c].ids = client[c].ids

KeepsUnpromoted == \A f \in Files : staged'[f].promoted => staged[f].promoted

\* Steps that write neither collection, bring no attempt to a later stage, and
\* promote no record.
LEMMA RecordedFrame ==
  ASSUME Recorded, UNCHANGED records, reserved \subseteq reserved',
         contents \subseteq contents', KeepsRecording, KeepsUnpromoted
  PROVE  Recorded'
<1> USE DEF Recorded, records, VersionRecorded
<1>1. VersionIsWhole' /\ PromotedWasCommitted'
  BY DEF VersionIsWhole, PromotedWasCommitted, KeepsUnpromoted
<1>2. \A c \in Clients : client'[c].pc \in {"documenting", "promoting"} =>
        VersionRecorded(client[c].ids)' /\ client'[c].ids = client[c].ids
  BY DEF KeepsRecording
<1>3. \A c \in Clients : client'[c].pc = "promoting" =>
        \E d \in documents' : d.id = client'[c].ids.document
  BY DEF KeepsRecording
<1> QED  BY <1>1, <1>2, <1>3

\* The version recorded is of a held pair of ids, whose content is stored.
LEMMA RecordedVersion ==
  ASSUME TypeOK, Reservations, Stored, Recorded, NEW c \in Clients, RecordVersion(c)
  PROVE  Recorded'
<1> DEFINE ids == client[c].ids
           there == {v \in versions : v.id = ids.version}
           new == NewVersion(c)
<1>1. PICK r \in reserved : r.ids = ids
  BY DEF RecordVersion, At, Reservations, HeldIsReserved, Holding
<1>2. <<ids.document, ids.version>> \in contents
  BY DEF RecordVersion, At, Stored
<1>3. /\ new.id = ids.version /\ new.document = ids.document
      /\ ids = [document |-> new.document, version |-> new.id]
  BY DEF NewVersion, TypeOK, Attempt, ReservedIds
<1>4. /\ UNCHANGED <<staged, documents, contents, reserved>>
      /\ versions' = IF there = {} THEN versions \cup {new} ELSE versions
  BY DEF RecordVersion, objects, stagingVars
<1>5. VersionIsWhole'
  <2>1. <<new.document, new.id>> \in contents
    BY <1>2, <1>3
  <2>2. r.ids = [document |-> new.document, version |-> new.id]
    BY <1>1, <1>3
  <2> HIDE DEF new
  <2> QED  BY <1>4, <2>1, <2>2 DEF Recorded, VersionIsWhole
<1>6. \A v, w \in versions' : v.id = w.id => v = w
  <2> HIDE DEF new
  <2> QED  BY <1>3, <1>4 DEF Recorded
<1>7. \A d \in Clients : client'[d].pc \in {"documenting", "promoting"} =>
        \/ d = c /\ client'[d].ids = ids /\ \A v \in there : v.document = ids.document
        \/ client'[d] = client[d]
  BY DEF RecordVersion, Goto, End, TypeOK, Attempt
<1>8. \A d \in Clients : client'[d].pc \in {"documenting", "promoting"} =>
        \E v \in versions' : /\ v.id = client'[d].ids.version
                            /\ v.document = client'[d].ids.document
  <2> HIDE DEF new
  <2> SUFFICES ASSUME NEW d \in Clients, client'[d].pc \in {"documenting", "promoting"}
               PROVE  \E v \in versions' : /\ v.id = client'[d].ids.version
                                          /\ v.document = client'[d].ids.document
    OBVIOUS
  <2>1. CASE client'[d] = client[d]
    BY <1>4, <2>1 DEF Recorded, VersionRecorded
  <2>2. CASE client'[d].ids = ids /\ \A v \in there : v.document = ids.document
    <3>1. CASE there = {}
      BY <1>3, <1>4, <2>2, <3>1
    <3>2. CASE there # {}
      BY <1>4, <2>2, <3>2
    <3> QED  BY <3>1, <3>2
  <2> QED  BY <1>7, <2>1, <2>2
<1>9. client'[c].pc # "promoting" /\ \A d \in Clients \ {c} : client'[d] = client[d]
  BY DEF RecordVersion, Goto, End, TypeOK, Attempt
<1>10. \A i : VersionRecorded(i) => VersionRecorded(i)'
  BY <1>4 DEF VersionRecorded
<1>11. /\ \A d \in documents' :
            \E s \in reserved' : /\ s.file = d.file /\ s.ids.document = d.id
                               /\ VersionRecorded(s.ids)'
       /\ \A d, e \in documents' : d.id = e.id => d = e
       /\ \A d, e \in documents' : d.upload = e.upload => d = e
       /\ \A d \in Clients : client'[d].pc = "promoting" =>
            \E e \in documents' : e.id = client'[d].ids.document
       /\ PromotedWasCommitted'
  BY <1>4, <1>9, <1>10 DEF Recorded, PromotedWasCommitted
<1> QED  BY <1>5, <1>6, <1>8, <1>11 DEF Recorded, VersionRecorded

\* The document recorded is of an attempt whose version is recorded, and clashes
\* with no other on its id or its upload.
LEMMA RecordedDocument ==
  ASSUME TypeOK, Reservations, Recorded, NEW c \in Clients, RecordDocument(c)
  PROVE  Recorded'
<1> DEFINE ids == client[c].ids
           new == NewDocument(c)
           clashing == {d \in documents : d.id = ids.document \/ d.upload = client[c].upload}
<1>1. PICK r \in reserved : r.file = client[c].file /\ r.ids = ids
  BY DEF RecordDocument, At, Reservations, HeldIsReserved, Holding
<1>2. VersionRecorded(ids)
  BY DEF RecordDocument, At, Recorded
<1>3. new.id = ids.document /\ new.upload = client[c].upload /\ new.file = client[c].file
  BY DEF NewDocument
<1>4. /\ UNCHANGED <<staged, versions, contents, reserved>>
      /\ documents' = IF clashing = {} THEN documents \cup {new} ELSE documents
  BY DEF RecordDocument, objects, stagingVars
<1>5. \A d \in Clients :
        \/ client'[d] = client[d]
        \/ /\ d = c /\ client'[d].pc = "promoting" /\ client'[d].ids = ids
           /\ clashing = {} \/ \E e \in clashing : e.id = ids.document
        \/ d = c /\ client'[d].pc = "idle"
  BY DEF RecordDocument, Goto, End, TypeOK, Attempt
<1> HIDE DEF new
<1>6. \A d \in documents' :
        \E s \in reserved' : s.file = d.file /\ s.ids.document = d.id /\ VersionRecorded(s.ids)'
  BY <1>1, <1>2, <1>3, <1>4 DEF Recorded, VersionRecorded
<1>7. /\ \A d, e \in documents' : d.id = e.id => d = e
      /\ \A d, e \in documents' : d.upload = e.upload => d = e
  BY <1>3, <1>4 DEF Recorded
<1>8. \A d \in Clients : client'[d].pc = "promoting" =>
        \E e \in documents' : e.id = client'[d].ids.document
  BY <1>3, <1>4, <1>5 DEF Recorded
<1>9. \A d \in Clients : client'[d].pc \in {"documenting", "promoting"} =>
        VersionRecorded(client'[d].ids)
  BY <1>2, <1>5 DEF Recorded
<1>10. VersionIsWhole' /\ PromotedWasCommitted'
  BY <1>4 DEF Recorded, VersionIsWhole, PromotedWasCommitted
<1> QED  BY <1>4, <1>6, <1>7, <1>8, <1>9, <1>10 DEF Recorded, VersionRecorded

\* The mark lands on the record of the file whose document the attempt committed
\* or found committed: a reservation is of one file.
LEMMA RecordedPromotion ==
  ASSUME TypeOK, Reservations, Recorded, NEW c \in Clients, PromoteStaged(c)
  PROVE  Recorded'
<1> DEFINE f == client[c].file
<1>1. PICK r \in reserved : r.file = f /\ r.ids = client[c].ids
  BY DEF PromoteStaged, At, Reservations, HeldIsReserved, Holding
<1>2. PICK d \in documents : d.id = client[c].ids.document
  BY DEF PromoteStaged, At, Recorded
<1>3. d.file = f
  BY <1>1, <1>2 DEF Recorded, Reservations, ReservedApart
<1>4. UNCHANGED <<versions, documents, contents, reserved>>
  BY DEF PromoteStaged, records, objects
<1>5. KeepsRecording
  BY DEF PromoteStaged, End, TypeOK, Attempt, KeepsRecording
<1>6. CASE UNCHANGED stagingVars
  <2>1. KeepsUnpromoted
    BY <1>6 DEF KeepsUnpromoted, stagingVars
  <2> QED  BY <1>4, <1>5, <2>1, RecordedFrame DEF records
<1>7. CASE Promote(f)
  <2>1. \A g \in Files \ {f} : staged'[g] = staged[g]
    BY <1>7 DEF Promote, TypeOK, StagedTypeOK
  <2>2. PromotedWasCommitted'
    BY <1>2, <1>3, <1>4, <2>1 DEF Recorded, PromotedWasCommitted
  <2> QED  BY <1>4, <1>5, <2>2
              DEF Recorded, KeepsRecording, VersionRecorded, VersionIsWhole
<1> QED  BY <1>6, <1>7 DEF PromoteStaged

\* Every step leaves the collections as Recorded says.
LEMMA RecordedStep ==
  TypeOK /\ Reservations /\ Stored /\ Recorded /\ [Next]_vars => Recorded'
<1> SUFFICES ASSUME TypeOK, Reservations, Stored, Recorded, [Next]_vars  PROVE Recorded'
  OBVIOUS
<1>1. CASE UNCHANGED vars
  BY <1>1, RecordedFrame DEF vars, records, KeepsRecording, KeepsUnpromoted
<1>2. ASSUME NEW c \in Clients, Progress(c)  PROVE Recorded'
  <2>1. CASE RecordVersion(c)
    BY <2>1, RecordedVersion
  <2>2. CASE RecordDocument(c)
    BY <2>2, RecordedDocument
  <2>3. CASE PromoteStaged(c)
    BY <2>3, RecordedPromotion
  <2>4. CASE Reserve(c)
    <3>1. KeepsRecording
      BY <2>4 DEF Reserve, KeepsRecording, Goto, TypeOK, Attempt
    <3>2. KeepsUnpromoted
      BY <2>4 DEF Reserve, ReserveIds, KeepsUnpromoted, TypeOK, StagedTypeOK, StagedDocument
    <3>3. UNCHANGED <<records, contents>> /\ reserved \subseteq reserved'
      BY <2>4 DEF Reserve, objects
    <3> QED  BY <3>1, <3>2, <3>3, RecordedFrame
  <2>5. CASE Submit(c) \/ FoundByUpload(c) \/ NotFoundByUpload(c) \/ GetStaged(c) \/ Reread(c)
    <3>1. KeepsRecording
      BY <2>5 DEF Submit, FoundByUpload, NotFoundByUpload, GetStaged, Reread, KeepsRecording,
                  Goto, End, TypeOK, Attempt
    <3>2. UNCHANGED <<staged, records, contents, reserved>>
      BY <2>5 DEF Submit, FoundByUpload, NotFoundByUpload, GetStaged, Reread, stagingVars, objects
    <3> QED  BY <3>1, <3>2, RecordedFrame DEF KeepsUnpromoted
  <2>6. CASE SavePicture(c) \/ SaveContent(c)
    <3>1. KeepsRecording
      BY <2>6 DEF SavePicture, SaveContent, KeepsRecording, Goto, TypeOK, Attempt
    <3>2. UNCHANGED <<staged, records, reserved>> /\ contents \subseteq contents'
      BY <2>6 DEF SavePicture, SaveContent, stagingVars
    <3> QED  BY <3>1, <3>2, RecordedFrame DEF KeepsUnpromoted
  <2> QED  BY <1>2, <2>1, <2>2, <2>3, <2>4, <2>5, <2>6 DEF Progress
<1>3. ASSUME NEW c \in Clients, Fail(c)  PROVE Recorded'
  <2>1. KeepsRecording
    BY <1>3 DEF Fail, KeepsRecording, End, TypeOK, Attempt
  <2> QED  BY <1>3, <2>1, RecordedFrame DEF Fail, KeepsUnpromoted, stagingVars, objects
<1>4. ASSUME NEW f \in Files, Callback(f)  PROVE Recorded'
  <2>1. KeepsUnpromoted
    <3>1. CASE Claim(f)
      BY <3>1 DEF Claim, KeepsUnpromoted, TypeOK, StagedTypeOK, StagedDocument
    <3>2. CASE Mark(f, Verdict(f))
      BY <3>2 DEF Mark, KeepsUnpromoted, TypeOK, StagedTypeOK, StagedDocument
    <3> QED  BY <1>4, <3>1, <3>2 DEF Callback, CallbackSide
  <2> QED  BY <1>4, <2>1, RecordedFrame DEF Callback, KeepsRecording, objects
<1>5. ASSUME NEW f \in Files, Expiry(f)  PROVE Recorded'
  <2>1. KeepsUnpromoted
    BY <1>5 DEF Expiry, Expire, NoRecord, KeepsUnpromoted, TypeOK, StagedTypeOK
  <2> QED  BY <1>5, <2>1, RecordedFrame DEF Expiry, KeepsRecording, objects
<1> QED  BY <1>1, <1>2, <1>3, <1>4, <1>5 DEF Next

-----------------------------------------------------------------------------
(* The theorems                                                            *)

IInv == TypeOK /\ Reservations /\ Stored /\ Recorded

\* The layers together are an invariant of the specification.
LEMMA Inductive == Spec => []IInv
<1>1. Init => IInv
  BY TypesInit, ReservationsInit, StoredInit, RecordedInit DEF IInv
<1>2. IInv /\ [Next]_vars => IInv'
  BY TypesStep, ReservationsStep, StoredStep, RecordedStep DEF IInv
<1> QED  BY <1>1, <1>2, PTL DEF Spec

\* Two versions of one document would have been reserved as two pairs with one
\* document id between them.
LEMMA OneVersionEach ==
  ASSUME IInv, NEW v \in versions, NEW w \in versions, v.document = w.document
  PROVE  v = w
<1>1. PICK r \in reserved : r.ids = [document |-> v.document, version |-> v.id]
  BY DEF IInv, Recorded, VersionIsWhole
<1>2. PICK s \in reserved : s.ids = [document |-> w.document, version |-> w.id]
  BY DEF IInv, Recorded, VersionIsWhole
<1>3. r = s
  BY <1>1, <1>2 DEF IInv, Reservations, ReservedApart
<1>4. v.id = w.id
  BY <1>1, <1>2, <1>3
<1> QED  BY <1>4 DEF IInv, Recorded

\* What the invariant says of a document is that it can be read from top to
\* bottom.
LEMMA DocumentsAreWhole == IInv => CommittedHasOneVersion
<1> SUFFICES ASSUME IInv, NEW d \in documents
             PROVE  (\E v \in versions : VersionsOf(d.id) = {v}) /\ Whole(d)
  BY DEF CommittedHasOneVersion
<1>1. PICK r \in reserved : r.file = d.file /\ r.ids.document = d.id /\ VersionRecorded(r.ids)
  BY DEF IInv, Recorded
<1>2. PICK v \in versions : v.id = r.ids.version /\ v.document = d.id
  BY <1>1 DEF VersionRecorded
<1>3. VersionsOf(d.id) = {v}
  BY <1>2, OneVersionEach DEF VersionsOf
<1>4. <<d.id, v.id>> \in contents
  BY <1>2 DEF IInv, Recorded, VersionIsWhole
<1>5. PicturesStored(d.id, d.file)
  BY <1>1, <1>2, <1>4 DEF IInv, Stored, ContentHasItsPictures
<1>6. ContentStatus(d.id) = "ok"
  BY <1>3, <1>4 DEF ContentStatus
<1> QED  BY <1>3, <1>5, <1>6 DEF Whole

\* Recorded versions are never of content that is not stored: no reader of a
\* document is answered 502.
THEOREM VersionsAreWhole == Spec => []VersionIsWhole
<1>1. IInv => VersionIsWhole
  BY DEF IInv, Recorded
<1> QED  BY <1>1, Inductive, PTL

\* A committed document has exactly one version, its content, and every picture
\* the content draws, for any number of attempts, failures and expiries.
THEOREM CommitsWhole == Spec => []CommittedHasOneVersion
BY Inductive, DocumentsAreWhole, PTL

\* A staging record is marked promoted only where its file became a document.
THEOREM PromotesCommitted == Spec => []PromotedWasCommitted
<1>1. IInv => PromotedWasCommitted
  BY DEF IInv, Recorded
<1> QED  BY <1>1, Inductive, PTL

-----------------------------------------------------------------------------
(***************************************************************************)
(* GuideCreation implements GuideCommit.  The refinement mapping is        *)
(* Abstract: what is committed are the documents, each with its versions   *)
(* and whether it can be read from top to bottom.                          *)
(*                                                                         *)
(* Beside IInv it takes that every attempt past GetStaged, and every       *)
(* document, is of the upload its file is of, and that only documents have *)
(* been answered.                                                          *)
(***************************************************************************)

Checked(c) == Holding(c) \/ client[c].pc \in {"reserving", "rereading"}

OfItsUpload ==
  /\ \A c \in Clients : Checked(c) => UploadOf[client[c].file] = client[c].upload
  /\ \A d \in documents : UploadOf[d.file] = d.upload

AnswersDocuments ==
  \A a \in answered : \E d \in documents : a = <<d.upload, d>>

CInv == IInv /\ OfItsUpload /\ AnswersDocuments

\* Nothing is answered or checked at first.
LEMMA CommitInit == Init => OfItsUpload /\ AnswersDocuments
BY DEF Init, OfItsUpload, AnswersDocuments, Checked, Holding

\* Records are only ever added, at most one document at a time.
LEMMA RecordsGrow ==
  ASSUME TypeOK, [Next]_vars
  PROVE  /\ versions \subseteq versions'
         /\ \/ documents' = documents
            \/ \E c \in Clients :
                 /\ RecordDocument(c)
                 /\ \A d \in documents : /\ d.id # client[c].ids.document
                                         /\ d.upload # client[c].upload
                 /\ documents' = documents \cup {NewDocument(c)}
<1>1. CASE UNCHANGED vars
  BY <1>1 DEF vars
<1>2. ASSUME NEW c \in Clients, Progress(c)
      PROVE  /\ versions \subseteq versions'
             /\ documents' = documents \/ RecordDocument(c)
  BY <1>2 DEF Progress, Submit, FoundByUpload, NotFoundByUpload, GetStaged, Reserve, Reread,
              SavePicture, SaveContent, RecordVersion, RecordDocument, PromoteStaged, records
<1>3. ASSUME NEW c \in Clients, RecordDocument(c)
      PROVE  \/ documents' = documents
             \/ /\ \A d \in documents : /\ d.id # client[c].ids.document
                                        /\ d.upload # client[c].upload
                /\ documents' = documents \cup {NewDocument(c)}
  BY <1>3 DEF RecordDocument
<1>4. ASSUME NEW c \in Clients, Fail(c)  PROVE UNCHANGED records
  BY <1>4 DEF Fail
<1>5. ASSUME NEW f \in Files, Callback(f) \/ Expiry(f)  PROVE UNCHANGED records
  BY <1>5 DEF Callback, Expiry
<1> QED  BY <1>1, <1>2, <1>3, <1>4, <1>5 DEF Next, records

\* A client's file and upload are its own for good.
LEMMA JourneysKeep ==
  ASSUME TypeOK, [Next]_vars, NEW c \in Clients
  PROVE  client'[c].file = client[c].file /\ client'[c].upload = client[c].upload
<1> USE DEF TypeOK, Attempt, Goto, End
<1>1. CASE UNCHANGED vars
  BY <1>1 DEF vars
<1>2. ASSUME NEW d \in Clients, Progress(d)
      PROVE  client'[c].file = client[c].file /\ client'[c].upload = client[c].upload
  <2>1. CASE Submit(d) \/ FoundByUpload(d) \/ NotFoundByUpload(d) \/ GetStaged(d)
    BY <2>1 DEF Submit, FoundByUpload, NotFoundByUpload, GetStaged
  <2>2. CASE Reserve(d) \/ SavePicture(d) \/ SaveContent(d) \/ PromoteStaged(d)
    BY <2>2 DEF Reserve, SavePicture, SaveContent, PromoteStaged
  <2>3. CASE Reread(d)
    BY <2>3 DEF Reread
  <2>4. CASE RecordVersion(d) \/ RecordDocument(d)
    BY <2>4 DEF RecordVersion, RecordDocument
  <2> QED  BY <1>2, <2>1, <2>2, <2>3, <2>4 DEF Progress
<1>3. ASSUME NEW d \in Clients, Fail(d)
      PROVE  client'[c].file = client[c].file /\ client'[c].upload = client[c].upload
  BY <1>3 DEF Fail
<1>4. ASSUME NEW f \in Files, Callback(f) \/ Expiry(f)  PROVE UNCHANGED client
  BY <1>4 DEF Callback, Expiry
<1> QED  BY <1>1, <1>2, <1>3, <1>4 DEF Next

\* Only GetStaged lets an attempt be checked, having compared the file's upload
\* with the one named.
LEMMA CheckedOnce ==
  ASSUME TypeOK, [Next]_vars, NEW c \in Clients, Checked(c)'
  PROVE  Checked(c) \/ UploadOf[client[c].file] = client[c].upload
<1> USE DEF TypeOK, Attempt, Goto, End, At, Checked, Holding
<1>1. CASE UNCHANGED vars
  BY <1>1 DEF vars
<1>2. ASSUME NEW d \in Clients, Progress(d)
      PROVE  Checked(c) \/ UploadOf[client[c].file] = client[c].upload
  <2>1. CASE Submit(d) \/ FoundByUpload(d) \/ NotFoundByUpload(d)
    BY <2>1 DEF Submit, FoundByUpload, NotFoundByUpload
  <2>2. CASE GetStaged(d)
    BY <2>2 DEF GetStaged, Submittable
  <2>3. CASE Reserve(d) \/ SavePicture(d) \/ SaveContent(d) \/ PromoteStaged(d)
    BY <2>3 DEF Reserve, SavePicture, SaveContent, PromoteStaged
  <2>4. CASE Reread(d)
    BY <2>4 DEF Reread
  <2>5. CASE RecordVersion(d) \/ RecordDocument(d)
    BY <2>5 DEF RecordVersion, RecordDocument
  <2> QED  BY <1>2, <2>1, <2>2, <2>3, <2>4, <2>5 DEF Progress
<1>3. ASSUME NEW d \in Clients, Fail(d)  PROVE Checked(c)
  BY <1>3 DEF Fail
<1>4. ASSUME NEW f \in Files, Callback(f) \/ Expiry(f)  PROVE UNCHANGED client
  BY <1>4 DEF Callback, Expiry
<1> QED  BY <1>1, <1>2, <1>3, <1>4 DEF Next

\* Attempts and documents stay with the upload of their file.
LEMMA UploadsStep == TypeOK /\ OfItsUpload /\ [Next]_vars => OfItsUpload'
<1> SUFFICES ASSUME TypeOK, OfItsUpload, [Next]_vars  PROVE OfItsUpload'
  OBVIOUS
<1>1. \A c \in Clients : Checked(c)' => UploadOf[client'[c].file] = client'[c].upload
  BY CheckedOnce, JourneysKeep DEF OfItsUpload
<1>2. ASSUME NEW c \in Clients, RecordDocument(c)
      PROVE  /\ UploadOf[NewDocument(c).file] = NewDocument(c).upload
  BY <1>2 DEF RecordDocument, At, NewDocument, OfItsUpload, Checked, Holding
<1>3. \A d \in documents' : UploadOf[d.file] = d.upload
  BY <1>2, RecordsGrow DEF OfItsUpload
<1> QED  BY <1>1, <1>3 DEF OfItsUpload

\* The document an attempt has come to promote is of the upload it was asked to
\* convert, and is the one under the ids it holds.
LEMMA PromotedDocument ==
  ASSUME CInv, NEW c \in Clients, client[c].pc = "promoting"
  PROVE  \E d \in documents :
           /\ d.upload = client[c].upload
           /\ {e \in documents : e.id = client[c].ids.document} = {d}
<1>1. PICK d \in documents : d.id = client[c].ids.document
  BY DEF CInv, IInv, Recorded
<1>2. PICK r \in reserved : r.file = client[c].file /\ r.ids = client[c].ids
  BY DEF CInv, IInv, Reservations, HeldIsReserved, Holding
<1>3. PICK s \in reserved : s.file = d.file /\ s.ids.document = d.id
  BY DEF CInv, IInv, Recorded
<1>4. d.file = client[c].file
  BY <1>1, <1>2, <1>3 DEF CInv, IInv, Reservations, ReservedApart
<1>5. d.upload = client[c].upload
  BY <1>4 DEF CInv, OfItsUpload, Checked, Holding
<1>6. \A e \in documents : e.id = client[c].ids.document => e = d
  BY <1>1 DEF CInv, IInv, Recorded
<1> QED  BY <1>1, <1>5, <1>6

\* What is answered by a step is one document, as it stands.
LEMMA AnswersOne ==
  ASSUME CInv, [Next]_vars
  PROVE  \/ answered' = answered
         \/ /\ documents' = documents
            /\ \E d \in documents : answered' = answered \cup {<<d.upload, d>>}
<1>1. CASE UNCHANGED vars
  BY <1>1 DEF vars
<1>2. ASSUME NEW c \in Clients, Progress(c)
      PROVE  \/ answered' = answered
             \/ /\ documents' = documents
                /\ \E d \in documents : answered' = answered \cup {<<d.upload, d>>}
  <2>1. CASE FoundByUpload(c)
    BY <2>1 DEF FoundByUpload, records
  <2>2. CASE PromoteStaged(c)
    <3>1. PICK d \in documents :
            /\ d.upload = client[c].upload
            /\ {e \in documents : e.id = client[c].ids.document} = {d}
      BY <2>2, PromotedDocument DEF PromoteStaged, At
    <3>2. {<<client[c].upload, e>> : e \in {x \in documents : x.id = client[c].ids.document}}
            = {<<d.upload, d>>}
      BY <3>1
    <3> QED  BY <2>2, <3>1, <3>2 DEF PromoteStaged, AnswerCreated, records
  <2>3. CASE ~ FoundByUpload(c) /\ ~ PromoteStaged(c)
    BY <1>2, <2>3 DEF Progress, Submit, NotFoundByUpload, GetStaged, Reserve, Reread,
                      SavePicture, SaveContent, RecordVersion, RecordDocument
  <2> QED  BY <2>1, <2>2, <2>3
<1>3. ASSUME NEW c \in Clients, Fail(c)  PROVE answered' = answered
  BY <1>3 DEF Fail
<1>4. ASSUME NEW f \in Files, Callback(f) \/ Expiry(f)  PROVE answered' = answered
  BY <1>4 DEF Callback, Expiry
<1> QED  BY <1>1, <1>2, <1>3, <1>4 DEF Next

\* Every answer there has been is of a document there is.
LEMMA AnswersStep == CInv /\ [Next]_vars => AnswersDocuments'
<1> SUFFICES ASSUME CInv, [Next]_vars  PROVE AnswersDocuments'
  OBVIOUS
<1>1. documents \subseteq documents'
  BY RecordsGrow DEF CInv, IInv
<1> QED  BY <1>1, AnswersOne DEF CInv, AnswersDocuments

-----------------------------------------------------------------------------
(* Refinement                                                              *)

Committed == {<<d.upload, GuideOf(d)>> : d \in documents}
Given == {<<a[1], GuideOf(a[2])>> : a \in answered}

\* What holds of the documents in every state holds in the next.
LEMMA NextDocumentsAreWhole == IInv' => CommittedHasOneVersion'
BY DocumentsAreWhole, PTL

\* A document once committed is the same guide for good: its one version stays
\* its only one, and it stays whole.
LEMMA GuidesStay ==
  ASSUME CInv, IInv', [Next]_vars, NEW d \in documents
  PROVE  d \in documents' /\ GuideOf(d)' = GuideOf(d)
<1>1. d \in documents' /\ versions \subseteq versions'
  BY RecordsGrow DEF CInv, IInv
<1>2. PICK v \in versions : VersionsOf(d.id) = {v}
  BY DocumentsAreWhole DEF CInv, CommittedHasOneVersion
<1>3. PICK w \in versions' : VersionsOf(d.id)' = {w}
  BY <1>1, NextDocumentsAreWhole DEF CommittedHasOneVersion
<1>4. VersionsOf(d.id)' = VersionsOf(d.id)
  BY <1>1, <1>2, <1>3 DEF VersionsOf
<1>5. Whole(d) = TRUE /\ Whole(d)' = TRUE
  <2>1. Whole(d)
    BY DocumentsAreWhole DEF CInv, CommittedHasOneVersion
  <2>2. Whole(d)'
    BY <1>1, NextDocumentsAreWhole DEF CommittedHasOneVersion
  <2>3. Whole(d) \in BOOLEAN /\ Whole(d)' \in BOOLEAN
    BY DEF Whole
  <2> QED  BY <2>1, <2>2, <2>3
<1> QED  BY <1>1, <1>4, <1>5 DEF GuideOf

\* A step that records no document commits nothing, and answers at most one guide.
LEMMA AnswerRefines ==
  ASSUME CInv, CInv', [Next]_vars, documents' = documents
  PROVE  [Abstract!Next]_(Abstract!vars)
<1>1. \A d \in documents : GuideOf(d)' = GuideOf(d)
  BY GuidesStay DEF CInv
<1>2. Committed' = Committed
  BY <1>1 DEF Committed
<1>3. \A a \in answered : \E d \in documents : a = <<d.upload, d>>
  BY DEF CInv, AnswersDocuments
<1>4. \A a \in answered : GuideOf(a[2])' = GuideOf(a[2])
  BY <1>1, <1>3
<1>5. CASE answered' = answered
  <2>1. Given' = Given
    BY <1>4, <1>5 DEF Given
  <2> QED  BY <1>2, <2>1 DEF Abstract!vars, Committed, Given
<1>6. ASSUME NEW d \in documents, answered' = answered \cup {<<d.upload, d>>}
      PROVE  Abstract!Next
  <2> DEFINE x == <<d.upload, GuideOf(d)>>
  <2>1. Given' = Given \cup {x}
    <3> DEFINE y == <<d.upload, d>>
    <3>1. y[1] = d.upload /\ GuideOf(y[2])' = GuideOf(d)
      BY <1>1
    <3> HIDE DEF y
    <3>2. Given' = {<<a[1], GuideOf(a[2])'>> : a \in answered} \cup {<<y[1], GuideOf(y[2])'>>}
      BY <1>6 DEF Given, y
    <3>3. {<<a[1], GuideOf(a[2])'>> : a \in answered} = Given
      BY <1>4 DEF Given
    <3> QED  BY <3>1, <3>2, <3>3
  <2>2. x \in Committed /\ x[1] = d.upload
    BY DEF Committed
  <2>3. d.upload \in Uploads
    BY DEF CInv, IInv, TypeOK, Document
  <2>4. Abstract!Answer(d.upload)
    BY <1>2, <2>1, <2>2 DEF Abstract!Answer, Committed, Given
  <2> QED  BY <2>3, <2>4 DEF Abstract!Next
<1> QED  BY <1>5, <1>6, AnswersOne

\* The record of a document commits its upload, which was not committed, as a
\* guide that is whole and whose id no other has.
LEMMA CommitRefines ==
  ASSUME CInv, CInv', [Next]_vars, NEW c \in Clients, RecordDocument(c),
         \A d \in documents : d.id # client[c].ids.document /\ d.upload # client[c].upload,
         documents' = documents \cup {NewDocument(c)}
  PROVE  Abstract!Next
<1>1. PICK new : new = NewDocument(c)
  OBVIOUS
<1>2. PICK guide : guide = GuideOf(new)'
  OBVIOUS
<1>3. /\ new.id = client[c].ids.document /\ new.upload = client[c].upload
      /\ new.upload \in Uploads
      /\ documents' = documents \cup {new}
  BY <1>1 DEF NewDocument, CInv, IInv, TypeOK, Attempt
<1>4. \A d \in documents : GuideOf(d)' = GuideOf(d)
  BY GuidesStay DEF CInv
<1>5. Committed' = Committed \cup {<<new.upload, guide>>}
  BY <1>2, <1>3, <1>4 DEF Committed
<1>6. \A x \in Committed : x[1] # new.upload
  BY <1>3 DEF Committed
<1>7. {x[2] : x \in Committed' \ Committed} = {guide}
  <2>1. Committed' \ Committed = {<<new.upload, guide>>}
    BY <1>5, <1>6
  <2>2. \A y : y \in {<<new.upload, guide>>} => y[2] = guide
    OBVIOUS
  <2>3. <<new.upload, guide>>[2] = guide
    OBVIOUS
  <2> QED  BY <2>1, <2>2, <2>3, Zenon
<1>8. guide.id = new.id /\ \A x \in Committed : x[2].id # guide.id
  BY <1>2, <1>3 DEF Committed, GuideOf
<1>9. guide \in [id : Nat, document : Document, versions : SUBSET Version, whole : {TRUE}]
  <2>1. new \in documents' /\ documents' \subseteq Document /\ versions' \subseteq Version
    BY <1>3 DEF CInv, IInv, TypeOK
  <2>2. Whole(new)' = TRUE
    <3>1. Whole(new)'
      BY <2>1, NextDocumentsAreWhole DEF CInv, CommittedHasOneVersion
    <3>2. Whole(new)' \in BOOLEAN
      BY DEF Whole
    <3> QED  BY <3>1, <3>2
  <2>3. VersionsOf(new.id)' \subseteq Version
    BY <2>1 DEF VersionsOf
  <2>4. new.id \in Nat /\ new \in Document
    BY <2>1 DEF Document
  <2> QED  BY <1>2, <2>2, <2>3, <2>4 DEF GuideOf
<1>10. Given' = Given
  <2>1. answered' = answered
    BY DEF RecordDocument
  <2>2. \A a \in answered : GuideOf(a[2])' = GuideOf(a[2])
    BY <1>4 DEF CInv, AnswersDocuments
  <2> QED  BY <2>1, <2>2 DEF Given
<1>11. Abstract!Commit(new.upload)
  BY <1>5, <1>6, <1>7, <1>8, <1>9, <1>10 DEF Abstract!Commit, Committed, Given
<1> QED  BY <1>3, <1>11 DEF Abstract!Next

\* Whatever is retried, raced, cut short or late, POST /guides is to its callers
\* the one-step commit of GuideCommit: one guide per upload, whole from the moment
\* it is there, never changed, and the one every answer names.
THEOREM ImplementsGuideCommit == Spec => CommitsAtomically
<1>1. Init => Abstract!Init
  BY DEF Init, Abstract!Init
<1>2. CInv /\ CInv' /\ [Next]_vars => [Abstract!Next]_(Abstract!vars)
  BY RecordsGrow, AnswerRefines, CommitRefines DEF CInv, IInv
<1>3. Init => OfItsUpload /\ AnswersDocuments
  BY CommitInit
<1>4. IInv /\ OfItsUpload /\ AnswersDocuments /\ [Next]_vars => OfItsUpload' /\ AnswersDocuments'
  BY UploadsStep, AnswersStep DEF CInv, IInv
<1>5. CInv <=> IInv /\ OfItsUpload /\ AnswersDocuments
  BY DEF CInv
<1>6. Spec => []CInv
  BY <1>3, <1>4, <1>5, Inductive, PTL DEF Spec
<1> QED  BY <1>1, <1>2, <1>6, PTL DEF Spec, CommitsAtomically, Abstract!Spec

=============================================================================
