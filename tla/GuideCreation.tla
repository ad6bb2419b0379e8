--------------------------- MODULE GuideCreation ---------------------------
(***************************************************************************)
(* POST /guides: an upload is converted, stored and recorded, from the     *)
(* bottom up - its pictures, its Markdown, its version, its document - and *)
(* writing the document is what commits it.                                *)
(*                                                                         *)
(* A client stands for one journey through the front end: it names one     *)
(* upload and one file of it, and submits them again and again - a         *)
(* refresh, a retried request - so that attempts at the same upload race   *)
(* each other and take up where a failed one stopped.  Between any two     *)
(* database or store calls another attempt, the callback side of the       *)
(* staging record, or the record's expiry may come in.                     *)
(*                                                                         *)
(* GuideStore.tla says how one save writes its pictures with a pool of     *)
(* threads; here a save is the creations it makes, in the order it makes   *)
(* them.  Objects are never deleted or overwritten, and nor are version    *)
(* and document records: nothing in the service does.                      *)
(***************************************************************************)
EXTENDS StagingRecords

CONSTANTS
  Clients,
  Uploads,
  UploadOf,     \* Files -> the upload a file's key begins with
  Pictures,
  PicturesOf,   \* Files -> the pictures its parse finds
  MaxLives,     \* bound: Files -> how often a file may be claimed
  MaxFaults     \* bound: how many attempts may be cut short

ASSUME CreationAssumption ==
  /\ UploadOf \in [Files -> Uploads]
  /\ PicturesOf \in [Files -> SUBSET Pictures]
  /\ MaxLives \in [Files -> Nat]
  /\ MaxFaults \in Nat

VARIABLES
  client,      \* Clients -> where each client's attempt has got to
  assets,      \* objects <document>/assets/<picture>
  contents,    \* objects <document>/<version>/content.md
  versions,    \* the versions collection
  documents,   \* the documents collection
  minted,      \* how many ids have been handed out
  answered,    \* history: what callers have been answered
  reserved,    \* history: the ids each life of a staging record reserved
  faults       \* how many attempts have been cut short

records == <<versions, documents>>
objects == <<assets, contents>>
vars == <<staged, lives, client, assets, contents, versions, documents,
          minted, answered, reserved, faults>>

Attempt ==
  [pc     : {"idle", "finding", "getting", "reserving", "rereading",
             "saving", "versioning", "documenting", "promoting"},
   upload : Uploads,
   file   : Files,
   ids    : ReservedIds]

\* What one request writes into both records - its clock reading, its metadata,
\* its version number, its author - is the client that sent it.
Version == [id : Nat, document : Nat, by : Clients]
Document == [id : Nat, upload : Uploads, file : Files, by : Clients]

\* Every record, object and attempt is of the shape the code gives it.
TypeOK ==
  /\ StagedTypeOK
  /\ client \in [Clients -> Attempt]
  /\ assets \subseteq Nat \X Pictures
  /\ contents \subseteq Nat \X Nat
  /\ versions \subseteq Version
  /\ documents \subseteq Document
  /\ minted \in Nat
  /\ answered \subseteq Uploads \X Document
  /\ reserved \subseteq [file : Files, life : Nat, ids : ReservedIds]
  /\ faults \in Nat

Init ==
  /\ StagedInit
  /\ client \in [Clients -> {[pc |-> "idle", upload |-> u, file |-> f, ids |-> NoIds] :
                               u \in Uploads, f \in Files}]
  /\ assets = {} /\ contents = {}
  /\ versions = {} /\ documents = {}
  /\ minted = 0 /\ answered = {} /\ reserved = {} /\ faults = 0

At(c, pc) == client[c].pc = pc

Goto(c, pc) == client' = [client EXCEPT ![c].pc = pc]

\* An attempt that ends forgets what it held.
End(c) == client' = [client EXCEPT ![c].pc = "idle", ![c].ids = NoIds]

-----------------------------------------------------------------------------
(* create_document, up to the ids                                          *)

Submit(c) ==
  /\ At(c, "idle")
  /\ Goto(c, "finding")
  /\ UNCHANGED <<stagingVars, records, objects, minted, answered, reserved, faults>>

\* The upload is a document already, and is answered with the versions it has.
FoundByUpload(c) ==
  /\ At(c, "finding")
  /\ \E d \in documents :
       /\ d.upload = client[c].upload
       /\ answered' = answered \cup {<<d.upload, d>>}
  /\ End(c)
  /\ UNCHANGED <<stagingVars, records, objects, minted, reserved, faults>>

NotFoundByUpload(c) ==
  /\ At(c, "finding")
  /\ \A d \in documents : d.upload # client[c].upload
  /\ Goto(c, "getting")
  /\ UNCHANGED <<stagingVars, records, objects, minted, answered, reserved, faults>>

\* What _reserved asks of the staging record before it reserves on it: that it
\* is there (404), is of the upload named with it (400), and is parsed (409).
Submittable(c) ==
  /\ Present(client[c].file)
  /\ UploadOf[client[c].file] = client[c].upload
  /\ staged[client[c].file].status = "complete"

GetStaged(c) ==
  /\ At(c, "getting")
  /\ IF Submittable(c) THEN Goto(c, "reserving") ELSE End(c)
  /\ UNCHANGED <<stagingVars, records, objects, minted, answered, reserved, faults>>

\* reserve_ids, first call: set the ids where there are none yet.
Reserve(c) ==
  /\ At(c, "reserving")
  /\ LET f     == client[c].file
         fresh == [document |-> minted + 1, version |-> minted + 2]
     IN  /\ ReserveIds(f, fresh)
         /\ IF Reservable(f)
            THEN /\ minted' = minted + 2
                 /\ reserved' = reserved \cup {[file |-> f, life |-> lives[f], ids |-> fresh]}
            ELSE UNCHANGED <<minted, reserved>>
  /\ Goto(c, "rereading")
  /\ UNCHANGED <<records, objects, answered, faults>>

\* Mutant of Reread: the document's id is the record's, the version's is the
\* attempt's own.
RereadOwnVersion(c) ==
  /\ At(c, "rereading")
  /\ LET record == staged[client[c].file]
     IN  IF record.status = "complete" /\ record.ids # NoIds
         THEN /\ client' = [client EXCEPT ![c].pc = "saving",
                               ![c].ids = [record.ids EXCEPT !.version = minted + 1]]
              /\ minted' = minted + 1
         ELSE End(c) /\ UNCHANGED minted
  /\ UNCHANGED <<stagingVars, records, objects, answered, reserved, faults>>

\* reserve_ids, second call: read back whatever ids are on the record now.  It
\* may have expired between the calls, and even be another delivery's by now.
Reread(c) ==
  /\ At(c, "rereading")
  /\ LET record == staged[client[c].file]
     IN  IF record.status = "complete" /\ record.ids # NoIds
         THEN client' = [client EXCEPT ![c].pc = "saving", ![c].ids = record.ids]
         ELSE End(c)
  /\ UNCHANGED <<stagingVars, records, objects, minted, answered, reserved, faults>>

-----------------------------------------------------------------------------
(* convert: the pictures in any order, then the Markdown                   *)

Unsaved(c) ==
  {p \in PicturesOf[client[c].file] : <<client[c].ids.document, p>> \notin assets}

SavePicture(c) ==
  /\ At(c, "saving")
  /\ \E p \in Unsaved(c) : assets' = assets \cup {<<client[c].ids.document, p>>}
  /\ UNCHANGED <<stagingVars, records, contents, client, minted, answered, reserved, faults>>

\* Mutants of SaveContent: the Markdown before the pictures; a write whose
\* failure is taken for success.
SaveContentAtOnce(c) ==
  /\ At(c, "saving")
  /\ contents' = contents \cup {<<client[c].ids.document, client[c].ids.version>>}
  /\ IF Unsaved(c) = {} THEN Goto(c, "versioning") ELSE UNCHANGED client
  /\ UNCHANGED <<stagingVars, records, assets, minted, answered, reserved, faults>>

SaveContentUnchecked(c) ==
  /\ At(c, "saving")
  /\ Unsaved(c) = {}
  /\ Goto(c, "versioning")
  /\ UNCHANGED <<stagingVars, records, objects, minted, answered, reserved, faults>>

SaveContent(c) ==
  /\ At(c, "saving")
  /\ Unsaved(c) = {}
  /\ contents' = contents \cup {<<client[c].ids.document, client[c].ids.version>>}
  /\ Goto(c, "versioning")
  /\ UNCHANGED <<stagingVars, records, assets, minted, answered, reserved, faults>>

-----------------------------------------------------------------------------
(* The records                                                             *)

NewVersion(c) ==
  [id |-> client[c].ids.version, document |-> client[c].ids.document, by |-> c]

\* Mutant of RecordVersion: the duplicate key is raised, not looked up.
RecordVersionOnce(c) ==
  /\ At(c, "versioning")
  /\ IF \A v \in versions : v.id # client[c].ids.version
     THEN versions' = versions \cup {NewVersion(c)} /\ Goto(c, "documenting")
     ELSE UNCHANGED versions /\ End(c)
  /\ UNCHANGED <<stagingVars, documents, objects, minted, answered, reserved, faults>>

\* Inserted, or an earlier attempt's record under the same id answered as it
\* stands - unless it is another document's, which raises MisfiledVersionError.
RecordVersion(c) ==
  /\ At(c, "versioning")
  /\ LET there == {v \in versions : v.id = client[c].ids.version}
     IN  /\ versions' = IF there = {} THEN versions \cup {NewVersion(c)} ELSE versions
         /\ IF \A v \in there : v.document = client[c].ids.document
            THEN Goto(c, "documenting")
            ELSE End(c)
  /\ UNCHANGED <<stagingVars, documents, objects, minted, answered, reserved, faults>>

NewDocument(c) ==
  [id |-> client[c].ids.document, upload |-> client[c].upload,
   file |-> client[c].file, by |-> c]

\* Mutants of RecordDocument: no unique index on the upload; its clash ignored.
RecordDocumentUnindexed(c) ==
  /\ At(c, "documenting")
  /\ documents' = IF \A d \in documents : d.id # client[c].ids.document
                  THEN documents \cup {NewDocument(c)} ELSE documents
  /\ Goto(c, "promoting")
  /\ UNCHANGED <<stagingVars, versions, objects, minted, answered, reserved, faults>>

RecordDocumentRegardless(c) ==
  /\ At(c, "documenting")
  /\ documents' = IF \A d \in documents : d.upload # client[c].upload
                  THEN documents \cup {NewDocument(c)} ELSE documents
  /\ Goto(c, "promoting")
  /\ UNCHANGED <<stagingVars, versions, objects, minted, answered, reserved, faults>>

\* Both _id and source.uploadId are unique.  A clash on the id is an earlier
\* attempt's commit; one on the upload alone - another file of it became the
\* document - is raised.
RecordDocument(c) ==
  /\ At(c, "documenting")
  /\ LET clashing == {d \in documents : \/ d.id = client[c].ids.document
                                        \/ d.upload = client[c].upload}
         there == {d \in clashing : d.id = client[c].ids.document}
     IN  /\ documents' = IF clashing = {} THEN documents \cup {NewDocument(c)} ELSE documents
         /\ IF clashing = {} \/ there # {} THEN Goto(c, "promoting") ELSE End(c)
  /\ UNCHANGED <<stagingVars, versions, objects, minted, answered, reserved, faults>>

AnswerCreated(c) ==
  answered' = answered \cup
    {<<client[c].upload, d>> : d \in {e \in documents : e.id = client[c].ids.document}}

\* Best effort: promoted or not, the document is answered.
PromoteStaged(c) ==
  /\ At(c, "promoting")
  /\ \/ Promote(client[c].file)
     \/ UNCHANGED stagingVars
  /\ AnswerCreated(c)
  /\ End(c)
  /\ UNCHANGED <<records, objects, minted, reserved, faults>>

\* An attempt stops without an answer: the source is gone or refused, the store
\* or the database fails, the process dies.  What it has written stays written.
Fail(c) ==
  /\ ~ At(c, "idle")
  /\ faults < MaxFaults
  /\ faults' = faults + 1
  /\ End(c)
  /\ UNCHANGED <<stagingVars, records, objects, minted, answered, reserved>>

-----------------------------------------------------------------------------

Progress(c) ==
  \/ Submit(c) \/ FoundByUpload(c) \/ NotFoundByUpload(c) \/ GetStaged(c)
  \/ Reserve(c) \/ Reread(c) \/ SavePicture(c) \/ SaveContent(c)
  \/ RecordVersion(c) \/ RecordDocument(c) \/ PromoteStaged(c)

\* The staging record's other writers: see StagingRecords and Staging.
Callback(f) ==
  /\ CallbackSide(f)
  /\ lives'[f] <= MaxLives[f]
  /\ UNCHANGED <<client, records, objects, minted, answered, reserved, faults>>

Expiry(f) ==
  /\ Expire(f)
  /\ UNCHANGED <<client, records, objects, minted, answered, reserved, faults>>

Next ==
  \/ \E c \in Clients : Progress(c) \/ Fail(c)
  \/ \E f \in Files : Callback(f) \/ Expiry(f)

\* A request that is running goes on, and a journey that has not been answered
\* submits again.
Fairness == \A c \in Clients : WF_vars(Progress(c))

Spec == Init /\ [][Next]_vars /\ Fairness

-----------------------------------------------------------------------------
(* What is read                                                            *)

VersionsOf(document) == {v \in versions : v.document = document}

\* GET /guides/{id}/content: the newest version's Markdown, whichever that is.
\* The document record is not read.
ContentStatus(document) ==
  IF VersionsOf(document) = {} THEN "not found"
  ELSE IF \A v \in VersionsOf(document) : <<document, v.id>> \in contents THEN "ok"
  ELSE "bad gateway"

PicturesStored(document, file) == \A p \in PicturesOf[file] : <<document, p>> \in assets

\* A committed document can be read from top to bottom.
Whole(d) ==
  /\ VersionsOf(d.id) # {}
  /\ ContentStatus(d.id) = "ok"
  /\ PicturesStored(d.id, d.file)

GuideOf(d) == [id |-> d.id, document |-> d, versions |-> VersionsOf(d.id), whole |-> Whole(d)]

-----------------------------------------------------------------------------
(* Properties                                                              *)

\* Whatever attempts race or stop half way, a stored Markdown file never draws a
\* picture that is not stored (documents/store.py save: pictures first).
ContentHasItsPictures ==
  \A r \in reserved :
    <<r.ids.document, r.ids.version>> \in contents => PicturesStored(r.ids.document, r.file)

\* A version is recorded only once its content is wholly stored: no recorded
\* version is ever answered 502, and it is of a pair of ids that was reserved
\* together (router.py create_document, "Bottom up").
VersionIsWhole ==
  \A v \in versions :
    /\ <<v.document, v.id>> \in contents
    /\ \E r \in reserved : r.ids = [document |-> v.document, version |-> v.id]

\* A committed document has one version, and everything beneath it is there:
\* attempts that raced to commit it, or took over from one that died, did not
\* each leave a version (router.py create_document).  Other lines of the repository
\* speak of a version more per conversion, and of documents without one: see
\* ReconvertedAsAVersion.
CommittedHasOneVersion ==
  \A d \in documents :
    /\ \E v \in versions : VersionsOf(d.id) = {v}
    /\ Whole(d)

\* Submitting a delivered file again and again, in parallel or after a failure,
\* reserves one pair of ids: it finishes one document rather than starting
\* another (staging/store.py reserve_ids).
OneReservationPerDelivery ==
  \A r, s \in reserved : r.file = s.file /\ r.life = s.life => r = s

\* A record marked promoted is of a file that has become a document, even where
\* the mark lands on a later delivery's record (staging/store.py promote).
PromotedWasCommitted ==
  \A f \in Files : staged[f].promoted => \E d \in documents : d.file = f

\* To its callers POST /guides is GuideCommit: one guide per upload, whole from
\* the moment it is there, never changed, and the one every answer names.
Abstract == INSTANCE GuideCommit WITH
  Guides    <- [id : Nat, document : Document, versions : SUBSET Version, whole : {TRUE}],
  committed <- {<<d.upload, GuideOf(d)>> : d \in documents},
  answered  <- {<<a[1], GuideOf(a[2])>> : a \in answered}

CommitsAtomically == Abstract!Spec

\* A journey that keeps submitting a parsed file gets its upload committed, by
\* itself or by another, unless the staging record expires first: no attempt
\* that stopped half way leaves records no later attempt can get past.
RetriedUntilCommitted ==
  \A c \in Clients :
    /\ staged[client[c].file].status = "complete"
    /\ UploadOf[client[c].file] = client[c].upload
    ~> \/ \E d \in documents : d.upload = client[c].upload
       \/ staged[client[c].file].status # "complete"

-----------------------------------------------------------------------------
(* What comments of the code say, and the code does not keep to            *)

\* "until it exists nothing can reach the version": content is answered of
\* committed documents only (router.py create_document).
OnlyCommittedIsServed ==
  \A v \in versions :
    ContentStatus(v.document) = "ok" => \E d \in documents : d.id = v.document

\* The staged document's id and promotion are "set once the conversion
\* finishes" (staging/schemas.py StagedDocumentResponse).
IdsMeanConverted ==
  \A f \in Files : staged[f].ids # NoIds =>
    <<staged[f].ids.document, staged[f].ids.version>> \in contents

\* A document's createdAt "is when the document was recorded, which is when its
\* first version was" (guidance/schemas.py Document): one request wrote both.
RecordedTogether ==
  \A d \in documents, v \in versions : v.document = d.id => v.by = d.by

\* Conversions of the file that were stored and whose version nobody recorded, nor
\* is about to.
FailedConversions(c) ==
  {r \in reserved :
     /\ r.file = client[c].file /\ <<r.ids.document, r.ids.version>> \in contents
     /\ \A v \in versions : v.id # r.ids.version
     /\ \A other \in Clients \ {c} : At(other, "idle")}

\* "Re-converting an existing upload reuses the same `document id` and mints a
\* fresh `version id`" (docs/guidance-document-storage.md), and "a document with no
\* versions is a document whose first conversion failed after its record was
\* written" (guidance/records.py latest_version).  By the first, who converts an
\* upload whose conversion failed makes another version of the same document; by
\* the second, the record of the document is there.  One of the two is the least
\* that either says, so a step that does neither refutes both.
ReconvertedAsAVersion ==
  [][\A c \in Clients : At(c, "rereading") /\ client'[c].pc = "saving" =>
       \A r \in FailedConversions(c) :
         \/ /\ client'[c].ids.document = r.ids.document
            /\ client'[c].ids.version # r.ids.version
         \/ \E d \in documents : d.id = r.ids.document]_vars

=============================================================================
