# A TLA+ model of the guidance hub API

The service turns Word documents into Markdown guides and keeps them. A file
reaches it twice: cdp-uploader's callback says it has been scanned and copied
to a bucket, whereupon it is *staged* (fetched, parsed, judged); then the
front end's `POST /guides` makes a *guide* of it (converted, stored in S3,
recorded in MongoDB). Beside that it lists guides with filters, and keeps each
user's pinned and recently opened guides.

This directory models what happens to an upload from its delivery to its being
a committed guide, with everything that can be retried, raced, interrupted or
late on the way; what becomes of the document in between, from Word's body to
the stored Markdown and back; and how guides are listed, pinned and opened.

## Inventory

| Component | State | Operations | Hard parts |
|---|---|---|---|
| Staging store (`documents/staging/store.py`) | the `staging` collection, one record per delivered file | claim, mark_complete, mark_failed, reserve_ids, promote, get; TTL expiry | single-document updates from two sides of the service; a record can vanish between any two |
| Upload callback (`documents/staging/router.py`, `service.py`) | the handler's loop, its background tasks | handle_callback, validate_and_parse | duplicate deliveries; a failure drops the tasks behind it |
| Guide creation (`guidance/router.py`, `records.py`, `service.py`) | the `documents` and `versions` collections | create_document, read_document, read_content, read_asset | five stores written one after another without a transaction; racing and retried submissions |
| Object store (`documents/store.py`, `common/s3.py`) | the managed bucket | save, read, load_asset | pool of threads, cancellation, conditional puts, lost answers |
| Guide listing (`guidance/records.py`, `service.py`) | reads the two collections | list_documents, count_values, latest_versions_of | cursor over a moving order; several queries per page |
| Users (`users/`) | the `users` collection: identity, pins, openings | find_or_create, record_opened, patch_pins | upsert race, push then pull, compare-and-set with a bound |
| Parser (`parsing/`) | none beyond one walk: open sections, the open list run, what is held for its next item, the open box, the open field | parse_docx, parse_minimal | order of what is held; depth of list items; numbers and anchors; what markers may touch |
| Markdown reader (`documents/reader.py`) | the stack of open sections | from_markdown | must read back what the parser's models write, which does not say what kind a section is |
| Authentication (`auth/`) | a lazily made key client | allow, verify | error paths to status codes |
| Start-up (`common/mongo.py`, `entrypoints/fastapi.py`) | two lazily made handles | get_mongo_client, get_db, lifespan | sequential: indexes are made before the first request |
| Review, reference data, health, scripts | none of their own | | |

How they interact: the callback side and `POST /guides` share nothing but the
staging record. `POST /guides` reads and writes it through the staging store,
writes the bucket through the object store, then the two collections. Reads go
to the collections and the bucket without consulting the staging record.
Nothing is locked and nothing spans two writes: correctness rests on the order
of the writes, on single-document atomicity in MongoDB, on unique indexes, and
on S3 writes that only ever create.

What makes each component correct:

- *Staging*: a delivered file is parsed once per life of its record, its
  verdict stands, and no file is stuck for good whatever fails.
- *Guide creation*: an upload becomes at most one guide; a guide is there all
  at once or not at all; every answer about an upload names the same guide;
  retrying finishes what was begun.
- *Object store*: Markdown never names a picture that is not stored; a save
  that returns has stored everything; a save that raises leaves no thread
  writing.
- *Parser*: whatever the document says is filed once, where it stands; numbers
  follow the outline; a list is read at the depths and under the numbers it is
  drawn with; a paragraph keeps its words and its links.
- *Reader*: what is stored reads back as what was stored.
- *Listing*: going through the pages shows every guide once; what is shown and
  what is counted agree.
- *Users*: one user per person; the recently opened list depends on the
  openings alone, not on how their updates interleave; a patch of the pins
  applies whole, to the guides its page showed, or not at all.

## Modules

- **`StagingRecords`** - the staging collection and the updates
  `MongoStagingStore` makes, one operator per method. Both sides of the system
  use it. An absent record is a value (`NoRecord`), so the operators are total.
  `lives` counts how often a file's record has been inserted: history, by
  which one delivery's record is told from the next one's.
- **`Staging`** - `POST /callback`. The environment is `POST /guides`
  (`SubmissionSide`). One handler per callback, by program counter:
  `Deliver` (which files a payload names), `ClaimNext` (one turn of the loop,
  one database call; `ComesNext` keeps the payload's order), `Respond`, then per
  task `Fetch` and `ValidateAndParse`. `ClaimRaises`, `TaskRaises` and `Crash`
  are its failures.
- **`GuideCreation`** - `POST /guides`. The environment is the callback side
  (`Callback`, which is `StagingRecords!CallbackSide`) and expiry. One action
  per database or store call of `create_document`: `FoundByUpload` /
  `NotFoundByUpload`, `GetStaged`, `Reserve`, `Reread`, `SavePicture`,
  `SaveContent`, `RecordVersion`, `RecordDocument`, `PromoteStaged`; `Fail`
  ends an attempt anywhere. Reads are operators (`VersionsOf`,
  `ContentStatus`, `PicturesStored`, `GuideOf`).
- **`GuideCommit`** - the abstract specification: uploads become guides in one
  step, and answers name what was committed. `GuideCreation` implements it
  (`CommitsAtomically`; the refinement mapping is `Abstract`).
- **`GuideStore`** - `documents/store.py save` into S3, thread by thread, with
  S3 as the code's error paths describe it. `GuideCreation` takes a save to be
  creations, pictures first; `StoreOnlyGrows` and `ContentDrawsStored` here
  are why it may.
- **`Staging_proofs`**, **`GuideStore_proofs`** - the proofs of their safety
  properties.
- **`GuideCreation_proofs`** - the proofs of the invariants of `GuideCreation`,
  and that it implements `GuideCommit`.
- **`SignIn`** - `POST /users`: `Look` is the upsert that finds the user or
  finds none, `Insert` / `InsertLoses` its second half under the unique index,
  `FindAgain` the handler's answer to `DuplicateKeyError`. Nothing in the
  program removes a user, so `VanishedUserError` cannot arise.
- **`RecentlyOpened`** - `POST /users/{id}/recently-opened`: `Open` reads the
  clock, `Push` and `Pull` are the two updates, either of which may fail
  after it was made. The record's array is the set of its entries, each with its
  arrival: a push appends and a pull keeps the order, so the array is always in
  the order of arrivals. `Listed` is `models._recently_opened`, a set likewise,
  in the order of `Newer`. `arrived` is history: every opening ever pushed.
- **`Filtering`** - `Only`, what a comprehension with an `in` makes of a list:
  the pins there are guides for, the options there are guides for, the paragraphs
  of a cover.
- **`JsonPatch`** - the four operations on a list, and `Applied`, a patch whole
  or not at all. Pointers into deeper documents, which `pins.py` refuses, and
  their spelling are left out.
- **`Pins`** - `PATCH /users/{id}/pins`: `Ask` is a page being shown (`GET
  .../pins`) and a patch made on it, `Find` the read of the user, `Read` and
  `Write` one attempt of `_patch_list`. Which guides exist is constant: the
  program never removes one, and a pin that names none was left by hand.
- **`PinnedList`** - the abstract specification: a patch is applied whole, in
  one step, to the pins as they then are. `Pins` implements it
  (`PatchesAtOnce`).
- **`ExistingGuides`** - the constants `RecentlyOpened` and `JsonPatch` share:
  the guides a record or a request may name, and those there are.
- **`Users_proofs`** - the proofs about `SignIn`, `RecentlyOpened` and `Pins`,
  all of which it extends (the first two name their definitions apart for that).
- **`Folding`** - lemmas of no component: what a fold over a sequence comes to,
  position by position; what `Only` keeps, in which order and from where; that a
  function defined for each number by a lower one exists (`Recursion`); what
  lists concatenated hold, and what is left of a list that has lost some of what
  is on it (`Shed`).
- **`Numerals`**, **`Lists`** - `parsing/lists.py` as operators: `ListItem`
  reads numbering, its own or its style's; `DepthFor` is the stack of open
  depths; `Render` the lines of a run. `ReadLine` is the one thing not of this
  code: how CommonMark nests lines by their columns, which the code indents
  for.
- **`Tables`** - `tables.py`, `borders.py`, `textboxes.py`: paragraphs of a
  container as blocks, merged and missing cells, what is a box and which
  paragraphs share one. A text is known by where it stands, so that one lost,
  doubled or moved is told apart.
- **`Outline`** - `models.py` and `anchors.py`: level, number, letter, printed
  heading and slug of a section, and how equal slugs are told apart.
- **`DocumentWalk`** - `parser.py`: one action per kind of element the walk
  meets, `TakeBookmark`, `TakeTable`, `TakeHeading`, `TakeBoxed`, `TakeBody`,
  then `End`. `walk` holds what `_extract_sections` holds: sections, stack, the
  run with what is `pending` in it, the open box, the bookmarks. The document is
  made up as it is read, so every document of up to so many elements is.
- **`StoredDocument`** - `markdown()` and `documents/reader.py`: the lines a
  document is stored as, and the document read back out of them.
- **`Inline`** - `inline.py`: one action per kind of child of a paragraph (runs,
  pictures, links, the three marks of a field), then the line as operators:
  spans, hoisting, markers.
- **`Conversion`** - the three together, and the properties. Each is stated of
  the document itself: of what its elements say and in which order, not of how
  the walk goes about it.
- **`Conversion_proofs`** - the proofs that sections are numbered as the headings
  say, and that lists are read as they are drawn.
- **`Filing_proofs`** - the proof that every text is filed once and in its place.
- **`Listing`** - `list_page`, `option_counts` and a user's own lists. `Ask...`
  begins a request; each later action is one query of it: `ReadCursor`,
  `ListDocuments`, `LatestVersions`, `CountPage`; `ReadExisting`, `Matching`,
  `FindMany`, `Summaries`, with `CountOwn` anywhere among them
  (`asyncio.gather`). Guides are recorded meanwhile by `Attempt`,
  `CreateVersion` and `Create`, which is as much of `GuideCreation` as a list
  can see: clock first, then version, then document, and attempts that are
  made again with a later clock. `shown` and `before` are history. A sorted
  page (`InOrder`) is the arrangement of the guides in which none comes before
  one it is beyond: MongoDB's sort, not a way of sorting.
- **`Listing_proofs`** - the proofs of its properties.
- **`MC*`** - the small instances. `MCUsers` is of `SignIn` and `RecentlyOpened`,
  one of the two in each behaviour, as they share no field of the record.

The two sides of the staging record are composed by assumption and guarantee:
each module has its own side in detail and the other as an environment.
`RecordStepsAreShared` checks that every step the detailed callback side makes
on a record is one that `GuideCreation` allows for; conversely
`SubmissionSide` is what `Reserve` and `PromoteStaged` do to a record.

Ids are numbers in the order they are minted. What one request writes into
records - clock reading, metadata, author - is represented by the client that
sent it. Bytes, titles, paths and status codes are left out, save where a
property tells them apart (`ContentStatus`).

## Runs

| Run | Instance | What it shows |
|---|---|---|
| `staging` | 2 files (one no Word document), 2 callbacks, 5 payload forms | one task per claim, verdicts final, late writes harmless, a stuck file freed |
| `guide_creation` | 2 clients, 2 files of one upload and a second upload, f1 claimed up to twice, 1 attempt cut short | one whole guide per upload, committed atomically, and retried until it is |
| `guide_store` | 2 saves, 3 pictures, 2 threads, 2 faults | order of writes, cancellation, conflicting and stray puts |
| `users` | 3 sign-ins, 2 identities, 2 names; or 4 openings, 3 guides and one there is not, 3 times, a list of 2 | one user per identity, all told the same, the loser's name kept; the list is that of every opening ever made, and nothing else is kept for long |
| `pins` | 3 patches of any of 5 forms, 2 pins and one that is gone, 1 guide to pin, 2 attempts | each patch whole or not at all, none lost, none given up for nothing |
| `conversion` | documents of seven kinds, of up to 3, 4 or 5 elements; a paragraph of up to 4 children | everything filed once in its place; numbers of the outline; read back as stored; lists read as drawn; words and links of a paragraph kept |
| `listing` | 3 guides and an id of none, 2 times, pages of 1, 4 filters with and without `no_scheme`, 2 own lists | every guide shown once however many are recorded between pages; items, versions and counts of one answer agree |
| `served_before_commit`, `ids_before_conversion`, `recorded_apart`, `reconverted_anew` | as `guide_creation` | statements of documents and comments that the code does not keep to: see below, and `findings` in `PROJECT.json` |
| `conflicts_settle` | as `guide_store` | another |

*Bounds.* Two clients are enough for a race, and each of them submits for ever,
so one may do all its attempts between two calls of the other. A client's
upload and file are chosen at the start, so that pairs include the same file,
two files of one upload and a file with the wrong upload. Two lives of a record
are needed for what an attempt read in one life to be used in the next
(`Reread`, `PromoteStaged`); the second file needs only one. One failed attempt
followed by another is every retry there is, since a failed attempt keeps
nothing but what it stored. In `guide_store`, three pictures and two threads
leave one waiting while two are written, which is what cancellation is about;
two faults let a put fail in one save and go astray in another. Two callbacks
let a file be claimed, expire and be claimed again while its first task still
runs.

Four openings let a guide be opened again after two others pushed it off a list
of two, while an earlier surplus is still to be pulled; times may be equal or
arrive reversed. Three patches let one of two attempts fail under two others.
Requests, and the guides that exist, are interchangeable there (symmetry; no
liveness is checked in those runs).

A document of `conversion` is of one kind, each made of what can go wrong
together: list items of every indent and bullet; what may stand between two
items (silent items, boxes of three makes, contents entries, tables, headings);
tables of merged and missing cells; headings of three levels among appendices,
which may be headed alike or with the number due;
covers; bookmarks and links. Five elements let prose be held, a box join it, an
item claim both and a heading close them. Letters are counted in base 2 and
numbers written in base 2 (`ALPHABET`, `RADIX`): the third appendix is then
what the 27th is in the program, and the second item of a list what the tenth
is, whose marker is wider. In a paragraph, four children hold a field with its
separator and its result, or a field in a field, or three neighbouring spans.

In `listing`, pages of one guide put a cursor at every guide; three guides over
two times let two share the time of the cursor; one may be recorded between any
two queries under a time older than the cursor's.

*Fairness.* In `Staging`, handlers and tasks that can go on do (an event loop
runs what is ready), and MongoDB's TTL monitor comes round. In
`GuideCreation`, a request that runs goes on, and a journey submits again:
`RetriedUntilCommitted` is about a caller that keeps asking, as the docstring
of `create_document` expects. Its failures are bounded, its expiries are not
obliged. In `GuideStore`, threads run and S3 answers or the client's timeouts
do. No action needs strong fairness.

*Deadlock* is not checked where the instance has finitely many callbacks or
saves, which end. `GuideCreation` never stops.

## Proofs

`GuideCreation_proofs` proves, for any clients, files, uploads, pictures and
bounds, under `ReadableAssumption` and `CreationAssumption` (the constants are
of their types):

| Theorem | Statement |
|---|---|
| `TypeCorrect` | `Spec => []TypeOK` |
| `ReservesOnce` | `Spec => []OneReservationPerDelivery` |
| `ContentIsWhole` | `Spec => []ContentHasItsPictures` |
| `VersionsAreWhole` | `Spec => []VersionIsWhole` |
| `CommitsWhole` | `Spec => []CommittedHasOneVersion` |
| `PromotesCommitted` | `Spec => []PromotedWasCommitted` |
| `ImplementsGuideCommit` | `Spec => CommitsAtomically` |

None of these is inductive. The invariant `IInv` is built in layers, each
inductive relative to those before it:

1. `TypeOK`.
2. `Reservations`: the ids on a record are those its present life reserved; a
   present record without ids has no reservation of its present life; no two
   reservations share an id; ids an attempt holds are reserved for its file.
3. `Stored`: Markdown is only under reserved ids, with the pictures of the
   file they were reserved for; an attempt past its save has its Markdown
   stored.
4. `Recorded`: versions are of reserved ids whose Markdown is stored; a
   document's id is of a reservation of its file, whose version is recorded;
   ids and uploads are unique; an attempt that promotes has its document.

That a document has one version then follows from ids never being shared: two
versions of it would be two reservations with one document id.

The refinement needs `CInv`, which adds to `IInv` that an attempt past its look
at the record, and a document, are of their file's upload, and that only
documents have been answered. A step that records a document is then the
abstract `Commit` (its upload had none); every other step leaves the committed
guides alone: a guide once committed keeps its one version and stays whole, as
nothing stored or recorded is taken away; and an answer names a guide already
committed.

`Staging_proofs`, for any files, callbacks and payloads, under
`ReadableAssumption` and `PayloadsAssumption`:

| Theorem | Statement |
|---|---|
| `TypeCorrect` | `Spec => []TypeOK` |
| `ClaimsAreExclusive` | `Spec => []OneTaskPerClaim` |
| `NoClaimForgotten` | `Spec => []ClaimIsAttended` |
| `RecordsExpire` | `Spec => []EveryRecordExpires` |
| `VerdictsStand` | `Spec => VerdictIsFinal` |
| `StepsAreShared` | `Spec => RecordStepsAreShared` |

`ClaimIsAttended` is about callbacks that go well: a claimed file has its task. Once
one has failed it says nothing more; that the files a failure leaves behind are
freed is `StuckFileIsFreed`, which is checked and not proved.

The invariant adds to the properties that a task is of a life its record has
had (`LivesKnown`), that only a handler running tasks has any (`Stages`), and
that a record is being parsed or says what a parse of its file finds
(`SaysWhatItIs`). A claim inserts its record, so the task it leaves carries a
life no earlier task of the file does; and since a verdict depends on the file
alone, a task that is late, by a life of its record even, writes what the right
one would.

`GuideStore_proofs`, for any saves, pictures, threads and faults, under
`StoreAssumption`:

| Theorem | Statement |
|---|---|
| `TypeCorrect` | `Spec => []TypeOK` |
| `NoPictureMissing` | `Spec => []ContentDrawsStored` |
| `SavesAreComplete` | `Spec => []SavedMeansStored` |
| `PoolIsAtRest` | `Spec => []NothingRunsOn` |
| `StoreGrows` | `Spec => StoreOnlyGrows` |

The invariant says that a write which is done is stored (`DoneIsStored`), that
each write is in flight only at the step which waits for it (`WritesBelong`),
and that Markdown asked for, written or adrift has its pictures in the store
(`PicturesFirst`): the last is what a put that fails and lands later needs.

The users' modules, for any constants of their types (`OpenedAssumption`;
`PinsAssumption`, which has finitely many requests; `GuidesAssumption`):

| Theorem | Statement |
|---|---|
| `SignInTypeCorrect`, `OneUserEach` | `SignInSpec => []SignInTypeOK`, `=> []SignInsAgree` |
| `NameKept` | `SignInSpec => NameIsRefreshed` |
| `OpeningTypeCorrect` | `OpeningSpec => []OpeningTypeOK` |
| `ListIsWhole` | `OpeningSpec => []ListIsOfEveryOpening` |
| `RecordStaysSmall` | `OpeningSpec => []SurplusIsPulled` |
| `TypeCorrect` | `Pins!Spec => []TypeOK` |
| `PinnedOnce`, `GivesUpRightly` | `Pins!Spec => []NoGuideTwice`, `=> []GivesUpOnlyOnChanges` |
| `MovesLand` | `Pins!Spec => []MovedWhereAsked` |
| `UnpinsWhatWasShown` | `Pins!Spec => UnpinsTheGuideShown` |
| `ImplementsPinnedList` | `Pins!Spec => PatchesAtOnce` |

`OneUserEach` needs that users are unique per identity and that every answer is
of a user on record. `GivesUpRightly` needs that a handler has failed no more
attempts than patches were applied, and one fewer still when the attempt it is
making is about to fail.

`ListIsWhole` is about the *top* of the openings: a set of latest openings that
nothing newer is missing from, as large as the list may be or of every guide.
Such a set is the list (`TopIsListed`), is the top of any record that holds it
(`TopOfFewer`), and changes by at most one entry with a push (`TopOfMore`). So
the list is whole as long as the record holds the top of all that arrived and
no pull under way is of what the top says (`TopIsKept`). A later push cannot
bring back what was surplus: the one entry that comes to the top says what none
has said before, and pulls are by value. That a finite set of openings has an
oldest and a newest comes from the well-foundedness of its finite subsets.

What a patch makes of a list is a fold over its operations. `Folding` takes such
a fold position by position: it has a value at each of them (`FoldExists`), each
got from the one before, and a fact that passes from one position to the next
holds at all of them, since else there would be a least position at which it
fails (`StepByStep`, from the well-foundedness of the naturals). Nothing is
taken by an induction scheme. With that, `HInv` of `Users_proofs` says what a
handler carries: a patch made on a page, and as `gone` no guide there is but
every pin that is none, whatever was pinned since it looked. Hence `UnpinsWhatWasShown`: the
`test` of the patch was made on the guide the page showed, and the position it
names is that guide's in the list it is applied to, or the patch fails. Hence
also `ImplementsPinnedList`: the write that succeeds applies the patch to the
pins as they then are, which is the one abstract step; every other step of a
handler leaves them alone.

`Listing_proofs`, for any guides, details, words, filters, users' lists and
number of guides on a page, under `ListingAssumption`: the constants are of
their types; no word is the filter value for none (the code's `None`, which is
no string); and a user's list names a guide once (`users/pins.py` refuses a
guide pinned twice, `NoGuideTwice` above; `users/models.py` shows one opening of
each guide).

| Theorem | Statement |
|---|---|
| `ShowsOnce` | `Spec => []StillGuidesShownOnce` |
| `AnswersAgree` | `Spec => []AnswerAgrees` |

Both rest on `Records`: versions are recorded before their guide and never
twice, so a guide there is has one version and keeps it, and the order of the
guides there are is a strict total order that no step changes. For `ShowsOnce`,
`Told` is what the pages so far tell a reader: the guides shown ascend and match,
and every matching guide there was at the start is among them or beyond the
last of them. A page keeps it (`PageTold`): it is the first `Limit` of the
matching guides beyond the cursor, whatever has been recorded since; and the
cursor, a guide that was shown, still is where it was. A guide that is recorded
while the reader reads may be behind the cursor and never be shown, so `Told`
cannot be said of it; nor does the property.

For `AnswersAgree`, `PageAnswers` and `OwnAnswers` say query by query what an
answer has got so far: the guides found are there and match; each item has its
version; the counts are `OptionCounts` of a set of guides that holds all the
items. The two halves of a user's list run at once, so `OwnAnswers` has the
counts before, between or after the items. What remains is a fact about
counting alone (`CountsAgree`): the number given with a value is that of the
guides which choosing it would find, because to match the filters with one
chosen anew is to match the others and it (`AnewMatches`).

`Conversion_proofs`, for documents of any kinds, elements and length, under
`BodiesAssumption` (a paragraph has the parts the walk reads, its level a
number, its shapes lists of boxes, its indent a number or none),
`OutlineAssumption` (there is a letter), `NumeralsAssumption` (numbers are
written to a base of two or more) and `DeclaredAssumption` (a list declares
levels, whose indents are numbers or none):

| Theorem | Statement |
|---|---|
| `NumbersOfTheOutline` | `Spec => []NumbersAreOfTheOutline` |
| `ListsReadAsShown` | `Spec => []ListReadsAsShown` |

The walk knows a heading's place by a stack of open sections with two counters
each; the property says it by looking at the headings alone. `IInv` ties the
two: the sections are those of the headings so far (`Outlined`: the parent is
the nearest heading above of a lower level, the ordinal how many of its kind
that parent has), and the stack is what the next heading must know of them
(`Stacked`). The conjunct of `Stacked` that carries the proof is that every
heading so far is above, or in, a frame whose level is at most its own: so a
section that was closed can be the parent of no later heading, whatever levels
are skipped or returned to, and the frame that `Beneath` finds is the nearest
(`ParentIsNearest`). `OpenSectionOutlines` is the one step that opens a section;
every other - lists, boxes, runs, tables, bookmarks, and the end - only files
text in the sections there are (`Keeps`), which is proved through both folds of
the walk.

No two sections bear one number because no two of one kind are counted alike
beneath one parent (`OutlinedApart`); then the ways from the top down to two
sections of one number are of one length and pass the same sections
(`NumbersApart`), and no two numbers have the same letters (`LettersApart`). That
a section's ancestry and the letters of an appendix are what their recursive
definitions say is `Recursion`; the inductions are again over the least number
that fails.

`ListsReadAsShown` sets two stacks side by side. The code places an item on a
stack of open depths, by its indent, its bullet's rank and what encloses it, and
indents the line to match; a reader of Markdown knows none of that, and nests
lines by their columns alone (`Inside`, `ReadLine`). The property compares what
the reader ends up with, line by line, with the depth and number the code meant.
`Traced` is what both hold after each entry of a run, of any length:

- `Stands`: each open depth is that of the last item placed in it, with its
  number, and the last item is in the innermost. Whatever stood deeper is gone.
- `Seen`: the reader has as many items open as the code, each with its text in
  the same column (`Mirrors`), and has seen every line so far at its depth. Where
  no list was begun again straight after one of its kind, it has the numbers too.
- `Columned`: if markers stand in columns (`Columnar`), open depths are ever
  further right (`Spread`), and an item right of one that is still open is below
  it (`Nests`).
- `Carries`: what takes up a list is numbered on from it.

A depth is opened beneath `m` others, or the `m`-th is joined (`OpensIn`,
`JoinsAt`); of either, `ItemTraced` shows that the four go on, and `BlockTraced`
that a block, which stands in the innermost item and opens nothing, changes none
of them. For `Seen` the reason is that a line begins in a column past the text of
each item it is inside and before that of the next, since a depth's text starts
right of the depth's own marker (`Rising`): so `Inside` finds as many items as the
code had. For `Carries` it is that between the two items nothing was placed at the
depth or above it: an item nested deeper is, by `Nests`, placed deeper. The walk
then only has to hold runs of such entries (`IsRun` in `HasShape`), whichever of
its elements put them there.

The attempt showed that the property had asked too much. A depth is known by the
indent of its *latest* item (`_join`), and indents within 180 twips are one
column, so a list can drift: beneath a bullet at 300, numbered items at 481, 301
and 121 are one list; a bullet at 302 then closes it; and a numbered item at 121,
in the column of the last of them, starts a list of its own. So an item may be
drawn right of another and yet stand above it. `TakesUp` counts as nested what
was *placed* deeper, or what is *drawn* deeper in a run whose columns do not
overlap (`Columnar`).

`Filing_proofs`, for the same documents, under `PlacesAssumption` as well (a
paragraph is known by the element it is in and its place there). The
`BodiesAssumption` it needs says of a table that its columns are a number, that a
cell spans one at least, and that no cell of the first row continues one above:

| Theorem | Statement |
|---|---|
| `EveryTextFiled` | `Spec => []EveryTextIsFiled` |

The property compares what was filed with what the elements say, at the end. In
between, texts are in four places: in blocks of the sections, in the entries of
the open list, in blocks held for the list's next item (`pending`), and in
paragraphs of the open box. `Told` is all four, one after the other, and
`FiledFrom` says that it is what the elements so far say (`SaidOf`), but for what
may be lost (`Shed`: a list that has lost some of what is on it, and nothing of
what is to be kept). Each step then owes one fact, that it `Gives` the walk the
texts of its element: whether a box is filed, waits or continues an item
(`BoxTaken`), what waited goes to the item or is filed with the list it ends
(`PendingTaken`), or a heading closes everything (`HeadingGiven`), no text is
passed over by another. At the end nothing is held (`Idle`), and `Told` is what
is filed.

The one loss there is (`FollowsSilentItem`) makes the invariant. Texts held in a
list none of whose items says anything (`Mute`) are lost if no item that does
comes before the list ends; but which of them, nobody knows when they are held.
So `FiledFrom` says of a mute list that everything that waits was said since one
of its silent items, with no heading and no item that says something in between
(`SilentSince`): those are texts the property lets go, and it may not let go of
any other.

Beneath that lies what a block says. A run of entries prints what its entries
say (`RunSays`), by the page being printed line by line; the paragraphs of a
container, put in runs and blocks, say what they say (`BlocksSay`); and the cells
of a table fill the columns they span, are cut off at the last column or padded
up to it, and still say together what the table shows (`TableSays`). The cover is
a fold over the paragraphs; `CoverIs` says that its groups together are what it
says so far, that a blank paragraph parts any two of them and none parts one, so
that the title is wrapped as the page is, and no paragraph of it is in a section.

Only model-checked: the liveness properties (`StuckFileIsFreed`,
`RetriedUntilCommitted`, `EverySaveEnds`), which no prover here reaches; and of
the conversion `ReadsBack` and `InlineSaysAll`, which are about documents printed
and read back, and lines put together, by recursive functions of what they hold.

## What the repository says, and the code does otherwise

Each row is a property with a run of its own, which shows it violated.

| Statement | Where | What the code does |
|---|---|---|
| `OnlyCommittedIsServed` | `guidance/router.py:126-129` | content is read by newest version; the document record is not asked for |
| `IdsMeanConverted` | `staging/schemas.py:63-65` | ids are on the staging record from the reservation on |
| `RecordedTogether` | `guidance/schemas.py:155-156` | version and document of one guide may be of two requests |
| `ReconvertedAsAVersion` | `docs/guidance-document-storage.md:40-41`, `guidance/records.py:403-404`, `tests/guidance/test_router_listing.py:153-162` | an upload converted again keeps its version id too, and the document is recorded last |
| `ConflictsSettle` | `documents/store.py:86-88`, `:444-446` | a second conflict fails the save |

`ReconvertedAsAVersion` is the least that two statements have in common: the storage
document's, that an upload converted again gets a fresh version id beneath its
document, and the docstring's of `latest_version`, that a conversion which fails
leaves the record of a document without versions. Either of them would have a
second conversion make another version or find the document; in the run it does
neither, so both are refuted.

**They contradict `CommittedHasOneVersion`**, which `guide_creation` checks and
`CommitsWhole` proves of what the code does. The first is even the very change
(`RereadOwnVersion`) by which `CommittedHasOneVersion` is shown to be able to fail;
and "minted once when a document is first converted and then kept", just before it,
holds only while the staging record lives (`OneReservationPerDelivery`). Other lines
of the repository agree with the code: `reserve_ids` ("every later call, including one
racing it, gets the same pair back"), `create_document` ("the same version of the
same document"), `guidance/records.py:32-37`, and the storage document itself ("a
new document with one version [...] as converting an upload does", lines 92-93). So
the models follow the code.

The reading side is made for more versions and for none: `latest_version` answers
None, `GET /guides` an item without `latestVersion`, and a test seeds such a
document. `POST /guides` makes neither, and nothing else in the service writes
these collections. `CommittedHasOneVersion`, and in `Listing` that every guide listed
is shown with its version (`AnswerAgrees`), are therefore about what the service
records, not about records made by hand; `ContentStatus` and `VersionsOf` are
defined, as the code is, for any number of versions.

Stale, though no property is made of it, is that "`uploadId` is unique across
versions, and that is the whole of how one upload is converted once"
(`guidance/records.py:47-48`): a version names no upload, and the unique index is on
the documents' (`:104`). Two files of one upload each record a version before that
index refuses one of them, and the version of the one refused stays.

## What the properties leave out, and why

Modelling the conversion showed places where the code does other than it says.
They are written into the properties as exceptions, each as narrow as the
behaviour:

- `lists.render` passes over a block with no item open above it, saying that
  "the caller has already filed it as a block of its own"
  (`parsing/lists.py:182`). The parser never did: after an item that says
  nothing it holds prose and boxes for the run, and `render` drops them.
  (`FollowsSilentItem`)
- A heading's number is printed into its slug without its dots, so
  that section 1.1 and section 11 of one title share a slug, where
  `anchors.of_document` says that "numbered headings cannot collide". They are
  told apart by the suffix all the same; but a suffix may be spelled by a later
  heading (annex, annex, annex-1), and then two anchors are one. `ReadsBack` says
  nothing of the links of such a document (`AnchorsApart`).
- Prose that opens with two hashes or more reads back as a heading, and an
  appendix headed with the number due there as a numbered section, where
  `documents/reader.py` says that everything but its list of exceptions
  round-trips. (`LooksLikeHeading`, `HeadedWithNumber`)
- Within a paragraph, a field that begins inside another discards the outer
  one's result; pictures and breaks in a field's result are lost, and breaks in
  a link's text weld the words either side; a link of spaces alone is dropped.
  (`Lossless`)
- Two marked spans that touch, such as `**a.***b*`, are not always read as
  markers, since what one hoists is judged by the other's markup.
  (`ReadAsMarkers` is of markers beside text.)
- A list begun again at a depth where one of its kind has just ended is read by
  CommonMark as the same list going on. (`Restarts`)
- A list whose indents drift, each within a column of the one before, may be left
  by an item it is drawn to enclose, and then starts again. (`Columnar`)

Pictures in a heading, and cells beyond the columns a table declares, are
dropped by design; what a section says is stated accordingly (`IsHeading`,
`CellParts`). In a list of guides, a value the reference data no longer has is
shown with its count, but choosing it is refused.

## Plan

Done: the path from upload to guide; the conversion; listing; users, their
openings and their pins; the proofs of the safety properties of all but the
conversion, and of the conversion's outline, lists and filing. Left, in this
order: that a line loses no word (`InlineSaysAll`); that a document is read back
as it was stored (`ReadsBack`); `images.py` naming with the saves of `GuideStore`.

## Not modelled

- *Wording*: escapes, the spelling of link targets, colours, the alignment of
  table columns, the title line, the names and paths of pictures, and the
  minimal parse (`parse_minimal`, which reads three fields).
- *Authentication* decides each request on its own, by a chain of conditions on
  its token; it keeps nothing but a client made once.
- *Start-up* makes connections and indexes one after another before the first
  request.
- Review, reference data and health read constants or call other services. TLS,
  tracing, metrics, logging, configuration, the file:// form of the store and
  the scripts (`scripts/audit_docx.py` measures what a conversion kept, outside
  the service) are input and output.
