------------------------------- MODULE Listing -------------------------------
(***************************************************************************)
(* guidance/service.py list_page, guidance/records.py and                  *)
(* users/service.py: guides listed a page at a time and a user's own lists *)
(* shown, narrowed by their details and counted by them, while guides are  *)
(* being recorded.  Every query is a step of its own: nothing holds the    *)
(* database still between two of them.                                     *)
(*                                                                         *)
(* A guide is its id, and ids are ordered.  A detail of it is a list, a    *)
(* lone value or missing; a value is a word or something else.             *)
(***************************************************************************)
EXTENDS Integers, FiniteSets, Filtering

CONSTANTS
  Guides,        \* that may be recorded
  Gone,          \* ids of guides there no longer are: nothing here removes one
  Details,       \* guide -> detail -> [is |-> "list" | "lone" | "missing", values |-> a sequence]
  Words,         \* the values that are words, in the order they are spelled
  Reference,     \* detail -> the words the reference data has for it, in its order
  Counted,       \* the details whose values are counted
  CountingNone,  \* those of them whose guides with no value are counted too
  Filters,       \* that may be given: detail -> the values asked for
  OwnLists,      \* the guides users have pinned or opened, in their order
  Limit,         \* how many guides a page has
  MaxClock       \* bound: the clock stops there

NONE == "none"                            \* asked for: the guides with no value
NOT_SCHEME_SPECIFIC == "Not scheme-specific"

\* NONE is the code's None, which is no string; a user's list names a guide once.
ASSUME ListingAssumption ==
  /\ Guides \cup Gone \subseteq Nat \ {0} /\ Guides \cap Gone = {}
  /\ Limit \in Nat \ {0} /\ MaxClock \in Nat \ {0}
  /\ CountingNone \subseteq Counted
  /\ Words \in Seq(STRING) /\ NONE \notin Range(Words) /\ Reference \in [Counted -> Seq(STRING)]
  /\ OwnLists \subseteq Seq(Guides \cup Gone)
  /\ \A list \in OwnLists : \A i, j \in DOMAIN list : list[i] = list[j] => i = j

VARIABLES
  clock,
  now,        \* the time a guide is being recorded with, 0 for none
  versions,   \* recorded: [document, createdAt]
  documents,  \* recorded guide -> createdAt
  request,    \* the list being shown
  shown       \* the guides its reader has been shown, page after page

vars == <<clock, now, versions, documents, request, shown>>

Idle == [phase |-> "idle"]

Init ==
  /\ clock = 1 /\ now = [g \in Guides |-> 0]
  /\ versions = {} /\ documents = <<>>
  /\ request = Idle /\ shown = <<>>

-----------------------------------------------------------------------------
(* Recording guides: the version, then the document                        *)

Tick ==
  /\ clock < MaxClock /\ clock' = clock + 1
  /\ UNCHANGED <<now, versions, documents, request, shown>>

\* An attempt reads the time once.  A later attempt at it does again.
Attempt(g) ==
  /\ g \notin DOMAIN documents /\ now[g] < clock
  /\ now' = [now EXCEPT ![g] = clock]
  /\ UNCHANGED <<clock, versions, documents, request, shown>>

\* A version already there was recorded by an earlier attempt, and stands.
CreateVersion(g) ==
  /\ now[g] > 0 /\ ~\E v \in versions : v.document = g
  /\ versions' = versions \cup {[document |-> g, createdAt |-> now[g]]}
  /\ UNCHANGED <<clock, now, documents, request, shown>>

Create(g) ==
  /\ g \notin DOMAIN documents /\ \E v \in versions : v.document = g
  /\ documents' = [d \in DOMAIN documents \cup {g} |-> IF d = g THEN now[g] ELSE documents[d]]
  /\ UNCHANGED <<clock, now, versions, request, shown>>

-----------------------------------------------------------------------------
(* Narrowing                                                               *)

\* Details as they are read now: the words for no scheme are no scheme.
AsNow(g) ==
  [key \in DOMAIN Details[g] |->
    IF key = "schemes" /\ Details[g][key].is = "list"
      THEN [Details[g][key] EXCEPT !.values = SelectSeq(@, LAMBDA v : v # NOT_SCHEME_SPECIFIC)]
      ELSE Details[g][key]]

\* A guide with any of the values; asked for none, one with no value at all.
AnyOf(held, values) ==
  \/ Range(held.values) \cap (values \ {NONE}) # {}
  \/ NONE \in values /\ (held.values = <<>> \/ NONE \in Range(held.values))

Matches(g, metadata) == \A key \in DOMAIN metadata : AnyOf(AsNow(g)[key], metadata[key])

\* The filters given, by the detail each narrows; the guides of no scheme are a
\* choice beside the schemes.
ChosenFilters(given, noScheme) ==
  IF ~noScheme THEN given
  ELSE [key \in DOMAIN given \cup {"schemes"} |->
         (IF key \in DOMAIN given THEN given[key] ELSE {}) \cup (IF key = "schemes" THEN {NONE} ELSE {})]

\* A value asked for that the reference data does not have.
Unknown(metadata) ==
  \E key \in DOMAIN metadata : metadata[key] \ (Range(Reference[key]) \cup {NONE}) # {}

-----------------------------------------------------------------------------
(* Counting                                                                *)

\* Mutant of Others: the filter's own choice narrows its counts too.
AllFilters(metadata, key) == metadata

Others(metadata, key) == [k \in DOMAIN metadata \ {key} |-> metadata[k]]

\* The values a guide counts under, once each: those that are words, and none
\* where guides with no value are counted.
CountedUnder(g, key) ==
  LET held    == AsNow(g)[key]
      unwound == IF held.values = <<>> /\ key \in CountingNone THEN {NONE} ELSE Range(held.values)
  IN  unwound \cap (Range(Words) \cup (IF key \in CountingNone THEN {NONE} ELSE {}))

\* Detail -> value -> how many of some guides have it.
CountValues(metadata, only) ==
  [key \in Counted |->
    LET among == {g \in only : Matches(g, Others(metadata, key))}
        values == UNION {CountedUnder(g, key) : g \in among}
    IN  [v \in values |-> Cardinality({g \in among : v \in CountedUnder(g, key)})]]

\* The options of a filter: the values counted and those chosen, in the order of
\* the reference data, those it no longer has after that and none last.
CountedOptions(counted, chosen, reference) ==
  LET labels == DOMAIN counted \cup chosen
      ordered == Only(reference, labels) \o Only(Words, labels \ Range(reference))
                   \o Only(<<NONE>>, labels)
  IN  [i \in DOMAIN ordered |->
        [label   |-> ordered[i],
         count   |-> IF ordered[i] \in DOMAIN counted THEN counted[ordered[i]] ELSE 0,
         retired |-> ordered[i] \notin (Range(reference) \cup {NONE})]]

OptionCounts(metadata, only) ==
  LET counted == CountValues(metadata, only)
  IN  [key \in Counted |->
        CountedOptions(counted[key], IF key \in DOMAIN metadata THEN metadata[key] ELSE {},
                       Reference[key])]

-----------------------------------------------------------------------------
(* A page                                                                  *)

NewestOf(g) ==
  {v \in versions : v.document = g /\ \A w \in versions : w.document = g => w.createdAt <= v.createdAt}

UpdatedAt(g) ==
  IF NewestOf(g) = {} THEN documents[g] ELSE (CHOOSE v \in NewestOf(g) : TRUE).createdAt

\* Mutant of Beyond: guides changed at the same time are not told apart.
BeyondByTime(g, at, after, newest) == IF newest THEN UpdatedAt(g) < at ELSE UpdatedAt(g) > at

\* Guide g comes after one that changed at a time, ties broken by id.
Beyond(g, at, after, newest) ==
  \/ IF newest THEN UpdatedAt(g) < at ELSE UpdatedAt(g) > at
  \/ UpdatedAt(g) = at /\ IF newest THEN g < after ELSE g > after

\* Guides in the order they changed: none comes before one it is beyond.
InOrder(guides, newest) ==
  CHOOSE ordered \in Bijection(1..Cardinality(guides), guides) :
    \A i, j \in DOMAIN ordered : i < j => ~Beyond(ordered[i], UpdatedAt(ordered[j]), ordered[j], newest)

\* The reader asks for the first page.  `before` is history: what there was then.
AskPage(filters, newest, after) ==
  /\ request.phase = "idle"
  /\ request' = IF Unknown(filters) THEN [phase |-> "refused"]
                ELSE [phase |-> "asked", list |-> "all", metadata |-> filters, newest |-> newest,
                      after |-> after, at |-> 0, found |-> <<>>, items |-> <<>>,
                      next |-> 0, counts |-> <<>>, seen |-> {}, before |-> DOMAIN documents]
  /\ UNCHANGED <<clock, now, versions, documents, shown>>

\* Where the cursor stands in the order now; a guide that is not there is none.
ReadCursor ==
  /\ request.phase = "asked" /\ request.list = "all"
  /\ request' = IF request.after = 0 THEN [request EXCEPT !.phase = "placed"]
                ELSE IF request.after \notin DOMAIN documents THEN [phase |-> "refused"]
                ELSE [request EXCEPT !.phase = "placed", !.at = UpdatedAt(request.after)]
  /\ UNCHANGED <<clock, now, versions, documents, shown>>

\* One more than a page, to know whether there is another.
ListDocuments ==
  /\ request.phase = "placed" /\ request.list = "all"
  /\ LET matching == {g \in DOMAIN documents :
                       /\ Matches(g, request.metadata)
                       /\ request.after = 0 \/ Beyond(g, request.at, request.after, request.newest)}
         ordered == InOrder(matching, request.newest)
         found == SubSeq(ordered, 1, IF Len(ordered) > Limit THEN Limit + 1 ELSE Len(ordered))
         page == SubSeq(found, 1, IF Len(found) > Limit THEN Limit ELSE Len(found))
     IN  request' = [request EXCEPT !.phase = "listed", !.found = page,
                                    !.next = IF Len(found) > Limit THEN Last(page) ELSE 0]
  /\ UNCHANGED <<clock, now, versions, documents, shown>>

LatestVersions ==
  /\ request.phase = "listed" /\ request.list = "all"
  /\ request' = [request EXCEPT !.phase = "summarised",
       !.items = [i \in DOMAIN request.found |->
                   [guide |-> request.found[i], newest |-> NewestOf(request.found[i]), position |-> i]]]
  /\ UNCHANGED <<clock, now, versions, documents, shown>>

\* The counts are taken last, and the page is answered with them.
CountPage ==
  /\ request.phase = "summarised" /\ request.list = "all"
  /\ request' = [request EXCEPT !.phase = "answered", !.seen = DOMAIN documents,
                                !.counts = OptionCounts(request.metadata, DOMAIN documents)]
  /\ shown' = shown \o request.found
  /\ UNCHANGED <<clock, now, versions, documents>>

\* The reader goes on from the last guide of the page.
AskNext ==
  /\ request.phase = "answered" /\ request.list = "all" /\ request.next # 0
  /\ request' = [request EXCEPT !.phase = "asked", !.after = request.next]
  /\ UNCHANGED <<clock, now, versions, documents, shown>>

-----------------------------------------------------------------------------
(* A user's own list: the guides in it that the filters let through, read  *)
(* while their values are counted                                          *)

AskOwn(list, guides, filters) ==
  /\ request.phase = "idle" /\ Range(guides) \subseteq DOMAIN documents \cup Gone
  /\ request' = IF Unknown(filters) THEN [phase |-> "refused"]
                ELSE [phase |-> IF list = "pinned" THEN "asked" ELSE "placed",
                      list |-> list, metadata |-> filters,
                      given |-> guides, live |-> guides, found |-> {},
                      items |-> <<>>, counts |-> <<>>, seen |-> {}, counted |-> FALSE]
  /\ UNCHANGED <<clock, now, versions, documents, shown>>

\* Positions are among the pins that are guides.
ReadExisting ==
  /\ request.phase = "asked" /\ request.list = "pinned"
  /\ request' = [request EXCEPT !.phase = "placed",
                   !.live = Only(@, DOMAIN documents)]
  /\ UNCHANGED <<clock, now, versions, documents, shown>>

Matching ==
  /\ request.phase = "placed" /\ request.list # "all"
  /\ request' = [request EXCEPT !.phase = "matched",
       !.found = {g \in Range(request.live) \cap DOMAIN documents : Matches(g, request.metadata)}]
  /\ UNCHANGED <<clock, now, versions, documents, shown>>

FindMany ==
  /\ request.phase = "matched"
  /\ request' = [request EXCEPT !.phase = "listed", !.found = @ \cap DOMAIN documents]
  /\ UNCHANGED <<clock, now, versions, documents, shown>>

Summaries ==
  /\ request.phase = "listed" /\ request.list # "all"
  /\ LET item(i) == [guide |-> request.live[i], newest |-> NewestOf(request.live[i]), position |-> i]
         places == Only([i \in DOMAIN request.live |-> i],
                        {i \in DOMAIN request.live : request.live[i] \in request.found})
     IN  request' = [request EXCEPT
           !.phase = IF request.counted THEN "answered" ELSE "summarised",
           !.items = [n \in DOMAIN places |-> item(places[n])]]
  /\ UNCHANGED <<clock, now, versions, documents, shown>>

\* The counts are taken at any time among the other queries.
CountOwn ==
  /\ request.phase \in {"placed", "matched", "listed", "summarised"} /\ request.list # "all"
  /\ ~request.counted
  /\ request' = [request EXCEPT !.phase = IF @ = "summarised" THEN "answered" ELSE @,
       !.counted = TRUE, !.seen = DOMAIN documents,
       !.counts = OptionCounts(request.metadata, DOMAIN documents \cap Range(request.live))]
  /\ UNCHANGED <<clock, now, versions, documents, shown>>

-----------------------------------------------------------------------------
Next ==
  \/ Tick
  \/ \E g \in Guides : Attempt(g) \/ CreateVersion(g) \/ Create(g)
  \/ \E given \in Filters, noScheme, newest \in BOOLEAN, after \in {0} \cup Gone :
       AskPage(ChosenFilters(given, noScheme), newest, after)
  \/ ReadCursor \/ ListDocuments \/ LatestVersions \/ CountPage \/ AskNext
  \/ \E list \in {"pinned", "opened"}, guides \in OwnLists, given \in Filters, noScheme \in BOOLEAN :
       AskOwn(list, guides, ChosenFilters(given, noScheme))
  \/ ReadExisting \/ Matching \/ FindMany \/ Summaries \/ CountOwn

Spec == Init /\ [][Next]_vars

-----------------------------------------------------------------------------
\* A reader who goes through a list from one page to the next, whichever way it
\* is sorted, is shown every guide there was when they began exactly once and in
\* order, whatever is recorded meanwhile and however many guides changed at one
\* time (records.list_documents, _after).
StillGuidesShownOnce ==
  request.phase = "answered" /\ request.list = "all" =>
    /\ \A i, j \in DOMAIN shown :
         i < j => shown[i] # shown[j] /\ Beyond(shown[j], UpdatedAt(shown[i]), shown[i], request.newest)
    /\ request.next = 0 =>
         \A g \in request.before : g \in Range(shown) <=> Matches(g, request.metadata)

\* What a guide is shown to have for a detail: the words, or none.
ShownUnder(g, key) ==
  LET held == AsNow(g)[key]
      words == Range(held.values) \cap Range(Words)
  IN  IF held.values = <<>> /\ key \in CountingNone THEN {NONE} ELSE words

CountOf(options, value) ==
  LET at == {i \in DOMAIN options : options[i].label = value}
  IN  IF at = {} THEN 0 ELSE options[CHOOSE i \in at : TRUE].count

\* The guides a list would show with the values of one filter chosen anew.
Choosing(key, values) ==
  {g \in IF request.list = "all" THEN request.seen ELSE request.seen \cap Range(request.live) :
     Matches(g, [k \in DOMAIN request.metadata \cup {key} |->
                  IF k = key THEN values ELSE request.metadata[k]])}

\* The page and the counts of one answer agree, though queried apart: every guide
\* shown is counted under everything it is shown to have and is shown with a
\* version of it, a pin with its position among the pins that are guides, and the
\* count of each value is of the guides that have it and that the other filters let
\* through (service.list_page, option_counts, users/service.pinned, _listed).
\* The list would show a document without versions too, as a test has it; no
\* document is recorded before its version (GuideCreation, RecordDocument).
AnswerAgrees ==
  request.phase = "answered" =>
    /\ \A i \in DOMAIN request.items : request.items[i].newest # {}
    /\ request.list = "pinned" =>
         \A i \in DOMAIN request.items :
           LET stands == CHOOSE p \in DOMAIN request.given : request.given[p] = request.items[i].guide
           IN  request.items[i].position =
                 Cardinality({p \in 1..stands : request.given[p] \in DOMAIN documents})
    /\ \A key \in Counted :
         /\ \A i \in DOMAIN request.items : \A value \in ShownUnder(request.items[i].guide, key) :
              CountOf(request.counts[key], value) > 0
         /\ \A value \in Range(Words) \cup IF key \in CountingNone THEN {NONE} ELSE {} :
              CountOf(request.counts[key], value) = Cardinality(Choosing(key, {value}))
         /\ key \in DOMAIN request.metadata =>
              request.metadata[key] \subseteq {request.counts[key][i].label : i \in DOMAIN request.counts[key]}

=============================================================================
