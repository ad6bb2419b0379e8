--------------------------- MODULE Listing_proofs ---------------------------
(***************************************************************************)
(* Lists of guides shown while guides are being recorded, for any guides,  *)
(* details, filters, lists of users and number of guides on a page.        *)
(*                                                                         *)
(* Records is what recording leaves behind: a guide recorded has exactly   *)
(* one version and keeps it, so the order of guides there are never        *)
(* changes.  On it stands what a reader of pages has been told, Told: the  *)
(* guides shown ascend, match, and hold every matching guide there was at  *)
(* the start that is not beyond the last of them; Pages carries it through *)
(* the queries of each page.  PageAnswers and OwnAnswers carry what the    *)
(* queries of one answer have found of the guides and their counts, from   *)
(* each query to the next one.                                             *)
(***************************************************************************)
EXTENDS Listing, Folding

USE ListingAssumption

\* A guide after another one, in the order of a list.
Past(h, g, newest) == Beyond(h, UpdatedAt(g), g, newest)

\* What a request for a page carries, and one for a list of a user's own.
PageFields == {"phase", "list", "metadata", "newest", "after", "at", "found", "items",
               "next", "counts", "seen", "before"}
OwnFields == {"phase", "list", "metadata", "given", "live", "found", "items", "counts",
              "seen", "counted"}

\* Recorded: a version for each guide there is, and never two for one guide.
Records ==
  /\ clock \in Nat
  /\ now \in [Guides -> Nat]
  /\ versions \subseteq [document : Guides, createdAt : Nat]
  /\ \A v, w \in versions : v.document = w.document => v = w
  /\ IsFiniteSet(DOMAIN documents) /\ DOMAIN documents \subseteq Guides
  /\ documents \in [DOMAIN documents -> Nat]
  /\ \A g \in DOMAIN documents : \E v \in versions : v.document = g

\* A request is one of the two kinds, at one of its queries.
Shape ==
  /\ request.phase \in {"idle", "refused", "asked", "placed", "matched", "listed", "summarised", "answered"}
  /\ request.phase = "idle" => shown = <<>>
  /\ request.phase \notin {"idle", "refused"} =>
       DOMAIN request = IF request.list = "all" THEN PageFields ELSE OwnFields

Paging == request.phase \notin {"idle", "refused"} /\ request.list = "all"

\* Each of a list's guides comes after those before it.
Ascending(list) ==
  \A i, j \in DOMAIN list : i < j => list[i] # list[j] /\ Past(list[j], list[i], request.newest)

\* What the guides shown up to the last one tell their reader; last is 0 when
\* there are no more of them.
Told(list, last) ==
  /\ list \in Seq(DOMAIN documents)
  /\ Ascending(list)
  /\ \A i \in DOMAIN list : Matches(list[i], request.metadata)
  /\ last # 0 => list # <<>> /\ last = Last(list)
  /\ \A g \in request.before : Matches(g, request.metadata) =>
       \/ g \in Range(list)
       \/ last # 0 /\ Past(g, last, request.newest)

\* What has been told at each query of a page: of the pages before it, and with
\* the page itself once it is found.
Pages ==
  Paging =>
    /\ request.newest \in BOOLEAN /\ request.before \subseteq DOMAIN documents
    /\ request.phase \in {"asked", "placed"} =>
         \/ request.after = 0 /\ shown = <<>>
         \/ request.after \in Gone /\ request.phase = "asked" /\ shown = <<>>
         \/ request.after \in DOMAIN documents /\ Told(shown, request.after)
    /\ request.phase = "placed" /\ request.after # 0 => request.at = UpdatedAt(request.after)
    /\ request.phase \in {"listed", "summarised"} => Told(shown \o request.found, request.next)
    /\ request.phase = "answered" => Told(shown, request.next)
    /\ request.phase \in {"asked", "placed", "listed", "summarised", "answered"}

IInv == Records /\ Shape /\ Pages

\* An item of an answer is of a guide there is, that matches, with a version.
Summarised(item) ==
  item.newest # {} /\ item.guide \in DOMAIN documents /\ Matches(item.guide, request.metadata)

\* What the queries of a page have found: guides to be shown, then their items,
\* then the counts, of guides that hold all of those shown.
PageAnswers ==
  Paging =>
    /\ ~Unknown(request.metadata)
    /\ request.phase = "listed" => \A i \in DOMAIN request.found :
         request.found[i] \in DOMAIN documents /\ Matches(request.found[i], request.metadata)
    /\ request.phase \in {"summarised", "answered"} => \A i \in DOMAIN request.items : Summarised(request.items[i])
    /\ request.phase = "answered" =>
         /\ request.seen \subseteq DOMAIN documents
         /\ request.counts = OptionCounts(request.metadata, request.seen)
         /\ \A i \in DOMAIN request.items : request.items[i].guide \in request.seen

Owning == request.phase \notin {"idle", "refused"} /\ request.list # "all"

\* What the queries of a user's list have found, in whichever order the items and
\* the counts are: of the list as given, or for pins of what there is of it.
OwnAnswers ==
  Owning =>
    /\ request.phase \in {"asked", "placed", "matched", "listed", "summarised", "answered"}
    /\ ~Unknown(request.metadata)
    /\ request.given \in Seq(Guides \cup Gone)
    /\ \A i, j \in DOMAIN request.given : request.given[i] = request.given[j] => i = j
    /\ Range(request.given) \subseteq DOMAIN documents \cup Gone
    /\ request.live = IF request.list = "pinned" /\ request.phase # "asked"
                         THEN Only(request.given, Range(request.given) \ Gone) ELSE request.given
    /\ request.phase \in {"matched", "listed"} =>
         /\ request.found \subseteq DOMAIN documents
         /\ \A g \in request.found : Matches(g, request.metadata)
    /\ request.phase \in {"summarised", "answered"} =>
         \A n \in DOMAIN request.items :
           /\ Summarised(request.items[n])
           /\ \E p \in DOMAIN request.live : /\ request.items[n].guide = request.live[p]
                                           /\ request.items[n].position = p
    /\ request.phase = "asked" => ~request.counted
    /\ request.phase = "answered" => request.counted
    /\ request.counted =>
         /\ request.seen \subseteq DOMAIN documents /\ Range(request.given) \subseteq request.seen \cup Gone
         /\ request.counts = OptionCounts(request.metadata, request.seen \cap Range(request.live))

-----------------------------------------------------------------------------
\* A recorded guide's version is its newest, and says when it last changed.
LEMMA UpdatedWith ==
  ASSUME Records, NEW v \in versions
  PROVE  NewestOf(v.document) = {v} /\ UpdatedAt(v.document) = v.createdAt
<1>1. v.createdAt \in Nat
  BY DEF Records
<1>2. NewestOf(v.document) = {v}
  BY <1>1 DEF Records, NewestOf
<1>3. NewestOf(v.document) # {} /\ (CHOOSE w \in NewestOf(v.document) : TRUE) = v
  BY <1>2
<1> QED BY <1>2, <1>3 DEF UpdatedAt

\* Every guide with a version is dated by it.
Versioned ==
  \A v \in versions : UpdatedAt(v.document) = v.createdAt /\ NewestOf(v.document) = {v}

\* The same of all versions at once.
LEMMA UpdatedWithAll == Records => Versioned
BY UpdatedWith DEF Versioned

\* When a guide last changed, and the guide itself, are numbers to be ordered by.
LEMMA UpdatedNat ==
  ASSUME Records, NEW g \in DOMAIN documents
  PROVE  UpdatedAt(g) \in Nat /\ g \in Nat \ {0}
<1>1. PICK v \in versions : v.document = g
  BY DEF Records
<1>2. UpdatedAt(g) = v.createdAt
  BY <1>1, UpdatedWith
<1> QED BY <1>2 DEF Records

\* The order of recorded guides is strict and total.
LEMMA PastOrders ==
  ASSUME Records, NEW newest \in BOOLEAN, NEW g \in DOMAIN documents,
         NEW h \in DOMAIN documents, NEW k \in DOMAIN documents
  PROVE  /\ ~(Past(g, h, newest) /\ Past(h, g, newest))
         /\ g # h => Past(g, h, newest) \/ Past(h, g, newest)
         /\ Past(g, h, newest) /\ Past(h, k, newest) => Past(g, k, newest)
<1>1. /\ UpdatedAt(g) \in Nat /\ UpdatedAt(h) \in Nat /\ UpdatedAt(k) \in Nat
      /\ g \in Nat /\ h \in Nat /\ k \in Nat
  BY UpdatedNat
<1>2. CASE newest
  BY <1>1, <1>2 DEF Past, Beyond
<1>3. CASE ~newest
  BY <1>1, <1>3 DEF Past, Beyond
<1> QED BY <1>2, <1>3

\* Some guides have a last one.
LEMMA LastOfThem ==
  ASSUME Records, NEW newest \in BOOLEAN, NEW some \in SUBSET DOMAIN documents, some # {}
  PROVE  \E last \in some : \A g \in some \ {last} : Past(last, g, newest)
<1> DEFINE HasLast(of) == \E last \in of : \A g \in of \ {last} : Past(last, g, newest)
           N == Cardinality(some)
           good == {n \in 0..N : \A of \in SUBSET some :
                      of # {} /\ Cardinality(of) = n => HasLast(of)}
<1>0. IsFiniteSet(some) /\ N \in Nat
  BY FS_Subset, FS_CardinalityType DEF Records
<1>1. 0 \in good
  <2>1. \A of \in SUBSET some : Cardinality(of) = 0 => of = {}
    BY <1>0, FS_Subset, FS_EmptySet
  <2> QED BY <2>1, <1>0
<1>2. ASSUME NEW n \in 1..N, n - 1 \in good PROVE n \in good
  <2> SUFFICES ASSUME NEW of \in SUBSET some, of # {}, Cardinality(of) = n PROVE HasLast(of)
    BY <1>0
  <2>1. PICK g \in of : TRUE
    OBVIOUS
  <2> DEFINE rest == of \ {g}
  <2>2. IsFiniteSet(of)
    BY <1>0, FS_Subset
  <2>3. Cardinality(rest) = n - 1
    BY <1>0, <2>2, FS_RemoveElement
  <2>4. CASE rest = {}
    <3>1. \A h \in of \ {g} : Past(g, h, newest)
      BY <2>4
    <3> QED BY <3>1
  <2>5. CASE rest # {}
    <3>1. PICK last \in rest : \A h \in rest \ {last} : Past(last, h, newest)
      <4>1. rest \in SUBSET some
        OBVIOUS
      <4> QED BY <1>2, <2>3, <2>5, <4>1
    <3>2. last \in DOMAIN documents /\ g \in DOMAIN documents /\ last # g
      OBVIOUS
    <3>3. CASE Past(last, g, newest)
      <4>1. \A h \in of \ {last} : Past(last, h, newest)
        BY <3>1, <3>3
      <4> QED BY <4>1
    <3>4. CASE ~Past(last, g, newest)
      <4>1. Past(g, last, newest)
        BY <3>2, <3>4, PastOrders
      <4>2. ASSUME NEW h \in of \ {g} PROVE Past(g, h, newest)
        <5>1. h = last \/ Past(last, h, newest)
          BY <3>1
        <5>2. h \in DOMAIN documents
          OBVIOUS
        <5> QED BY <3>2, <4>1, <5>1, <5>2, PastOrders
      <4> QED BY <4>2
    <3> QED BY <3>3, <3>4
  <2> QED BY <2>4, <2>5
<1>3. N \in good
  <2> HIDE DEF good, N
  <2>1. 0..N \subseteq good
    BY <1>0, <1>1, <1>2, StepByStep
  <2> QED BY <1>0, <2>1
<1> QED BY <1>3

\* A sequence of guides each once, in order.
Sorts(ordered, some, newest) ==
  /\ ordered \in [1..Cardinality(some) -> some]
  /\ \A g \in some : \E i \in DOMAIN ordered : ordered[i] = g
  /\ \A i, j \in DOMAIN ordered : i < j =>
       ordered[i] # ordered[j] /\ Past(ordered[j], ordered[i], newest)

\* Recorded guides can be put in order: those but the last, then the last.
LEMMA SortExists ==
  ASSUME Records, NEW newest \in BOOLEAN, NEW some \in SUBSET DOMAIN documents
  PROVE  \E ordered : Sorts(ordered, some, newest)
<1> DEFINE N == Cardinality(some)
           good == {n \in 0..N : \A of \in SUBSET some :
                      Cardinality(of) = n => \E ordered : Sorts(ordered, of, newest)}
<1>0. IsFiniteSet(some) /\ N \in Nat
  BY FS_Subset, FS_CardinalityType DEF Records
<1>1. 0 \in good
  <2> SUFFICES ASSUME NEW of \in SUBSET some, Cardinality(of) = 0
               PROVE  \E ordered : Sorts(ordered, of, newest)
    BY <1>0
  <2>1. of = {}
    BY <1>0, FS_Subset, FS_EmptySet
  <2>2. Sorts([i \in 1..0 |-> 0], of, newest)
    BY <2>1 DEF Sorts
  <2> QED BY <2>2
<1>2. ASSUME NEW n \in 1..N, n - 1 \in good PROVE n \in good
  <2> SUFFICES ASSUME NEW of \in SUBSET some, Cardinality(of) = n
               PROVE  \E ordered : Sorts(ordered, of, newest)
    BY <1>0
  <2>1. IsFiniteSet(of) /\ of # {}
    BY <1>0, FS_Subset, FS_EmptySet
  <2>2. PICK last \in of : \A g \in of \ {last} : Past(last, g, newest)
    BY <2>1, LastOfThem
  <2> DEFINE rest == of \ {last}
  <2>3. Cardinality(rest) = n - 1
    BY <1>0, <2>1, FS_RemoveElement
  <2>4. PICK ordered : Sorts(ordered, rest, newest)
    <3>1. rest \in SUBSET some
      OBVIOUS
    <3> QED BY <1>2, <2>3, <3>1
  <2>5. /\ ordered \in [1..(n - 1) -> rest]
        /\ \A g \in rest : \E i \in 1..(n - 1) : ordered[i] = g
        /\ \A i, j \in 1..(n - 1) : i < j =>
             ordered[i] # ordered[j] /\ Past(ordered[j], ordered[i], newest)
    BY <2>3, <2>4 DEF Sorts
  <2> DEFINE longer == [i \in 1..n |-> IF i = n THEN last ELSE ordered[i]]
  <2>6. longer \in [1..Cardinality(of) -> of]
    BY <2>5
  <2>7. \A g \in of : \E i \in DOMAIN longer : longer[i] = g
    <3> SUFFICES ASSUME NEW g \in of PROVE \E i \in 1..n : longer[i] = g
      OBVIOUS
    <3>1. CASE g = last
      BY <3>1
    <3>2. CASE g # last
      <4>1. PICK i \in 1..(n - 1) : ordered[i] = g
        BY <2>5, <3>2
      <4>2. i \in 1..n /\ longer[i] = g
        BY <4>1
      <4> QED BY <4>2
    <3> QED BY <3>1, <3>2
  <2>8. ASSUME NEW i \in DOMAIN longer, NEW j \in DOMAIN longer, i < j
        PROVE  longer[i] # longer[j] /\ Past(longer[j], longer[i], newest)
    <3>1. i \in 1..(n - 1) /\ longer[i] = ordered[i] /\ ordered[i] \in rest
      BY <2>5, <2>8
    <3>2. CASE j = n
      BY <2>2, <3>1, <3>2
    <3>3. CASE j # n
      <4>1. j \in 1..(n - 1) /\ longer[j] = ordered[j]
        BY <3>3
      <4> QED BY <2>5, <2>8, <3>1, <4>1
    <3> QED BY <3>2, <3>3
  <2> HIDE DEF longer
  <2> QED BY <2>6, <2>7, <2>8 DEF Sorts
<1>3. N \in good
  <2> HIDE DEF good, N
  <2>1. 0..N \subseteq good
    BY <1>0, <1>1, <1>2, StepByStep
  <2> QED BY <1>0, <2>1
<1> QED BY <1>3

\* What InOrder makes of some guides.
LEMMA InOrderSorts ==
  ASSUME Records, NEW newest \in BOOLEAN, NEW some \in SUBSET DOMAIN documents
  PROVE  Sorts(InOrder(some, newest), some, newest)
<1> DEFINE N == Cardinality(some)
           InOrderAll(s) == \A i, j \in DOMAIN s : i < j => ~Beyond(s[i], UpdatedAt(s[j]), s[j], newest)
<1>0. N \in Nat
  BY FS_Subset, FS_CardinalityType DEF Records
<1>1. PICK s : Sorts(s, some, newest)
  BY SortExists
<1>2. s \in [1..N -> some]
  BY <1>1 DEF Sorts
<1>3. s \in Bijection(1..N, some)
  <2>1. ASSUME NEW i \in 1..N, NEW j \in 1..N, s[i] = s[j] PROVE i = j
    <3>1. ~(i < j) /\ ~(j < i)
      BY <1>1, <1>2, <2>1 DEF Sorts
    <3> QED BY <1>0, <3>1
  <2>2. \A g \in some : \E i \in 1..N : s[i] = g
    BY <1>1, <1>2 DEF Sorts
  <2> QED BY <1>2, <2>1, <2>2 DEF Bijection, Injection, IsInjective, Surjection
<1>4. InOrderAll(s)
  <2> SUFFICES ASSUME NEW i \in 1..N, NEW j \in 1..N, i < j PROVE ~Past(s[i], s[j], newest)
    BY <1>2 DEF Past
  <2>1. Past(s[j], s[i], newest)
    BY <1>1, <1>2 DEF Sorts
  <2>2. s[i] \in DOMAIN documents /\ s[j] \in DOMAIN documents
    BY <1>2
  <2> QED BY <2>1, <2>2, PastOrders
<1> DEFINE o == InOrder(some, newest)
<1>5. o \in Bijection(1..N, some) /\ InOrderAll(o)
  BY <1>3, <1>4 DEF InOrder
<1> HIDE DEF o
<1>6. /\ o \in [1..N -> some]
      /\ \A g \in some : \E i \in 1..N : o[i] = g
      /\ \A i, j \in 1..N : o[i] = o[j] => i = j
  BY <1>5 DEF Bijection, Injection, IsInjective, Surjection
<1>7. ASSUME NEW i \in 1..N, NEW j \in 1..N, i < j
      PROVE  o[i] # o[j] /\ Past(o[j], o[i], newest)
  <2>1. o[i] # o[j]
    BY <1>0, <1>6, <1>7
  <2>2. ~Past(o[i], o[j], newest)
    BY <1>5, <1>6, <1>7 DEF Past
  <2>3. o[i] \in DOMAIN documents /\ o[j] \in DOMAIN documents
    BY <1>6
  <2> QED BY <2>1, <2>2, <2>3, PastOrders
<1>8. Sorts(o, some, newest)
  BY <1>6, <1>7 DEF Sorts
<1> QED BY <1>8 DEF o

-----------------------------------------------------------------------------
(* Recording                                                               *)

\* Init has recorded nothing.
LEMMA RecordsInit == Init => Records
<1> SUFFICES ASSUME Init PROVE Records
  OBVIOUS
<1>1. DOMAIN documents = {}
  BY DEF Init
<1>2. IsFiniteSet(DOMAIN documents)
  BY <1>1, FS_EmptySet
<1> QED BY <1>1, <1>2 DEF Init, Records

\* What recording keeps: a guide recorded stays so, with the version it has.
LEMMA RecordsStep ==
  ASSUME Records, [Next]_vars
  PROVE  Records' /\ versions \subseteq versions' /\ DOMAIN documents \subseteq DOMAIN documents'
<1>1. CASE UNCHANGED <<clock, now, versions, documents>>
  BY <1>1 DEF Records
<1>2. CASE Tick
  BY <1>2 DEF Records, Tick
<1>3. ASSUME NEW g \in Guides, Attempt(g) PROVE Records' /\ UNCHANGED <<versions, documents>>
  BY <1>3 DEF Records, Attempt
<1>4. ASSUME NEW g \in Guides, CreateVersion(g)
      PROVE  Records' /\ versions \subseteq versions' /\ UNCHANGED documents
  <2>1. /\ versions' = versions \cup {[document |-> g, createdAt |-> now[g]]}
        /\ ~(\E v \in versions : v.document = g)
        /\ UNCHANGED <<clock, now, documents>>
    BY <1>4 DEF CreateVersion
  <2>2. versions' \subseteq [document : Guides, createdAt : Nat]
    BY <2>1 DEF Records
  <2>3. \A v, w \in versions' : v.document = w.document => v = w
    BY <2>1 DEF Records
  <2> QED BY <2>1, <2>2, <2>3 DEF Records
<1>5. ASSUME NEW g \in Guides, Create(g)
      PROVE  Records' /\ UNCHANGED versions /\ DOMAIN documents \subseteq DOMAIN documents'
  <2>1. /\ documents' = [d \in DOMAIN documents \cup {g} |-> IF d = g THEN now[g] ELSE documents[d]]
        /\ \E v \in versions : v.document = g
        /\ UNCHANGED <<clock, now, versions>>
    BY <1>5 DEF Create
  <2>2. IsFiniteSet(DOMAIN documents')
    BY <2>1, FS_AddElement DEF Records
  <2>3. documents' \in [DOMAIN documents' -> Nat]
    <3>1. \A d \in DOMAIN documents : documents[d] \in Nat
      BY DEF Records
    <3>2. now[g] \in Nat
      BY DEF Records
    <3> QED BY <2>1, <3>1, <3>2
  <2>4. DOMAIN documents' = DOMAIN documents \cup {g}
    BY <2>1
  <2>5. \A d \in DOMAIN documents' : \E v \in versions' : v.document = d
    BY <2>1, <2>4 DEF Records
  <2> QED BY <2>1, <2>2, <2>3, <2>4, <2>5 DEF Records
<1> QED
  BY <1>1, <1>2, <1>3, <1>4, <1>5
  DEF Next, vars, Tick, AskPage, ReadCursor, ListDocuments, LatestVersions, CountPage, AskNext, AskOwn,
      ReadExisting, Matching, FindMany, Summaries, CountOwn

\* So the order of recorded guides never changes.
LEMMA OrderStays ==
  ASSUME Records, [Next]_vars
  PROVE  /\ \A g \in DOMAIN documents : UpdatedAt(g)' = UpdatedAt(g)
         /\ \A g, h \in DOMAIN documents, newest \in BOOLEAN :
              Past(h, g, newest)' <=> Past(h, g, newest)
<1>1. Records' /\ versions \subseteq versions'
  BY RecordsStep
<1>2. ASSUME NEW g \in DOMAIN documents PROVE UpdatedAt(g)' = UpdatedAt(g)
  <2>1. PICK v \in versions : v.document = g
    BY DEF Records
  <2>2. UpdatedAt(g) = v.createdAt
    BY <2>1, UpdatedWith
  <2>3. v \in versions'
    BY <1>1, <2>1
  <2>4. Versioned'
    BY <1>1, UpdatedWithAll, PTL
  <2> QED BY <2>1, <2>2, <2>3, <2>4 DEF Versioned
<1> QED BY <1>2 DEF Past, Beyond

-----------------------------------------------------------------------------
(* Reading on                                                              *)

\* What a reader has been told stays so while guides are recorded.
LEMMA ToldStays ==
  ASSUME Records, [Next]_vars, Paging, Paging',
         request.newest \in BOOLEAN, request.before \subseteq DOMAIN documents,
         request'.newest = request.newest, request'.metadata = request.metadata,
         request'.before = request.before
  PROVE  \A list, last : last = 0 \/ last \in DOMAIN documents =>
           (Told(list, last) => Told(list, last)')
<1> SUFFICES ASSUME NEW list, NEW last, last = 0 \/ last \in DOMAIN documents, Told(list, last)
             PROVE  Told(list, last)'
  OBVIOUS
<1>1. DOMAIN documents \subseteq DOMAIN documents'
  BY RecordsStep
<1>2. list \in Seq(DOMAIN documents) /\ list \in Seq(DOMAIN documents')
  <2>1. list \in Seq(DOMAIN documents)
    BY DEF Told
  <2> QED BY <1>1, <2>1
<1>3. \A i \in DOMAIN list : list[i] \in DOMAIN documents
  BY <1>2
<1>4. Ascending(list)'
  BY <1>3, OrderStays DEF Told, Ascending
<1>5. ASSUME NEW g \in request'.before, Matches(g, request'.metadata)
      PROVE  g \in Range(list) \/ (last # 0 /\ Past(g, last, request.newest)')
  <2>1. g \in request.before /\ g \in DOMAIN documents /\ Matches(g, request.metadata)
    BY <1>5
  <2>2. g \in Range(list) \/ (last # 0 /\ Past(g, last, request.newest))
    BY <2>1 DEF Told
  <2>3. last # 0 => (Past(g, last, request.newest)' <=> Past(g, last, request.newest))
    BY <2>1, OrderStays
  <2> QED BY <2>2, <2>3
<1>6. \A i \in DOMAIN list : Matches(list[i], request'.metadata)
  BY DEF Told
<1>7. last # 0 => list # <<>> /\ last = Last(list)
  BY DEF Told
<1> QED BY <1>2, <1>4, <1>5, <1>6, <1>7 DEF Told

\* The last guide told of is one there is.
LEMMA LastToldIs ==
  \A list, last : Told(list, last) => last = 0 \/ last \in DOMAIN documents
<1> SUFFICES ASSUME NEW list, NEW last, Told(list, last), last # 0 PROVE last \in DOMAIN documents
  OBVIOUS
<1>1. list \in Seq(DOMAIN documents) /\ list # <<>> /\ last = Last(list)
  BY DEF Told
<1>2. Len(list) \in DOMAIN list
  BY <1>1
<1> QED BY <1>1, <1>2 DEF Last

\* At first there is no request.
LEMMA ShapeInit == Init => Shape
BY DEF Init, Idle, Shape

\* A request stays of its kind from one query to the next.
LEMMA ShapeStep == Shape /\ [Next]_vars => Shape'
<1> SUFFICES ASSUME Shape, [Next]_vars PROVE Shape'
  OBVIOUS
<1> USE DEF Shape, PageFields, OwnFields
<1>1. CASE UNCHANGED <<request, shown>>
  BY <1>1
<1>2. ASSUME NEW f, NEW n, NEW a, AskPage(f, n, a) PROVE Shape'
  BY <1>2 DEF AskPage
<1>3. CASE ReadCursor
  BY <1>3 DEF ReadCursor
<1>4. CASE ListDocuments
  BY <1>4 DEF ListDocuments
<1>5. CASE LatestVersions
  BY <1>5 DEF LatestVersions
<1>6. CASE CountPage
  BY <1>6 DEF CountPage
<1>7. CASE AskNext
  BY <1>7 DEF AskNext
<1>8. ASSUME NEW l \in {"pinned", "opened"}, NEW g, NEW f, AskOwn(l, g, f) PROVE Shape'
  BY <1>8 DEF AskOwn
<1>9. CASE ReadExisting
  BY <1>9 DEF ReadExisting
<1>10. CASE Matching
  BY <1>10 DEF Matching
<1>11. CASE FindMany
  BY <1>11 DEF FindMany
<1>12. CASE Summaries
  BY <1>12 DEF Summaries
<1>13. CASE CountOwn
  BY <1>13 DEF CountOwn
<1> QED
  BY <1>1, <1>2, <1>3, <1>4, <1>5, <1>6, <1>7, <1>8, <1>9, <1>10, <1>11, <1>12, <1>13
  DEF Next, vars, Tick, Attempt, CreateVersion, Create

\* The guides of a page, and the one after them that says there is another.
LEMMA PageOf ==
  ASSUME NEW some, NEW N \in Nat, NEW ordered \in [1..N -> some],
         NEW found, found = SubSeq(ordered, 1, IF Len(ordered) > Limit THEN Limit + 1 ELSE Len(ordered)),
         NEW page, page = SubSeq(found, 1, IF Len(found) > Limit THEN Limit ELSE Len(found))
  PROVE  /\ page \in Seq(some) /\ DOMAIN page = 1..Len(page)
         /\ Len(page) = IF N > Limit THEN Limit ELSE N
         /\ Len(found) > Limit <=> N > Limit
         /\ \A i \in DOMAIN page : page[i] = ordered[i]
<1>1. ordered \in Seq(some) /\ Len(ordered) = N
  OBVIOUS
<1>2. CASE N > Limit
  <2>1. /\ found \in Seq(some) /\ Len(found) = Limit + 1
        /\ \A i \in 1..(Limit + 1) : found[i] = ordered[i]
    BY <1>1, <1>2
  <2>2. page = SubSeq(found, 1, Limit)
    BY <2>1
  <2>3. /\ page \in Seq(some) /\ Len(page) = Limit
        /\ \A i \in 1..Limit : page[i] = found[i]
    BY <2>1, <2>2
  <2> QED BY <1>2, <2>1, <2>3
<1>3. CASE ~(N > Limit)
  <2>1. /\ found \in Seq(some) /\ Len(found) = N
        /\ \A i \in 1..N : found[i] = ordered[i]
    BY <1>1, <1>3
  <2>2. page = SubSeq(found, 1, N)
    BY <1>3, <2>1
  <2>3. page \in Seq(some) /\ Len(page) = N /\ \A i \in 1..N : page[i] = found[i]
    BY <2>1, <2>2
  <2> QED BY <1>3, <2>1, <2>3
<1> QED BY <1>2, <1>3

\* A page goes on from what has been shown.
LEMMA PageTold ==
  ASSUME Records, Shape, Pages, ListDocuments
  PROVE  /\ Told(shown \o request'.found, request'.next)
         /\ request' = [request EXCEPT !.phase = "listed", !.found = request'.found,
                                       !.next = request'.next]
         /\ \A i \in DOMAIN request'.found :
              request'.found[i] \in DOMAIN documents /\ Matches(request'.found[i], request.metadata)
<1> DEFINE matching == {g \in DOMAIN documents :
                          /\ Matches(g, request.metadata)
                          /\ request.after = 0 \/ Beyond(g, request.at, request.after, request.newest)}
           ordered == InOrder(matching, request.newest)
           found == SubSeq(ordered, 1, IF Len(ordered) > Limit THEN Limit + 1 ELSE Len(ordered))
           page == SubSeq(found, 1, IF Len(found) > Limit THEN Limit ELSE Len(found))
           next == IF Len(found) > Limit THEN Last(page) ELSE 0
           N == Cardinality(matching)
<1>1. /\ request.phase = "placed" /\ request.list = "all"
      /\ request' = [request EXCEPT !.phase = "listed", !.found = page, !.next = next]
      /\ Paging
  BY DEF ListDocuments, Paging
<1>2. request'.found = page /\ request'.next = next
  BY <1>1 DEF Shape, PageFields
<1>3. /\ request.newest \in BOOLEAN /\ request.before \subseteq DOMAIN documents
      /\ \/ request.after = 0 /\ shown = <<>>
         \/ request.after \in DOMAIN documents /\ Told(shown, request.after)
      /\ request.after # 0 => request.at = UpdatedAt(request.after)
  BY <1>1 DEF Pages
<1>4. matching = {g \in DOMAIN documents :
                    /\ Matches(g, request.metadata)
                    /\ request.after = 0 \/ Past(g, request.after, request.newest)}
  BY <1>3 DEF Past
<1>5. Sorts(ordered, matching, request.newest)
  BY <1>3, InOrderSorts
<1>6. N \in Nat /\ ordered \in [1..N -> matching]
  <2>1. IsFiniteSet(matching)
    BY FS_Subset DEF Records
  <2> QED BY <1>5, <2>1, FS_CardinalityType DEF Sorts
<1>7. /\ \A g \in matching : \E i \in 1..N : ordered[i] = g
      /\ \A i, j \in 1..N : i < j =>
           ordered[i] # ordered[j] /\ Past(ordered[j], ordered[i], request.newest)
  BY <1>5, <1>6 DEF Sorts
<1> HIDE DEF matching, ordered, N
<1>8. /\ page \in Seq(matching) /\ DOMAIN page = 1..Len(page)
      /\ Len(page) = IF N > Limit THEN Limit ELSE N
      /\ Len(found) > Limit <=> N > Limit
      /\ \A i \in DOMAIN page : page[i] = ordered[i]
  BY <1>6, PageOf
<1>9. next = IF N > Limit THEN ordered[Limit] ELSE 0
  BY <1>8 DEF Last
<1> HIDE DEF found, page, next
<1>10. matching \subseteq DOMAIN documents
  BY <1>4
<1>11. shown \in Seq(DOMAIN documents) /\ page \in Seq(DOMAIN documents)
  <2>1. <<>> \in Seq(DOMAIN documents)
    OBVIOUS
  <2>2. shown \in Seq(DOMAIN documents)
    BY <1>3, <2>1 DEF Told
  <2>3. page \in Seq(DOMAIN documents)
    BY <1>8, <1>10
  <2> QED BY <2>2, <2>3
<1> DEFINE list == shown \o page
<1>12. /\ list \in Seq(DOMAIN documents) /\ Len(list) = Len(shown) + Len(page)
       /\ \A i \in 1..Len(list) : list[i] = IF i <= Len(shown) THEN shown[i] ELSE page[i - Len(shown)]
  BY <1>11
<1> HIDE DEF list
<1>13. ASSUME NEW i \in 1..Len(list), i > Len(shown)
       PROVE  /\ i - Len(shown) \in 1..N /\ i - Len(shown) \in DOMAIN page
              /\ list[i] = ordered[i - Len(shown)] /\ list[i] \in matching
  <2>1. PICK k : k = i - Len(shown)
    OBVIOUS
  <2>2. Len(shown) \in Nat /\ Len(page) \in Nat
    BY <1>11
  <2>3. k \in 1..Len(page) /\ list[i] = page[k]
    BY <1>12, <1>13, <2>1, <2>2
  <2>4. Len(page) <= N
    BY <1>6, <1>8
  <2>5. k \in 1..N /\ k \in DOMAIN page
    BY <1>6, <1>8, <2>2, <2>3, <2>4
  <2>6. list[i] = ordered[k] /\ ordered[k] \in matching
    BY <1>6, <1>8, <2>3, <2>5
  <2> QED BY <2>1, <2>5, <2>6
<1>14. Ascending(list)
  <2> SUFFICES ASSUME NEW i \in 1..Len(list), NEW j \in 1..Len(list), i < j
               PROVE  list[i] # list[j] /\ Past(list[j], list[i], request.newest)
    BY <1>12 DEF Ascending
  <2>1. CASE i > Len(shown)
    <3>1. i - Len(shown) < j - Len(shown) /\ j > Len(shown)
      BY <1>11, <2>1
    <3> QED BY <1>7, <1>13, <2>1, <3>1
  <2>2. CASE ~(j > Len(shown))
    <3>1. i \in DOMAIN shown /\ j \in DOMAIN shown /\ list[i] = shown[i] /\ list[j] = shown[j]
      BY <1>11, <1>12, <2>2
    <3>2. Ascending(shown)
      BY <1>3, <3>1 DEF Told
    <3> QED BY <3>1, <3>2 DEF Ascending
  <2>3. CASE ~(i > Len(shown)) /\ j > Len(shown)
    <3>1. i \in DOMAIN shown /\ list[i] = shown[i] /\ shown # <<>>
      BY <1>11, <1>12, <2>3
    <3>2. /\ request.after \in DOMAIN documents /\ request.after = shown[Len(shown)]
          /\ Len(shown) \in DOMAIN shown /\ Ascending(shown)
      <4>1. request.after \in DOMAIN documents /\ Told(shown, request.after)
        BY <1>3, <3>1
      <4>2. request.after # 0
        BY <4>1, UpdatedNat
      <4>3. request.after = Last(shown) /\ Ascending(shown)
        BY <4>1, <4>2 DEF Told
      <4>4. Len(shown) \in DOMAIN shown
        BY <1>11, <3>1
      <4> QED BY <4>1, <4>3, <4>4 DEF Last
    <3>3. request.after # 0
      BY <3>2, UpdatedNat
    <3>4. list[j] \in DOMAIN documents /\ Past(list[j], request.after, request.newest)
      BY <1>4, <1>13, <2>3, <3>3
    <3>5. list[i] \in DOMAIN documents
      BY <1>12
    <3>6. list[i] = request.after \/ Past(request.after, list[i], request.newest)
      <4>1. i = Len(shown) \/ i < Len(shown)
        BY <1>11, <2>3
      <4> QED BY <3>1, <3>2, <4>1 DEF Ascending
    <3>7. Past(list[j], list[i], request.newest)
      BY <1>3, <3>2, <3>4, <3>5, <3>6, PastOrders
    <3>8. list[i] # list[j]
      BY <1>3, <3>4, <3>5, <3>7, PastOrders
    <3> QED BY <3>7, <3>8
  <2> QED BY <2>1, <2>2, <2>3
<1>15. \A i \in 1..Len(list) : Matches(list[i], request.metadata)
  <2> SUFFICES ASSUME NEW i \in 1..Len(list) PROVE Matches(list[i], request.metadata)
    OBVIOUS
  <2>1. CASE i > Len(shown)
    BY <1>4, <1>13, <2>1
  <2>2. CASE ~(i > Len(shown))
    <3>1. i \in DOMAIN shown /\ list[i] = shown[i] /\ shown # <<>>
      BY <1>11, <1>12, <2>2
    <3> QED BY <1>3, <3>1 DEF Told
  <2> QED BY <2>1, <2>2
<1>16. next # 0 => list # <<>> /\ next = Last(list)
  <2> SUFFICES ASSUME next # 0 PROVE list # <<>> /\ next = Last(list)
    OBVIOUS
  <2>1. N > Limit /\ next = ordered[Limit] /\ Len(page) = Limit
    BY <1>8, <1>9
  <2>2. /\ Len(list) \in 1..Len(list) /\ Len(list) > Len(shown)
        /\ Len(list) - Len(shown) = Limit
    BY <1>11, <1>12, <2>1
  <2> QED BY <1>13, <2>1, <2>2 DEF Last
<1>17. ASSUME NEW g \in request.before, Matches(g, request.metadata)
       PROVE  g \in Range(list) \/ (next # 0 /\ Past(g, next, request.newest))
  <2>0. g \in DOMAIN documents /\ DOMAIN list = 1..Len(list)
    BY <1>3, <1>12
  <2>1. CASE g \in matching
    <3>1. PICK k \in 1..N : ordered[k] = g
      BY <1>7, <2>1
    <3>2. CASE k <= Len(page)
      <4>1. PICK i : i = Len(shown) + k
        OBVIOUS
      <4>2. i \in 1..Len(list) /\ list[i] = page[k] /\ k \in DOMAIN page
        <5>1. Len(shown) \in Nat /\ Len(page) \in Nat /\ k \in Nat \ {0} /\ i - Len(shown) = k
          BY <1>11, <4>1
        <5>2. k \in DOMAIN page /\ i \in 1..Len(list) /\ i > Len(shown)
          BY <1>8, <1>12, <3>2, <4>1, <5>1
        <5>3. list[i] = page[i - Len(shown)]
          BY <1>12, <5>1, <5>2
        <5> QED BY <5>1, <5>2, <5>3
      <4>3. list[i] = g
        BY <1>8, <3>1, <4>2
      <4> QED BY <2>0, <4>2, <4>3 DEF Range
    <3>3. CASE ~(k <= Len(page))
      <4>1. N > Limit /\ next = ordered[Limit] /\ Limit \in 1..N /\ Limit < k
        BY <1>6, <1>8, <1>9, <3>3
      <4>2. Past(g, next, request.newest)
        BY <1>7, <3>1, <4>1
      <4>3. next \in DOMAIN documents
        BY <1>6, <1>10, <4>1
      <4> QED BY <4>2, <4>3, UpdatedNat
    <3> QED BY <3>2, <3>3
  <2>2. CASE g \notin matching
    <3>1. request.after # 0 /\ ~Past(g, request.after, request.newest)
      BY <1>4, <1>17, <2>0, <2>2
    <3>2. Told(shown, request.after)
      BY <1>3, <3>1
    <3>3. g \in Range(shown)
      BY <1>17, <3>1, <3>2 DEF Told
    <3>4. PICK i \in DOMAIN shown : shown[i] = g
      BY <3>3 DEF Range
    <3>5. i \in 1..Len(list) /\ list[i] = g
      BY <1>11, <1>12, <3>4
    <3> QED BY <2>0, <3>5 DEF Range
  <2> QED BY <2>1, <2>2
<1>18. DOMAIN list = 1..Len(list)
  BY <1>12
<1>19. Told(list, next)
  BY <1>12, <1>14, <1>15, <1>16, <1>17, <1>18 DEF Told
<1>20. \A i \in DOMAIN page : page[i] \in DOMAIN documents /\ Matches(page[i], request.metadata)
  BY <1>4, <1>8
<1> QED BY <1>1, <1>2, <1>19, <1>20 DEF list

\* Nothing is being read at first.
LEMMA PagesInit == Init => Pages
BY DEF Init, Idle, Pages, Paging

\* Recording a guide disturbs no page.
LEMMA PagesKept ==
  ASSUME IInv, [Next]_vars, UNCHANGED <<request, shown>> PROVE Pages'
<1>0. Records /\ Shape /\ Pages
  BY DEF IInv
<1> SUFFICES ASSUME Paging' PROVE Pages'
  BY DEF Pages
<1>1. Paging
  BY DEF Paging
<1>2. DOMAIN documents \subseteq DOMAIN documents'
  BY <1>0, RecordsStep
<1>3. \A g \in DOMAIN documents : UpdatedAt(g)' = UpdatedAt(g)
  BY <1>0, OrderStays
<1>4. \A list, last : Told(list, last) => Told(list, last)'
  BY <1>0, <1>1, ToldStays, LastToldIs DEF Pages
<1>5. /\ request.newest \in BOOLEAN /\ request.before \subseteq DOMAIN documents
      /\ request.phase \in {"asked", "placed", "listed", "summarised", "answered"}
  BY <1>0, <1>1 DEF Pages
<1>6. request.phase \in {"asked", "placed"} =>
         \/ request.after = 0 /\ shown = <<>>
         \/ request.after \in Gone /\ request.phase = "asked" /\ shown = <<>>
         \/ request.after \in DOMAIN documents /\ Told(shown, request.after)
  BY <1>0, <1>1 DEF Pages
<1>7. (request.phase \in {"asked", "placed"} =>
         \/ request.after = 0 /\ shown = <<>>
         \/ request.after \in Gone /\ request.phase = "asked" /\ shown = <<>>
         \/ request.after \in DOMAIN documents /\ Told(shown, request.after))'
  BY <1>2, <1>4, <1>6
<1>8. (request.phase = "placed" /\ request.after # 0 => request.at = UpdatedAt(request.after))'
  <2> SUFFICES ASSUME request.phase = "placed", request.after # 0
               PROVE  request.at = UpdatedAt(request.after)'
    OBVIOUS
  <2>1. request.after \in DOMAIN documents
    BY <1>6
  <2>2. request.at = UpdatedAt(request.after)
    BY <1>0, <1>1 DEF Pages
  <2> QED BY <1>3, <2>1, <2>2
<1>9. /\ request.phase \in {"listed", "summarised"} => Told(shown \o request.found, request.next)
      /\ request.phase = "answered" => Told(shown, request.next)
  BY <1>0, <1>1 DEF Pages
<1>10. (/\ request.phase \in {"listed", "summarised"} => Told(shown \o request.found, request.next)
        /\ request.phase = "answered" => Told(shown, request.next))'
  BY <1>4, <1>9
<1> QED BY <1>2, <1>5, <1>7, <1>8, <1>10 DEF Pages

\* The first page: nothing has been shown yet.
LEMMA PagesAsk ==
  ASSUME IInv, [Next]_vars, NEW filters, NEW newest \in BOOLEAN, NEW after \in {0} \cup Gone,
         AskPage(filters, newest, after)
  PROVE  Pages'
<1>1. shown = <<>> /\ UNCHANGED <<shown, documents>>
  BY DEF IInv, Shape, AskPage
<1>2. CASE Unknown(filters)
  BY <1>2 DEF AskPage, Pages, Paging
<1>3. CASE ~Unknown(filters)
  <2>1. /\ request'.phase = "asked" /\ request'.newest = newest /\ request'.after = after
        /\ request'.before = DOMAIN documents
    BY <1>3 DEF AskPage
  <2> QED BY <1>1, <2>1 DEF Pages
<1> QED BY <1>2, <1>3

\* The cursor is a guide shown last, or one there is not.
LEMMA PagesCursor == ASSUME IInv, [Next]_vars, ReadCursor PROVE Pages'
<1>0. Records /\ Shape /\ Pages
  BY DEF IInv
<1>1. /\ request.phase = "asked" /\ request.list = "all" /\ Paging
      /\ UNCHANGED <<clock, now, versions, documents, shown>>
  BY DEF ReadCursor, Paging
<1>2. /\ request.newest \in BOOLEAN /\ request.before \subseteq DOMAIN documents
      /\ \/ request.after = 0 /\ shown = <<>>
         \/ request.after \in Gone /\ shown = <<>>
         \/ request.after \in DOMAIN documents /\ Told(shown, request.after)
  BY <1>0, <1>1 DEF Pages
<1>3. CASE request.after # 0 /\ request.after \notin DOMAIN documents
  BY <1>1, <1>3 DEF ReadCursor, Pages, Paging
<1>4. CASE request.after = 0 \/ request.after \in DOMAIN documents
  <2>1. /\ request'.phase = "placed" /\ request'.list = "all" /\ request'.newest = request.newest
        /\ request'.after = request.after /\ request'.before = request.before
        /\ request'.metadata = request.metadata
        /\ request.after # 0 => request'.at = UpdatedAt(request.after)
    <3>1. DOMAIN request = PageFields
      BY <1>0, <1>1 DEF Shape
    <3> QED BY <1>1, <1>4, <3>1 DEF ReadCursor, PageFields
  <2>2. Paging'
    BY <2>1 DEF Paging
  <2>3. request.after \in DOMAIN documents => request.after # 0 /\ UpdatedAt(request.after)' = UpdatedAt(request.after)
    BY <1>0, <2>1, OrderStays, UpdatedNat
  <2>4. Told(shown, request.after) => Told(shown, request.after)'
    BY <1>0, <1>1, <1>2, <2>1, <2>2, ToldStays, LastToldIs
  <2>5. \/ request.after = 0 /\ shown = <<>>
        \/ request.after \in DOMAIN documents /\ Told(shown, request.after)
    BY <1>0, <1>2, <1>4, <2>3 DEF Records
  <2> QED BY <1>1, <1>2, <2>1, <2>3, <2>4, <2>5 DEF Pages
<1> QED BY <1>3, <1>4

\* A page listed.
LEMMA PagesList == ASSUME IInv, [Next]_vars, ListDocuments PROVE Pages'
<1>0. Records /\ Shape /\ Pages
  BY DEF IInv
<1>1. /\ request.phase = "placed" /\ request.list = "all" /\ Paging
      /\ UNCHANGED <<clock, now, versions, documents, shown>>
  BY DEF ListDocuments, Paging
<1>2. /\ request.newest \in BOOLEAN /\ request.before \subseteq DOMAIN documents
  BY <1>0, <1>1 DEF Pages
<1>3. Told(shown \o request'.found, request'.next)
  BY <1>0, PageTold
<1>4. request' = [request EXCEPT !.phase = "listed", !.found = request'.found, !.next = request'.next]
  BY <1>0, PageTold
<1>5. /\ request'.phase = "listed" /\ request'.list = "all" /\ request'.newest = request.newest
      /\ request'.before = request.before /\ request'.metadata = request.metadata
  <2>1. DOMAIN request = PageFields
    BY <1>0, <1>1 DEF Shape
  <2> QED BY <1>1, <1>4, <2>1 DEF PageFields
<1>6. Paging'
  BY <1>5 DEF Paging
<1>7. \A list, last : Told(list, last) => Told(list, last)'
  BY <1>0, <1>1, <1>2, <1>5, <1>6, ToldStays, LastToldIs
<1>8. Told(shown \o request.found, request.next)'
  BY <1>1, <1>3, <1>7
<1> QED BY <1>1, <1>2, <1>5, <1>8 DEF Pages

\* Its versions and its counts, read after it, change nothing of it.
LEMMA PagesAnswer == ASSUME IInv, [Next]_vars, LatestVersions \/ CountPage PROVE Pages'
<1>0. Records /\ Shape /\ Pages
  BY DEF IInv
<1>1. /\ request.phase \in {"listed", "summarised"} /\ request.list = "all" /\ Paging
      /\ UNCHANGED <<clock, now, versions, documents>>
  BY DEF LatestVersions, CountPage, Paging
<1>2. /\ request.newest \in BOOLEAN /\ request.before \subseteq DOMAIN documents
      /\ Told(shown \o request.found, request.next)
  BY <1>0, <1>1 DEF Pages
<1>3. DOMAIN request = PageFields
  BY <1>0, <1>1 DEF Shape
<1>4. /\ request'.list = "all" /\ request'.newest = request.newest
      /\ request'.before = request.before /\ request'.metadata = request.metadata
      /\ request'.found = request.found /\ request'.next = request.next
  BY <1>1, <1>3 DEF PageFields, LatestVersions, CountPage
<1>5. \/ request'.phase = "summarised" /\ UNCHANGED shown
      \/ request'.phase = "answered" /\ shown' = shown \o request.found
  BY <1>1, <1>3 DEF PageFields, LatestVersions, CountPage
<1>6. Paging'
  BY <1>4, <1>5 DEF Paging
<1>7. \A list, last : Told(list, last) => Told(list, last)'
  BY <1>0, <1>1, <1>2, <1>4, <1>6, ToldStays, LastToldIs
<1>8. CASE request'.phase = "summarised" /\ UNCHANGED shown
  <2>1. Told(shown \o request.found, request.next)'
    BY <1>2, <1>4, <1>7, <1>8
  <2> QED BY <1>1, <1>2, <1>4, <1>8, <2>1 DEF Pages
<1>9. CASE request'.phase = "answered" /\ shown' = shown \o request.found
  <2>1. Told(shown, request.next)'
    BY <1>2, <1>4, <1>7, <1>9
  <2> QED BY <1>1, <1>2, <1>4, <1>9, <2>1 DEF Pages
<1> QED BY <1>5, <1>8, <1>9

\* The reader goes on from the last guide shown.
LEMMA PagesNext == ASSUME IInv, [Next]_vars, AskNext PROVE Pages'
<1>0. Records /\ Shape /\ Pages
  BY DEF IInv
<1>1. /\ request.phase = "answered" /\ request.list = "all" /\ Paging /\ request.next # 0
      /\ UNCHANGED <<clock, now, versions, documents, shown>>
  BY DEF AskNext, Paging
<1>2. /\ request.newest \in BOOLEAN /\ request.before \subseteq DOMAIN documents
      /\ Told(shown, request.next)
  BY <1>0, <1>1 DEF Pages
<1>3. DOMAIN request = PageFields
  BY <1>0, <1>1 DEF Shape
<1>4. /\ request'.list = "all" /\ request'.newest = request.newest
      /\ request'.before = request.before /\ request'.metadata = request.metadata
      /\ request'.phase = "asked" /\ request'.after = request.next
  BY <1>1, <1>3 DEF PageFields, AskNext
<1>5. Paging'
  BY <1>4 DEF Paging
<1>6. Told(shown, request.next) => Told(shown, request.after)'
  BY <1>0, <1>1, <1>2, <1>4, <1>5, ToldStays, LastToldIs
<1>7. request'.after \in DOMAIN documents'
  BY <1>1, <1>2, <1>4, LastToldIs
<1> QED BY <1>1, <1>2, <1>4, <1>6, <1>7 DEF Pages

\* A step of a user's own list is of no page.
LEMMA OwnStays ==
  ASSUME IInv,
         \/ \E list \in {"pinned", "opened"}, guides \in OwnLists, given \in Filters, noScheme \in BOOLEAN :
              AskOwn(list, guides, ChosenFilters(given, noScheme))
         \/ ReadExisting \/ Matching \/ FindMany \/ Summaries \/ CountOwn
  PROVE  ~Paging'
<1>0. Shape
  BY DEF IInv
<1>1. CASE \E list \in {"pinned", "opened"}, guides \in OwnLists, given \in Filters, noScheme \in BOOLEAN :
             AskOwn(list, guides, ChosenFilters(given, noScheme))
  BY <1>1 DEF AskOwn, Paging
<1>2. CASE ReadExisting \/ Matching \/ Summaries \/ CountOwn
  <2>1. request'.list = request.list /\ request.list # "all"
    BY <1>0, <1>2 DEF ReadExisting, Matching, Summaries, CountOwn, Shape, OwnFields
  <2> QED BY <2>1 DEF Paging
<1>3. CASE FindMany
  <2>1. request.list # "all"
    BY <1>3, <1>0 DEF FindMany, IInv, Pages, Paging
  <2>2. request'.list = request.list
    BY <1>0, <1>3, <2>1 DEF FindMany, Shape, OwnFields
  <2> QED BY <2>1, <2>2 DEF Paging
<1> QED BY <1>1, <1>2, <1>3

\* Every step keeps what the reader has been told.
LEMMA PagesStep == ASSUME IInv, [Next]_vars PROVE Pages'
<1>1. CASE UNCHANGED <<request, shown>>
  BY <1>1, PagesKept
<1>2. CASE \E given \in Filters, noScheme, newest \in BOOLEAN, after \in {0} \cup Gone :
             AskPage(ChosenFilters(given, noScheme), newest, after)
  BY <1>2, PagesAsk
<1>3. CASE ~Paging'
  BY <1>3 DEF Pages
<1> QED
  BY <1>1, <1>2, <1>3, OwnStays, PagesCursor, PagesList, PagesAnswer, PagesNext
  DEF Next, vars, Tick, Attempt, CreateVersion, Create

\* Records, requests and what was told hold together in every state.
LEMMA Inductive == Spec => []IInv
<1>1. Init => IInv
  BY RecordsInit, ShapeInit, PagesInit DEF IInv
<1>2. IInv /\ [Next]_vars => IInv'
  BY RecordsStep, ShapeStep, PagesStep DEF IInv
<1> QED BY <1>1, <1>2, PTL DEF Spec

\* A reader of one page after another is shown every matching guide there was when
\* they began once and in order, whatever is recorded while they read.
THEOREM ShowsOnce == Spec => []StillGuidesShownOnce
<1>1. IInv => StillGuidesShownOnce
  <2> SUFFICES ASSUME IInv, request.phase = "answered", request.list = "all"
               PROVE  StillGuidesShownOnce
    BY DEF StillGuidesShownOnce
  <2>1. Told(shown, request.next)
    BY DEF IInv, Pages, Paging
  <2>2. \A i, j \in DOMAIN shown :
          i < j => shown[i] # shown[j] /\ Beyond(shown[j], UpdatedAt(shown[i]), shown[i], request.newest)
    BY <2>1 DEF Told, Ascending, Past
  <2>3. ASSUME request.next = 0, NEW g \in request.before
        PROVE  g \in Range(shown) <=> Matches(g, request.metadata)
    <3>1. Matches(g, request.metadata) => g \in Range(shown)
      BY <2>1, <2>3 DEF Told
    <3>2. g \in Range(shown) => Matches(g, request.metadata)
      BY <2>1 DEF Told, Range
    <3> QED BY <3>1, <3>2
  <2> QED BY <2>2, <2>3 DEF StillGuidesShownOnce
<1> QED BY <1>1, Inductive, PTL

-----------------------------------------------------------------------------
(* Counts                                                                  *)

\* The filters with one of them chosen anew.
Anew(metadata, key, values) ==
  [k \in DOMAIN metadata \cup {key} |-> IF k = key THEN values ELSE metadata[k]]

\* The values counted for a detail.
Countable(key) == Range(Words) \cup IF key \in CountingNone THEN {NONE} ELSE {}

\* A guide counts under a value when choosing that value would find it.
LEMMA CountedWhenChosen ==
  ASSUME NEW g, NEW key \in Counted, NEW value \in Countable(key)
  PROVE  value \in CountedUnder(g, key) <=> AnyOf(AsNow(g)[key], {value})
<1> DEFINE held == AsNow(g)[key]
<1> HIDE DEF held
<1>1. held.values = <<>> => Range(held.values) = {}
  <2>1. Range(<<>>) = {}
    BY DEF Range
  <2> QED BY <2>1
<1>2. value \in CountedUnder(g, key) <=>
        value \in IF held.values = <<>> /\ key \in CountingNone THEN {NONE} ELSE Range(held.values)
  BY DEF CountedUnder, Countable, held
<1>3. CASE value # NONE
  <2>1. AnyOf(held, {value}) <=> value \in Range(held.values)
    BY <1>3 DEF AnyOf
  <2> QED BY <1>1, <1>2, <1>3, <2>1 DEF held
<1>4. CASE value = NONE
  <2>1. key \in CountingNone
    BY <1>4 DEF Countable
  <2>2. AnyOf(held, {value}) <=> held.values = <<>> \/ NONE \in Range(held.values)
    BY <1>4 DEF AnyOf
  <2> QED BY <1>2, <1>4, <2>1, <2>2 DEF held
<1> QED BY <1>3, <1>4

\* To match with a filter chosen anew is to match the others and it.
LEMMA AnewMatches ==
  ASSUME NEW g, NEW metadata, NEW key, NEW values
  PROVE  Matches(g, Anew(metadata, key, values)) <=>
           Matches(g, Others(metadata, key)) /\ AnyOf(AsNow(g)[key], values)
<1>1. /\ DOMAIN Others(metadata, key) = DOMAIN metadata \ {key}
      /\ \A k \in DOMAIN metadata \ {key} : Others(metadata, key)[k] = metadata[k]
  BY DEF Others
<1>2. /\ DOMAIN Anew(metadata, key, values) = (DOMAIN metadata \ {key}) \cup {key}
      /\ \A k \in DOMAIN metadata \ {key} : Anew(metadata, key, values)[k] = metadata[k]
      /\ Anew(metadata, key, values)[key] = values
  BY DEF Anew
<1> QED BY <1>1, <1>2 DEF Matches

\* To match all of them is to match the others.
LEMMA OthersMatch ==
  ASSUME NEW g, NEW metadata, NEW key, Matches(g, metadata)
  PROVE  Matches(g, Others(metadata, key))
BY DEF Matches, Others

\* How many of some guides choosing a value would find.
Found(some, metadata, key, value) == {g \in some : Matches(g, Anew(metadata, key, {value}))}

\* What the pass over the guides counts for a value is the guides it would find.
LEMMA CountsOf ==
  ASSUME NEW some, NEW metadata, NEW key \in Counted
  PROVE  LET counted == CountValues(metadata, some)[key]
         IN  \A value \in Countable(key) :
               IF value \in DOMAIN counted
                 THEN counted[value] = Cardinality(Found(some, metadata, key, value))
                 ELSE Found(some, metadata, key, value) = {}
<1> DEFINE among == {g \in some : Matches(g, Others(metadata, key))}
           values == UNION {CountedUnder(g, key) : g \in among}
           counted == CountValues(metadata, some)[key]
<1>1. counted = [v \in values |-> Cardinality({g \in among : v \in CountedUnder(g, key)})]
  BY DEF CountValues
<1> SUFFICES ASSUME NEW value \in Countable(key)
             PROVE  IF value \in DOMAIN counted
                      THEN counted[value] = Cardinality(Found(some, metadata, key, value))
                      ELSE Found(some, metadata, key, value) = {}
  OBVIOUS
<1>2. Found(some, metadata, key, value) = {g \in among : value \in CountedUnder(g, key)}
  BY CountedWhenChosen, AnewMatches DEF Found
<1>3. value \notin values => Found(some, metadata, key, value) = {}
  BY <1>2
<1> HIDE DEF among
<1> QED BY <1>1, <1>2, <1>3

\* A word or none: where options come from.
Labels == STRING \cup {NONE}

\* Options of what was counted or chosen, and one for each label that can be shown.
OptionsOf(options, counted, chosen, reference) ==
  /\ \A i \in DOMAIN options :
       /\ options[i].label \in DOMAIN counted \cup chosen
       /\ options[i].count = IF options[i].label \in DOMAIN counted
                               THEN counted[options[i].label] ELSE 0
  /\ \A value \in (DOMAIN counted \cup chosen) \cap (Range(Words) \cup Range(reference) \cup {NONE}) :
       \E i \in DOMAIN options : options[i].label = value

\* The options made of counts: the reference data's labels, other words, none.
LEMMA OptionsAre ==
  ASSUME NEW counted, NEW chosen, NEW reference \in Seq(STRING)
  PROVE  OptionsOf(CountedOptions(counted, chosen, reference), counted, chosen, reference)
<1> DEFINE labels == DOMAIN counted \cup chosen
           one == Only(reference, labels)
           two == Only(Words, labels \ Range(reference))
           last == <<NONE>>
           three == Only(last, labels)
           ordered == one \o two \o three
           options == CountedOptions(counted, chosen, reference)
<1>0. /\ reference \in Seq(Labels) /\ Words \in Seq(Labels) /\ NONE \in Labels
      /\ Range(<<NONE>>) = {NONE}
  BY DEF Labels, Range
<1>1. one \in Seq(Labels) /\ Range(one) = Range(reference) \cap labels
  <2> HIDE DEF labels
  <2> QED BY <1>0, OnlyKeeps
<1>2. two \in Seq(Labels) /\ Range(two) = Range(Words) \cap (labels \ Range(reference))
  <2> HIDE DEF labels
  <2> QED BY <1>0, OnlyKeeps
<1>3. three \in Seq(Labels) /\ Range(three) = {NONE} \cap labels
  <2>1. last \in Seq(Labels) /\ Range(last) = {NONE}
    BY <1>0
  <2> HIDE DEF labels, last
  <2> QED BY <2>1, OnlyKeeps
<1>4. options = [i \in DOMAIN ordered |->
        [label   |-> ordered[i],
         count   |-> IF ordered[i] \in DOMAIN counted THEN counted[ordered[i]] ELSE 0,
         retired |-> ordered[i] \notin (Range(reference) \cup {NONE})]]
  BY DEF CountedOptions
<1> HIDE DEF one, two, three
<1>5. Range(ordered) = Range(one) \cup Range(two) \cup Range(three)
  <2> DEFINE both == one \o two
  <2>1. both \in Seq(Labels) /\ Range(both) = Range(one) \cup Range(two)
    BY <1>1, <1>2, RangeConcatenation
  <2>2. ordered = both \o three
    OBVIOUS
  <2> HIDE DEF both, ordered
  <2>3. Range(both \o three) = Range(both) \cup Range(three)
    BY <1>3, <2>1, RangeConcatenation
  <2> QED BY <2>1, <2>2, <2>3
<1> HIDE DEF ordered, options
<1>6. ASSUME NEW i \in DOMAIN options
      PROVE  /\ options[i].label \in labels
             /\ options[i].count = IF options[i].label \in DOMAIN counted
                                     THEN counted[options[i].label] ELSE 0
  <2>1. i \in DOMAIN ordered /\ ordered[i] \in Range(ordered)
    BY <1>4 DEF Range
  <2>2. ordered[i] \in labels
    BY <1>1, <1>2, <1>3, <1>5, <2>1
  <2> QED BY <1>4, <2>1, <2>2
<1>7. ASSUME NEW value \in labels \cap (Range(Words) \cup Range(reference) \cup {NONE})
      PROVE  \E i \in DOMAIN options : options[i].label = value
  <2>1. value \in Range(ordered)
    BY <1>1, <1>2, <1>3, <1>5
  <2>2. PICK i \in DOMAIN ordered : ordered[i] = value
    BY <2>1 DEF Range
  <2> QED BY <1>4, <2>2
<1> QED BY <1>6, <1>7 DEF options, OptionsOf

\* The count given with a value is of the guides that choosing it would find, and
\* every value chosen is given.
LEMMA CountsAgree ==
  ASSUME NEW some, NEW metadata, ~Unknown(metadata), NEW key \in Counted
  PROVE  LET options == OptionCounts(metadata, some)[key]
         IN  /\ \A value \in Countable(key) :
                  CountOf(options, value) = Cardinality(Found(some, metadata, key, value))
             /\ key \in DOMAIN metadata =>
                  metadata[key] \subseteq {options[i].label : i \in DOMAIN options}
<1> DEFINE counted == CountValues(metadata, some)[key]
           chosen == IF key \in DOMAIN metadata THEN metadata[key] ELSE {}
           reference == Reference[key]
           labels == DOMAIN counted \cup chosen
           options == CountedOptions(counted, chosen, reference)
<1>1. OptionCounts(metadata, some)[key] = options
  BY DEF OptionCounts
<1>2. reference \in Seq(STRING)
  OBVIOUS
<1>3. /\ \A i \in DOMAIN options :
           /\ options[i].label \in labels
           /\ options[i].count = IF options[i].label \in DOMAIN counted
                                   THEN counted[options[i].label] ELSE 0
      /\ \A value \in labels \cap (Range(Words) \cup Range(reference) \cup {NONE}) :
           \E i \in DOMAIN options : options[i].label = value
  <2> HIDE DEF counted, chosen, reference
  <2>1. OptionsOf(options, counted, chosen, reference)
    BY <1>2, OptionsAre
  <2> QED BY <2>1 DEF OptionsOf
<1>4. \A value \in Countable(key) :
        IF value \in DOMAIN counted
          THEN counted[value] = Cardinality(Found(some, metadata, key, value))
          ELSE Found(some, metadata, key, value) = {}
  BY CountsOf
<1> HIDE DEF counted, options
<1>5. ASSUME NEW value \in Countable(key)
      PROVE  CountOf(options, value) = Cardinality(Found(some, metadata, key, value))
  <2> DEFINE at == {i \in DOMAIN options : options[i].label = value}
  <2>0. CountOf(options, value) = IF at = {} THEN 0 ELSE options[CHOOSE i \in at : TRUE].count
    BY DEF CountOf
  <2>1. CASE at = {}
    <3>1. value \in Range(Words) \cup {NONE}
      BY DEF Countable
    <3>2. value \notin DOMAIN counted
      BY <1>3, <2>1, <3>1
    <3> QED BY <1>4, <2>0, <2>1, <3>2, FS_EmptySet
  <2>2. CASE at # {}
    <3>1. PICK i \in at : CountOf(options, value) = options[i].count
      BY <2>0, <2>2
    <3>2. CASE value \in DOMAIN counted
      BY <1>3, <1>4, <3>1, <3>2
    <3>3. CASE value \notin DOMAIN counted
      <4>1. CountOf(options, value) = 0
        BY <1>3, <3>1, <3>3
      <4> QED BY <1>4, <3>3, <4>1, FS_EmptySet
    <3> QED BY <3>2, <3>3
  <2> QED BY <2>1, <2>2
<1>6. ASSUME key \in DOMAIN metadata, NEW value \in metadata[key]
      PROVE  value \in {options[i].label : i \in DOMAIN options}
  <2>1. value \in Range(reference) \cup {NONE}
    BY <1>6 DEF Unknown
  <2>2. value \in labels
    BY <1>6
  <2> QED BY <1>3, <2>1, <2>2
<1> QED BY <1>1, <1>5, <1>6

-----------------------------------------------------------------------------
(* Answers                                                                 *)

\* An item stays true while guides are recorded.
LEMMA SummarisedStays ==
  ASSUME Records, [Next]_vars, request'.metadata = request.metadata
  PROVE  \A item : Summarised(item) => Summarised(item)'
BY RecordsStep DEF Summarised

\* A guide there is has a version to be shown with.
LEMMA SummaryIs ==
  ASSUME Records, NEW g \in DOMAIN documents PROVE NewestOf(g) # {}
<1>1. PICK v \in versions : v.document = g
  BY DEF Records
<1> QED BY <1>1, UpdatedWith

\* Every step keeps what the queries of a page have found.
LEMMA PageAnswersStep == ASSUME IInv, PageAnswers, [Next]_vars PROVE PageAnswers'
<1>0. Records /\ Shape /\ Pages
  BY DEF IInv
<1>a. Paging => DOMAIN request = PageFields
  BY <1>0 DEF Paging, Shape
<1>b. DOMAIN documents \subseteq DOMAIN documents'
  BY <1>0, RecordsStep
<1>1. CASE UNCHANGED <<request, shown>>
  <2> SUFFICES ASSUME Paging' PROVE PageAnswers'
    BY DEF PageAnswers
  <2>1. Paging
    BY <1>1 DEF Paging
  <2>2. \A item : Summarised(item) => Summarised(item)'
    BY <1>0, <1>1, SummarisedStays
  <2> QED BY <1>1, <1>b, <2>1, <2>2 DEF PageAnswers
<1>2. ASSUME NEW filters, NEW newest, NEW after, AskPage(filters, newest, after) PROVE PageAnswers'
  <2>1. CASE Unknown(filters)
    BY <1>2, <2>1 DEF AskPage, PageAnswers, Paging
  <2>2. CASE ~Unknown(filters)
    <3>1. request'.phase = "asked" /\ request'.metadata = filters
      BY <1>2, <2>2 DEF AskPage
    <3> QED BY <2>2, <3>1 DEF PageAnswers
  <2> QED BY <2>1, <2>2
<1>3. CASE ReadCursor
  <2>1. /\ request.phase = "asked" /\ Paging
        /\ \/ request' = [phase |-> "refused"]
           \/ request'.phase = "placed" /\ request'.metadata = request.metadata
    BY <1>3, <1>a DEF ReadCursor, Paging, PageFields
  <2> QED BY <2>1 DEF PageAnswers, Paging
<1>4. CASE ListDocuments
  <2>1. /\ request.phase = "placed" /\ Paging /\ UNCHANGED documents
    BY <1>4 DEF ListDocuments, Paging
  <2>2. /\ request' = [request EXCEPT !.phase = "listed", !.found = request'.found,
                                      !.next = request'.next]
        /\ \A i \in DOMAIN request'.found :
              request'.found[i] \in DOMAIN documents /\ Matches(request'.found[i], request.metadata)
    BY <1>0, <1>4, PageTold
  <2>3. request'.phase = "listed" /\ request'.metadata = request.metadata
    BY <1>a, <2>1, <2>2 DEF PageFields
  <2> QED BY <2>1, <2>2, <2>3 DEF PageAnswers
<1>5. CASE LatestVersions
  <2>1. /\ request.phase = "listed" /\ Paging /\ UNCHANGED documents
        /\ request'.phase = "summarised" /\ request'.metadata = request.metadata
        /\ request'.items = [i \in DOMAIN request.found |->
             [guide |-> request.found[i], newest |-> NewestOf(request.found[i]), position |-> i]]
    BY <1>5, <1>a DEF LatestVersions, Paging, PageFields
  <2>2. ASSUME NEW i \in DOMAIN request.found
        PROVE  Summarised([guide |-> request.found[i], newest |-> NewestOf(request.found[i]), position |-> i])
    <3>1. request.found[i] \in DOMAIN documents /\ Matches(request.found[i], request.metadata)
      BY <2>1 DEF PageAnswers
    <3> QED BY <1>0, <3>1, SummaryIs DEF Summarised
  <2>3. \A item : Summarised(item) => Summarised(item)'
    BY <1>0, <2>1, SummarisedStays
  <2>4. \A i \in DOMAIN request'.items : Summarised(request'.items[i])
    BY <2>1, <2>2
  <2>5. (\A i \in DOMAIN request.items : Summarised(request.items[i]))'
    BY <2>3, <2>4
  <2> QED BY <2>1, <2>5 DEF PageAnswers
<1>6. CASE CountPage
  <2>1. /\ request.phase = "summarised" /\ Paging /\ UNCHANGED documents
        /\ request'.phase = "answered" /\ request'.metadata = request.metadata
        /\ request'.items = request.items /\ request'.seen = DOMAIN documents
        /\ request'.counts = OptionCounts(request.metadata, DOMAIN documents)
    BY <1>6, <1>a DEF CountPage, Paging, PageFields
  <2>2. \A item : Summarised(item) => Summarised(item)'
    BY <1>0, <2>1, SummarisedStays
  <2>3. \A i \in DOMAIN request.items : Summarised(request.items[i])
    BY <2>1 DEF PageAnswers
  <2>4. \A i \in DOMAIN request.items : request.items[i].guide \in DOMAIN documents
    BY <2>3 DEF Summarised
  <2>5. (\A i \in DOMAIN request.items : Summarised(request.items[i]))'
    BY <2>1, <2>2, <2>3
  <2> QED BY <2>1, <2>4, <2>5 DEF PageAnswers
<1>7. CASE AskNext
  <2>1. Paging /\ request'.phase = "asked" /\ request'.metadata = request.metadata
    BY <1>7, <1>a DEF AskNext, Paging, PageFields
  <2> QED BY <2>1 DEF PageAnswers
<1>8. CASE ~Paging'
  BY <1>8 DEF PageAnswers
<1> QED
  BY <1>1, <1>2, <1>3, <1>4, <1>5, <1>6, <1>7, <1>8, OwnStays
  DEF Next, vars, Tick, Attempt, CreateVersion, Create

\* A user's own list is asked for, of guides there are and guides gone.
LEMMA OwnAsked ==
  ASSUME IInv, [Next]_vars, NEW list \in {"pinned", "opened"}, NEW guides \in OwnLists, NEW filters,
         AskOwn(list, guides, filters)
  PROVE  OwnAnswers'
<1>1. CASE Unknown(filters)
  BY <1>1 DEF AskOwn, OwnAnswers, Owning
<1>2. CASE ~Unknown(filters)
  <2>1. /\ request'.phase \in {"asked", "placed"} /\ request'.metadata = filters
        /\ request'.list = list /\ (request'.phase = "asked" <=> list = "pinned")
        /\ request'.given = guides /\ request'.live = guides /\ request'.counted = FALSE
        /\ Range(guides) \subseteq DOMAIN documents \cup Gone /\ UNCHANGED documents
    BY <1>2 DEF AskOwn
  <2>2. guides \in Seq(Guides \cup Gone) /\ \A i, j \in DOMAIN guides : guides[i] = guides[j] => i = j
    OBVIOUS
  <2> QED BY <1>2, <2>1, <2>2 DEF OwnAnswers
<1> QED BY <1>1, <1>2

\* What of a user's list there is, there stays: what is gone never comes back.
LEMMA LiveStays ==
  ASSUME Records, NEW given \in Seq(Guides \cup Gone), Range(given) \subseteq DOMAIN documents \cup Gone
  PROVE  /\ Only(given, DOMAIN documents) = Only(given, Range(given) \ Gone)
         /\ \A g \in Range(given) : g \in DOMAIN documents <=> g \notin Gone
<1>1. \A g \in Range(given) : g \in DOMAIN documents <=> g \notin Gone
  BY DEF Records
<1>2. Range(given) \cap DOMAIN documents = Range(given) \cap (Range(given) \ Gone)
  BY <1>1
<1>3. Only(given, DOMAIN documents) = Only(given, Range(given) \ Gone)
  BY <1>2, OnlySame
<1> QED BY <1>1, <1>3

\* Every query of a user's list keeps what it has been told so far.
LEMMA OwnStep ==
  ASSUME IInv, OwnAnswers, [Next]_vars, ReadExisting \/ Matching \/ FindMany \/ Summaries \/ CountOwn
  PROVE  OwnAnswers'
<1>0. Records /\ Shape /\ Pages
  BY DEF IInv
<1>1. request.list # "all" /\ Owning /\ UNCHANGED documents
  BY <1>0 DEF ReadExisting, Matching, FindMany, Summaries, CountOwn, Pages, Paging, Owning
<1>2. DOMAIN request = OwnFields
  BY <1>0, <1>1 DEF Shape, Owning
<1>3. /\ request'.list = request.list /\ request'.metadata = request.metadata
      /\ request'.given = request.given
  BY <1>2 DEF ReadExisting, Matching, FindMany, Summaries, CountOwn, OwnFields
<1>4. /\ ~Unknown(request.metadata)
      /\ request.given \in Seq(Guides \cup Gone)
      /\ \A i, j \in DOMAIN request.given : request.given[i] = request.given[j] => i = j
      /\ Range(request.given) \subseteq DOMAIN documents \cup Gone
      /\ request.live = IF request.list = "pinned" /\ request.phase # "asked"
                           THEN Only(request.given, Range(request.given) \ Gone) ELSE request.given
      /\ request.phase = "asked" => ~request.counted
  BY <1>1 DEF OwnAnswers
<1>5. \A item : Summarised(item) => Summarised(item)'
  BY <1>0, <1>3, SummarisedStays
<1> DEFINE found(r) == /\ r.found \subseteq DOMAIN documents
                       /\ \A g \in r.found : Matches(g, request.metadata)
           items(r) == \A n \in DOMAIN r.items :
                         /\ Summarised(r.items[n])
                         /\ \E p \in DOMAIN r.live : /\ r.items[n].guide = r.live[p]
                                                    /\ r.items[n].position = p
           counts(r) == /\ r.seen \subseteq DOMAIN documents
                        /\ Range(request.given) \subseteq r.seen \cup Gone
                        /\ r.counts = OptionCounts(request.metadata, r.seen \cap Range(r.live))
           answers(r) ==
             /\ r.phase \in {"asked", "placed", "matched", "listed", "summarised", "answered"}
             /\ r.live = IF request.list = "pinned" /\ r.phase # "asked"
                           THEN Only(request.given, Range(request.given) \ Gone) ELSE request.given
             /\ r.phase \in {"matched", "listed"} => found(r)
             /\ r.phase \in {"summarised", "answered"} => items(r)
             /\ r.phase = "asked" => ~r.counted
             /\ r.phase = "answered" => r.counted
             /\ r.counted => counts(r)
<1>6. answers(request)
  BY <1>1 DEF OwnAnswers
<1>7. SUFFICES answers(request')
  <2> SUFFICES ASSUME answers(request') PROVE OwnAnswers'
    OBVIOUS
  <2>1. (request.phase \in {"summarised", "answered"} =>
          \A n \in DOMAIN request.items :
            /\ Summarised(request.items[n])
            /\ \E p \in DOMAIN request.live : /\ request.items[n].guide = request.live[p]
                                            /\ request.items[n].position = p)'
    BY <1>5
  <2> QED BY <1>1, <1>3, <1>4, <2>1 DEF OwnAnswers
<1> HIDE DEF found, items, counts
<1>8. CASE ReadExisting
  <2>1. /\ request.phase = "asked" /\ request.list = "pinned" /\ request'.phase = "placed"
        /\ request'.live = Only(request.live, DOMAIN documents)
        /\ request'.counted = request.counted
    BY <1>2, <1>8 DEF ReadExisting, OwnFields
  <2>2. request.live = request.given /\ ~request.counted
    BY <1>4, <2>1
  <2>3. request'.live = Only(request.given, Range(request.given) \ Gone)
    BY <1>0, <1>4, <2>1, <2>2, LiveStays
  <2> QED BY <2>1, <2>2, <2>3
<1>9. CASE Matching
  <2>1. /\ request.phase = "placed" /\ request'.phase = "matched"
        /\ request'.live = request.live /\ request'.counted = request.counted
        /\ request'.seen = request.seen /\ request'.counts = request.counts
        /\ request'.found = {g \in Range(request.live) \cap DOMAIN documents : Matches(g, request.metadata)}
    BY <1>2, <1>9 DEF Matching, OwnFields
  <2>2. found(request')
    BY <2>1 DEF found
  <2>3. counts(request) => counts(request')
    BY <2>1 DEF counts
  <2> QED BY <1>6, <2>1, <2>2, <2>3
<1>10. CASE FindMany
  <2>1. /\ request.phase = "matched" /\ request'.phase = "listed"
        /\ request'.live = request.live /\ request'.counted = request.counted
        /\ request'.seen = request.seen /\ request'.counts = request.counts
        /\ request'.found = request.found \cap DOMAIN documents
    BY <1>2, <1>10 DEF FindMany, OwnFields
  <2>2. found(request) => found(request')
    BY <2>1 DEF found
  <2>3. counts(request) => counts(request')
    BY <2>1 DEF counts
  <2> QED BY <1>6, <2>1, <2>2, <2>3
<1>11. CASE Summaries
  <2> DEFINE item(i) == [guide |-> request.live[i], newest |-> NewestOf(request.live[i]), position |-> i]
             live == request.live
             each == [i \in DOMAIN live |-> i]
             there == {i \in DOMAIN live : live[i] \in request.found}
             places == Only(each, there)
  <2>1. /\ request.phase = "listed"
        /\ request'.phase = IF request.counted THEN "answered" ELSE "summarised"
        /\ request'.live = request.live /\ request'.counted = request.counted
        /\ request'.seen = request.seen /\ request'.counts = request.counts
        /\ request'.items = [n \in DOMAIN places |-> item(places[n])]
    BY <1>2, <1>11 DEF Summaries, OwnFields
  <2>2. live \in Seq(Guides \cup Gone)
    BY <1>4, OnlyKeeps
  <2>3. each \in Seq(DOMAIN live)
    BY <2>2
  <2>4. \A n \in DOMAIN places : places[n] \in there
    <3> HIDE DEF each, there
    <3>1. Range(places) \subseteq there
      BY <2>3, OnlyKeeps
    <3> QED BY <3>1 DEF Range
  <2>5. found(request)
    BY <1>6, <2>1
  <2>6. ASSUME NEW i \in there PROVE Summarised(item(i))
    <3>1. live[i] \in DOMAIN documents /\ Matches(live[i], request.metadata)
      BY <2>5 DEF found
    <3> QED BY <1>0, <3>1, SummaryIs DEF Summarised
  <2> HIDE DEF places
  <2>7. ASSUME NEW n \in DOMAIN request'.items
        PROVE  /\ Summarised(request'.items[n])
               /\ \E p \in DOMAIN request'.live : /\ request'.items[n].guide = request'.live[p]
                                                /\ request'.items[n].position = p
    <3>1. n \in DOMAIN places /\ request'.items[n] = item(places[n]) /\ places[n] \in there
      BY <2>1, <2>4
    <3> QED BY <2>1, <2>6, <3>1
  <2>8. items(request')
    BY <2>7 DEF items
  <2>9. counts(request) => counts(request')
    BY <2>1 DEF counts
  <2> QED BY <1>6, <2>1, <2>8, <2>9
<1>12. CASE CountOwn
  <2>1. /\ request.phase \in {"placed", "matched", "listed", "summarised"}
        /\ request'.phase = IF request.phase = "summarised" THEN "answered" ELSE request.phase
        /\ request'.live = request.live /\ request'.counted = TRUE
        /\ request'.found = request.found /\ request'.items = request.items
        /\ request'.seen = DOMAIN documents
        /\ request'.counts = OptionCounts(request.metadata, DOMAIN documents \cap Range(request.live))
    BY <1>2, <1>12 DEF CountOwn, OwnFields
  <2>2. counts(request')
    BY <1>4, <2>1 DEF counts
  <2>3. (found(request) => found(request')) /\ (items(request) => items(request'))
    BY <2>1 DEF found, items
  <2> QED BY <1>6, <2>1, <2>2, <2>3
<1> QED BY <1>8, <1>9, <1>10, <1>11, <1>12

\* Every step keeps what the queries of a user's list have found.
LEMMA OwnAnswersStep == ASSUME IInv, OwnAnswers, [Next]_vars PROVE OwnAnswers'
<1>0. Records /\ Shape
  BY DEF IInv
<1>1. CASE UNCHANGED <<request, shown>>
  <2> SUFFICES ASSUME Owning PROVE OwnAnswers'
    BY <1>1 DEF OwnAnswers, Owning
  <2>1. DOMAIN documents \subseteq DOMAIN documents'
    BY <1>0, RecordsStep
  <2>2. \A item : Summarised(item) => Summarised(item)'
    BY <1>0, <1>1, SummarisedStays
  <2> QED BY <1>1, <2>1, <2>2 DEF OwnAnswers
<1>2. CASE \E list \in {"pinned", "opened"}, guides \in OwnLists, given \in Filters, noScheme \in BOOLEAN :
             AskOwn(list, guides, ChosenFilters(given, noScheme))
  BY <1>2, OwnAsked
<1>3. CASE \E given \in Filters, noScheme, newest \in BOOLEAN, after \in {0} \cup Gone :
             AskPage(ChosenFilters(given, noScheme), newest, after)
  BY <1>3 DEF AskPage, OwnAnswers, Owning
<1>4. CASE ReadCursor \/ ListDocuments \/ LatestVersions \/ CountPage \/ AskNext
  <2>1. /\ request.list = "all" /\ DOMAIN request = PageFields
    BY <1>0, <1>4 DEF ReadCursor, ListDocuments, LatestVersions, CountPage, AskNext, Shape
  <2>2. request'.phase = "refused" \/ request'.list = "all"
    <3>1. CASE ReadCursor
      BY <2>1, <3>1 DEF ReadCursor, PageFields
    <3>2. CASE ListDocuments
      BY <2>1, <3>2 DEF ListDocuments, PageFields
    <3>3. CASE LatestVersions \/ CountPage \/ AskNext
      BY <2>1, <3>3 DEF LatestVersions, CountPage, AskNext, PageFields
    <3> QED BY <1>4, <3>1, <3>2, <3>3
  <2> QED BY <2>2 DEF OwnAnswers, Owning
<1> QED
  BY <1>1, <1>2, <1>3, <1>4, OwnStep
  DEF Next, vars, Tick, Attempt, CreateVersion, Create

\* So what the queries have found holds in every state.
LEMMA Answering == Spec => [](IInv /\ PageAnswers /\ OwnAnswers)
<1>1. Init => PageAnswers /\ OwnAnswers
  BY DEF Init, Idle, PageAnswers, Paging, OwnAnswers, Owning
<1>2. IInv /\ PageAnswers /\ OwnAnswers /\ [Next]_vars => (PageAnswers /\ OwnAnswers)'
  BY PageAnswersStep, OwnAnswersStep
<1> QED BY <1>1, <1>2, Inductive, PTL DEF Spec

\* The guides a list's counts are of.
OfList == IF request.list = "all" THEN request.seen ELSE request.seen \cap Range(request.live)

\* What both kinds of answer have in common.
LEMMA CountsAnswer ==
  ASSUME IInv, PageAnswers, OwnAnswers, request.phase = "answered"
  PROVE  /\ ~Unknown(request.metadata) /\ request.seen \subseteq DOMAIN documents
         /\ request.counts = OptionCounts(request.metadata, OfList)
         /\ \A i \in DOMAIN request.items :
              Summarised(request.items[i]) /\ request.items[i].guide \in OfList
<1>0. Records /\ Shape
  BY DEF IInv
<1>1. CASE request.list = "all"
  BY <1>1 DEF PageAnswers, Paging, OfList
<1>2. CASE request.list # "all"
  <2>1. /\ ~Unknown(request.metadata) /\ request.seen \subseteq DOMAIN documents
        /\ request.counts = OptionCounts(request.metadata, OfList)
        /\ request.given \in Seq(Guides \cup Gone)
        /\ Range(request.given) \subseteq request.seen \cup Gone
        /\ request.live = IF request.list = "pinned"
                           THEN Only(request.given, Range(request.given) \ Gone) ELSE request.given
    BY <1>2 DEF OwnAnswers, Owning, OfList
  <2>2. ASSUME NEW i \in DOMAIN request.items
        PROVE  Summarised(request.items[i]) /\ request.items[i].guide \in OfList
    <3>1. /\ Summarised(request.items[i])
          /\ \E p \in DOMAIN request.live : request.items[i].guide = request.live[p]
      BY <1>2 DEF OwnAnswers, Owning
    <3>2. request.items[i].guide \in Range(request.live)
      BY <3>1 DEF Range
    <3>3. Range(request.live) \subseteq Range(request.given)
      BY <2>1, OnlyKeeps
    <3>4. request.items[i].guide \notin Gone
      BY <1>0, <3>1 DEF Summarised, Records
    <3> QED BY <1>2, <2>1, <3>1, <3>2, <3>3, <3>4 DEF OfList
  <2> QED BY <2>1, <2>2
<1> QED BY <1>1, <1>2

\* A pin's position is among the pins that are guides.
LEMMA PinsStand ==
  ASSUME IInv, OwnAnswers, request.phase = "answered", request.list = "pinned",
         NEW i \in DOMAIN request.items
  PROVE  LET stands == CHOOSE p \in DOMAIN request.given : request.given[p] = request.items[i].guide
         IN  request.items[i].position =
               Cardinality({p \in 1..stands : request.given[p] \in DOMAIN documents})
<1> DEFINE given == request.given
           there == Range(given) \ Gone
           stands == CHOOSE p \in DOMAIN given : given[p] = request.items[i].guide
<1>0. Records
  BY DEF IInv
<1>1. /\ given \in Seq(Guides \cup Gone) /\ Range(given) \subseteq DOMAIN documents \cup Gone
      /\ \A p, q \in DOMAIN given : given[p] = given[q] => p = q
      /\ request.live = Only(given, there)
      /\ \E p \in DOMAIN request.live : /\ request.items[i].guide = request.live[p]
                                      /\ request.items[i].position = p
  BY DEF OwnAnswers, Owning
<1> HIDE DEF given, there
<1>2. PICK p \in DOMAIN Only(given, there) :
        request.items[i].guide = Only(given, there)[p] /\ request.items[i].position = p
  BY <1>1
<1>3. PICK q \in DOMAIN given :
        given[q] = Only(given, there)[p] /\ Cardinality({n \in 1..q : given[n] \in there}) = p
  <2>1. StoodAt(given, there)
    <3>1. given \in Seq(Guides \cup Gone)
      BY <1>1
    <3> QED BY <3>1, OnlyPlaces
  <2> QED BY <1>2, <2>1 DEF StoodAt
<1>4. stands = q
  BY <1>1, <1>2, <1>3
<1>5. {n \in 1..q : given[n] \in there} = {n \in 1..q : given[n] \in DOMAIN documents}
  <2>1. \A n \in 1..q : n \in DOMAIN given
    BY <1>1
  <2>2. \A n \in 1..q : given[n] \in Range(given)
    BY <2>1 DEF Range
  <2>3. \A g \in Range(given) : g \in DOMAIN documents <=> g \notin Gone
    BY <1>0, <1>1, LiveStays
  <2> QED BY <2>2, <2>3 DEF there
<1> QED BY <1>2, <1>3, <1>4, <1>5 DEF given

\* The items and the counts of one answer agree, though guides are recorded between
\* the queries that find them.
THEOREM AnswersAgree == Spec => []AnswerAgrees
<1>1. IInv /\ PageAnswers /\ OwnAnswers => AnswerAgrees
  <2> SUFFICES ASSUME IInv, PageAnswers, OwnAnswers, request.phase = "answered" PROVE AnswerAgrees
    BY DEF AnswerAgrees
  <2>0. Records
    BY DEF IInv
  <2>1. /\ ~Unknown(request.metadata) /\ request.seen \subseteq DOMAIN documents
        /\ request.counts = OptionCounts(request.metadata, OfList)
        /\ \A i \in DOMAIN request.items :
             Summarised(request.items[i]) /\ request.items[i].guide \in OfList
    BY CountsAnswer
  <2>2. \A i \in DOMAIN request.items : request.items[i].newest # {}
    BY <2>1 DEF Summarised
  <2>3. request.list = "pinned" =>
          \A i \in DOMAIN request.items :
            LET stands == CHOOSE p \in DOMAIN request.given : request.given[p] = request.items[i].guide
            IN  request.items[i].position =
                  Cardinality({p \in 1..stands : request.given[p] \in DOMAIN documents})
    BY PinsStand
  <2>4. ASSUME NEW key \in Counted, NEW value \in Countable(key)
        PROVE  /\ CountOf(request.counts[key], value) = Cardinality(Choosing(key, {value}))
               /\ Choosing(key, {value}) = Found(OfList, request.metadata, key, value)
    <3>1. Choosing(key, {value}) = Found(OfList, request.metadata, key, value)
      BY DEF Choosing, Found, Anew, OfList
    <3> QED BY <2>1, <3>1, CountsAgree
  <2>5. ASSUME NEW key \in Counted, NEW i \in DOMAIN request.items,
               NEW value \in ShownUnder(request.items[i].guide, key)
        PROVE  CountOf(request.counts[key], value) > 0
    <3> DEFINE g == request.items[i].guide
               held == AsNow(g)[key]
    <3>1. g \in OfList /\ Matches(g, request.metadata) /\ IsFiniteSet(OfList)
      <4>1. OfList \in SUBSET DOMAIN documents
        BY <2>1 DEF OfList
      <4>2. IsFiniteSet(OfList)
        BY <2>0, <4>1, FS_Subset DEF Records
      <4> QED BY <2>1, <4>2 DEF Summarised
    <3>2. value \in Countable(key) /\ AnyOf(held, {value})
      <4> HIDE DEF g, held
      <4>1. value \in IF held.values = <<>> /\ key \in CountingNone THEN {NONE}
                      ELSE Range(held.values) \cap Range(Words)
        BY DEF ShownUnder, g, held
      <4>2. CASE held.values = <<>> /\ key \in CountingNone
        BY <4>1, <4>2 DEF Countable, AnyOf
      <4>3. CASE ~(held.values = <<>> /\ key \in CountingNone)
        <5>1. value \in Range(held.values) /\ value \in Range(Words) /\ value # NONE
          BY <4>1, <4>3
        <5> QED BY <5>1 DEF Countable, AnyOf
      <4> QED BY <4>2, <4>3
    <3>3. g \in Found(OfList, request.metadata, key, value)
      BY <3>1, <3>2, OthersMatch, AnewMatches DEF Found
    <3> HIDE DEF g
    <3>4. /\ IsFiniteSet(Found(OfList, request.metadata, key, value))
          /\ Found(OfList, request.metadata, key, value) # {}
      <4>1. Found(OfList, request.metadata, key, value) \in SUBSET OfList
        BY DEF Found
      <4> QED BY <3>1, <3>3, <4>1, FS_Subset
    <3>5. Cardinality(Found(OfList, request.metadata, key, value)) > 0
      BY <3>4, FS_EmptySet, FS_CardinalityType
    <3> QED BY <2>4, <3>2, <3>5
  <2>6. \A key \in Counted : key \in DOMAIN request.metadata =>
          request.metadata[key] \subseteq {request.counts[key][i].label : i \in DOMAIN request.counts[key]}
    BY <2>1, CountsAgree
  <2> QED BY <2>2, <2>3, <2>4, <2>5, <2>6 DEF AnswerAgrees, Countable
<1> QED BY <1>1, Answering, PTL

=============================================================================
