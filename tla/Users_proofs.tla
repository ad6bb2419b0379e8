---------------------------- MODULE Users_proofs ----------------------------
(***************************************************************************)
(* Proofs about a user's record: how it is made, what is opened and what   *)
(* is pinned.  The three share no state.                                   *)
(*                                                                         *)
(* Whoever signs in is one user.  The answers agree because each names the *)
(* user that is on record for its identity, and there is only one: those   *)
(* two facts are inductive together.                                       *)
(*                                                                         *)
(* The recently opened list is that of every opening ever pushed, for      *)
(* every number of requests and guides, any clocks and any length of list. *)
(* That argument is about the top of the order: a set of latest openings   *)
(* that nothing newer is missing from, as large as the list may be or of   *)
(* every guide.  Such a set is the list (TopIsListed), of any record that  *)
(* holds it (TopOfFewer), and a push replaces at most one entry of it by   *)
(* the new one (TopOfMore).  So it is enough that pulls leave the top      *)
(* alone: an opening that is surplus once never says what one of the top   *)
(* says, since the only entry that comes to the top is one that says what  *)
(* none has said before.                                                   *)
(*                                                                         *)
(* Patches of the pins, for any guides, pins, attempts and number of       *)
(* patches at once: first what a patch makes of a list, its operations one *)
(* by one, and the list they are applied to, which leaves out the guides   *)
(* that are gone.  From that the invariant HInv of the handlers: which     *)
(* patch each carries, made on which page, and that the guides it leaves   *)
(* out are those that are gone, however the pins changed since it found    *)
(* them.  Pins then implements PinnedList, and a guide is unpinned only as *)
(* its page showed.                                                        *)
(*                                                                         *)
(* That a patch gives up only when as many others were applied as it made  *)
(* attempts takes IInv: an attempt that will fail has seen one more patch  *)
(* applied than the attempts before it.                                    *)
(***************************************************************************)
EXTENDS SignIn, RecentlyOpened, Pins, Folding

-----------------------------------------------------------------------------
(* Openings                                                                *)

\* Entries that are told apart by their arrivals.
History(s) ==
  /\ s \subseteq Entry /\ IsFiniteSet(s)
  /\ \A d, e \in s : d.arrival = e.arrival => d = e

\* A top of the order: latest openings, none newer left out, as many as are kept.
IsTop(top, s) ==
  /\ top \subseteq Latest(s)
  /\ \A e \in top, d \in Latest(s) : Newer(d, e) => d \in top
  /\ Cardinality(top) <= RECENTLY_OPENED_KEPT
  /\ top = Latest(s) \/ Cardinality(top) = RECENTLY_OPENED_KEPT

\* What entries say, told of their arrivals no more.
Says(s) == {Stored(e) : e \in s}

-----------------------------------------------------------------------------
(* The order                                                               *)

\* Times and arrivals are numbers.
LEMMA EntryHasNumbers ==
  ASSUME NEW e \in Entry
  PROVE  e.openedAt \in Nat /\ e.arrival \in Nat
BY OpenedAssumption DEF Entry

\* Of two entries one is not newer than the other both ways round.
LEMMA NewerIsStrict ==
  ASSUME NEW d \in Entry, NEW e \in Entry, Newer(d, e)
  PROVE  ~Newer(e, d) /\ d # e
<1>1. /\ d.openedAt \in Nat /\ d.arrival \in Nat
      /\ e.openedAt \in Nat /\ e.arrival \in Nat
  BY EntryHasNumbers
<1> QED BY <1>1 DEF Newer

\* Newer than a newer one is newer.
LEMMA NewerIsTransitive ==
  ASSUME NEW c \in Entry, NEW d \in Entry, NEW e \in Entry, Newer(c, d), Newer(d, e)
  PROVE  Newer(c, e)
<1>1. /\ c.openedAt \in Nat /\ c.arrival \in Nat
      /\ d.openedAt \in Nat /\ d.arrival \in Nat
      /\ e.openedAt \in Nat /\ e.arrival \in Nat
  BY EntryHasNumbers
<1> QED BY <1>1 DEF Newer

\* Of two entries of a history one is newer.
LEMMA NewerIsTotal ==
  ASSUME NEW s, History(s), NEW d \in s, NEW e \in s, d # e
  PROVE  Newer(d, e) \/ Newer(e, d)
<1>1. /\ d.openedAt \in Nat /\ d.arrival \in Nat
      /\ e.openedAt \in Nat /\ e.arrival \in Nat
  BY EntryHasNumbers DEF History
<1>2. d.arrival # e.arrival
  BY DEF History
<1> QED BY <1>1, <1>2 DEF Newer

\* A subset of a history is one.
LEMMA HistoryOfFewer ==
  ASSUME NEW s, History(s), NEW t \in SUBSET s
  PROVE  History(t)
BY FS_Subset DEF History

\* A guide has one latest opening.
LEMMA LatestIsOne ==
  ASSUME NEW s, History(s), NEW d \in Latest(s), NEW e \in Latest(s),
         d.documentId = e.documentId
  PROVE  d = e
<1>1. d \in s /\ e \in s /\ d \in Entry /\ e \in Entry
  BY DEF Latest, History
<1>2. SUFFICES ASSUME d # e PROVE FALSE
  OBVIOUS
<1>3. Newer(d, e) /\ Newer(e, d)
  BY <1>1, <1>2 DEF Latest
<1> QED BY <1>1, <1>3, NewerIsStrict

\* Of finitely many entries one is the oldest.
LEMMA OldestExists ==
  ASSUME NEW s, History(s), s # {}
  PROVE  \E e \in s : \A d \in s : d = e \/ Newer(d, e)
<1> DEFINE OlderThan(e) == {d \in s : Newer(e, d)}
           family == {OlderThan(e) : e \in s}
<1>1. IsWellFoundedOn(StrictSubsetOrdering(s), SUBSET s)
  BY FS_StrictSubsetOrderingWellFounded, FS_FiniteSubsetsOfFinite DEF History
<1>2. family \subseteq SUBSET s /\ family # {}
  OBVIOUS
<1>3. PICK least \in family : \A other \in family : ~ <<other, least>> \in StrictSubsetOrdering(s)
  <2> HIDE DEF family
  <2> QED BY <1>1, <1>2, WFMin
<1>4. PICK e \in s : least = OlderThan(e)
  OBVIOUS
<1>5. SUFFICES ASSUME NEW d \in s, d # e, ~Newer(d, e) PROVE FALSE
  BY <1>4
<1>6. Newer(e, d) /\ d \in Entry /\ e \in Entry
  BY <1>5, NewerIsTotal DEF History
<1>7. d \in OlderThan(e) /\ d \notin OlderThan(d)
  BY <1>6, NewerIsStrict
<1>8. OlderThan(d) \subseteq OlderThan(e)
  BY <1>6, NewerIsTransitive DEF History
<1>9. <<OlderThan(d), least>> \in StrictSubsetOrdering(s)
  BY <1>4, <1>7, <1>8 DEF StrictSubsetOrdering
<1> QED BY <1>3, <1>9

\* And one is the newest: the oldest in the order turned round.
LEMMA NewestExists ==
  ASSUME NEW s, History(s), s # {}
  PROVE  \E e \in s : \A d \in s : d = e \/ Newer(e, d)
<1> DEFINE NewerToo(e) == {d \in s : Newer(d, e)}
           family == {NewerToo(e) : e \in s}
<1>1. IsWellFoundedOn(StrictSubsetOrdering(s), SUBSET s)
  BY FS_StrictSubsetOrderingWellFounded, FS_FiniteSubsetsOfFinite DEF History
<1>2. family \subseteq SUBSET s /\ family # {}
  OBVIOUS
<1>3. PICK least \in family : \A other \in family : ~ <<other, least>> \in StrictSubsetOrdering(s)
  <2> HIDE DEF family
  <2> QED BY <1>1, <1>2, WFMin
<1>4. PICK e \in s : least = NewerToo(e)
  OBVIOUS
<1>5. SUFFICES ASSUME NEW d \in s, d # e, ~Newer(e, d) PROVE FALSE
  BY <1>4
<1>6. Newer(d, e) /\ d \in Entry /\ e \in Entry
  BY <1>5, NewerIsTotal DEF History
<1>7. d \in NewerToo(e) /\ d \notin NewerToo(d)
  BY <1>6, NewerIsStrict
<1>8. NewerToo(d) \subseteq NewerToo(e)
  BY <1>6, NewerIsTransitive DEF History
<1>9. <<NewerToo(d), least>> \in StrictSubsetOrdering(s)
  BY <1>4, <1>7, <1>8 DEF StrictSubsetOrdering
<1> QED BY <1>3, <1>9

\* Every guide that was opened has a latest opening.
LEMMA LatestExists ==
  ASSUME NEW s, History(s), NEW e \in s
  PROVE  \E d \in Latest(s) : d.documentId = e.documentId /\ (d = e \/ Newer(d, e))
<1> DEFINE same == {d \in s : d.documentId = e.documentId}
<1>1. History(same) /\ same # {}
  BY HistoryOfFewer
<1>2. PICK d \in same : \A c \in same : c = d \/ Newer(d, c)
  <2> HIDE DEF same
  <2> QED BY <1>1, NewestExists
<1>3. d \in Latest(s)
  BY <1>2 DEF Latest
<1> QED BY <1>2, <1>3

-----------------------------------------------------------------------------
(* The top                                                                 *)

\* The top is the list.
LEMMA TopIsListed ==
  ASSUME NEW s, History(s), NEW top, IsTop(top, s)
  PROVE  top = Listed(s)
<1> DEFINE Before(e) == {d \in Latest(s) : Newer(d, e)}
<1>1. Latest(s) \subseteq s /\ IsFiniteSet(Latest(s)) /\ s \subseteq Entry
  BY FS_Subset DEF Latest, History
<1>2. IsFiniteSet(top) /\ Cardinality(top) \in Nat /\ top \subseteq Latest(s)
  BY <1>1, FS_Subset, FS_CardinalityType DEF IsTop
<1>3. \A e \in s : IsFiniteSet(Before(e)) /\ Cardinality(Before(e)) \in Nat
  BY <1>1, FS_Subset, FS_CardinalityType
<1>4. ASSUME NEW e \in top PROVE Cardinality(Before(e)) < RECENTLY_OPENED_KEPT
  <2>1. Before(e) \subseteq top \ {e}
    BY <1>1, <1>2, NewerIsStrict DEF IsTop
  <2>2. IsFiniteSet(top \ {e}) /\ Cardinality(top \ {e}) = Cardinality(top) - 1
    BY <1>2, FS_RemoveElement
  <2>3. Cardinality(Before(e)) <= Cardinality(top) - 1
    BY <2>1, <2>2, FS_Subset
  <2>4. Cardinality(top) <= RECENTLY_OPENED_KEPT /\ Cardinality(Before(e)) \in Nat
    BY <1>1, <1>2, <1>3 DEF IsTop
  <2> HIDE DEF Before
  <2> QED BY <1>2, <2>3, <2>4, OpenedAssumption
<1>5. ASSUME NEW e \in Latest(s), e \notin top
      PROVE  ~ Cardinality(Before(e)) < RECENTLY_OPENED_KEPT
  <2>1. Cardinality(top) = RECENTLY_OPENED_KEPT
    BY <1>5 DEF IsTop
  <2>2. \A d \in top : Newer(d, e)
    BY <1>1, <1>2, <1>5, NewerIsTotal DEF IsTop
  <2>3. top \subseteq Before(e)
    BY <1>2, <2>2
  <2>4. Cardinality(top) <= Cardinality(Before(e)) /\ Cardinality(Before(e)) \in Nat
    BY <1>1, <1>3, <2>3, FS_Subset
  <2> HIDE DEF Before
  <2> QED BY <1>2, <2>1, <2>4, OpenedAssumption
<1> QED BY <1>2, <1>4, <1>5 DEF Listed

\* A record that has lost openings, but none of the top, has the same top.
LEMMA TopOfFewer ==
  ASSUME NEW s, History(s), NEW top, IsTop(top, s), NEW t \in SUBSET s, top \subseteq t
  PROVE  IsTop(top, t)
<1>1. Latest(s) \subseteq s /\ Latest(t) \subseteq t /\ s \subseteq Entry
  BY DEF Latest, History
<1>2. top \subseteq Latest(t)
  BY DEF IsTop, Latest
<1>3. ASSUME NEW e \in top, NEW d \in Latest(t), Newer(d, e) PROVE d \in top
  <2>1. PICK c \in Latest(s) : c.documentId = d.documentId /\ (c = d \/ Newer(c, d))
    BY <1>1, LatestExists
  <2>2. Newer(c, e)
    BY <1>1, <1>2, <1>3, <2>1, NewerIsTransitive
  <2>3. c \in top
    BY <2>2 DEF IsTop
  <2>4. c = d
    BY <1>1, <1>2, <2>1, <2>3, LatestIsOne, HistoryOfFewer
  <2> QED BY <2>3, <2>4
<1>4. ASSUME top = Latest(s), NEW d \in Latest(t) PROVE d \in top
  <2>1. PICK c \in Latest(s) : c.documentId = d.documentId
    BY <1>1, LatestExists
  <2>2. c = d
    BY <1>2, <1>4, <2>1, LatestIsOne, HistoryOfFewer
  <2> QED BY <1>4, <2>1, <2>2
<1> QED BY <1>2, <1>3, <1>4 DEF IsTop

\* One for one, a set is as large as it was.
LEMMA Exchange ==
  ASSUME NEW top, IsFiniteSet(top), NEW y \in top, NEW x, x \notin top
  PROVE  Cardinality((top \ {y}) \cup {x}) = Cardinality(top)
<1>1. IsFiniteSet(top \ {y}) /\ Cardinality(top \ {y}) = Cardinality(top) - 1
  BY FS_RemoveElement
<1>2. Cardinality((top \ {y}) \cup {x}) = Cardinality(top) - 1 + 1
  BY <1>1, FS_AddElement
<1>3. Cardinality(top) \in Nat
  BY FS_CardinalityType
<1> QED BY <1>2, <1>3

\* The latest openings when another arrives that is the latest of its guide.
LEMMA LatestWith ==
  ASSUME NEW s, NEW x, History(s \cup {x}), x \notin s,
         \A y \in s : y.documentId = x.documentId => Newer(x, y)
  PROVE  Latest(s \cup {x}) = {e \in Latest(s) : e.documentId # x.documentId} \cup {x}
<1>1. \A y \in s : Newer(x, y) => ~Newer(y, x)
  BY NewerIsStrict DEF History
<1>2. x \in Latest(s \cup {x})
  BY DEF Latest
<1>3. \A e \in Latest(s) : e.documentId # x.documentId => e \in Latest(s \cup {x})
  BY DEF Latest
<1>4. \A e \in Latest(s \cup {x}) : e # x => e \in Latest(s) /\ e.documentId # x.documentId
  BY <1>1 DEF Latest
<1> QED BY <1>2, <1>3, <1>4

\* An opening arrives: it takes no part in the top, or comes into it in the place
\* of its guide's earlier one, or of the oldest, or of none where there is room.
LEMMA TopOfMore ==
  ASSUME NEW s, NEW x, History(s \cup {x}), x \notin s,
         \A e \in s : e.arrival < x.arrival,
         NEW top, IsTop(top, s)
  PROVE  \E more : /\ IsTop(more, s \cup {x})
                   /\ more \subseteq top \cup {x}
                   /\ x \in more => Stored(x) \notin Says(s)
<1> DEFINE t == s \cup {x}
<1>1. History(s) /\ x \in Entry /\ s \subseteq Entry
  BY HistoryOfFewer DEF History
<1>2. Latest(s) \subseteq s /\ top \subseteq Latest(s)
  BY DEF Latest, IsTop
<1>3. IsFiniteSet(top) /\ Cardinality(top) \in Nat /\ x \notin top
  BY <1>1, <1>2, FS_Subset, FS_CardinalityType DEF History
<1>4. CASE \E y \in s : y.documentId = x.documentId /\ ~Newer(x, y)
  <2>1. PICK y \in s : y.documentId = x.documentId /\ Newer(y, x)
    BY <1>4, NewerIsTotal
  <2>2. Latest(t) = Latest(s)
    <3>1. x \notin Latest(t)
      BY <1>1, <2>1, NewerIsStrict DEF Latest
    <3>2. Latest(t) \subseteq Latest(s)
      BY <3>1 DEF Latest
    <3>3. ASSUME NEW e \in Latest(s), e.documentId = x.documentId PROVE Newer(e, x)
      <4>1. e = y \/ Newer(e, y)
        BY <2>1, <3>3 DEF Latest
      <4> QED BY <1>1, <1>2, <2>1, <4>1, NewerIsTransitive
    <3>4. Latest(s) \subseteq Latest(t)
      BY <3>3 DEF Latest
    <3> QED BY <3>2, <3>4
  <2>3. IsTop(top, t)
    BY <2>2 DEF IsTop
  <2> QED BY <1>3, <2>3
<1>5. CASE \A y \in s : y.documentId = x.documentId => Newer(x, y)
  <2>1. Latest(t) = {e \in Latest(s) : e.documentId # x.documentId} \cup {x}
    BY <1>5, LatestWith
  <2>2. Stored(x) \notin Says(s)
    <3> SUFFICES ASSUME NEW e \in s, Stored(e) = Stored(x) PROVE FALSE
      BY DEF Says
    <3>1. e.documentId = x.documentId /\ e.openedAt = x.openedAt
      BY DEF Stored
    <3>2. Newer(e, x)
      BY <3>1 DEF Newer
    <3> QED BY <1>1, <1>5, <3>1, <3>2, NewerIsStrict
  <2> HIDE DEF t
  <2>3. CASE \E y \in top : y.documentId = x.documentId
    <3>1. PICK y \in top : y.documentId = x.documentId
      BY <2>3
    <3> DEFINE more == (top \ {y}) \cup {x}
    <3>2. \A e \in Latest(s) : e.documentId = x.documentId => e = y
      BY <1>1, <1>2, <3>1, LatestIsOne
    <3>3. more \subseteq Latest(t)
      BY <1>2, <2>1, <3>2
    <3>4. ASSUME NEW e \in more, NEW d \in Latest(t), Newer(d, e), d # x PROVE d \in more
      <4>1. d \in Latest(s) /\ d # y
        BY <2>1, <3>1, <3>4
      <4>2. CASE e = x
        <5>1. Newer(x, y)
          BY <1>2, <1>5, <3>1
        <5>2. Newer(d, y)
          BY <1>1, <1>2, <3>1, <3>4, <4>1, <4>2, <5>1, NewerIsTransitive
        <5> QED BY <3>1, <4>1, <5>2 DEF IsTop
      <4>3. CASE e # x
        BY <3>4, <4>1, <4>3 DEF IsTop
      <4> QED BY <4>2, <4>3
    <3>5. Cardinality(more) = Cardinality(top)
      BY <1>3, Exchange
    <3>6. top = Latest(s) => more = Latest(t)
      BY <2>1, <3>1, <3>2
    <3>7. IsTop(more, t)
      <4> HIDE DEF more
      <4>1. \A e \in more, d \in Latest(t) : Newer(d, e) => d \in more
        BY <3>4 DEF more
      <4> QED BY <3>3, <3>5, <3>6, <4>1 DEF IsTop
    <3> QED BY <2>2, <3>7 DEF t
  <2>4. CASE /\ ~\E y \in top : y.documentId = x.documentId
             /\ Cardinality(top) # RECENTLY_OPENED_KEPT
    <3>1. top = Latest(s)
      BY <2>4 DEF IsTop
    <3>2. top \cup {x} = Latest(t)
      BY <2>1, <2>4, <3>1
    <3>3. Cardinality(top \cup {x}) = Cardinality(top) + 1
      BY <1>3, FS_AddElement
    <3>4. Cardinality(top \cup {x}) <= RECENTLY_OPENED_KEPT
      BY <1>3, <2>4, <3>3, OpenedAssumption DEF IsTop
    <3>5. IsTop(top \cup {x}, t)
      BY <3>2, <3>4 DEF IsTop
    <3> QED BY <2>2, <3>5 DEF t
  <2>5. CASE /\ ~\E y \in top : y.documentId = x.documentId
             /\ Cardinality(top) = RECENTLY_OPENED_KEPT
             /\ \A d \in top : Newer(d, x)
    <3>1. top \subseteq Latest(t)
      BY <1>2, <2>1, <2>5
    <3>2. \A e \in top : ~Newer(x, e)
      BY <1>1, <1>2, <2>5, NewerIsStrict
    <3>3. \A e \in top, d \in Latest(t) : Newer(d, e) => d \in top
      BY <2>1, <3>2 DEF IsTop
    <3>4. IsTop(top, t)
      BY <2>5, <3>1, <3>3 DEF IsTop
    <3> QED BY <1>3, <3>4 DEF t
  <2>6. CASE /\ ~\E y \in top : y.documentId = x.documentId
             /\ Cardinality(top) = RECENTLY_OPENED_KEPT
             /\ \E d \in top : ~Newer(d, x)
    <3>1. PICK d0 \in top : ~Newer(d0, x)
      BY <2>6
    <3>2. PICK z \in top : \A d \in top : d = z \/ Newer(d, z)
      BY <1>1, <1>2, <3>1, OldestExists, HistoryOfFewer
    <3>3. Newer(x, d0)
      BY <1>2, <1>3, <3>1, NewerIsTotal
    <3>4. Newer(x, z)
      BY <1>1, <1>2, <3>2, <3>3, NewerIsTransitive
    <3> DEFINE more == (top \ {z}) \cup {x}
    <3>5. more \subseteq Latest(t)
      BY <1>2, <2>1, <2>6
    <3>6. ASSUME NEW e \in more, NEW d \in Latest(t), Newer(d, e), d # x PROVE d \in more
      <4>1. d \in Latest(s) /\ d \in Entry /\ z \in Entry
        BY <1>1, <1>2, <2>1, <3>6
      <4>2. CASE e = x
        <5>1. Newer(d, z)
          BY <1>1, <3>4, <3>6, <4>1, <4>2, NewerIsTransitive
        <5>2. d \in top /\ d # z
          BY <4>1, <5>1, NewerIsStrict DEF IsTop
        <5> QED BY <5>2
      <4>3. CASE e # x
        <5>1. e \in top /\ e \in Entry /\ Newer(e, z)
          BY <1>1, <1>2, <3>2, <3>6, <4>3
        <5>2. d \in top
          BY <3>6, <4>1, <5>1 DEF IsTop
        <5>3. d # z
          BY <3>6, <4>1, <5>1, NewerIsStrict
        <5> QED BY <5>2, <5>3
      <4> QED BY <4>2, <4>3
    <3>7. Cardinality(more) = RECENTLY_OPENED_KEPT
      BY <1>3, <2>6, Exchange
    <3>8. IsTop(more, t)
      <4>1. \A e \in more, d \in Latest(t) : Newer(d, e) => d \in more
        BY <3>6
      <4> HIDE DEF more
      <4> QED BY <3>5, <3>7, <4>1, OpenedAssumption DEF IsTop
    <3> QED BY <2>2, <3>8 DEF t
  <2> QED BY <2>3, <2>4, <2>5, <2>6
<1> QED BY <1>4, <1>5

-----------------------------------------------------------------------------
(* The record                                                              *)

\* Arrivals are numbered in turn.
Numbered ==
  /\ IsFiniteSet(arrived)
  /\ \A e \in arrived : e.arrival <= Cardinality(arrived)
  /\ \A d, e \in arrived : d.arrival = e.arrival => d = e

\* A handler about to push has an opening of a guide that exists.
Asking ==
  \A r \in Visits :
    visit[r].pc = "pushing" =>
      visit[r].opening # <<>> /\ Head(visit[r].opening).documentId \in Existing

\* The list of every opening is its top; the record holds all of it, and what is
\* to be pulled says nothing that the list says.
TopIsKept ==
  /\ openings \subseteq arrived
  /\ IsTop(Listed(arrived), arrived)
  /\ Listed(arrived) \subseteq openings
  /\ \A r \in Visits : visit[r].surplus \subseteq Says(arrived) \ Says(Listed(arrived))

OpeningInv == OpeningTypeOK /\ Numbered /\ Asking /\ TopIsKept /\ SurplusIsPulled

\* What has arrived is told apart by its arrivals.
LEMMA ArrivedIsHistory == OpeningInv => History(arrived)
BY DEF OpeningInv, OpeningTypeOK, Numbered, History

\* The record's list is that of every opening.
LEMMA KeptIsListed ==
  ASSUME History(arrived), TopIsKept
  PROVE  Listed(openings) = Listed(arrived)
<1>1. IsTop(Listed(arrived), openings)
  BY TopOfFewer DEF TopIsKept
<1>2. History(openings)
  BY HistoryOfFewer DEF TopIsKept
<1> QED BY <1>1, <1>2, TopIsListed

\* The surplus is what the list does not say.
LEMMA SurplusSays == \A s : Surplus(s) = Says(s) \ Says(Listed(s))
BY DEF Surplus, Says

\* The opening that arrives has a number of its own.
LEMMA ArrivingIsNew ==
  ASSUME OpeningInv, NEW r \in Visits, visit[r].pc = "pushing"
  PROVE  /\ Arriving(r) \in Entry /\ Arriving(r).documentId \in Existing
         /\ Arriving(r) \notin arrived
         /\ \A e \in arrived : e.arrival < Arriving(r).arrival
         /\ Arriving(r).arrival = Cardinality(arrived) + 1
<1> DEFINE opening == Head(visit[r].opening)
<1>1. visit[r].opening \in Seq(Opened) /\ visit[r].opening # <<>>
  BY DEF OpeningInv, OpeningTypeOK, OpeningHandler, Asking
<1>2. opening \in Opened /\ opening.documentId \in Existing
  BY <1>1 DEF OpeningInv, Asking
<1>3. Cardinality(arrived) \in Nat
  BY FS_CardinalityType DEF OpeningInv, Numbered
<1>4. Arriving(r) = [documentId |-> opening.documentId, openedAt |-> opening.openedAt,
                     arrival |-> Cardinality(arrived) + 1]
  BY DEF Arriving
<1> HIDE DEF opening
<1>5. Arriving(r) \in Entry
  BY <1>2, <1>3, <1>4 DEF Entry, Opened
<1>6. /\ Arriving(r).documentId = opening.documentId
      /\ Arriving(r).arrival = Cardinality(arrived) + 1
  BY <1>4
<1>7. \A e \in arrived : e.arrival \in Nat /\ e.arrival <= Cardinality(arrived)
  BY EntryHasNumbers DEF OpeningInv, OpeningTypeOK, Numbered
<1>8. \A e \in arrived : e.arrival < Arriving(r).arrival
  BY <1>3, <1>6, <1>7
<1>9. Arriving(r) \notin arrived
  BY <1>3, <1>6, <1>8
<1> QED BY <1>2, <1>5, <1>6, <1>8, <1>9

\* An opening reaches the database: the top takes it in or does not, and what
\* others are to pull is out of the top still.
LEMMA ArrivalKeeps ==
  ASSUME OpeningInv, NEW r \in Visits, visit[r].pc = "pushing",
         openings' = openings \cup {Arriving(r)},
         arrived' = arrived \cup {Arriving(r)}
  PROVE  /\ openings' \subseteq {entry \in Entry : entry.documentId \in Existing}
         /\ arrived' \subseteq Entry
         /\ Numbered' /\ History(arrived)'
         /\ openings' \subseteq arrived'
         /\ IsTop(Listed(arrived'), arrived')
         /\ Listed(arrived') \subseteq openings'
         /\ \A q \in Visits :
              visit[q].surplus \subseteq Says(arrived') \ Says(Listed(arrived'))
<1> DEFINE x == Arriving(r)
<1>1. /\ x \in Entry /\ x.documentId \in Existing /\ x \notin arrived
      /\ \A e \in arrived : e.arrival < x.arrival
      /\ x.arrival = Cardinality(arrived) + 1
  BY ArrivingIsNew
<1> HIDE DEF x
<1>2. openings' = openings \cup {x} /\ arrived' = arrived \cup {x}
  BY DEF x
<1>3. Cardinality(arrived) \in Nat /\ IsFiniteSet(arrived)
  BY FS_CardinalityType DEF OpeningInv, Numbered
<1>4. \A e \in arrived : e.arrival \in Nat
  BY EntryHasNumbers DEF OpeningInv, OpeningTypeOK
<1>5. Numbered'
  <2>1. IsFiniteSet(arrived') /\ Cardinality(arrived') = Cardinality(arrived) + 1
    BY <1>1, <1>2, <1>3, FS_AddElement
  <2>2. \A e \in arrived' : e.arrival <= Cardinality(arrived')
    BY <1>1, <1>2, <1>3, <1>4, <2>1 DEF OpeningInv, Numbered
  <2>3. \A d, e \in arrived' : d.arrival = e.arrival => d = e
    BY <1>1, <1>2, <1>3, <1>4 DEF OpeningInv, Numbered
  <2> QED BY <2>1, <2>2, <2>3 DEF Numbered
<1>6. arrived' \subseteq Entry /\ History(arrived)'
  BY <1>1, <1>2, <1>5 DEF OpeningInv, OpeningTypeOK, Numbered, History
<1>7. PICK top : /\ IsTop(top, arrived')
                 /\ top \subseteq Listed(arrived) \cup {x}
                 /\ x \in top => Stored(x) \notin Says(arrived)
  <2>1. History(arrived \cup {x})
    BY <1>2, <1>6 DEF History
  <2>2. IsTop(Listed(arrived), arrived)
    BY DEF OpeningInv, TopIsKept
  <2>3. \E more : /\ IsTop(more, arrived \cup {x})
                  /\ more \subseteq Listed(arrived) \cup {x}
                  /\ x \in more => Stored(x) \notin Says(arrived)
    BY <1>1, <2>1, <2>2, TopOfMore
  <2> QED BY <1>2, <2>3
<1>8. top = Listed(arrived')
  BY <1>6, <1>7, TopIsListed DEF History
<1>9. Listed(arrived') \subseteq openings' /\ openings' \subseteq arrived'
  BY <1>2, <1>7, <1>8 DEF OpeningInv, TopIsKept
<1>10. \A q \in Visits : visit[q].surplus \subseteq Says(arrived') \ Says(Listed(arrived'))
  <2> SUFFICES ASSUME NEW q \in Visits, NEW says \in visit[q].surplus
      PROVE  says \in Says(arrived') /\ says \notin Says(top)
    BY <1>8
  <2>1. says \in Says(arrived) /\ says \notin Says(Listed(arrived))
    BY DEF OpeningInv, TopIsKept
  <2>2. says \in Says(arrived')
    BY <1>2, <2>1 DEF Says
  <2>3. says \notin Says(top)
    <3> SUFFICES ASSUME NEW e \in top, says = Stored(e) PROVE FALSE
      BY DEF Says
    <3>1. CASE e = x
      BY <1>7, <2>1, <3>1
    <3>2. CASE e # x
      BY <1>7, <2>1, <3>2 DEF Says
    <3> QED BY <3>1, <3>2
  <2> QED BY <2>2, <2>3
<1>11. openings' \subseteq {entry \in Entry : entry.documentId \in Existing}
  BY <1>1, <1>2 DEF OpeningInv, OpeningTypeOK
<1> QED BY <1>5, <1>6, <1>7, <1>8, <1>9, <1>10, <1>11

-----------------------------------------------------------------------------

\* Nothing has been opened: the list of nothing is empty.
LEMMA OpeningsBegin == OpeningInit => OpeningInv
<1> SUFFICES ASSUME OpeningInit PROVE OpeningInv
  OBVIOUS
<1>1. OpeningTypeOK
  BY DEF OpeningInit, OpeningTypeOK, OpeningHandler
<1>2. Numbered /\ Asking
  BY FS_EmptySet DEF OpeningInit, Numbered, Asking
<1>3. Latest({}) = {} /\ Listed({}) = {}
  BY DEF Latest, Listed
<1>4. IsTop({}, {})
  BY <1>3, FS_EmptySet, OpenedAssumption DEF IsTop
<1>5. TopIsKept
  BY <1>3, <1>4 DEF OpeningInit, TopIsKept
<1>6. SurplusIsPulled
  BY DEF OpeningInit, SurplusIsPulled, Surplus
<1> QED BY <1>1, <1>2, <1>5, <1>6 DEF OpeningInv

\* A request that sees whether its guide exists pushes nothing yet.
LEMMA OpenKeeps == ASSUME OpeningInv, NEW r \in Visits, Open(r) PROVE OpeningInv'
<1> USE DEF OpeningInv
<1>1. PICK guide \in Guides, now \in Times :
        visit' = [visit EXCEPT ![r].pc = IF guide \in Existing THEN "pushing" ELSE "refused",
                               ![r].opening = <<[documentId |-> guide, openedAt |-> now]>>]
  BY DEF Open
<1> DEFINE opening == [documentId |-> guide, openedAt |-> now]
<1>2. UNCHANGED <<openings, arrived>> /\ visit[r].pc = "idle"
  BY DEF Open
<1>3. opening \in Opened /\ <<opening>> \in Seq(Opened) /\ <<opening>> # <<>>
      /\ Head(<<opening>>) = opening /\ opening.documentId = guide
  BY DEF Opened
<1>4. /\ visit' = [visit EXCEPT ![r].pc = IF guide \in Existing THEN "pushing" ELSE "refused",
                                ![r].opening = <<opening>>]
      /\ visit \in [Visits -> OpeningHandler]
  BY <1>1 DEF OpeningTypeOK
<1> HIDE DEF opening
<1>5. /\ visit' \in [Visits -> OpeningHandler]
      /\ \A q \in Visits : visit'[q].surplus = visit[q].surplus
      /\ \A q \in Visits \ {r} : visit'[q] = visit[q]
      /\ visit'[r].opening = <<opening>>
      /\ visit'[r].pc = IF guide \in Existing THEN "pushing" ELSE "refused"
  BY <1>3, <1>4 DEF OpeningHandler
<1>6. OpeningTypeOK'
  BY <1>2, <1>5 DEF OpeningTypeOK
<1>7. Numbered' /\ TopIsKept'
  BY <1>2, <1>5 DEF Numbered, TopIsKept
<1>8. Asking'
  BY <1>3, <1>5 DEF Asking
<1>9. SurplusIsPulled'
  BY <1>2, <1>5 DEF SurplusIsPulled
<1> QED BY <1>6, <1>7, <1>8, <1>9

\* A push keeps the invariant, by ArrivalKeeps.
LEMMA PushKeeps == ASSUME OpeningInv, NEW r \in Visits, Push(r) PROVE OpeningInv'
<1> DEFINE surplus == Surplus(openings')
           step == IF surplus = {} THEN "done" ELSE "pulling"
<1>1. /\ visit[r].pc = "pushing" /\ visit \in [Visits -> OpeningHandler]
      /\ openings' = openings \cup {Arriving(r)}
      /\ arrived' = arrived \cup {Arriving(r)}
      /\ visit' = [visit EXCEPT ![r].surplus = surplus, ![r].pc = step]
  BY DEF Push, OpeningInv, OpeningTypeOK
<1>2. /\ openings' \subseteq {entry \in Entry : entry.documentId \in Existing}
      /\ arrived' \subseteq Entry
      /\ Numbered' /\ History(arrived)'
      /\ openings' \subseteq arrived'
      /\ IsTop(Listed(arrived'), arrived')
      /\ Listed(arrived') \subseteq openings'
      /\ \A q \in Visits :
           visit[q].surplus \subseteq Says(arrived') \ Says(Listed(arrived'))
  BY <1>1, ArrivalKeeps
<1>3. Listed(openings') = Listed(arrived')
  <2>1. History(arrived') /\ IsTop(Listed(arrived'), openings')
    BY <1>2, TopOfFewer DEF History
  <2> QED BY <1>2, <2>1, TopIsListed, HistoryOfFewer
<1>4. surplus \subseteq Says(arrived') \ Says(Listed(arrived')) /\ surplus \subseteq Opened
  <2>1. surplus = Says(openings') \ Says(Listed(arrived'))
    BY <1>3, SurplusSays
  <2>2. Says(openings') \subseteq Says(arrived')
    BY <1>2 DEF Says
  <2>3. Says(arrived') \subseteq Opened
    BY <1>2 DEF Says, Stored, Opened, Entry
  <2> QED BY <2>1, <2>2, <2>3
<1>5. step \in {"done", "pulling"} /\ (surplus # {} => step = "pulling")
  OBVIOUS
<1> HIDE DEF surplus, step
<1>6. /\ visit' \in [Visits -> OpeningHandler]
      /\ \A q \in Visits \ {r} : visit'[q] = visit[q]
      /\ visit'[r].surplus = surplus /\ visit'[r].pc = step
  BY <1>1, <1>4, <1>5 DEF OpeningHandler
<1>7. OpeningTypeOK'
  BY <1>2, <1>6 DEF OpeningTypeOK
<1>8. Asking'
  BY <1>5, <1>6 DEF OpeningInv, Asking
<1>9. TopIsKept'
  BY <1>2, <1>4, <1>6 DEF TopIsKept
<1>10. SurplusIsPulled'
  BY <1>5, <1>6 DEF SurplusIsPulled, surplus
<1> QED BY <1>2, <1>7, <1>8, <1>9, <1>10 DEF OpeningInv

\* A pull takes nothing of the list, and what it takes needs no pull any more.
LEMMA PulledKeeps ==
  ASSUME OpeningInv, NEW r \in Visits, visit[r].pc = "pulling",
         arrived' = arrived, openings' = Pulled(openings, visit[r].surplus)
  PROVE  /\ openings' \subseteq openings
         /\ Listed(arrived) \subseteq openings'
         /\ Surplus(openings') \subseteq Surplus(openings) \ visit[r].surplus
<1>1. openings' \subseteq openings
  BY DEF Pulled
<1>2. Listed(arrived) \subseteq openings'
  <2> SUFFICES ASSUME NEW e \in Listed(arrived) PROVE Stored(e) \notin visit[r].surplus
    BY DEF Pulled, OpeningInv, TopIsKept
  <2> QED BY DEF OpeningInv, TopIsKept, Says
<1>3. History(arrived)
  BY ArrivedIsHistory
<1>4. Listed(openings) = Listed(arrived)
  BY <1>3, KeptIsListed DEF OpeningInv
<1>5. Listed(openings') = Listed(arrived)
  <2>1. IsTop(Listed(arrived), openings')
    BY <1>1, <1>2, <1>3, TopOfFewer DEF OpeningInv, TopIsKept
  <2>2. History(openings')
    BY <1>1, <1>3, HistoryOfFewer DEF OpeningInv, TopIsKept
  <2> QED BY <2>1, <2>2, TopIsListed
<1>6. Says(openings') \subseteq Says(openings) \ visit[r].surplus
  BY DEF Says, Pulled
<1>7. /\ Surplus(openings') = Says(openings') \ Says(Listed(openings'))
      /\ Surplus(openings) = Says(openings) \ Says(Listed(openings))
  BY SurplusSays
<1> QED BY <1>1, <1>2, <1>4, <1>5, <1>6, <1>7

\* A pull takes out nothing that the list says.
LEMMA PullKeeps == ASSUME OpeningInv, NEW r \in Visits, Pull(r) PROVE OpeningInv'
<1>1. /\ visit[r].pc = "pulling" /\ visit \in [Visits -> OpeningHandler]
      /\ openings' = Pulled(openings, visit[r].surplus)
      /\ visit' = [visit EXCEPT ![r].pc = "done", ![r].surplus = {}]
      /\ arrived' = arrived
  BY DEF Pull, OpeningInv, OpeningTypeOK
<1>2. /\ openings' \subseteq openings /\ Listed(arrived) \subseteq openings'
      /\ Surplus(openings') \subseteq Surplus(openings) \ visit[r].surplus
  BY <1>1, PulledKeeps
<1>3. /\ visit' \in [Visits -> OpeningHandler]
      /\ \A q \in Visits \ {r} : visit'[q] = visit[q]
      /\ visit'[r].surplus = {} /\ visit'[r].pc = "done"
  BY <1>1 DEF OpeningHandler
<1>4. OpeningTypeOK' /\ Numbered'
  BY <1>1, <1>2, <1>3 DEF OpeningInv, OpeningTypeOK, Numbered
<1>5. Asking'
  BY <1>3 DEF OpeningInv, Asking
<1>6. TopIsKept'
  BY <1>1, <1>2, <1>3 DEF OpeningInv, TopIsKept
<1>7. SurplusIsPulled'
  <2> SUFFICES ASSUME NEW opened \in Surplus(openings')
      PROVE  \E q \in Visits : \/ visit'[q].pc = "pulling" /\ opened \in visit'[q].surplus
                               \/ visit'[q].pc = "failed"
    BY DEF SurplusIsPulled
  <2>1. opened \in Surplus(openings) /\ opened \notin visit[r].surplus
    BY <1>2
  <2>2. PICK q \in Visits : \/ visit[q].pc = "pulling" /\ opened \in visit[q].surplus
                            \/ visit[q].pc = "failed"
    BY <2>1 DEF OpeningInv, SurplusIsPulled
  <2>3. q # r
    BY <1>1, <2>1, <2>2
  <2> QED BY <1>3, <2>2, <2>3
<1> QED BY <1>4, <1>5, <1>6, <1>7 DEF OpeningInv

\* A request has failed, which SurplusIsPulled allows for, whatever was written.
LEMMA FailureKeeps ==
  ASSUME OpeningInv, NEW r \in Visits, PullFails(r) \/ PushFails(r)
  PROVE  OpeningInv'
<1>1. /\ visit' = [visit EXCEPT ![r].pc = "failed"]
      /\ visit \in [Visits -> OpeningHandler]
  BY DEF PullFails, PushFails, OpeningInv, OpeningTypeOK
<1>2. /\ visit' \in [Visits -> OpeningHandler]
      /\ \A q \in Visits : visit'[q].surplus = visit[q].surplus
      /\ \A q \in Visits : q # r => visit'[q] = visit[q]
      /\ visit'[r].pc = "failed"
  BY <1>1 DEF OpeningHandler
<1>3. SurplusIsPulled'
  BY <1>2 DEF SurplusIsPulled
<1>4. Asking'
  BY <1>2 DEF OpeningInv, Asking
<1>5. CASE UNCHANGED <<openings, arrived>>
  <2>1. OpeningTypeOK' /\ Numbered' /\ TopIsKept'
    BY <1>2, <1>5 DEF OpeningInv, OpeningTypeOK, Numbered, TopIsKept
  <2> QED BY <1>3, <1>4, <2>1 DEF OpeningInv
<1>6. CASE /\ visit[r].pc = "pulling" /\ arrived' = arrived
           /\ openings' = Pulled(openings, visit[r].surplus)
  <2>1. openings' \subseteq openings /\ Listed(arrived) \subseteq openings'
    BY <1>6, PulledKeeps
  <2>2. OpeningTypeOK' /\ Numbered' /\ TopIsKept'
    BY <1>2, <1>6, <2>1 DEF OpeningInv, OpeningTypeOK, Numbered, TopIsKept
  <2> QED BY <1>3, <1>4, <2>2 DEF OpeningInv
<1>7. CASE /\ visit[r].pc = "pushing"
           /\ openings' = openings \cup {Arriving(r)}
           /\ arrived' = arrived \cup {Arriving(r)}
  <2>1. /\ openings' \subseteq {entry \in Entry : entry.documentId \in Existing}
        /\ arrived' \subseteq Entry
        /\ Numbered' /\ openings' \subseteq arrived'
        /\ IsTop(Listed(arrived'), arrived')
        /\ Listed(arrived') \subseteq openings'
        /\ \A q \in Visits :
             visit[q].surplus \subseteq Says(arrived') \ Says(Listed(arrived'))
    BY <1>7, ArrivalKeeps
  <2>2. OpeningTypeOK' /\ TopIsKept'
    BY <1>2, <2>1 DEF OpeningTypeOK, TopIsKept
  <2> QED BY <1>3, <1>4, <2>1, <2>2 DEF OpeningInv
<1> QED BY <1>5, <1>6, <1>7 DEF PullFails, PushFails

\* The invariant is inductive.
LEMMA OpeningStep == OpeningInv /\ [OpeningNext]_openingVars => OpeningInv'
<1> SUFFICES ASSUME OpeningInv, [OpeningNext]_openingVars PROVE OpeningInv'
  OBVIOUS
<1>1. CASE UNCHANGED openingVars
  BY <1>1 DEF openingVars, OpeningInv, OpeningTypeOK, Numbered, Asking, TopIsKept, SurplusIsPulled
<1> QED BY <1>1, OpenKeeps, PushKeeps, PullKeeps, FailureKeeps DEF OpeningNext

\* The invariant holds throughout.
LEMMA OpeningInvariance == OpeningSpec => []OpeningInv
  BY OpeningsBegin, OpeningStep, PTL DEF OpeningSpec

\* The record holds openings of guides that exist, and each handler is at a step.
THEOREM OpeningTypeCorrect == OpeningSpec => []OpeningTypeOK
<1>1. OpeningInv => OpeningTypeOK
  BY DEF OpeningInv
<1> QED BY OpeningInvariance, <1>1, PTL

\* Whatever order openings and pulls come in and whichever fail, the list is what
\* it would be had nothing ever been pulled.
THEOREM ListIsWhole == OpeningSpec => []ListIsOfEveryOpening
<1>1. OpeningInv => ListIsOfEveryOpening
  BY ArrivedIsHistory, KeptIsListed DEF OpeningInv, ListIsOfEveryOpening
<1> QED BY OpeningInvariance, <1>1, PTL

\* What the list does not show is about to be pulled, unless a request failed.
THEOREM RecordStaysSmall == OpeningSpec => []SurplusIsPulled
<1>1. OpeningInv => SurplusIsPulled
  BY DEF OpeningInv
<1> QED BY OpeningInvariance, <1>1, PTL

-----------------------------------------------------------------------------
(* Signing in                                                              *)

\* Users are told apart by their identities.
OneUserPerIdentity ==
  \A u, v \in users : u.identity = v.identity => u = v

\* Each answer is the user on record for the identity that asked.
AnswersAreOnRecord ==
  \A r \in SignIns : \A answered \in signIn[r].answer :
    \E user \in users : /\ user.id = answered.id
                        /\ user.identity = signIn[r].identity

SignInInv == SignInTypeOK /\ OneUserPerIdentity /\ AnswersAreOnRecord

\* The collection starts empty.
LEMMA SignInsBegin == SignInInit => SignInInv
  BY DEF SignInInit, SignInInv, SignInTypeOK, SignInHandler, User,
         OneUserPerIdentity, AnswersAreOnRecord

\* A user found and refreshed stays the one user of the identity, under the
\* same id.
LEMMA RefreshInv ==
  ASSUME SignInInv, NEW r \in SignIns, Refresh(r)
  PROVE  SignInInv'
<1> USE DEF SignInInv
<1>1. PICK user \in Found(r) :
        LET named == [user EXCEPT !.displayName = signIn[r].name]
        IN  /\ users' = (users \ {user}) \cup {named}
            /\ signIn' = AnswerWith(r, named)
  BY DEF Refresh
<1> DEFINE named == [user EXCEPT !.displayName = signIn[r].name]
<1>2. user \in users /\ user.identity = signIn[r].identity
  BY <1>1 DEF Found
<1>3. /\ named \in User /\ named.id = user.id /\ named.identity = user.identity
      /\ user \in User
  BY <1>2 DEF SignInTypeOK, User, SignInHandler
<1>4. users' = (users \ {user}) \cup {named}
  BY <1>1
<1>5. signIn' = [signIn EXCEPT ![r].pc = "answered", ![r].answer = {named}]
  BY <1>1 DEF AnswerWith
<1> HIDE DEF named
<1>6. SignInTypeOK'
  <2>1. users' \in SUBSET User
    BY <1>3, <1>4 DEF SignInTypeOK
  <2>2. signIn' \in [SignIns -> SignInHandler]
    BY <1>3, <1>5 DEF SignInTypeOK, SignInHandler
  <2> QED BY <2>1, <2>2 DEF SignInTypeOK
<1>7. OneUserPerIdentity'
  BY <1>2, <1>3, <1>4 DEF OneUserPerIdentity
<1>8. AnswersAreOnRecord'
  <2> SUFFICES ASSUME NEW q \in SignIns, NEW answered \in signIn'[q].answer
               PROVE  \E u \in users' : /\ u.id = answered.id
                                        /\ u.identity = signIn'[q].identity
    BY DEF AnswersAreOnRecord
  <2>1. signIn'[q].identity = signIn[q].identity
    BY <1>5 DEF SignInTypeOK, SignInHandler
  <2>2. CASE q = r
    <3>1. answered = named
      BY <1>5, <2>2 DEF SignInTypeOK, SignInHandler
    <3> QED BY <1>2, <1>3, <1>4, <2>1, <2>2, <3>1
  <2>3. CASE q # r
    <3>1. answered \in signIn[q].answer
      BY <1>5, <2>3 DEF SignInTypeOK
    <3>2. PICK u \in users : u.id = answered.id /\ u.identity = signIn[q].identity
      BY <3>1 DEF AnswersAreOnRecord
    <3> QED BY <1>3, <1>4, <2>1, <3>2
  <2> QED BY <2>2, <2>3
<1> QED BY <1>6, <1>7, <1>8

\* A user inserted is the only one of the identity: the index refuses another.
LEMMA InsertedInv ==
  ASSUME SignInInv, NEW r \in SignIns, Found(r) = {},
         users' = users \cup {NewUser(r)},
         NEW end \in {"answered", "failed"},
         NEW given \in {{}, {NewUser(r)}},
         signIn' = [signIn EXCEPT ![r].pc = end,
                                  ![r].answer = IF given = {} THEN @ ELSE given]
  PROVE  SignInInv'
<1> USE DEF SignInInv
<1>1. /\ NewUser(r) \in User /\ NewUser(r).id = r
      /\ NewUser(r).identity = signIn[r].identity
  BY DEF NewUser, SignInTypeOK, SignInHandler, User
<1>2. SignInTypeOK'
  <2>1. users' \in SUBSET User
    BY <1>1 DEF SignInTypeOK
  <2>2. \A answer \in SUBSET User : (IF given = {} THEN answer ELSE given) \in SUBSET User
    BY <1>1
  <2>3. signIn' \in [SignIns -> SignInHandler]
    BY <2>2 DEF SignInTypeOK, SignInHandler
  <2> QED BY <2>1, <2>3 DEF SignInTypeOK
<1>3. OneUserPerIdentity'
  BY <1>1 DEF OneUserPerIdentity, Found
<1>4. AnswersAreOnRecord'
  <2> SUFFICES ASSUME NEW q \in SignIns, NEW answered \in signIn'[q].answer
               PROVE  \E u \in users' : /\ u.id = answered.id
                                        /\ u.identity = signIn'[q].identity
    BY DEF AnswersAreOnRecord
  <2>1. signIn'[q].identity = signIn[q].identity
    BY DEF SignInTypeOK, SignInHandler
  <2>2. answered \in signIn[q].answer \/ (q = r /\ answered = NewUser(r))
    BY DEF SignInTypeOK, SignInHandler
  <2> QED BY <1>1, <2>1, <2>2 DEF AnswersAreOnRecord
<1> QED BY <1>2, <1>3, <1>4

\* A step that only moves a handler on disturbs neither users nor answers.
LEMMA MovedInv ==
  ASSUME SignInInv, NEW r \in SignIns, UNCHANGED users,
         NEW next \in {"looking", "inserting", "finding", "failed"},
         signIn' = [signIn EXCEPT ![r].pc = next]
  PROVE  SignInInv'
<1>1. SignInTypeOK'
  BY DEF SignInInv, SignInTypeOK, SignInHandler
<1>2. \A q \in SignIns : /\ signIn'[q].answer = signIn[q].answer
                         /\ signIn'[q].identity = signIn[q].identity
  BY DEF SignInInv, SignInTypeOK, SignInHandler
<1> QED BY <1>1, <1>2 DEF SignInInv, OneUserPerIdentity, AnswersAreOnRecord

\* The invariant is inductive.
LEMMA SignInStep == SignInInv /\ [SignInNext]_signInVars => SignInInv'
<1> SUFFICES ASSUME SignInInv, [SignInNext]_signInVars PROVE SignInInv'
  OBVIOUS
<1>1. ASSUME NEW r \in SignIns, Look(r) PROVE SignInInv'
  <2>1. CASE Refresh(r)
    BY <2>1, RefreshInv
  <2>2. CASE /\ signIn' = [signIn EXCEPT ![r].pc = "inserting"]
             /\ UNCHANGED users
    BY <2>2, MovedInv
  <2> QED BY <1>1, <2>1, <2>2 DEF Look
<1>2. ASSUME NEW r \in SignIns, Insert(r) PROVE SignInInv'
  <2>1. /\ Found(r) = {} /\ users' = users \cup {NewUser(r)}
        /\ signIn' = [signIn EXCEPT ![r].pc = "answered", ![r].answer = {NewUser(r)}]
    BY <1>2 DEF Insert, AnswerWith
  <2>2. signIn' = [signIn EXCEPT ![r].pc = "answered",
                      ![r].answer = IF {NewUser(r)} = {} THEN @ ELSE {NewUser(r)}]
    BY <2>1
  <2> QED BY <2>1, <2>2, InsertedInv
<1>3. ASSUME NEW r \in SignIns, InsertLoses(r) PROVE SignInInv'
  BY <1>3, MovedInv DEF InsertLoses
<1>4. ASSUME NEW r \in SignIns, FindAgain(r) PROVE SignInInv'
  BY <1>4, RefreshInv DEF FindAgain
<1>5. ASSUME NEW r \in SignIns, Fail(r) PROVE SignInInv'
  <2>1. signIn' = [signIn EXCEPT ![r].pc = "failed"]
    BY <1>5 DEF Fail
  <2>2. CASE UNCHANGED users
    BY <2>1, <2>2, MovedInv
  <2>3. CASE Found(r) = {} /\ users' = users \cup {NewUser(r)}
    <3>1. signIn' = [signIn EXCEPT ![r].pc = "failed",
                        ![r].answer = IF {} = {} THEN @ ELSE {}]
      BY <2>1 DEF SignInInv, SignInTypeOK, SignInHandler
    <3> QED BY <2>3, <3>1, InsertedInv
  <2> QED BY <1>5, <2>2, <2>3 DEF Fail
<1>6. CASE UNCHANGED signInVars
  BY <1>6 DEF signInVars, SignInInv, SignInTypeOK, OneUserPerIdentity, AnswersAreOnRecord
<1> QED BY <1>1, <1>2, <1>3, <1>4, <1>5, <1>6 DEF SignInNext

\* The invariant says that answers agree.
LEMMA InvAgrees == SignInInv => SignInsAgree
<1> SUFFICES ASSUME SignInInv, NEW r \in SignIns, NEW answered \in signIn[r].answer
             PROVE  /\ answered.id \in {user.id : user \in Found(r)}
                    /\ \A q \in SignIns : signIn[q].identity = signIn[r].identity =>
                         \A other \in signIn[q].answer : other.id = answered.id
  BY DEF SignInsAgree
<1>1. PICK u \in users : u.id = answered.id /\ u.identity = signIn[r].identity
  BY DEF SignInInv, AnswersAreOnRecord
<1>2. answered.id \in {user.id : user \in Found(r)}
  BY <1>1 DEF Found
<1>3. ASSUME NEW q \in SignIns, signIn[q].identity = signIn[r].identity,
             NEW other \in signIn[q].answer
      PROVE  other.id = answered.id
  BY <1>1, <1>3 DEF SignInInv, AnswersAreOnRecord, OneUserPerIdentity
<1> QED BY <1>2, <1>3

\* Every variable keeps its type.
THEOREM SignInTypeCorrect == SignInSpec => []SignInTypeOK
<1>1. SignInInv => SignInTypeOK
  BY DEF SignInInv
<1> QED BY SignInsBegin, SignInStep, <1>1, PTL DEF SignInSpec

\* All sign-ins of an identity are answered the one user of that identity,
\* however many there are and however they race or fail.
THEOREM OneUserEach == SignInSpec => []SignInsAgree
  BY SignInsBegin, SignInStep, InvAgrees, PTL DEF SignInSpec

\* A user refreshed has the name of the sign-in.
LEMMA RefreshNames ==
  ASSUME SignInTypeOK, NEW r \in SignIns, Refresh(r)
  PROVE  \E user \in users' : /\ user.identity = signIn[r].identity
                             /\ user.displayName = signIn[r].name
<1>1. PICK user \in Found(r) :
        users' = (users \ {user}) \cup {[user EXCEPT !.displayName = signIn[r].name]}
  BY DEF Refresh
<1> DEFINE named == [user EXCEPT !.displayName = signIn[r].name]
<1>2. user \in User /\ user.identity = signIn[r].identity
  BY <1>1 DEF Found, SignInTypeOK
<1>3. named.identity = signIn[r].identity /\ named.displayName = signIn[r].name
  BY <1>2 DEF User
<1> QED BY <1>1, <1>3

\* A sign-in that is answered leaves its user with the name it brought, the one
\* that lost the race to make the user as well.
THEOREM NameKept == SignInSpec => NameIsRefreshed
<1>1. ASSUME SignInInv, [SignInNext]_signInVars, NEW r \in SignIns,
             signIn[r].pc # "answered", signIn'[r].pc = "answered"
      PROVE  \E user \in users' : /\ user.identity = signIn[r].identity
                                 /\ user.displayName = signIn[r].name
  <2>1. SignInTypeOK
    BY <1>1 DEF SignInInv
  <2>2. PICK q \in SignIns :
          Look(q) \/ Insert(q) \/ InsertLoses(q) \/ FindAgain(q) \/ Fail(q)
    BY <1>1 DEF SignInNext, signInVars
  <2>3. signIn \in [SignIns -> SignInHandler]
    BY <2>1 DEF SignInTypeOK
  <2>4. CASE Refresh(q)
    <3>1. q = r
      BY <1>1, <2>3, <2>4 DEF Refresh, AnswerWith
    <3> QED BY <2>1, <2>4, <3>1, RefreshNames
  <2>5. CASE Insert(q)
    <3>1. q = r
      BY <1>1, <2>3, <2>5 DEF Insert, AnswerWith
    <3>2. NewUser(r) \in users'
      BY <2>5, <3>1 DEF Insert
    <3> QED BY <3>2 DEF NewUser
  <2>6. CASE \E next \in {"looking", "inserting", "finding", "failed"} :
               signIn' = [signIn EXCEPT ![q].pc = next]
    BY <1>1, <2>3, <2>6
  <2> QED BY <2>2, <2>4, <2>5, <2>6 DEF Look, InsertLoses, FindAgain, Fail
<1>2. SignInInv /\ [SignInNext]_signInVars =>
        [\A r \in SignIns : signIn[r].pc # "answered" /\ signIn'[r].pc = "answered" =>
           \E user \in users' : /\ user.identity = signIn[r].identity
                                /\ user.displayName = signIn[r].name]_signInVars
  BY <1>1
<1> QED BY SignInsBegin, SignInStep, <1>2, PTL DEF SignInSpec, NameIsRefreshed

-----------------------------------------------------------------------------
(* Pins                                                                    *)

-----------------------------------------------------------------------------
(* Lists                                                                   *)

\* What a patch of guides comes to.
Results == [is : {"patched", "refused", "stale"}, list : Seq(Guides)]

\* A list without the guide at a position.
LEMMA RemoveAtFacts ==
  ASSUME NEW list \in Seq(Guides), NEW i \in 1..Len(list)
  PROVE  /\ RemoveAt(list, i) \in Seq(Guides)
         /\ Len(RemoveAt(list, i)) = Len(list) - 1
         /\ \A k \in 1..(Len(list) - 1) :
              RemoveAt(list, i)[k] = IF k < i THEN list[k] ELSE list[k + 1]
<1> DEFINE before == SubSeq(list, 1, i - 1)
           after == SubSeq(list, i + 1, Len(list))
<1>1. Len(list) \in Nat /\ \A k \in 1..Len(list) : list[k] \in Guides
  OBVIOUS
<1>2. /\ before \in Seq(Guides)
      /\ Len(before) = i - 1
      /\ \A k \in 1..(i - 1) : before[k] = list[k]
  <2>1. 1 \in Int /\ i - 1 \in Int /\ \A k \in 1..(i - 1) : list[k] \in Guides
    BY <1>1
  <2> QED BY <2>1, SubSeqProperties
<1>3. /\ after \in Seq(Guides)
      /\ Len(after) = Len(list) - i
      /\ \A k \in 1..(Len(list) - i) : after[k] = list[k + i]
  <2>1. i + 1 \in Int /\ Len(list) \in Int /\ \A k \in (i + 1)..Len(list) : list[k] \in Guides
    BY <1>1
  <2>2. /\ after \in Seq(Guides)
        /\ Len(after) = IF i + 1 <= Len(list) THEN Len(list) - (i + 1) + 1 ELSE 0
        /\ \A k \in 1..(Len(list) - (i + 1) + 1) : after[k] = list[i + 1 + k - 1]
    BY <2>1, SubSeqProperties
  <2> HIDE DEF after
  <2> QED BY <1>1, <2>2
<1> HIDE DEF before, after
<1>4. /\ before \o after \in Seq(Guides)
      /\ Len(before \o after) = Len(before) + Len(after)
      /\ \A k \in 1..(Len(before) + Len(after)) :
           (before \o after)[k] = IF k <= Len(before) THEN before[k] ELSE after[k - Len(before)]
  BY <1>2, <1>3, ConcatProperties
<1>5. RemoveAt(list, i) = before \o after
  BY DEF RemoveAt, before, after
<1>6. ASSUME NEW k \in 1..(Len(list) - 1)
      PROVE  (before \o after)[k] = IF k < i THEN list[k] ELSE list[k + 1]
  <2>1. CASE k < i
    BY <1>1, <1>2, <1>3, <1>4, <2>1
  <2>0. k < i \/ k >= i
    BY <1>1
  <2>2. CASE k >= i
    <3>1. k - (i - 1) \in 1..(Len(list) - i) /\ k - (i - 1) + i = k + 1
      BY <1>1, <2>2
    <3> QED BY <1>1, <1>2, <1>3, <1>4, <2>2, <3>1
  <2> QED BY <2>0, <2>1, <2>2
<1>7. Len(before \o after) = Len(list) - 1
  BY <1>1, <1>2, <1>3, <1>4
<1> QED BY <1>4, <1>5, <1>6, <1>7

\* A list with a guide put at a position.
LEMMA InsertAtFacts ==
  ASSUME NEW list \in Seq(Guides), NEW i \in 1..(Len(list) + 1), NEW guide \in Guides
  PROVE  /\ InsertAt(list, i, guide) \in Seq(Guides)
         /\ Len(InsertAt(list, i, guide)) = Len(list) + 1
         /\ \A k \in 1..(Len(list) + 1) :
              InsertAt(list, i, guide)[k] =
                IF k < i THEN list[k] ELSE IF k = i THEN guide ELSE list[k - 1]
<1> DEFINE before == SubSeq(list, 1, i - 1)
           after == SubSeq(list, i, Len(list))
<1>1. Len(list) \in Nat /\ \A k \in 1..Len(list) : list[k] \in Guides
  OBVIOUS
<1>2. /\ before \in Seq(Guides)
      /\ Len(before) = i - 1
      /\ \A k \in 1..(i - 1) : before[k] = list[k]
  <2>1. 1 \in Int /\ i - 1 \in Int /\ \A k \in 1..(i - 1) : list[k] \in Guides
    BY <1>1
  <2> QED BY <2>1, SubSeqProperties
<1>3. /\ after \in Seq(Guides)
      /\ Len(after) = Len(list) - i + 1
      /\ \A k \in 1..(Len(list) - i + 1) : after[k] = list[k + i - 1]
  <2>1. i \in Int /\ Len(list) \in Int /\ \A k \in i..Len(list) : list[k] \in Guides
    BY <1>1
  <2>2. /\ after \in Seq(Guides)
        /\ Len(after) = IF i <= Len(list) THEN Len(list) - i + 1 ELSE 0
        /\ \A k \in 1..(Len(list) - i + 1) : after[k] = list[i + k - 1]
    BY <2>1, SubSeqProperties
  <2> HIDE DEF after
  <2> QED BY <1>1, <2>2
<1> HIDE DEF before, after
<1> DEFINE front == before \o <<guide>>
<1>4. /\ <<guide>> \in Seq(Guides) /\ Len(<<guide>>) = 1 /\ <<guide>>[1] = guide
  OBVIOUS
<1>5. /\ front \in Seq(Guides)
      /\ Len(front) = i
      /\ \A k \in 1..i : front[k] = IF k < i THEN list[k] ELSE guide
  <2>1. /\ front \in Seq(Guides)
        /\ Len(front) = Len(before) + Len(<<guide>>)
        /\ \A k \in 1..(Len(before) + Len(<<guide>>)) :
             front[k] = IF k <= Len(before) THEN before[k] ELSE <<guide>>[k - Len(before)]
    BY <1>2, <1>4, ConcatProperties
  <2> HIDE DEF front
  <2>2. ASSUME NEW k \in 1..i PROVE front[k] = IF k < i THEN list[k] ELSE guide
    <3>1. CASE k < i
      BY <1>2, <1>4, <2>1, <3>1
    <3>2. CASE k = i
      <4>1. k - Len(before) = 1
        BY <1>2, <3>2
      <4> QED BY <1>2, <1>4, <2>1, <3>2, <4>1
    <3> QED BY <3>1, <3>2
  <2> QED BY <1>2, <1>4, <2>1, <2>2
<1> HIDE DEF front
<1>6. /\ front \o after \in Seq(Guides)
      /\ Len(front \o after) = Len(front) + Len(after)
      /\ \A k \in 1..(Len(front) + Len(after)) :
           (front \o after)[k] = IF k <= Len(front) THEN front[k] ELSE after[k - Len(front)]
  BY <1>3, <1>5, ConcatProperties
<1>7. InsertAt(list, i, guide) = front \o after
  BY DEF InsertAt, before, after, front
<1>8. ASSUME NEW k \in 1..(Len(list) + 1)
      PROVE  (front \o after)[k] =
               IF k < i THEN list[k] ELSE IF k = i THEN guide ELSE list[k - 1]
  <2>1. CASE k <= i
    BY <1>1, <1>3, <1>5, <1>6, <2>1
  <2>0. k <= i \/ k > i
    BY <1>1
  <2>2. CASE k > i
    <3>1. k - i \in 1..(Len(list) - i + 1) /\ k - i + i - 1 = k - 1
      BY <1>1, <2>2
    <3>2. after[k - i] = list[k - 1]
      BY <1>3, <3>1
    <3> QED BY <1>1, <1>3, <1>5, <1>6, <2>2, <3>2
  <2> QED BY <2>0, <2>1, <2>2
<1> QED BY <1>1, <1>3, <1>5, <1>6, <1>7, <1>8

\* The guide appended is one more.
LEMMA PinnedAppend ==
  ASSUME NEW list \in Seq(Guides), NEW guide \in Guides
  PROVE  Pinned(Append(list, guide)) = Pinned(list) \cup {guide}
<1>1. /\ Append(list, guide) \in Seq(Guides)
      /\ Len(Append(list, guide)) = Len(list) + 1
      /\ \A k \in 1..Len(list) : Append(list, guide)[k] = list[k]
      /\ Append(list, guide)[Len(list) + 1] = guide
  BY AppendProperties
<1>2. DOMAIN Append(list, guide) = 1..(Len(list) + 1)
  BY <1>1
<1>3. DOMAIN list = 1..Len(list) /\ Len(list) \in Nat
  OBVIOUS
<1>4. 1..(Len(list) + 1) = (1..Len(list)) \cup {Len(list) + 1}
  BY <1>3
<1> QED BY <1>1, <1>2, <1>3, <1>4 DEF Pinned

\* What an operation makes of a list is a list of guides, and only "add" pins
\* one that was not on it.
LEMMA AddMakes ==
  ASSUME NEW list \in Seq(Guides), NEW path \in Int, NEW guide \in Guides
  PROVE  /\ PatchAdd(list, path, guide) \in Results
         /\ Pinned(PatchAdd(list, path, guide).list) \subseteq Pinned(list) \cup {guide}
         /\ PatchAdd(list, path, guide).is = "patched" =>
              Pinned(list) \cup {guide} \subseteq Pinned(PatchAdd(list, path, guide).list)
<1>1. Len(list) \in Nat /\ DOMAIN list = 1..Len(list)
  OBVIOUS
<1>2. CASE path = END
  <2>1. Append(list, guide) \in Seq(Guides)
    BY AppendProperties
  <2>2. PatchAdd(list, path, guide) = Made(Append(list, guide))
    BY <1>2 DEF PatchAdd
  <2>3. Pinned(Append(list, guide)) = Pinned(list) \cup {guide}
    BY PinnedAppend
  <2> QED BY <2>1, <2>2, <2>3 DEF Made, Results
<1>3. CASE path # END /\ path \in 0..Len(list)
  <2>1. path + 1 \in 1..(Len(list) + 1)
    BY <1>1, <1>3
  <2> DEFINE made == InsertAt(list, path + 1, guide)
  <2>2. /\ made \in Seq(Guides)
        /\ Len(made) = Len(list) + 1
        /\ \A k \in 1..(Len(list) + 1) :
             made[k] = IF k < path + 1 THEN list[k] ELSE IF k = path + 1 THEN guide ELSE list[k - 1]
    <3>1. PICK i \in 1..(Len(list) + 1) : i = path + 1
      BY <2>1
    <3>2. /\ InsertAt(list, i, guide) \in Seq(Guides)
          /\ Len(InsertAt(list, i, guide)) = Len(list) + 1
          /\ \A k \in 1..(Len(list) + 1) :
               InsertAt(list, i, guide)[k] =
                 IF k < i THEN list[k] ELSE IF k = i THEN guide ELSE list[k - 1]
      <4> HIDE DEF made
      <4> QED BY InsertAtFacts
    <3> QED BY <3>1, <3>2
  <2>3. PatchAdd(list, path, guide) = Made(made)
    BY <1>3 DEF PatchAdd
  <2> HIDE DEF made
  <2>4. DOMAIN made = 1..(Len(list) + 1)
    BY <2>2
  <2>5. \A k \in 1..(Len(list) + 1) : made[k] = guide \/ \E m \in 1..Len(list) : made[k] = list[m]
    <3> SUFFICES ASSUME NEW k \in 1..(Len(list) + 1), made[k] # guide
                 PROVE  \E m \in 1..Len(list) : made[k] = list[m]
      OBVIOUS
    <3>1. CASE k < path + 1
      BY <1>1, <2>1, <2>2, <3>1
    <3>2. CASE k > path + 1
      <4>1. k - 1 \in 1..Len(list)
        BY <1>1, <2>1, <3>2
      <4> QED BY <2>1, <2>2, <3>2, <4>1
    <3> QED BY <2>1, <2>2, <3>1, <3>2
  <2>6. \A m \in 1..Len(list) : \E k \in 1..(Len(list) + 1) : made[k] = list[m]
    <3> SUFFICES ASSUME NEW m \in 1..Len(list)
                 PROVE  \E k \in 1..(Len(list) + 1) : made[k] = list[m]
      OBVIOUS
    <3>0. m \in Int /\ path \in Int
      BY <1>1
    <3>1. CASE m < path + 1
      BY <1>1, <2>1, <2>2, <3>1
    <3>2. CASE m >= path + 1
      <4>1. m + 1 \in 1..(Len(list) + 1) /\ ~(m + 1 < path + 1) /\ m + 1 # path + 1 /\ (m + 1) - 1 = m
        BY <1>1, <2>1, <3>2
      <4>2. made[m + 1] = list[(m + 1) - 1]
        BY <2>2, <4>1
      <4> QED BY <4>1, <4>2
    <3>3. m < path + 1 \/ m >= path + 1
      BY <3>0
    <3> QED BY <3>1, <3>2, <3>3
  <2>7. path + 1 \in 1..(Len(list) + 1) /\ made[path + 1] = guide
    BY <2>1, <2>2
  <2>8. Pinned(made) \subseteq Pinned(list) \cup {guide}
    BY <1>1, <2>4, <2>5 DEF Pinned
  <2>9. Pinned(list) \cup {guide} \subseteq Pinned(made)
    BY <1>1, <2>4, <2>6, <2>7 DEF Pinned
  <2> QED BY <2>2, <2>3, <2>8, <2>9 DEF Made, Results
<1>4. CASE path # END /\ path \notin 0..Len(list)
  BY <1>4 DEF PatchAdd, PatchRefused, Results, Pinned
<1> QED BY <1>2, <1>3, <1>4

\* "remove" takes off no guide but that at the position.
LEMMA RemoveMakes ==
  ASSUME NEW list \in Seq(Guides), NEW path \in Int
  PROVE  /\ PatchRemove(list, path) \in Results
         /\ Pinned(PatchRemove(list, path).list) \subseteq Pinned(list)
         /\ PatchRemove(list, path).is = "patched" =>
              Pinned(list) \subseteq Pinned(PatchRemove(list, path).list) \cup {list[path + 1]}
<1>1. Len(list) \in Nat /\ DOMAIN list = 1..Len(list)
  OBVIOUS
<1>2. CASE IsIndex(list, path)
  <2>1. path + 1 \in 1..Len(list)
    BY <1>1, <1>2 DEF IsIndex
  <2> DEFINE made == RemoveAt(list, path + 1)
  <2>2. /\ made \in Seq(Guides)
        /\ Len(made) = Len(list) - 1
        /\ \A k \in 1..(Len(list) - 1) :
             made[k] = IF k < path + 1 THEN list[k] ELSE list[k + 1]
    BY <2>1, RemoveAtFacts
  <2>3. PatchRemove(list, path) = Made(made)
    BY <1>2 DEF PatchRemove
  <2> HIDE DEF made
  <2>4. DOMAIN made = 1..(Len(list) - 1)
    BY <2>2
  <2>5. \A k \in 1..(Len(list) - 1) : \E m \in 1..Len(list) : made[k] = list[m]
    BY <1>1, <2>2
  <2>6. Pinned(made) \subseteq Pinned(list)
    BY <1>1, <2>4, <2>5 DEF Pinned
  <2>7. \A m \in 1..Len(list) : list[m] = list[path + 1] \/ \E k \in 1..(Len(list) - 1) : made[k] = list[m]
    <3> SUFFICES ASSUME NEW m \in 1..Len(list), m # path + 1
                 PROVE  \E k \in 1..(Len(list) - 1) : made[k] = list[m]
      OBVIOUS
    <3>0. m \in Int
      BY <1>1
    <3>1. CASE m < path + 1
      <4>1. m \in 1..(Len(list) - 1)
        BY <1>1, <2>1, <3>1
      <4> QED BY <2>2, <3>1, <4>1
    <3>2. CASE m > path + 1
      <4>1. m - 1 \in 1..(Len(list) - 1) /\ ~(m - 1 < path + 1) /\ m - 1 + 1 = m
        BY <1>1, <2>1, <3>2
      <4> QED BY <2>2, <4>1
    <3>3. m < path + 1 \/ m > path + 1
      BY <3>0
    <3> QED BY <3>1, <3>2, <3>3
  <2>8. Pinned(list) \subseteq Pinned(made) \cup {list[path + 1]}
    BY <1>1, <2>4, <2>7 DEF Pinned
  <2> QED BY <2>2, <2>3, <2>6, <2>8 DEF Made, Results
<1>3. CASE ~IsIndex(list, path)
  BY <1>3 DEF PatchRemove, PatchRefused, Results, Pinned
<1> QED BY <1>2, <1>3

\* "move" pins the same guides.
LEMMA MoveMakes ==
  ASSUME NEW list \in Seq(Guides), NEW from \in Int, NEW path \in Int
  PROVE  /\ PatchMove(list, from, path) \in Results
         /\ Pinned(PatchMove(list, from, path).list) \subseteq Pinned(list)
         /\ PatchMove(list, from, path).is = "patched" =>
              Pinned(list) \subseteq Pinned(PatchMove(list, from, path).list)
<1>1. CASE IsIndex(list, from)
  <2> DEFINE rest == RemoveAt(list, from + 1)
  <2>1. from + 1 \in 1..Len(list) /\ list[from + 1] \in Guides /\ list[from + 1] \in Pinned(list)
    BY <1>1 DEF IsIndex, Pinned
  <2>2. rest \in Seq(Guides)
    BY <2>1, RemoveAtFacts
  <2>3. Pinned(rest) \subseteq Pinned(list) /\ Pinned(list) \subseteq Pinned(rest) \cup {list[from + 1]}
    BY <1>1, RemoveMakes DEF PatchRemove, Made
  <2>4. PatchMove(list, from, path) = PatchAdd(rest, path, list[from + 1])
    BY <1>1 DEF PatchMove
  <2> HIDE DEF rest
  <2> QED BY <2>1, <2>2, <2>3, <2>4, AddMakes
<1>2. CASE ~IsIndex(list, from)
  BY <1>2 DEF PatchMove, PatchRefused, Results, Pinned
<1> QED BY <1>1, <1>2

\* An operation on what those before it made.
LEMMA ApplyMakes ==
  ASSUME NEW made \in Results, NEW operation \in PatchOperation
  PROVE  /\ Apply(made, operation) \in Results
         /\ Pinned(Apply(made, operation).list) \subseteq
              Pinned(made.list) \cup (IF operation.op = "add" THEN {operation.value} ELSE {})
<1>1. made.list \in Seq(Guides)
  BY DEF Results
<1>2. CASE made.is # "patched"
  <2>1. Apply(made, operation) = made
    BY <1>2 DEF Apply
  <2> QED BY <2>1
<1>3. CASE made.is = "patched" /\ operation.op = "add"
  <2>1. operation.path \in Int /\ operation.value \in Guides
    BY <1>3 DEF PatchOperation
  <2>2. Apply(made, operation) = PatchAdd(made.list, operation.path, operation.value)
    BY <1>3 DEF Apply
  <2> QED BY <1>1, <1>3, <2>1, <2>2, AddMakes
<1>4. CASE made.is = "patched" /\ operation.op = "remove"
  <2>1. operation.path \in Int
    BY <1>4 DEF PatchOperation
  <2>2. Apply(made, operation) = PatchRemove(made.list, operation.path)
    BY <1>4 DEF Apply
  <2> QED BY <1>1, <1>4, <2>1, <2>2, RemoveMakes
<1>5. CASE made.is = "patched" /\ operation.op = "move"
  <2>1. operation.path \in Int /\ operation.from \in Int
    BY <1>5 DEF PatchOperation
  <2>2. Apply(made, operation) = PatchMove(made.list, operation.from, operation.path)
    BY <1>5 DEF Apply
  <2> QED BY <1>1, <1>5, <2>1, <2>2, MoveMakes
<1>6. CASE made.is = "patched" /\ operation.op = "test"
  <2>1. Apply(made, operation) = PatchTest(made.list, operation.path, operation.value)
    BY <1>6 DEF Apply
  <2>2. PatchTest(made.list, operation.path, operation.value) \in {Made(made.list), PatchTestFailed}
    BY DEF PatchTest
  <2>3. Pinned(<<>>) = {}
    BY DEF Pinned
  <2>4. CASE Apply(made, operation) = Made(made.list)
    BY <1>1, <2>4 DEF Made, Results
  <2>5. CASE Apply(made, operation) = PatchTestFailed
    BY <2>3, <2>5 DEF PatchTestFailed, Results
  <2> QED BY <2>1, <2>2, <2>4, <2>5
<1>7. operation.op \in {"add", "remove", "move", "test"}
  BY DEF PatchOperation
<1> QED BY <1>2, <1>3, <1>4, <1>5, <1>6, <1>7

\* What a patch makes, or a refusal, names no guide twice.
LEMMA AppliedIsDistinct ==
  ASSUME NEW list, NEW patch
  PROVE  /\ Applied(list, patch).is \in {"patched", "refused", "stale"}
         /\ Distinct(Applied(list, patch).list)
<1>1. Distinct(<<>>)
  BY DEF Distinct
<1> QED BY <1>1 DEF Applied, Made, PatchRefused, PatchTestFailed

-----------------------------------------------------------------------------
(* Patches                                                                 *)

\* A patch is applied operation by operation: what each made of what those
\* before it made.
LEMMA PatchSteps ==
  ASSUME NEW list \in Seq(Guides), NEW patch \in Seq(PatchOperation)
  PROVE  \E made \in [0..Len(patch) -> Results] :
           /\ made[0] = Made(list)
           /\ \A n \in 1..Len(patch) : made[n] = Apply(made[n - 1], patch[n])
           /\ FoldLeft(Apply, Made(list), patch) = made[Len(patch)]
<1> DEFINE N == Len(patch)
           base == Made(list)
           Chain(f) == [s \in SUBSET (1..N) |->
                          IF s = {} THEN base ELSE Apply(f[s \ {Max(s)}], patch[Max(s)])]
           iter == CHOOSE f : f = Chain(f)
           made == [n \in 0..N |-> iter[1..n]]
<1>1. /\ N \in Nat /\ DOMAIN patch = 1..N
      /\ \A n \in 1..N : patch[n] \in PatchOperation
  OBVIOUS
<1>2. base \in Results
  BY DEF Made, Results
<1>3. FoldLeft(Apply, base, patch) = iter[1..N]
  BY <1>1 DEF FoldLeft, MapThenFoldSet
<1>4. \E f : f = Chain(f)
  <2> DEFINE step == [n \in 1..N |-> [a \in Results |-> Apply(a, patch[n])]]
  <2>1. step \in Steps(Results, N)
    BY <1>1, ApplyMakes DEF Steps
  <2>2. \A n \in 1..N : \A a \in Results : step[n][a] = Apply(a, patch[n])
    OBVIOUS
  <2> HIDE DEF N, base, step
  <2>0. N \in Nat
    BY <1>1
  <2>3. PICK f : IsFold(f, Results, base, N, step)
    BY <1>2, <2>0, <2>1, FoldExists
  <2>4. ASSUME NEW s \in SUBSET (1..N)
        PROVE  f[s] = IF s = {} THEN base ELSE Apply(f[s \ {Max(s)}], patch[Max(s)])
    <3>1. CASE s = {}
      BY <2>3, <3>1 DEF IsFold
    <3>2. CASE s # {}
      <4>1. Max(s) \in 1..N /\ s \ {Max(s)} \in SUBSET (1..N)
        BY <1>1, <3>2, NewestPosition
      <4>2. f[s \ {Max(s)}] \in Results
        BY <2>3, <4>1 DEF IsFold
      <4> QED BY <2>2, <2>3, <3>2, <4>1, <4>2 DEF IsFold
    <3> QED BY <3>1, <3>2
  <2>5. f = Chain(f)
    BY <2>3, <2>4 DEF IsFold
  <2> QED BY <2>5
<1>5. iter = Chain(iter)
  <2> HIDE DEF Chain
  <2> QED BY <1>4
<1> HIDE DEF iter
<1>6. iter[1..0] = base
  <2>1. 1..0 = {} /\ {} \in SUBSET (1..N)
    OBVIOUS
  <2>2. iter[{}] = base
    BY <1>5, <2>1
  <2> QED BY <2>1, <2>2
<1>7. ASSUME NEW n \in 1..N
      PROVE  iter[1..n] = Apply(iter[1..(n - 1)], patch[n])
  <2>1. /\ 1..n \in SUBSET (1..N) /\ 1..n # {}
        /\ Max(1..n) = n /\ (1..n) \ {n} = 1..(n - 1)
    BY <1>1, Newest
  <2>2. iter[1..n] = IF 1..n = {} THEN base
                     ELSE Apply(iter[(1..n) \ {Max(1..n)}], patch[Max(1..n)])
    <3> HIDE DEF base, N
    <3> QED BY <1>5, <2>1
  <2> QED BY <2>1, <2>2
<1> DEFINE good == {n \in 0..N : iter[1..n] \in Results}
<1> HIDE DEF N, base
<1>8. 0 \in good
  BY <1>1, <1>2, <1>6
<1>9. ASSUME NEW n \in 1..N, n - 1 \in good PROVE n \in good
  <2>1. iter[1..(n - 1)] \in Results
    BY <1>9
  <2> QED BY <1>1, <1>7, <2>1, ApplyMakes
<1>10. 0..N \subseteq good
  <2> HIDE DEF good
  <2> QED BY <1>1, <1>8, <1>9, StepByStep
<1>11. made \in [0..N -> Results]
  BY <1>10
<1>12. /\ made[0] = base
       /\ \A n \in 1..N : made[n] = Apply(made[n - 1], patch[n])
       /\ made[N] = iter[1..N]
  BY <1>1, <1>6, <1>7
<1> HIDE DEF made
<1> QED BY <1>3, <1>11, <1>12 DEF N, base

\* What a patch makes of a list is a list of guides, and pins no guide that was
\* not on it and is not one the patch adds.
LEMMA AppliedMakes ==
  ASSUME NEW list \in Seq(Guides), NEW patch \in Seq(PatchOperation)
  PROVE  /\ Applied(list, patch) \in Results
         /\ Pinned(Applied(list, patch).list) \subseteq Pinned(list) \cup GuidesAdded(patch)
<1> DEFINE N == Len(patch)
           all == Pinned(list) \cup GuidesAdded(patch)
<1>1. PICK made \in [0..N -> Results] :
        /\ made[0] = Made(list)
        /\ \A n \in 1..N : made[n] = Apply(made[n - 1], patch[n])
        /\ FoldLeft(Apply, Made(list), patch) = made[N]
  BY PatchSteps
<1>2. /\ N \in Nat
      /\ \A n \in 1..N : patch[n] \in PatchOperation
      /\ \A n \in 1..N : patch[n].op = "add" => patch[n].value \in GuidesAdded(patch)
  BY DEF GuidesAdded
<1> DEFINE good == {n \in 0..N : Pinned(made[n].list) \subseteq all}
<1> HIDE DEF N
<1>3. 0 \in good
  BY <1>1, <1>2 DEF Made
<1>4. ASSUME NEW n \in 1..N, n - 1 \in good PROVE n \in good
  <2>1. /\ made[n - 1] \in Results /\ Pinned(made[n - 1].list) \subseteq all
        /\ made[n] = Apply(made[n - 1], patch[n]) /\ patch[n] \in PatchOperation
    BY <1>1, <1>2, <1>4
  <2>2. Pinned(made[n].list) \subseteq
          Pinned(made[n - 1].list) \cup (IF patch[n].op = "add" THEN {patch[n].value} ELSE {})
    BY <2>1, ApplyMakes
  <2>3. Pinned(made[n].list) \subseteq all
    BY <1>2, <2>1, <2>2
  <2> QED BY <1>2, <2>3
<1>5. Pinned(made[N].list) \subseteq all /\ made[N] \in Results
  <2>1. 0..N \subseteq good
    <3> HIDE DEF good
    <3> QED BY <1>2, <1>3, <1>4, StepByStep
  <2> QED BY <1>1, <1>2, <2>1
<1>6. Pinned(<<>>) = {}
  BY DEF Pinned
<1> QED BY <1>1, <1>5, <1>6 DEF Applied, Made, PatchRefused, PatchTestFailed, Results

\* A patch of two operations is the second of what the first made.
LEMMA TwoOperations ==
  ASSUME NEW list \in Seq(Guides), NEW patch \in Seq(PatchOperation), Len(patch) = 2,
         Applied(list, patch).is = "patched"
  PROVE  Applied(list, patch) = Apply(Apply(Made(list), patch[1]), patch[2])
<1>1. PICK made \in [0..Len(patch) -> Results] :
        /\ made[0] = Made(list)
        /\ \A n \in 1..Len(patch) : made[n] = Apply(made[n - 1], patch[n])
        /\ FoldLeft(Apply, Made(list), patch) = made[Len(patch)]
  BY PatchSteps
<1>2. made[1] = Apply(made[0], patch[1]) /\ made[2] = Apply(made[1], patch[2])
  BY <1>1
<1>3. made[2] \in Results
  BY <1>1
<1>4. Applied(list, patch) = Made(made[2].list) /\ made[2].is = "patched"
  BY <1>1 DEF Applied, Made, PatchRefused, PatchTestFailed
<1> QED BY <1>1, <1>2, <1>3, <1>4 DEF Made, Results

\* A patch of one operation is that operation.
LEMMA OneOperation ==
  ASSUME NEW list \in Seq(Guides), NEW patch \in Seq(PatchOperation), Len(patch) = 1,
         Applied(list, patch).is = "patched"
  PROVE  Applied(list, patch) = Apply(Made(list), patch[1])
<1>1. PICK made \in [0..Len(patch) -> Results] :
        /\ made[0] = Made(list)
        /\ \A n \in 1..Len(patch) : made[n] = Apply(made[n - 1], patch[n])
        /\ FoldLeft(Apply, Made(list), patch) = made[Len(patch)]
  BY PatchSteps
<1>2. made[1] = Apply(made[0], patch[1])
  BY <1>1
<1>3. made[1] \in Results
  BY <1>1
<1>4. Applied(list, patch) = Made(made[1].list) /\ made[1].is = "patched"
  BY <1>1 DEF Applied, Made, PatchRefused, PatchTestFailed
<1> QED BY <1>1, <1>2, <1>3, <1>4 DEF Made, Results

-----------------------------------------------------------------------------
(* Guides left out                                                         *)

\* Leaving guides out of a list leaves the others.
LEMMA WithoutKeeps ==
  ASSUME NEW list \in Seq(Guides), NEW gone
  PROVE  /\ Without(list, gone) \in Seq(Guides)
         /\ Pinned(Without(list, gone)) = Pinned(list) \ gone
<1> DEFINE kept == Only(list, Pinned(list) \ gone)
<1>1. kept \in Seq(Guides) /\ Range(kept) = Range(list) \cap (Pinned(list) \ gone)
  BY OnlyKeeps
<1> HIDE DEF kept
<1>2. Range(kept) = Pinned(kept) /\ Range(list) = Pinned(list)
  BY DEF Range, Pinned
<1>3. kept \in Seq(Guides) /\ Pinned(kept) = Pinned(list) \ gone
  BY <1>1, <1>2
<1> QED BY <1>3 DEF Without, kept

-----------------------------------------------------------------------------
(* The patches of the hub                                                  *)

\* The hub's patches are patches, of one or two operations.
LEMMA PatchesAre ==
  ASSUME NEW page \in Seq(Guides), NEW patch \in PatchesOn(page)
  PROVE  patch \in Seq(PatchOperation) /\ Len(patch) \in {1, 2} /\ patch # <<>>
<1>1. \A i \in 0..(Len(page) - 1) : i \in Int /\ page[i + 1] \in Guides
  OBVIOUS
<1>2. page # <<>> => page[1] \in Guides
  OBVIOUS
<1>3. \A guide \in Guides, i \in Int :
        /\ [op |-> "add", path |-> i, value |-> guide] \in PatchOperation
        /\ [op |-> "test", path |-> i, value |-> guide] \in PatchOperation
  BY DEF PatchOperation
<1>4. \A i, j \in Int : /\ [op |-> "remove", path |-> i] \in PatchOperation
                        /\ [op |-> "move", from |-> i, path |-> j] \in PatchOperation
  BY DEF PatchOperation
<1>5. \A a, b \in PatchOperation :
        /\ <<a>> \in Seq(PatchOperation) /\ Len(<<a>>) = 1 /\ <<a>> # <<>>
        /\ <<a, b>> \in Seq(PatchOperation) /\ Len(<<a, b>>) = 2 /\ <<a, b>> # <<>>
  OBVIOUS
<1>6. CASE \E guide \in Guides : patch = Pin(guide)
  <2>1. PICK guide \in Guides : patch = Pin(guide)
    BY <1>6
  <2>2. [op |-> "add", path |-> 0, value |-> guide] \in PatchOperation
    BY DEF PatchOperation
  <2> QED BY <1>5, <2>1, <2>2 DEF Pin
<1>7. CASE \E i \in 0..(Len(page) - 1) : patch = Unpin(page, i)
  BY <1>1, <1>3, <1>4, <1>5, <1>7 DEF Unpin
<1>8. CASE \E i, j \in 0..(Len(page) - 1) : patch = Reorder(page, i, j)
  BY <1>1, <1>3, <1>4, <1>5, <1>8 DEF Reorder
<1>9. CASE page # <<>> /\ \E guide \in Guides : patch = PinAbove(page, guide)
  <2>1. PICK guide \in Guides : patch = PinAbove(page, guide)
    BY <1>9
  <2>2. /\ [op |-> "add", path |-> 0, value |-> guide] \in PatchOperation
        /\ [op |-> "test", path |-> 1, value |-> page[1]] \in PatchOperation
    BY <1>2, <1>9 DEF PatchOperation
  <2> QED BY <1>5, <2>1, <2>2 DEF PinAbove
<1>10. CASE patch = MoveFirstToEnd
  <2>1. [op |-> "move", from |-> 0, path |-> END] \in PatchOperation
    BY DEF PatchOperation, END
  <2> QED BY <1>5, <1>10, <2>1 DEF MoveFirstToEnd
<1> QED BY <1>6, <1>7, <1>8, <1>9, <1>10 DEF PatchesOn

\* An operation that fails leaves the patch failed.
LEMMA FailedStays ==
  ASSUME NEW made, NEW operation, made.is # "patched"
  PROVE  Apply(made, operation) = made
  BY DEF Apply

\* What each kind of operation makes.
LEMMA OperationMakes ==
  ASSUME NEW list \in Seq(Guides), NEW operation \in PatchOperation
  PROVE  /\ operation.op = "add" =>
              Apply(Made(list), operation) = PatchAdd(list, operation.path, operation.value)
         /\ operation.op = "remove" =>
              Apply(Made(list), operation) = PatchRemove(list, operation.path)
         /\ operation.op = "move" =>
              Apply(Made(list), operation) = PatchMove(list, operation.from, operation.path)
         /\ operation.op = "test" =>
              Apply(Made(list), operation) = PatchTest(list, operation.path, operation.value)
  BY DEF Apply, Made

\* Only a test and a remove of one position of the page takes a guide off a list.
LEMMA OnlyUnpinDrops ==
  ASSUME NEW list \in Seq(Guides), NEW page \in Seq(Guides), NEW patch \in PatchesOn(page),
         Applied(list, patch).is = "patched",
         NEW guide \in Pinned(list) \ Pinned(Applied(list, patch).list)
  PROVE  \E i \in DOMAIN page : page[i] = guide /\ patch = Unpin(page, i - 1)
<1> DEFINE first == Apply(Made(list), patch[1])
           both == Apply(first, patch[2])
<1>1. patch \in Seq(PatchOperation) /\ Len(patch) \in {1, 2}
  BY PatchesAre
<1>2. Len(patch) = 1 => first = Applied(list, patch)
  BY <1>1, OneOperation
<1>3. Len(patch) = 2 => both = Applied(list, patch)
  BY <1>1, TwoOperations
<1>4. Made(list) \in Results /\ Made(list).list = list
  BY DEF Made, Results
<1>5. patch[1] \in PatchOperation /\ (Len(patch) = 2 => patch[2] \in PatchOperation)
  BY <1>1
<1>6. first \in Results
  BY <1>4, <1>5, ApplyMakes
<1>7. Len(patch) = 2 => first.is = "patched" /\ first = Made(first.list) /\ first.list \in Seq(Guides)
  <2>1. SUFFICES ASSUME Len(patch) = 2 PROVE first.is = "patched"
    BY <1>6 DEF Results, Made
  <2>2. both.is = "patched"
    BY <1>3, <2>1
  <2> QED BY <2>2, FailedStays
<1>8. ASSUME NEW other \in Guides, patch = Pin(other) PROVE FALSE
  <2>1. Len(patch) = 1 /\ patch[1] = [op |-> "add", path |-> 0, value |-> other]
    BY <1>8 DEF Pin
  <2>2. first = PatchAdd(list, 0, other)
    BY <1>5, <2>1, OperationMakes
  <2> QED BY <1>2, <2>1, <2>2, AddMakes
<1>9. ASSUME NEW i \in 0..(Len(page) - 1), patch = Unpin(page, i)
      PROVE  \E k \in DOMAIN page : page[k] = guide /\ patch = Unpin(page, k - 1)
  <2>1. /\ Len(patch) = 2
        /\ patch[1] = [op |-> "test", path |-> i, value |-> page[i + 1]]
        /\ patch[2] = [op |-> "remove", path |-> i]
    BY <1>9 DEF Unpin
  <2>2. first = PatchTest(list, i, page[i + 1])
    BY <1>5, <2>1, OperationMakes
  <2>3. IsIndex(list, i) /\ list[i + 1] = page[i + 1] /\ first = Made(list)
    BY <1>7, <2>1, <2>2 DEF PatchTest, PatchTestFailed
  <2>4. both = PatchRemove(list, i)
    BY <1>5, <2>1, <2>3, OperationMakes
  <2>5. guide = list[i + 1]
    BY <1>3, <2>1, <2>4, RemoveMakes
  <2>6. i + 1 \in DOMAIN page /\ (i + 1) - 1 = i
    OBVIOUS
  <2> QED BY <1>9, <2>3, <2>5, <2>6
<1>10. ASSUME NEW i \in 0..(Len(page) - 1), NEW j \in 0..(Len(page) - 1),
              patch = Reorder(page, i, j)
       PROVE  FALSE
  <2>1. /\ Len(patch) = 2
        /\ patch[1] = [op |-> "test", path |-> i, value |-> page[i + 1]]
        /\ patch[2] = [op |-> "move", from |-> i, path |-> j]
    BY <1>10 DEF Reorder
  <2>2. first = PatchTest(list, i, page[i + 1])
    BY <1>5, <2>1, OperationMakes
  <2>3. first = Made(list)
    BY <1>7, <2>1, <2>2 DEF PatchTest, PatchTestFailed
  <2>4. both = PatchMove(list, i, j)
    BY <1>5, <2>1, <2>3, OperationMakes
  <2> QED BY <1>3, <2>1, <2>4, MoveMakes
<1>11. ASSUME NEW other \in Guides, patch = PinAbove(page, other) PROVE FALSE
  <2>1. /\ Len(patch) = 2
        /\ patch[1] = [op |-> "add", path |-> 0, value |-> other]
        /\ patch[2] = [op |-> "test", path |-> 1, value |-> page[1]]
    BY <1>11 DEF PinAbove
  <2>2. first = PatchAdd(list, 0, other)
    BY <1>5, <2>1, OperationMakes
  <2>3. both = PatchTest(first.list, 1, page[1])
    <3>1. Apply(Made(first.list), patch[2]) = PatchTest(first.list, 1, page[1])
      BY <1>5, <1>7, <2>1, OperationMakes
    <3> QED BY <1>7, <2>1, <3>1
  <2>4. both.list = first.list
    BY <1>3, <2>1, <2>3 DEF PatchTest, Made, PatchTestFailed
  <2>5. Pinned(list) \subseteq Pinned(first.list)
    <3>1. PatchAdd(list, 0, other).is = "patched"
      BY <1>7, <2>1, <2>2
    <3>2. Pinned(list) \subseteq Pinned(PatchAdd(list, 0, other).list)
      BY <3>1, AddMakes
    <3> QED BY <2>2, <3>2
  <2> QED BY <1>3, <2>1, <2>4, <2>5
<1>12. ASSUME patch = MoveFirstToEnd PROVE FALSE
  <2>1. Len(patch) = 1 /\ patch[1] = [op |-> "move", from |-> 0, path |-> END]
    BY <1>12 DEF MoveFirstToEnd
  <2>2. first = PatchMove(list, 0, END) /\ END \in Int
    BY <1>5, <2>1, OperationMakes DEF END
  <2> QED BY <1>2, <2>1, <2>2, MoveMakes
<1> HIDE DEF first, both
<1> QED BY <1>8, <1>9, <1>10, <1>11, <1>12 DEF PatchesOn

\* A guide moved is at the place named, and the others as they stood.
LEMMA MoveLands ==
  ASSUME NEW list \in Seq(Guides), NEW i \in 0..(Len(list) - 1), NEW j \in 0..(Len(list) - 1)
  PROVE  /\ PatchMove(list, i, j).list[j + 1] = list[i + 1]
         /\ RemoveAt(PatchMove(list, i, j).list, j + 1) = RemoveAt(list, i + 1)
<1> DEFINE rest == RemoveAt(list, i + 1)
           made == InsertAt(rest, j + 1, list[i + 1])
<1>1. Len(list) \in Nat /\ i + 1 \in 1..Len(list) /\ list[i + 1] \in Guides
  OBVIOUS
<1>2. rest \in Seq(Guides) /\ Len(rest) = Len(list) - 1
  BY <1>1, RemoveAtFacts
<1>3. IsIndex(list, i) /\ j # END /\ j \in 0..Len(rest)
  BY <1>1, <1>2 DEF IsIndex, END
<1>4. PatchMove(list, i, j).list = made
  BY <1>3 DEF PatchMove, PatchAdd, Made
<1> HIDE DEF rest
<1>5. PICK place \in 1..(Len(rest) + 1) : place = j + 1
  BY <1>1, <1>2
<1>6. /\ made \in Seq(Guides) /\ Len(made) = Len(rest) + 1
      /\ \A k \in 1..(Len(rest) + 1) :
           made[k] = IF k < place THEN rest[k] ELSE IF k = place THEN list[i + 1] ELSE rest[k - 1]
  BY <1>1, <1>2, <1>5, InsertAtFacts
<1> HIDE DEF made
<1>7. made[place] = list[i + 1]
  BY <1>5, <1>6
<1> DEFINE again == RemoveAt(made, place)
<1>8. /\ again \in Seq(Guides) /\ Len(again) = Len(made) - 1
      /\ \A k \in 1..(Len(made) - 1) : again[k] = IF k < place THEN made[k] ELSE made[k + 1]
  BY <1>5, <1>6, RemoveAtFacts
<1> HIDE DEF again
<1>9. ASSUME NEW k \in 1..Len(rest) PROVE again[k] = rest[k]
  <2>1. k \in 1..(Len(made) - 1) /\ Len(rest) \in Nat
    BY <1>2, <1>6
  <2>2. CASE k < place
    BY <1>6, <1>8, <2>1, <2>2
  <2>3. CASE ~(k < place)
    <3>1. k + 1 \in 1..(Len(rest) + 1) /\ ~(k + 1 < place) /\ k + 1 # place /\ (k + 1) - 1 = k
      BY <1>5, <2>1, <2>3
    <3>2. made[k + 1] = rest[(k + 1) - 1]
      BY <1>6, <3>1
    <3> QED BY <1>8, <2>1, <2>3, <3>1, <3>2
  <2> QED BY <2>2, <2>3
<1>10. Len(again) = Len(rest)
  BY <1>2, <1>6, <1>8
<1>11. again = rest
  BY <1>2, <1>8, <1>9, <1>10, SeqEqual
<1> QED BY <1>4, <1>5, <1>7, <1>11 DEF again, rest

-----------------------------------------------------------------------------
(* The handlers                                                            *)

\* What a handler carries.
Carries(r) ==
  /\ request[r].pc = "idle" => request[r].patch = <<>>
  /\ request[r].pc # "idle" => request[r].patch \in PatchesOn(request[r].shown)
  /\ request[r].pc \in {"reading", "writing"} =>
       /\ GuidesAdded(request[r].patch) \subseteq Existing
       /\ request[r].gone \cap Existing = {}
       /\ Pinned(pins) \ Existing \subseteq request[r].gone
  /\ request[r].pc = "writing" => PatchedBy(r, request[r].read).is = "patched"

HInv == TypeOK /\ \A r \in Requests : Carries(r)

\* A page shows guides.
LEMMA LiveIs ==
  ASSUME TypeOK
  PROVE  Live(pins) \in Seq(Guides)
  BY OnlyKeeps DEF TypeOK, Live

\* Only the handler that took the step may carry something new, as long as no
\* gone guide is pinned anew.
LEMMA OneHandler ==
  ASSUME HInv, NEW r \in Requests, pins' \in Seq(Guides),
         Pinned(pins') \ Existing \subseteq Pinned(pins),
         DOMAIN request' = Requests, request' = [q \in Requests |-> request'[q]],
         \A q \in Requests \ {r} : request'[q] = request[q],
         request'[r] \in Handler, Carries(r)'
  PROVE  HInv'
<1>1. \A q \in Requests : request[q] \in Handler
  BY DEF HInv, TypeOK
<1>2. TypeOK'
  BY <1>1 DEF TypeOK
<1>3. ASSUME NEW q \in Requests, q # r PROVE Carries(q)'
  <2>1. request'[q] = request[q]
    BY <1>3
  <2>2. Carries(q)
    BY DEF HInv
  <2>3. Pinned(pins)' = Pinned(pins')
    BY DEF Pinned
  <2>4. GuidesAdded(request[q].patch)' = GuidesAdded(request'[q].patch)
    BY DEF GuidesAdded
  <2>5. PatchedBy(q, request[q].read)' = PatchedBy(q, request[q].read)
    BY <2>1 DEF PatchedBy
  <2> QED BY <2>1, <2>2, <2>5 DEF Carries
<1> QED BY <1>2, <1>3 DEF HInv

\* Nothing has been read or asked yet.
LEMMA NothingRead == <<>> \in Seq(Guides) /\ <<>> \in Seq(PatchOperation)
  OBVIOUS

\* The page the patch was made on goes with it.
LEMMA AskCarries == ASSUME HInv, NEW r \in Requests, Ask(r) PROVE HInv'
<1> DEFINE page == Live(pins)
<1>1. PICK patch \in PatchesOn(page) :
        request' = [request EXCEPT ![r].pc = "finding", ![r].patch = patch, ![r].shown = page]
  BY DEF Ask
<1>2. page \in Seq(Guides)
  BY LiveIs DEF HInv
<1> HIDE DEF page
<1>3. patch \in Seq(PatchOperation)
  BY <1>2, PatchesAre
<1>4. request \in [Requests -> Handler] /\ request[r] \in Handler /\ pins \in Seq(Guides)
  BY DEF HInv, TypeOK
<1>5. /\ DOMAIN request' = Requests /\ request' = [q \in Requests |-> request'[q]]
      /\ \A q \in Requests \ {r} : request'[q] = request[q]
  BY <1>1, <1>4
<1>6. request'[r] = [request[r] EXCEPT !.pc = "finding", !.patch = patch, !.shown = page]
  BY <1>1, <1>4
<1>7. request'[r] \in Handler
  BY <1>2, <1>3, <1>4, <1>6 DEF Handler
<1>8. request'[r].pc = "finding" /\ request'[r].patch = patch /\ request'[r].shown = page
  BY <1>4, <1>6 DEF Handler
<1>9. Carries(r)'
  BY <1>8 DEF Carries
<1>10. pins' = pins
  BY DEF Ask
<1> QED BY <1>4, <1>5, <1>7, <1>9, <1>10, OneHandler

\* A handler that answers has nothing left to carry but its patch.
LEMMA AnswerCarries ==
  ASSUME HInv, NEW r \in Requests, NEW outcome \in Answers,
         request[r].pc # "idle", request' = Answer(r, outcome)
  PROVE  /\ DOMAIN request' = Requests /\ request' = [q \in Requests |-> request'[q]]
         /\ \A q \in Requests \ {r} : request'[q] = request[q]
         /\ request'[r] \in Handler /\ Carries(r)'
<1>1. request \in [Requests -> Handler] /\ request[r] \in Handler
  BY DEF HInv, TypeOK
<1>2. /\ DOMAIN request' = Requests /\ request' = [q \in Requests |-> request'[q]]
      /\ \A q \in Requests \ {r} : request'[q] = request[q]
  BY <1>1 DEF Answer
<1>3. request'[r] = [request[r] EXCEPT !.pc = outcome, !.read = <<>>, !.gone = {}]
  BY <1>1 DEF Answer
<1>4. request'[r] \in Handler
  BY <1>1, <1>3, NothingRead DEF Handler
<1>5. /\ request'[r].pc = outcome /\ request'[r].patch = request[r].patch
      /\ request'[r].shown = request[r].shown
  BY <1>1, <1>3 DEF Handler
<1>6. outcome \notin {"idle", "reading", "writing"}
  BY DEF Answers
<1>7. request[r].patch \in PatchesOn(request[r].shown)
  BY DEF HInv, Carries
<1>8. Carries(r)'
  BY <1>5, <1>6, <1>7 DEF Carries
<1> QED BY <1>2, <1>4, <1>8

\* The guides that are gone are those of the pins found.
LEMMA FindCarries == ASSUME HInv, NEW r \in Requests, Find(r) PROVE HInv'
<1>1. request \in [Requests -> Handler] /\ request[r] \in Handler /\ pins \in Seq(Guides)
  BY DEF HInv, TypeOK
<1>2. request[r].pc = "finding" /\ pins' = pins
  BY DEF Find
<1>3. CASE ~(GuidesAdded(request[r].patch) \subseteq Existing)
  <2>1. request' = Answer(r, "refused")
    BY <1>3 DEF Find
  <2>2. "refused" \in Answers /\ request[r].pc # "idle"
    BY <1>2 DEF Answers
  <2> QED BY <1>1, <1>2, <2>1, <2>2, AnswerCarries, OneHandler
<1>4. CASE GuidesAdded(request[r].patch) \subseteq Existing
  <2>1. request' = [request EXCEPT ![r].pc = "reading", ![r].gone = Pinned(pins) \ Existing]
    BY <1>4 DEF Find
  <2>2. /\ DOMAIN request' = Requests /\ request' = [q \in Requests |-> request'[q]]
        /\ \A q \in Requests \ {r} : request'[q] = request[q]
    BY <1>1, <2>1
  <2>3. request'[r] = [request[r] EXCEPT !.pc = "reading", !.gone = Pinned(pins) \ Existing]
    BY <1>1, <2>1
  <2>4. Pinned(pins) \ Existing \in SUBSET Guides
    BY <1>1 DEF Pinned
  <2>5. request'[r] \in Handler
    BY <1>1, <2>3, <2>4 DEF Handler
  <2>6. /\ request'[r].pc = "reading" /\ request'[r].gone = Pinned(pins) \ Existing
        /\ request'[r].patch = request[r].patch /\ request'[r].shown = request[r].shown
    BY <1>1, <2>3 DEF Handler
  <2>7. request[r].patch \in PatchesOn(request[r].shown)
    BY <1>2 DEF HInv, Carries
  <2>8. Pinned(pins)' = Pinned(pins)
    BY <1>2
  <2>9. GuidesAdded(request[r].patch)' = GuidesAdded(request[r].patch)
    BY <2>6
  <2>10. Carries(r)'
    BY <1>4, <2>6, <2>7, <2>8, <2>9 DEF Carries
  <2> QED BY <1>1, <1>2, <2>2, <2>5, <2>10, OneHandler
<1> QED BY <1>3, <1>4

\* A write is begun only of what the patch makes of the list read.
LEMMA ReadCarries == ASSUME HInv, NEW r \in Requests, Read(r) PROVE HInv'
<1> DEFINE made == PatchedBy(r, pins)
<1>1. request \in [Requests -> Handler] /\ request[r] \in Handler /\ pins \in Seq(Guides)
  BY DEF HInv, TypeOK
<1>2. request[r].pc = "reading" /\ pins' = pins
  BY DEF Read
<1>3. made.is \in {"patched", "refused", "stale"}
  BY AppliedIsDistinct DEF PatchedBy
<1>4. CASE made.is # "patched"
  <2>1. request' = Answer(r, made.is)
    BY <1>4 DEF Read
  <2>2. made.is \in Answers /\ request[r].pc # "idle"
    BY <1>2, <1>3 DEF Answers
  <2> HIDE DEF made
  <2> QED BY <1>1, <1>2, <2>1, <2>2, AnswerCarries, OneHandler
<1>5. CASE made.is = "patched"
  <2>1. request' = [request EXCEPT ![r].pc = "writing", ![r].read = pins]
    BY <1>5 DEF Read
  <2>2. /\ DOMAIN request' = Requests /\ request' = [q \in Requests |-> request'[q]]
        /\ \A q \in Requests \ {r} : request'[q] = request[q]
    BY <1>1, <2>1
  <2>3. request'[r] = [request[r] EXCEPT !.pc = "writing", !.read = pins]
    BY <1>1, <2>1
  <2>4. request'[r] \in Handler
    BY <1>1, <2>3 DEF Handler
  <2>5. /\ request'[r].pc = "writing" /\ request'[r].read = pins
        /\ request'[r].gone = request[r].gone
        /\ request'[r].patch = request[r].patch /\ request'[r].shown = request[r].shown
    BY <1>1, <2>3 DEF Handler
  <2>6. PatchedBy(r, request[r].read)' = made
    BY <2>5 DEF PatchedBy
  <2>7. Carries(r)
    BY DEF HInv
  <2>8. Pinned(pins)' = Pinned(pins)
    BY <1>2
  <2>9. GuidesAdded(request[r].patch)' = GuidesAdded(request[r].patch)
    BY <2>5
  <2> HIDE DEF made
  <2>10. Carries(r)'
    BY <1>2, <1>5, <2>5, <2>6, <2>7, <2>8, <2>9 DEF Carries
  <2> QED BY <1>1, <1>2, <2>2, <2>4, <2>10, OneHandler
<1> QED BY <1>4, <1>5

\* A patch that is written pins guides that exist, and no other.
LEMMA WriteMakes ==
  ASSUME HInv, NEW r \in Requests, request[r].pc = "writing", pins = request[r].read
  PROVE  /\ PatchedBy(r, pins).is = "patched"
         /\ PatchedBy(r, pins).list \in Seq(Guides)
         /\ Pinned(PatchedBy(r, pins).list) \subseteq Existing
<1> DEFINE left == Without(pins, request[r].gone)
<1>1. pins \in Seq(Guides) /\ request[r] \in Handler /\ request[r].patch \in Seq(PatchOperation)
  BY DEF HInv, TypeOK, Handler
<1>2. left \in Seq(Guides) /\ Pinned(left) = Pinned(pins) \ request[r].gone
  BY <1>1, WithoutKeeps
<1>3. Carries(r)
  BY DEF HInv
<1>4. Pinned(left) \subseteq Existing /\ GuidesAdded(request[r].patch) \subseteq Existing
  BY <1>2, <1>3 DEF Carries
<1>5. PatchedBy(r, pins).is = "patched"
  BY <1>3 DEF Carries
<1>6. PatchedBy(r, pins) = Applied(left, request[r].patch)
  BY DEF PatchedBy
<1> HIDE DEF left
<1>7. Applied(left, request[r].patch) \in Results
  BY <1>1, <1>2, AppliedMakes
<1>8. Pinned(Applied(left, request[r].patch).list) \subseteq Existing
  BY <1>1, <1>2, <1>4, AppliedMakes
<1> QED BY <1>5, <1>6, <1>7, <1>8 DEF Results

\* The list written holds no guide that is gone, so what is left out still covers
\* those that are.
LEMMA WriteCarries == ASSUME HInv, NEW r \in Requests, Write(r) PROVE HInv'
<1>1. request \in [Requests -> Handler] /\ request[r] \in Handler /\ pins \in Seq(Guides)
  BY DEF HInv, TypeOK
<1>2. request[r].pc = "writing"
  BY DEF Write
<1>3. CASE pins = request[r].read
  <2>1. pins' = PatchedBy(r, pins).list /\ request' = Answer(r, "patched")
    BY <1>3 DEF Write
  <2>2. pins' \in Seq(Guides) /\ Pinned(pins') \subseteq Existing
    BY <1>2, <1>3, <2>1, WriteMakes
  <2>3. "patched" \in Answers /\ request[r].pc # "idle"
    BY <1>2 DEF Answers
  <2>4. /\ DOMAIN request' = Requests /\ request' = [q \in Requests |-> request'[q]]
        /\ \A q \in Requests \ {r} : request'[q] = request[q]
        /\ request'[r] \in Handler /\ Carries(r)'
    BY <2>1, <2>3, AnswerCarries
  <2> QED BY <2>2, <2>4, OneHandler
<1>4. CASE pins # request[r].read /\ request[r].tries + 1 = PATCH_ATTEMPTS
  <2>1. pins' = pins /\ request' = Answer(r, "changing")
    BY <1>4 DEF Write
  <2>2. "changing" \in Answers /\ request[r].pc # "idle"
    BY <1>2 DEF Answers
  <2> QED BY <1>1, <2>1, <2>2, AnswerCarries, OneHandler
<1>5. CASE pins # request[r].read /\ request[r].tries + 1 # PATCH_ATTEMPTS
  <2>1. /\ pins' = pins
        /\ request' = [request EXCEPT ![r].pc = "reading", ![r].read = <<>>, ![r].tries = @ + 1]
    BY <1>5 DEF Write
  <2>2. /\ DOMAIN request' = Requests /\ request' = [q \in Requests |-> request'[q]]
        /\ \A q \in Requests \ {r} : request'[q] = request[q]
    BY <1>1, <2>1
  <2>3. request'[r] = [request[r] EXCEPT !.pc = "reading", !.read = <<>>, !.tries = request[r].tries + 1]
    BY <1>1, <2>1
  <2>4. request[r].tries + 1 \in 0 .. PATCH_ATTEMPTS - 1
    BY <1>1, <1>5, PinsAssumption DEF Handler
  <2>5. request'[r] \in Handler
    BY <1>1, <2>3, <2>4, NothingRead DEF Handler
  <2>6. /\ request'[r].pc = "reading" /\ request'[r].gone = request[r].gone
        /\ request'[r].patch = request[r].patch /\ request'[r].shown = request[r].shown
    BY <1>1, <2>3 DEF Handler
  <2>7. Carries(r)
    BY DEF HInv
  <2>8. Pinned(pins)' = Pinned(pins)
    BY <2>1
  <2>9. GuidesAdded(request[r].patch)' = GuidesAdded(request[r].patch)
    BY <2>6
  <2>10. Carries(r)'
    BY <1>2, <2>6, <2>7, <2>8, <2>9 DEF Carries
  <2> QED BY <1>1, <2>1, <2>2, <2>5, <2>10, OneHandler
<1> QED BY <1>3, <1>4, <1>5

\* Nothing is carried at first.
LEMMA InitCarries == Init => HInv
<1> SUFFICES ASSUME Init PROVE HInv
  OBVIOUS
<1>1. \A r \in Requests :
        request[r] = [pc |-> "idle", patch |-> <<>>, shown |-> <<>>, gone |-> {},
                      read |-> <<>>, tries |-> 0]
  BY DEF Init
<1>2. 0 \in 0 .. PATCH_ATTEMPTS - 1
  BY PinsAssumption
<1>3. \A r \in Requests : request[r] \in Handler
  <2>1. "idle" \in {"idle", "finding", "reading", "writing"} \cup Answers /\ {} \in SUBSET Guides
    OBVIOUS
  <2>2. [pc |-> "idle", patch |-> <<>>, shown |-> <<>>, gone |-> {}, read |-> <<>>, tries |-> 0]
          \in Handler
    BY <1>2, <2>1, NothingRead DEF Handler
  <2> QED BY <1>1, <2>2
<1>4. TypeOK
  BY <1>3, PinsAssumption DEF TypeOK, Init
<1>5. \A r \in Requests : Carries(r)
  BY <1>1 DEF Carries
<1> QED BY <1>4, <1>5 DEF HInv

\* The invariant of the handlers is inductive.
LEMMA NextCarries == HInv /\ [Next]_vars => HInv'
<1> SUFFICES ASSUME HInv, [Next]_vars PROVE HInv'
  OBVIOUS
<1>1. CASE UNCHANGED vars
  BY <1>1 DEF HInv, TypeOK, Carries, PatchedBy, vars
<1>2. ASSUME NEW r \in Requests, Ask(r) \/ Find(r) \/ Read(r) \/ Write(r) PROVE HInv'
  BY <1>2, AskCarries, FindCarries, ReadCarries, WriteCarries
<1> QED BY <1>1, <1>2 DEF Next

\* It holds throughout.
LEMMA HandlersInvariant == Spec => []HInv
  BY InitCarries, NextCarries, PTL DEF Spec

-----------------------------------------------------------------------------
(* Types, moves and unpinning                                              *)

\* The list holds guides, and every handler is at a step of patch_pins within its
\* attempts.
THEOREM TypeCorrect == Spec => []TypeOK
<1>1. HInv => TypeOK
  BY DEF HInv
<1> QED BY HandlersInvariant, <1>1, PTL

\* Whatever is pinned, a guide moved is at the position named, and the others keep
\* their order.
THEOREM MovesLand == Spec => []MovedWhereAsked
<1>1. HInv => MovedWhereAsked
  <2> SUFFICES ASSUME HInv, NEW i \in 0 .. Len(pins) - 1, NEW j \in 0 .. Len(pins) - 1
               PROVE  /\ PatchMove(pins, i, j).list[j + 1] = pins[i + 1]
                      /\ RemoveAt(PatchMove(pins, i, j).list, j + 1) = RemoveAt(pins, i + 1)
    BY DEF MovedWhereAsked
  <2>1. pins \in Seq(Guides)
    BY DEF HInv, TypeOK
  <2> QED BY <2>1, MoveLands
<1> QED BY HandlersInvariant, <1>1, PTL

\* A step that takes a guide there is off the list is the write of an Unpin of it.
LEMMA OnlyUnpinned ==
  HInv /\ [Next]_vars =>
    [\A guide \in (Pinned(pins) \cap Existing) \ Pinned(pins') :
       \E r \in Requests : \E i \in DOMAIN request[r].shown :
         /\ request[r].pc = "writing" /\ request'[r].pc = "patched"
         /\ request[r].shown[i] = guide
         /\ request[r].patch = Unpin(request[r].shown, i - 1)]_vars
<1> SUFFICES ASSUME HInv, [Next]_vars,
                    NEW guide \in (Pinned(pins) \cap Existing) \ Pinned(pins')
             PROVE  \E r \in Requests : \E i \in DOMAIN request[r].shown :
                      /\ request[r].pc = "writing" /\ request'[r].pc = "patched"
                      /\ request[r].shown[i] = guide
                      /\ request[r].patch = Unpin(request[r].shown, i - 1)
  OBVIOUS
<1>1. pins' # pins
  OBVIOUS
<1>2. PICK r \in Requests : Write(r)
  BY <1>1 DEF Next, vars, Ask, Find, Read
<1>3. /\ request[r].pc = "writing" /\ pins = request[r].read
      /\ pins' = PatchedBy(r, pins).list /\ request' = Answer(r, "patched")
  BY <1>1, <1>2 DEF Write
<1> DEFINE left == Without(pins, request[r].gone)
           patch == request[r].patch
           page == request[r].shown
<1>4. /\ request \in [Requests -> Handler] /\ pins \in Seq(Guides)
      /\ page \in Seq(Guides)
  BY DEF HInv, TypeOK, Handler
<1>5. request'[r].pc = "patched"
  BY <1>3, <1>4 DEF Answer
<1>6. Carries(r)
  BY DEF HInv
<1>7. patch \in PatchesOn(page) /\ request[r].gone \cap Existing = {}
  BY <1>3, <1>6 DEF Carries
<1>8. left \in Seq(Guides) /\ guide \in Pinned(left)
  BY <1>4, <1>7, WithoutKeeps
<1>9. PatchedBy(r, pins) = Applied(left, patch) /\ PatchedBy(r, pins).is = "patched"
  BY <1>3, <1>6 DEF PatchedBy, Carries
<1> HIDE DEF left, patch, page
<1>10. guide \notin Pinned(Applied(left, patch).list)
  BY <1>3, <1>9
<1>11. \E i \in DOMAIN page : page[i] = guide /\ patch = Unpin(page, i - 1)
  BY <1>4, <1>7, <1>8, <1>9, <1>10, OnlyUnpinDrops
<1> QED BY <1>3, <1>5, <1>11 DEF patch, page

\* However the pins moved since its page was shown, a patch unpins only the guide
\* that page showed at the position it removes.
THEOREM UnpinsWhatWasShown == Spec => UnpinsTheGuideShown
  BY HandlersInvariant, OnlyUnpinned, PTL DEF Spec, UnpinsTheGuideShown

-----------------------------------------------------------------------------
(* Patches one at a time                                                   *)

\* PinnedList applies patches as Pins does.
LEMMA SameApplied ==
  ASSUME NEW list, NEW patch
  PROVE  Abstract!Applied(list, patch) = Applied(list, patch)
<1> DEFINE Chain(f) == [s \in SUBSET DOMAIN patch |->
             IF s = {} THEN Made(list) ELSE Apply(f[s \ {Max(s)}], patch[Max(s)])]
           AChain(f) == [s \in SUBSET DOMAIN patch |->
             IF s = {} THEN Made(list) ELSE Abstract!Apply(f[s \ {Max(s)}], patch[Max(s)])]
<1>1. \A a, operation : Abstract!Apply(a, operation) = Apply(a, operation)
  BY DEF Abstract!Apply, Apply, Abstract!PatchAdd, PatchAdd, Abstract!PatchRemove, PatchRemove,
     Abstract!PatchMove, PatchMove, Abstract!PatchTest, PatchTest, Abstract!Made, Made,
     Abstract!PatchRefused, PatchRefused, Abstract!PatchTestFailed, PatchTestFailed,
     Abstract!IsIndex, IsIndex, Abstract!END, END,
     Abstract!InsertAt, InsertAt, Abstract!RemoveAt, RemoveAt
<1>2. FoldLeft(Apply, Made(list), patch) = (CHOOSE f : f = Chain(f))[DOMAIN patch]
  BY DEF FoldLeft, MapThenFoldSet
<1>3. Abstract!FoldLeft(Abstract!Apply, Made(list), patch) = (CHOOSE f : f = AChain(f))[DOMAIN patch]
  BY DEF Abstract!FoldLeft, Abstract!MapThenFoldSet, Abstract!Max, Max
<1>4. \A f : Chain(f) = AChain(f)
  BY <1>1
<1>5. (CHOOSE f : f = Chain(f)) = (CHOOSE f : f = AChain(f))
  <2> HIDE DEF Chain, AChain
  <2> QED BY <1>4
<1>6. FoldLeft(Apply, Made(list), patch) = Abstract!FoldLeft(Abstract!Apply, Made(list), patch)
  BY <1>2, <1>3, <1>5
<1> QED BY <1>6 DEF Abstract!Applied, Applied, Abstract!Made, Made, Abstract!PatchRefused, PatchRefused,
   Abstract!PatchTestFailed, PatchTestFailed, Abstract!Distinct, Distinct

\* It leaves out the same guides.
LEMMA SameLive == \A list : Abstract!Live(list) = Live(list)
  BY DEF Abstract!Live, Live, Abstract!Only, Only,
     FoldLeft, Abstract!FoldLeft, MapThenFoldSet, Abstract!MapThenFoldSet, Max, Abstract!Max

\* And refuses the same additions.
LEMMA SameAdded == \A patch : Abstract!GuidesAdded(patch) = GuidesAdded(patch)
  BY DEF Abstract!GuidesAdded, GuidesAdded

\* Leaving out the guides found gone leaves out those that are gone now.
LEMMA AppliedAsPinned ==
  ASSUME HInv, NEW r \in Requests, request[r].pc \in {"reading", "writing"}
  PROVE  Abstract!Applied(Abstract!Live(pins), request[r].patch) = PatchedBy(r, pins)
<1>1. pins \in Seq(Guides)
  BY DEF HInv, TypeOK
<1>2. Carries(r)
  BY DEF HInv
<1>3. Pinned(pins) \cap (Pinned(pins) \ Existing) = Pinned(pins) \cap request[r].gone
  BY <1>2 DEF Carries
<1>4. Range(pins) \cap Existing = Range(pins) \cap (Pinned(pins) \ request[r].gone)
  BY <1>1, <1>3 DEF Range, Pinned
<1>5. Live(pins) = Without(pins, request[r].gone)
  BY <1>1, <1>4, OnlySame DEF Live, Without
<1> QED BY <1>5, SameApplied, SameLive DEF PatchedBy

\* Nothing has been asked or answered.
LEMMA InitRefines == Init => Abstract!Init
  BY DEF Init, Abstract!Init, Answers

\* Each step of a handler is a step of the list, or changes nothing of it.
LEMMA StepRefines ==
  ASSUME HInv, NEW r \in Requests, Ask(r) \/ Find(r) \/ Read(r) \/ Write(r)
  PROVE  [Abstract!Next]_(Abstract!vars)
<1> DEFINE asked == [q \in Requests |-> request[q].patch]
           answer == [q \in Requests |-> IF request[q].pc \in Answers THEN request[q].pc ELSE "none"]
<1>1. request \in [Requests -> Handler] /\ request[r] \in Handler /\ pins \in Seq(Guides)
  BY DEF HInv, TypeOK
<1>2. Carries(r)
  BY DEF HInv
<1>3. request[r].pc # "idle" => request[r].patch # <<>>
  <2>1. request[r].shown \in Seq(Guides)
    BY <1>1 DEF Handler
  <2> QED BY <1>2, <2>1, PatchesAre DEF Carries
<1>4. asked[r] = request[r].patch /\ answer[r] = IF request[r].pc \in Answers THEN request[r].pc ELSE "none"
  OBVIOUS
<1>5. ASSUME NEW outcome \in Answers, request' = Answer(r, outcome)
      PROVE  asked' = asked /\ answer' = [answer EXCEPT ![r] = outcome]
  <2>1. /\ DOMAIN request' = Requests
        /\ \A q \in Requests \ {r} : request'[q] = request[q]
        /\ request'[r].pc = outcome /\ request'[r].patch = request[r].patch
    BY <1>1, <1>5 DEF Answer, Handler
  <2> QED BY <2>1
<1>6. ASSUME Ask(r) PROVE Abstract!Ask(r)
  <2>1. PICK patch : request' = [request EXCEPT ![r].pc = "finding", ![r].patch = patch, ![r].shown = Live(pins)]
    BY <1>6 DEF Ask
  <2>2. /\ DOMAIN request' = Requests
        /\ \A q \in Requests \ {r} : request'[q] = request[q]
        /\ request'[r].pc = "finding"
    BY <1>1, <2>1 DEF Handler
  <2>3. request[r].pc = "idle" /\ pins' = pins
    BY <1>6 DEF Ask
  <2>4. answer' = answer
    BY <2>2, <2>3 DEF Answers
  <2>5. asked' = [asked EXCEPT ![r] = asked'[r]] /\ asked[r] = <<>>
    BY <1>2, <2>2, <2>3 DEF Carries
  <2> QED BY <2>3, <2>4, <2>5 DEF Abstract!Ask
<1>7. ASSUME Find(r) PROVE Abstract!Patch(r) \/ UNCHANGED Abstract!vars
  <2>1. request[r].pc = "finding" /\ pins' = pins /\ "refused" \in Answers
    BY <1>7 DEF Find, Answers
  <2>2. CASE GuidesAdded(request[r].patch) \subseteq Existing
    <3>1. request' = [request EXCEPT ![r].pc = "reading", ![r].gone = Pinned(pins) \ Existing]
      BY <1>7, <2>2 DEF Find
    <3>2. /\ DOMAIN request' = Requests
          /\ \A q \in Requests \ {r} : request'[q] = request[q]
          /\ request'[r].pc = "reading" /\ request'[r].patch = request[r].patch
      BY <1>1, <3>1 DEF Handler
    <3>3. asked' = asked /\ answer' = answer
      BY <2>1, <3>2 DEF Answers
    <3> QED BY <2>1, <3>3 DEF Abstract!vars
  <2>3. CASE ~(GuidesAdded(request[r].patch) \subseteq Existing)
    <3>1. request' = Answer(r, "refused")
      BY <1>7, <2>3 DEF Find
    <3>2. asked' = asked /\ answer' = [answer EXCEPT ![r] = "refused"]
      BY <1>5, <2>1, <3>1
    <3>3. asked[r] # <<>> /\ answer[r] = "none"
      BY <1>3, <1>4, <2>1 DEF Answers
    <3>4. ~(Abstract!GuidesAdded(asked[r]) \subseteq Existing)
      BY <1>4, <2>3, SameAdded
    <3> QED BY <2>1, <3>2, <3>3, <3>4 DEF Abstract!Patch
  <2> QED BY <2>2, <2>3
<1>8. ASSUME Read(r) PROVE Abstract!Patch(r) \/ UNCHANGED Abstract!vars
  <2> DEFINE made == PatchedBy(r, pins)
  <2>1. request[r].pc = "reading" /\ pins' = pins
    BY <1>8 DEF Read
  <2>2. Abstract!Applied(Abstract!Live(pins), asked[r]) = made
    BY <1>4, <2>1, AppliedAsPinned
  <2>3. made.is \in {"patched", "refused", "stale"}
    BY AppliedIsDistinct DEF PatchedBy
  <2>4. CASE made.is = "patched"
    <3>1. request' = [request EXCEPT ![r].pc = "writing", ![r].read = pins]
      BY <1>8, <2>4 DEF Read
    <3>2. /\ DOMAIN request' = Requests
          /\ \A q \in Requests \ {r} : request'[q] = request[q]
          /\ request'[r].pc = "writing" /\ request'[r].patch = request[r].patch
      BY <1>1, <3>1 DEF Handler
    <3>3. asked' = asked /\ answer' = answer
      BY <2>1, <3>2 DEF Answers
    <3> QED BY <2>1, <3>3 DEF Abstract!vars
  <2>5. CASE made.is # "patched"
    <3>1. request' = Answer(r, made.is) /\ made.is \in Answers
      BY <1>8, <2>3, <2>5 DEF Read, Answers
    <3> HIDE DEF made
    <3>2. asked' = asked /\ answer' = [answer EXCEPT ![r] = made.is]
      BY <1>5, <3>1
    <3>3. asked[r] # <<>> /\ answer[r] = "none"
      BY <1>3, <1>4, <2>1 DEF Answers
    <3> HIDE DEF asked, answer
    <3> QED BY <2>1, <2>2, <2>5, <3>2, <3>3 DEF Abstract!Patch, asked, answer
  <2> QED BY <2>4, <2>5
<1>9. ASSUME Write(r) PROVE Abstract!Patch(r) \/ Abstract!GiveUp(r) \/ UNCHANGED Abstract!vars
  <2>1. request[r].pc = "writing" /\ "patched" \in Answers /\ "changing" \in Answers
    BY <1>9 DEF Write, Answers
  <2>2. asked[r] # <<>> /\ answer[r] = "none"
    BY <1>3, <1>4, <2>1 DEF Answers
  <2>3. CASE pins = request[r].read
    <3> DEFINE made == PatchedBy(r, pins)
    <3>1. Abstract!Applied(Abstract!Live(pins), asked[r]) = made /\ made.is = "patched"
      BY <1>4, <2>1, <2>3, AppliedAsPinned, WriteMakes
    <3>2. pins' = made.list /\ request' = Answer(r, "patched")
      BY <1>9, <2>3 DEF Write
    <3>3. asked' = asked /\ answer' = [answer EXCEPT ![r] = "patched"]
      BY <1>5, <2>1, <3>2
    <3>4. Abstract!GuidesAdded(asked[r]) \subseteq Existing
      BY <1>2, <1>4, <2>1, SameAdded DEF Carries
    <3> HIDE DEF made
    <3> QED BY <2>2, <3>1, <3>2, <3>3, <3>4 DEF Abstract!Patch
  <2>4. CASE pins # request[r].read /\ request[r].tries + 1 = PATCH_ATTEMPTS
    <3>1. pins' = pins /\ request' = Answer(r, "changing")
      BY <1>9, <2>4 DEF Write
    <3>2. asked' = asked /\ answer' = [answer EXCEPT ![r] = "changing"]
      BY <1>5, <2>1, <3>1
    <3> QED BY <2>2, <3>1, <3>2 DEF Abstract!GiveUp
  <2>5. CASE pins # request[r].read /\ request[r].tries + 1 # PATCH_ATTEMPTS
    <3>1. /\ pins' = pins
          /\ request' = [request EXCEPT ![r].pc = "reading", ![r].read = <<>>, ![r].tries = @ + 1]
      BY <1>9, <2>5 DEF Write
    <3>2. /\ DOMAIN request' = Requests
          /\ \A q \in Requests \ {r} : request'[q] = request[q]
          /\ request'[r].pc = "reading" /\ request'[r].patch = request[r].patch
      BY <1>1, <3>1 DEF Handler
    <3>3. asked' = asked /\ answer' = answer
      BY <2>1, <3>2 DEF Answers
    <3> QED BY <3>1, <3>3 DEF Abstract!vars
  <2> QED BY <2>3, <2>4, <2>5
<1> QED BY <1>6, <1>7, <1>8, <1>9 DEF Abstract!Next

\* Patches made at once, read and written apart, come to patches applied whole one
\* at a time: none is lost and none undoes another.
THEOREM ImplementsPinnedList == Spec => PatchesAtOnce
<1>1. HInv /\ [Next]_vars => [Abstract!Next]_(Abstract!vars)
  <2>1. ASSUME UNCHANGED vars PROVE UNCHANGED Abstract!vars
    BY <2>1 DEF vars, Abstract!vars
  <2> QED BY <2>1, StepRefines DEF Next
<1> QED BY HandlersInvariant, InitRefines, <1>1, PTL DEF Spec, PatchesAtOnce, Abstract!Spec

-----------------------------------------------------------------------------
(* Attempts                                                                *)

\* A handler is at a step and within its attempts; nothing about lists is
\* needed.
Stages ==
  /\ DOMAIN request = Requests
  /\ \A r \in Requests : request[r].tries \in Nat

\* Every failed attempt was the doing of a patch of its own.
ChangesCounted ==
  \A r \in Requests :
    /\ request[r].tries <= Cardinality(Patched)
    /\ request[r].pc = "writing" /\ pins # request[r].read =>
         request[r].tries + 1 <= Cardinality(Patched)

IInv == Stages /\ ChangesCounted /\ NoGuideTwice /\ GivesUpOnlyOnChanges

\* The patched requests are finitely many.
LEMMA PatchedFinite == IsFiniteSet(Patched) /\ Cardinality(Patched) \in Nat
<1>1. IsFiniteSet(Patched)
  BY PinsAssumption, FS_Subset DEF Patched
<1> QED BY <1>1, FS_CardinalityType

\* A step that neither writes the list nor begins to write, and patches
\* nothing.
LEMMA QuietStep ==
  ASSUME IInv, NEW r \in Requests, UNCHANGED pins,
         DOMAIN request' = Requests,
         \A q \in Requests \ {r} : request'[q] = request[q],
         request[r].pc # "patched",
         request'[r].pc \in {"finding", "reading", "writing", "refused", "stale"},
         request'[r].tries = request[r].tries,
         request'[r].pc = "writing" => request'[r].read = pins
  PROVE  IInv'
<1>1. Patched' = Patched
  BY DEF Patched
<1>2. Stages'
  BY DEF IInv, Stages
<1>3. ChangesCounted'
  BY <1>1 DEF IInv, ChangesCounted
<1>4. NoGuideTwice'
  BY DEF IInv, NoGuideTwice
<1>5. GivesUpOnlyOnChanges'
  BY <1>1 DEF IInv, GivesUpOnlyOnChanges
<1> QED BY <1>2, <1>3, <1>4, <1>5 DEF IInv

\* A write that is made is one more patch; one that is not has been counted.
LEMMA WriteStep ==
  ASSUME IInv, NEW r \in Requests, Write(r)
  PROVE  IInv'
<1> USE DEF IInv
<1>0. Cardinality(Patched) \in Nat /\ IsFiniteSet(Patched) /\ PATCH_ATTEMPTS \in Nat
  BY PatchedFinite, PinsAssumption
<1>1. request[r].pc = "writing" /\ request[r].tries \in Nat /\ DOMAIN request = Requests
  BY DEF Write, Stages
<1>2. CASE /\ pins' = PatchedBy(r, request[r].read).list
           /\ request' = Answer(r, "patched")
  <2>1. /\ DOMAIN request' = Requests
        /\ \A q \in Requests \ {r} : request'[q] = request[q]
    BY <1>1, <1>2 DEF Answer
  <2>2. request'[r].pc = "patched" /\ request'[r].tries = request[r].tries
    BY <1>1, <1>2 DEF Answer
  <2>3. Patched' = Patched \cup {r} /\ r \notin Patched
    BY <1>1, <2>1, <2>2 DEF Patched
  <2>4. Cardinality(Patched') = Cardinality(Patched) + 1
    BY <1>0, <2>3, FS_AddElement
  <2>5. Stages'
    BY <1>1, <2>1, <2>2 DEF Stages
  <2>6. ChangesCounted'
    BY <1>0, <2>1, <2>2, <2>4 DEF ChangesCounted, Stages
  <2>7. NoGuideTwice'
    BY <1>2, AppliedIsDistinct DEF NoGuideTwice, PatchedBy, Distinct
  <2>8. GivesUpOnlyOnChanges'
    BY <1>0, <2>1, <2>2, <2>4 DEF GivesUpOnlyOnChanges
  <2> QED BY <2>5, <2>6, <2>7, <2>8
<1>3. CASE /\ pins # request[r].read
           /\ UNCHANGED pins
           /\ request' = IF request[r].tries + 1 = PATCH_ATTEMPTS
                         THEN Answer(r, "changing")
                         ELSE [request EXCEPT ![r].pc = "reading", ![r].read = <<>>,
                                              ![r].tries = @ + 1]
  <2>1. /\ DOMAIN request' = Requests
        /\ \A q \in Requests \ {r} : request'[q] = request[q]
    BY <1>1, <1>3 DEF Answer
  <2>2. request[r].tries + 1 <= Cardinality(Patched)
    BY <1>1, <1>3 DEF ChangesCounted
  <2>3. \/ /\ request'[r].pc = "changing" /\ request'[r].tries = request[r].tries
           /\ request[r].tries + 1 = PATCH_ATTEMPTS
        \/ request'[r].pc = "reading" /\ request'[r].tries = request[r].tries + 1
    BY <1>1, <1>3 DEF Answer
  <2>4. Patched' = Patched
    BY <1>1, <2>1, <2>3 DEF Patched
  <2>5. Stages'
    BY <1>1, <2>1, <2>3 DEF Stages
  <2>6. ChangesCounted'
    BY <1>0, <1>1, <1>3, <2>1, <2>2, <2>3, <2>4 DEF ChangesCounted
  <2>7. NoGuideTwice'
    BY <1>3 DEF NoGuideTwice
  <2>8. GivesUpOnlyOnChanges'
    BY <1>0, <2>1, <2>2, <2>3, <2>4 DEF GivesUpOnlyOnChanges
  <2> QED BY <2>5, <2>6, <2>7, <2>8
<1> QED BY <1>2, <1>3 DEF Write

\* Nothing has been asked, and what is pinned already is pinned once.
LEMMA InitInv == Init => IInv
<1> SUFFICES ASSUME Init PROVE IInv
  OBVIOUS
<1>1. Stages /\ \A r \in Requests : request[r].tries = 0 /\ request[r].pc = "idle"
  BY DEF Init, Stages
<1>2. Cardinality(Patched) \in Nat
  BY PatchedFinite
<1>3. ChangesCounted
  BY <1>1, <1>2 DEF ChangesCounted
<1>4. NoGuideTwice
  BY PinsAssumption DEF Init, NoGuideTwice, Distinct
<1>5. GivesUpOnlyOnChanges
  BY <1>1 DEF GivesUpOnlyOnChanges
<1> QED BY <1>1, <1>3, <1>4, <1>5 DEF IInv

\* The invariant is inductive.
LEMMA NextInv == IInv /\ [Next]_vars => IInv'
<1> SUFFICES ASSUME IInv, [Next]_vars PROVE IInv'
  OBVIOUS
<1> USE DEF IInv
<1>1. ASSUME NEW r \in Requests, Ask(r) PROVE IInv'
  <2>1. PICK patch \in PatchesOn(Live(pins)) :
          request' = [request EXCEPT ![r].pc = "finding",
                        ![r].patch = patch, ![r].shown = Live(pins)]
    BY <1>1 DEF Ask
  <2>2. /\ DOMAIN request' = Requests
        /\ \A q \in Requests \ {r} : request'[q] = request[q]
        /\ request'[r].pc = "finding" /\ request'[r].tries = request[r].tries
    BY <2>1 DEF Stages
  <2>3. UNCHANGED pins /\ request[r].pc # "patched"
    BY <1>1 DEF Ask
  <2> QED BY <2>2, <2>3, QuietStep
<1>2. ASSUME NEW r \in Requests, Find(r) PROVE IInv'
  <2>1. /\ DOMAIN request' = Requests
        /\ \A q \in Requests \ {r} : request'[q] = request[q]
        /\ request'[r].pc \in {"reading", "refused"}
        /\ request'[r].tries = request[r].tries
    BY <1>2 DEF Find, Answer, Stages
  <2>2. UNCHANGED pins /\ request[r].pc # "patched"
    BY <1>2 DEF Find
  <2> QED BY <2>1, <2>2, QuietStep
<1>3. ASSUME NEW r \in Requests, Read(r) PROVE IInv'
  <2> DEFINE made == PatchedBy(r, pins)
  <2>1. made.is # "patched" => made.is \in {"refused", "stale"}
    BY AppliedIsDistinct DEF PatchedBy
  <2>2. /\ DOMAIN request' = Requests
        /\ \A q \in Requests \ {r} : request'[q] = request[q]
        /\ request'[r].tries = request[r].tries
        /\ \/ request'[r].pc = "writing" /\ request'[r].read = pins
           \/ request'[r].pc = made.is /\ made.is # "patched"
    BY <1>3 DEF Read, Answer, Stages
  <2>3. UNCHANGED pins /\ request[r].pc # "patched"
    BY <1>3 DEF Read
  <2> QED BY <2>1, <2>2, <2>3, QuietStep
<1>4. ASSUME NEW r \in Requests, Write(r) PROVE IInv'
  BY <1>4, WriteStep
<1>5. CASE UNCHANGED vars
  BY <1>5 DEF vars, Stages, ChangesCounted, NoGuideTwice, GivesUpOnlyOnChanges, Patched
<1> QED BY <1>1, <1>2, <1>3, <1>4, <1>5 DEF Next

\* The invariant holds throughout.
LEMMA Invariance == Spec => []IInv
  BY InitInv, NextInv, PTL DEF Spec

\* No history of patches pins a guide twice.
THEOREM PinnedOnce == Spec => []NoGuideTwice
<1>1. IInv => NoGuideTwice
  BY DEF IInv
<1> QED BY Invariance, <1>1, PTL

\* A patch is given up only when as many patches of others were applied as it
\* made attempts, whatever that number is.
THEOREM GivesUpRightly == Spec => []GivesUpOnlyOnChanges
<1>1. IInv => GivesUpOnlyOnChanges
  BY DEF IInv
<1> QED BY Invariance, <1>1, PTL

=============================================================================
