---------------------------- MODULE Filing_proofs ----------------------------
(***************************************************************************)
(* EveryTextIsFiled, for documents of any length: what the elements of a   *)
(* body say is filed once, each text in its section and all of it in the   *)
(* order of the page, and what the cover says is in the title.             *)
(*                                                                         *)
(* What blocks say is taken apart first: a run of list entries says what   *)
(* its entries do, unless no item of it says anything (RunSays); the       *)
(* paragraphs of a box or of a cell are put in blocks that say what they   *)
(* do (BlocksSay); a table says what is in its cells, merged or not, in    *)
(* the columns it has (TableSays).                                         *)
(*                                                                         *)
(* At every step of the walk the texts filed, those of the open list,      *)
(* those held for its next item and those in the open box, one after the   *)
(* other, are what the walk has told (Told), and that is what the elements *)
(* so far say (FiledFrom): nothing is missing of what is to be kept, twice *)
(* or out of its order.  What may be missing stands behind an item that    *)
(* says nothing: while the open list has only such items (Mute) the texts  *)
(* that wait are said since one of them, and so are lost if they are lost  *)
(* at all.  Each step gives the walk the texts of one element (Gives,      *)
(* Takes), and at the end nothing is held (Idle), so what is told is filed *)
(* (FiledInv, EndFiled).                                                   *)
(*                                                                         *)
(* The cover is read in groups that a blank paragraph parts; taken         *)
(* together they are what it says (CoverIs), which no section holds.       *)
(***************************************************************************)
EXTENDS Conversion_proofs

-----------------------------------------------------------------------------
(* The texts of lines, blocks and paragraphs                               *)

\* Whose texts are asked for.
OfLine     == [of |-> "line"]
OfBlock    == [of |-> "block"]
OfPart     == [of |-> "part"]
FiledAt(s) == [of |-> "filed", s |-> s]
PartsAt(n) == [of |-> "parts", n |-> n]

\* What a line, a block, a paragraph, a block of the s-th section or paragraphs of the
\* n-th element say.
Spoken(by, x) ==
  IF by.of = "line" THEN x.text
  ELSE IF by.of = "block" THEN x.says
  ELSE IF by.of = "part" THEN Text(x)
  ELSE IF by.of = "filed" THEN InSection(by.s, x.says)
  ELSE TextsOf(Placed(by.n, x))

AllSpoken(by, list) == FlattenSeq([i \in DOMAIN list |-> Spoken(by, list[i])])
Speaks(by, list) == IsList(list) /\ \A i \in 1..Len(list) : IsList(Spoken(by, list[i]))

\* They say what each says.
LEMMA SpokenAre ==
  /\ \A ls : TextsOfLines(ls) = AllSpoken(OfLine, ls)
  /\ \A ps : TextsOf(ps) = AllSpoken(OfPart, ps)
  /\ \A x : /\ Spoken(OfLine, x) = x.text /\ Spoken(OfBlock, x) = x.says /\ Spoken(OfPart, x) = Text(x)
            /\ \A s : Spoken(FiledAt(s), x) = InSection(s, x.says)
            /\ \A n : Spoken(PartsAt(n), x) = TextsOf(Placed(n, x))
<1>1. \A x : /\ Spoken(OfLine, x) = x.text /\ Spoken(OfBlock, x) = x.says /\ Spoken(OfPart, x) = Text(x)
             /\ \A s : Spoken(FiledAt(s), x) = InSection(s, x.says)
             /\ \A n : Spoken(PartsAt(n), x) = TextsOf(Placed(n, x))
  BY DEF Spoken, OfLine, OfBlock, OfPart, FiledAt, PartsAt
<1>2. \A ls : TextsOfLines(ls) = AllSpoken(OfLine, ls)
  BY <1>1 DEF TextsOfLines, AllSpoken
<1>3. \A ps : TextsOf(ps) = AllSpoken(OfPart, ps)
  BY <1>1 DEF TextsOf, AllSpoken
<1> QED BY <1>1, <1>2, <1>3

\* What each of a list says is a list of lists.
LEMMA EachSpoken ==
  ASSUME NEW by, NEW list, Speaks(by, list)
  PROVE  LET each == [i \in DOMAIN list |-> Spoken(by, list[i])]
         IN  /\ AreLists(each) /\ Len(each) = Len(list) /\ Len(list) \in Nat
             /\ \A i \in 1..Len(list) : each[i] = Spoken(by, list[i])
             /\ AllSpoken(by, list) = FlattenSeq(each)
<1> DEFINE N == Len(list)
           each == [i \in DOMAIN list |-> Spoken(by, list[i])]
<1>1. N \in Nat /\ DOMAIN list = 1..N
  BY LongerIs DEF Speaks
<1>2. AllSpoken(by, list) = FlattenSeq(each)
  BY DEF AllSpoken
<1>3. \A i \in 1..N : each[i] = Spoken(by, list[i]) /\ IsList(Spoken(by, list[i]))
  BY <1>1 DEF Speaks
<1>4. each = [i \in 1..N |-> each[i]]
  BY <1>1
<1> HIDE DEF each, N
<1>5. IsList(each) /\ Len(each) = N
  BY <1>1, <1>4, FunctionList
<1>6. AreLists(each)
  BY <1>3, <1>5 DEF AreLists
<1> QED BY <1>1, <1>2, <1>3, <1>5, <1>6 DEF each, N

\* What they all say is a list.
LEMMA SpokenIs ==
  ASSUME NEW by, NEW list, Speaks(by, list)
  PROVE  IsList(AllSpoken(by, list))
<1> DEFINE each == [i \in DOMAIN list |-> Spoken(by, list[i])]
<1>1. AreLists(each) /\ AllSpoken(by, list) = FlattenSeq(each)
  BY EachSpoken
<1> HIDE DEF each
<1> QED BY <1>1, EmptyList, FlattenLonger

\* One thing more says what it says at the end.
LEMMA SpokenLonger ==
  ASSUME NEW by, NEW list, Speaks(by, list), NEW x, IsList(Spoken(by, x))
  PROVE  /\ Speaks(by, Append(list, x)) /\ IsList(AllSpoken(by, list))
         /\ AllSpoken(by, Append(list, x)) = AllSpoken(by, list) \o Spoken(by, x)
<1> DEFINE longer == Append(list, x)
           N == Len(list)
           each == [i \in DOMAIN list |-> Spoken(by, list[i])]
           more == [i \in DOMAIN longer |-> Spoken(by, longer[i])]
           s == Spoken(by, x)
<1>1. /\ IsList(longer) /\ Len(longer) = N + 1 /\ N \in Nat
      /\ longer[N + 1] = x /\ \A i \in 1..N : longer[i] = list[i]
  BY LongerIs DEF Speaks
<1>2. /\ AreLists(each) /\ Len(each) = N
      /\ \A i \in 1..N : each[i] = Spoken(by, list[i])
      /\ AllSpoken(by, list) = FlattenSeq(each)
  BY EachSpoken
<1> HIDE DEF longer, N
<1>3. Speaks(by, longer)
  <2> SUFFICES ASSUME NEW i \in 1..(N + 1) PROVE IsList(Spoken(by, longer[i]))
    BY <1>1 DEF Speaks
  <2>1. CASE i = N + 1
    BY <1>1, <2>1
  <2>2. CASE i # N + 1
    <3>1. i \in 1..N
      BY <1>1, <2>2
    <3>2. IsList(Spoken(by, list[i]))
      BY <3>1 DEF Speaks, N
    <3> QED BY <1>1, <3>1, <3>2
  <2> QED BY <2>1, <2>2
<1>4. /\ AreLists(more) /\ Len(more) = N + 1
      /\ \A i \in 1..(N + 1) : more[i] = Spoken(by, longer[i])
      /\ AllSpoken(by, longer) = FlattenSeq(more)
  BY <1>1, <1>3, EachSpoken
<1> HIDE DEF each, more, s
<1>5. more = Append(each, s)
  <2> DEFINE other == Append(each, s)
  <2>1. /\ IsList(other) /\ Len(other) = N + 1 /\ other[N + 1] = s
        /\ \A i \in 1..N : other[i] = each[i]
    BY <1>2, LongerIs DEF AreLists
  <2> HIDE DEF other
  <2>2. ASSUME NEW i \in 1..(N + 1) PROVE more[i] = other[i]
    <3>1. more[i] = Spoken(by, longer[i])
      BY <1>4
    <3>2. CASE i = N + 1
      BY <1>1, <2>1, <3>1, <3>2 DEF s
    <3>3. CASE i # N + 1
      <4>1. i \in 1..N
        BY <1>1, <3>3
      <4> QED BY <1>1, <1>2, <2>1, <3>1, <4>1
    <3> QED BY <3>2, <3>3
  <2>3. more = other
    BY <1>4, <2>1, <2>2, SameList DEF AreLists
  <2> QED BY <2>3 DEF other
<1>6. FlattenSeq(Append(each, s)) = FlattenSeq(each) \o s /\ IsList(FlattenSeq(each))
  <2>1. IsList(s)
    BY DEF s
  <2> QED BY <1>2, <2>1, FlattenLonger
<1> QED BY <1>2, <1>3, <1>4, <1>5, <1>6 DEF longer, s

\* Nothing says nothing.
LEMMA NoneSpoken ==
  ASSUME NEW by
  PROVE  Speaks(by, <<>>) /\ AllSpoken(by, <<>>) = <<>>
<1>1. Speaks(by, <<>>)
  BY EmptyList DEF Speaks
<1>2. [i \in DOMAIN <<>> |-> Spoken(by, <<>>[i])] = <<>>
  <2>1. DOMAIN <<>> = {}
    BY EmptyList
  <2> QED BY <2>1
<1>3. AllSpoken(by, <<>>) = FlattenSeq(<<>>)
  BY <1>2 DEF AllSpoken
<1> QED BY <1>1, <1>3, FlattenNone

\* Two lists joined say what both say.
LEMMA SpokenJoined ==
  ASSUME NEW by, NEW s, Speaks(by, s), NEW t, Speaks(by, t)
  PROVE  /\ Speaks(by, s \o t) /\ IsList(AllSpoken(by, s)) /\ IsList(AllSpoken(by, t))
         /\ AllSpoken(by, s \o t) = AllSpoken(by, s) \o AllSpoken(by, t)
<1> DEFINE N == Len(t)
           first(n) == SubSeq(t, 1, n)
           All(list) == AllSpoken(by, list)
           good == {n \in 0..N : Speaks(by, s \o first(n)) /\ All(s \o first(n)) = All(s) \o All(first(n))}
<1>1. IsList(s) /\ IsList(t) /\ \A i \in 1..N : IsList(Spoken(by, t[i]))
  BY DEF Speaks
<1>2. /\ N \in Nat /\ first(0) = <<>> /\ first(N) = t
      /\ \A n \in 0..N : IsList(first(n)) /\ Len(first(n)) = n /\ \A i \in 1..n : first(n)[i] = t[i]
      /\ \A n \in 1..N : first(n) = Append(first(n - 1), t[n])
  <2> DEFINE A == Range(t)
  <2>1. t \in Seq(A)
    BY <1>1 DEF IsList
  <2> HIDE DEF A
  <2>2. N \in Nat /\ \A n \in 1..N : t[n] \in A
    BY <2>1
  <2>3. \A n \in 0..N : first(n) \in Seq(A) /\ Len(first(n)) = n /\ \A i \in 1..n : first(n)[i] = t[i]
    BY <2>1, <2>2
  <2>4. first(0) = <<>> /\ first(N) = t
    BY <2>1, <2>2
  <2>5. \A n \in 1..N : first(n) = Append(first(n - 1), t[n])
    BY <2>1, <2>2
  <2>6. \A n \in 0..N : IsList(first(n))
    BY <2>3, ListIs
  <2> QED BY <2>2, <2>3, <2>4, <2>5, <2>6
<1>3. \A n \in 0..N : Speaks(by, first(n))
  <2> SUFFICES ASSUME NEW n \in 0..N PROVE Speaks(by, first(n))
    OBVIOUS
  <2>1. \A i \in 1..n : i \in 1..N /\ first(n)[i] = t[i]
    BY <1>2
  <2> DEFINE f == first(n)
  <2>2. IsList(f) /\ Len(f) = n /\ \A i \in 1..n : IsList(Spoken(by, f[i]))
    BY <1>1, <1>2, <2>1
  <2> HIDE DEF f
  <2>3. Speaks(by, f)
    BY <2>2 DEF Speaks
  <2> QED BY <2>3 DEF f
<1> HIDE DEF first, N
<1>4. IsList(All(s))
  BY SpokenIs
<1>5. 0 \in good
  <2> DEFINE zero == first(0)
  <2>1. zero = <<>> /\ All(zero) = <<>>
    BY <1>2, NoneSpoken
  <2>2. s \o zero = s /\ All(s) \o All(zero) = All(s)
    <3> HIDE DEF zero, All
    <3> QED BY <1>1, <1>4, <2>1, EmptyList, JoinedIs
  <2> HIDE DEF zero, All
  <2>3. Speaks(by, s \o zero) /\ All(s \o zero) = All(s) \o All(zero)
    BY <2>2
  <2> QED BY <1>2, <2>3 DEF zero
<1>6. ASSUME NEW n \in 1..N, n - 1 \in good PROVE n \in good
  <2> DEFINE before == first(n - 1)
             x == t[n]
             long == s \o before
             says == Spoken(by, x)
  <2>1. IsList(before) /\ Speaks(by, before) /\ first(n) = Append(before, x) /\ n \in 0..N /\ IsList(says)
    <3>1. n - 1 \in 0..N /\ n \in 0..N
      BY <1>2
    <3>2. IsList(Spoken(by, t[n]))
      BY <1>1 DEF N
    <3> QED BY <1>2, <1>3, <3>1, <3>2
  <2>2. Speaks(by, long) /\ All(long) = All(s) \o All(before)
    BY <1>6
  <2> HIDE DEF before, x
  <2>3. s \o Append(before, x) = Append(long, x)
    <3>1. Append(before, x) = before \o <<x>> /\ Append(long, x) = long \o <<x>> /\ IsList(<<x>>)
      <4>1. IsList(long)
        BY <2>2 DEF Speaks
      <4> HIDE DEF long
      <4> QED BY <2>1, <4>1, AppendedIs
    <3> QED BY <1>1, <2>1, <3>1, JoinedThrice
  <2> HIDE DEF long
  <2>4. /\ Speaks(by, Append(long, x)) /\ All(Append(long, x)) = All(long) \o says
        /\ All(Append(before, x)) = All(before) \o says /\ IsList(All(before))
    BY <2>1, <2>2, SpokenLonger
  <2> HIDE DEF All, says
  <2>5. (All(s) \o All(before)) \o says = All(s) \o (All(before) \o says)
    BY <1>4, <2>1, <2>4, JoinedThrice
  <2> DEFINE whole == first(n)
  <2>6. whole = Append(before, x) /\ s \o whole = Append(long, x)
    BY <2>1, <2>3
  <2> HIDE DEF whole
  <2>7. Speaks(by, s \o whole) /\ All(s \o whole) = All(s) \o All(whole)
    BY <2>2, <2>4, <2>5, <2>6
  <2> QED BY <2>1, <2>7 DEF whole
<1>7. N \in good
  <2> HIDE DEF good
  <2>1. 0..N \subseteq good
    BY <1>2, <1>5, <1>6, StepByStep
  <2> QED BY <1>2, <2>1
<1>8. Speaks(by, s \o t) /\ All(s \o t) = All(s) \o All(t)
  <2> HIDE DEF All
  <2> QED BY <1>2, <1>7
<1>9. IsList(All(t))
  BY SpokenIs
<1> QED BY <1>4, <1>8, <1>9

\* A text is a list of at most one thing, so paragraphs always say some.
LEMMA TextIs ==
  /\ \A p : IsList(Text(p))
  /\ \A ps : IsList(ps) => Speaks(OfPart, ps)
<1>1. ASSUME NEW p PROVE IsList(Text(p))
  <2> DEFINE text == [at |-> <<p.n, p.k>>, link |-> p.link, hashes |-> p.hashes]
  <2>1. Text(p) = IF p.says = "nothing" THEN <<>> ELSE << text >>
    BY DEF Text
  <2> HIDE DEF text
  <2>2. IsList(<< text >>)
    BY EmptyList, AppendedIs
  <2> QED BY <2>1, <2>2, EmptyList
<1>2. ASSUME NEW ps, IsList(ps) PROVE Speaks(OfPart, ps)
  <2>1. \A i \in 1..Len(ps) : IsList(Spoken(OfPart, ps[i]))
    BY <1>1, SpokenAre
  <2> QED BY <1>2, <2>1 DEF Speaks
<1> QED BY <1>1, <1>2

\* Paragraphs placed are as many, in the same order.
LEMMA PlacedIs ==
  ASSUME NEW n, NEW ps, IsList(ps)
  PROVE  /\ IsList(Placed(n, ps)) /\ Len(Placed(n, ps)) = Len(ps) /\ Len(ps) \in Nat
         /\ \A i \in 1..Len(ps) : Placed(n, ps)[i] = [ps[i] EXCEPT !.n = n]
<1> DEFINE N == Len(ps)
           f == Placed(n, ps)
           g(p) == [p EXCEPT !.n = n]
<1>1. N \in Nat /\ DOMAIN ps = 1..N
  BY LongerIs
<1>2. f = [i \in 1..N |-> g(ps[i])]
  BY <1>1 DEF Placed
<1> HIDE DEF f, g, N
<1>3. f = [i \in 1..N |-> f[i]] /\ \A i \in 1..N : f[i] = g(ps[i])
  BY <1>2
<1>4. IsList(f) /\ Len(f) = N
  BY <1>1, <1>3, FunctionList
<1> QED BY <1>1, <1>3, <1>4 DEF f, g, N

\* No paragraphs placed are none, and more are placed alike.
LEMMA PlacedJoined ==
  ASSUME NEW n, NEW s, IsList(s), NEW t, IsList(t)
  PROVE  Placed(n, s \o t) = Placed(n, s) \o Placed(n, t)
<1> DEFINE u == s \o t
           N == Len(s)
           M == Len(t)
           p == Placed(n, s)
           q == Placed(n, t)
           r == Placed(n, u)
           g(x) == [x EXCEPT !.n = n]
<1>1. /\ IsList(u) /\ Len(u) = N + M /\ N \in Nat /\ M \in Nat
      /\ \A i \in 1..N : u[i] = s[i]
      /\ \A i \in 1..M : u[N + i] = t[i]
  BY JoinedIs
<1> HIDE DEF u
<1>2. /\ IsList(p) /\ Len(p) = N /\ \A i \in 1..N : p[i] = g(s[i])
      /\ IsList(q) /\ Len(q) = M /\ \A i \in 1..M : q[i] = g(t[i])
      /\ IsList(r) /\ Len(r) = N + M /\ \A i \in 1..(N + M) : r[i] = g(u[i])
  <2>1. IsList(p) /\ Len(p) = N /\ \A i \in 1..N : p[i] = g(s[i])
    BY PlacedIs
  <2>2. IsList(q) /\ Len(q) = M /\ \A i \in 1..M : q[i] = g(t[i])
    BY PlacedIs
  <2>3. IsList(r) /\ Len(r) = N + M /\ \A i \in 1..(N + M) : r[i] = g(u[i])
    <3> HIDE DEF N, M
    <3>1. IsList(r) /\ Len(r) = Len(u) /\ \A i \in 1..Len(u) : r[i] = g(u[i])
      BY <1>1, PlacedIs
    <3> QED BY <1>1, <3>1
  <2> QED BY <2>1, <2>2, <2>3
<1> HIDE DEF p, q, r, g, N, M
<1> DEFINE v == p \o q
<1>3. /\ IsList(v) /\ Len(v) = N + M
      /\ \A i \in 1..N : v[i] = p[i]
      /\ \A i \in 1..M : v[N + i] = q[i]
  <2>1. /\ IsList(v) /\ Len(v) = Len(p) + Len(q)
        /\ \A i \in 1..Len(p) : v[i] = p[i]
        /\ \A i \in 1..Len(q) : v[Len(p) + i] = q[i]
    <3>1. IsList(p) /\ IsList(q)
      BY <1>2
    <3> QED BY <3>1, JoinedIs
  <2>2. Len(p) = N /\ Len(q) = M
    BY <1>2
  <2> QED BY <2>1, <2>2
<1> HIDE DEF v
<1>4. ASSUME NEW i \in 1..(N + M) PROVE r[i] = v[i]
  <2>1. CASE i <= N
    <3>1. i \in 1..N
      BY <1>1, <2>1
    <3>2. r[i] = g(u[i]) /\ u[i] = s[i] /\ v[i] = p[i] /\ p[i] = g(s[i])
      BY <1>1, <1>2, <1>3, <3>1
    <3> QED BY <3>2
  <2>2. CASE ~(i <= N)
    <3>1. i - N \in 1..M /\ N + (i - N) = i
      BY <1>1, <2>2
    <3>2. u[N + (i - N)] = t[i - N] /\ v[N + (i - N)] = q[i - N] /\ q[i - N] = g(t[i - N])
      BY <1>1, <1>2, <1>3, <3>1
    <3> QED BY <1>2, <3>1, <3>2
  <2> QED BY <2>1, <2>2
<1>5. r = v
  BY <1>2, <1>3, <1>4, SameList
<1> QED BY <1>5 DEF r, v, p, q, u

\* The texts of paragraphs placed are a list, and of more they are joined.
LEMMA PartsJoined ==
  ASSUME NEW n, NEW s, IsList(s), NEW t, IsList(t)
  PROVE  /\ TextsOf(Placed(n, s \o t)) = TextsOf(Placed(n, s)) \o TextsOf(Placed(n, t))
         /\ IsList(TextsOf(Placed(n, s)))
<1>1. /\ Placed(n, s \o t) = Placed(n, s) \o Placed(n, t)
      /\ IsList(Placed(n, s)) /\ IsList(Placed(n, t))
  BY PlacedIs, PlacedJoined
<1> DEFINE p == Placed(n, s)
           q == Placed(n, t)
<1> HIDE DEF p, q
<1>2. Speaks(OfPart, p) /\ Speaks(OfPart, q)
  BY <1>1, TextIs DEF p, q
<1>3. /\ AllSpoken(OfPart, p \o q) = AllSpoken(OfPart, p) \o AllSpoken(OfPart, q)
      /\ IsList(AllSpoken(OfPart, p))
  BY <1>2, SpokenJoined
<1>4. TextsOf(p \o q) = TextsOf(p) \o TextsOf(q) /\ IsList(TextsOf(p))
  BY <1>3, SpokenAre
<1> QED BY <1>1, <1>4 DEF p, q

\* No paragraphs say nothing.
LEMMA NoParts ==
  ASSUME NEW n
  PROVE  Placed(n, <<>>) = <<>> /\ TextsOf(<<>>) = <<>>
<1>1. Placed(n, <<>>) = <<>>
  <2>1. IsList(Placed(n, <<>>)) /\ Len(Placed(n, <<>>)) = 0
    BY EmptyList, PlacedIs
  <2> DEFINE p == Placed(n, <<>>)
  <2> HIDE DEF p
  <2>2. IsList(p) /\ Len(p) = 0
    BY <2>1 DEF p
  <2>3. p = <<>>
    BY <2>2, EmptyList, SameList
  <2> QED BY <2>3 DEF p
<1>2. TextsOf(<<>>) = <<>>
  BY SpokenAre, NoneSpoken
<1> QED BY <1>1, <1>2

\* What several runs of paragraphs say is what all the paragraphs say.
LEMMA PartsFlat ==
  ASSUME NEW n, NEW runs, AreLists(runs)
  PROVE  /\ Speaks(PartsAt(n), runs) /\ IsList(FlattenSeq(runs))
         /\ TextsOf(Placed(n, FlattenSeq(runs))) = AllSpoken(PartsAt(n), runs)
<1> DEFINE N == Len(runs)
           by == PartsAt(n)
           SaidBy(ps) == TextsOf(Placed(n, ps))
<1>0. IsList(runs) /\ \A i \in 1..N : IsList(runs[i])
  BY DEF AreLists
<1>1. N \in Nat
  BY <1>0, LongerIs
<1>2. PICK first : Growing(first, runs)
  BY <1>0, GrowsByOne
<1>3. /\ first[0] = <<>> /\ first[N] = runs
      /\ \A k \in 1..N : first[k] = Append(first[k - 1], runs[k])
  BY <1>2 DEF Growing
<1> HIDE DEF N
<1> DEFINE Agrees(list) == /\ AreLists(list) /\ Speaks(by, list) /\ IsList(FlattenSeq(list))
                           /\ SaidBy(FlattenSeq(list)) = AllSpoken(by, list)
           good == {k \in 0..N : Agrees(first[k])}
<1>4. \A ps : IsList(ps) => Spoken(by, ps) = SaidBy(ps) /\ IsList(SaidBy(ps))
  <2>1. \A ps : Spoken(by, ps) = SaidBy(ps)
    BY SpokenAre
  <2>2. \A ps : IsList(ps) => IsList(SaidBy(ps))
    BY EmptyList, PartsJoined
  <2> QED BY <2>1, <2>2
<1> HIDE DEF by
<1>5. 0 \in good
  <2>1. Agrees(<<>>)
    BY FlattenNone, NoParts, NoneSpoken, EmptyList
  <2> HIDE DEF Agrees
  <2> QED BY <1>1, <1>3, <2>1
<1>6. ASSUME NEW k \in 1..N, k - 1 \in good PROVE k \in good
  <2> DEFINE before == first[k - 1]
             run == runs[k]
             flat == FlattenSeq(before)
  <2>1. AreLists(before) /\ Speaks(by, before) /\ SaidBy(flat) = AllSpoken(by, before) /\ IsList(flat)
    BY <1>6
  <2>2. IsList(run) /\ first[k] = Append(before, run) /\ k \in 0..N
    BY <1>0, <1>1, <1>3 DEF N
  <2> HIDE DEF before, run
  <2>3. Spoken(by, run) = SaidBy(run) /\ IsList(SaidBy(run))
    BY <1>4, <2>2
  <2>4. /\ AreLists(Append(before, run)) /\ FlattenSeq(Append(before, run)) = flat \o run
        /\ IsList(flat)
    BY <2>1, <2>2, FlattenLonger
  <2> HIDE DEF flat
  <2>5. SaidBy(flat \o run) = SaidBy(flat) \o SaidBy(run) /\ IsList(flat \o run)
    <3> HIDE DEF SaidBy
    <3>1. IsList(flat \o run)
      BY <2>2, <2>4, JoinedIs
    <3>2. TextsOf(Placed(n, flat \o run)) = TextsOf(Placed(n, flat)) \o TextsOf(Placed(n, run))
      BY <2>2, <2>4, PartsJoined
    <3> QED BY <3>1, <3>2 DEF SaidBy
  <2> HIDE DEF SaidBy
  <2>6. /\ Speaks(by, Append(before, run))
        /\ AllSpoken(by, Append(before, run)) = AllSpoken(by, before) \o SaidBy(run)
    BY <2>1, <2>3, SpokenLonger
  <2>7. Agrees(Append(before, run))
    BY <2>1, <2>4, <2>5, <2>6
  <2> HIDE DEF Agrees
  <2> QED BY <2>2, <2>7
<1>7. N \in good
  <2> HIDE DEF good
  <2>1. 0..N \subseteq good
    BY <1>1, <1>5, <1>6, StepByStep
  <2> QED BY <1>1, <2>1
<1> QED BY <1>3, <1>7 DEF by

\* Texts of a section are as many, joined in the same order.
LEMMA InSectionIs ==
  ASSUME NEW n, NEW s, IsList(s)
  PROVE  /\ IsList(InSection(n, s)) /\ Len(InSection(n, s)) = Len(s) /\ Len(s) \in Nat
         /\ \A i \in 1..Len(s) : InSection(n, s)[i] = <<n, s[i]>>
         /\ Range(InSection(n, s)) = {<<n, text>> : text \in Range(s)}
<1> DEFINE N == Len(s)
           f == InSection(n, s)
<1>1. N \in Nat /\ DOMAIN s = 1..N
  BY LongerIs
<1>2. f = [i \in 1..N |-> <<n, s[i]>>]
  BY <1>1 DEF InSection
<1> HIDE DEF f, N
<1>3. f = [i \in 1..N |-> f[i]] /\ \A i \in 1..N : f[i] = <<n, s[i]>>
  BY <1>2
<1>4. IsList(f) /\ Len(f) = N
  BY <1>1, <1>3, FunctionList
<1>5. Range(f) = {<<n, text>> : text \in Range(s)}
  <2>1. DOMAIN f = 1..N
    BY <1>2
  <2> QED BY <1>1, <1>3, <2>1 DEF Range
<1> QED BY <1>1, <1>3, <1>4, <1>5 DEF f, N

\* Texts of a section joined are those of both.
LEMMA InSectionJoined ==
  ASSUME NEW n, NEW s, IsList(s), NEW t, IsList(t)
  PROVE  InSection(n, s \o t) = InSection(n, s) \o InSection(n, t)
<1> DEFINE u == s \o t
           N == Len(s)
           M == Len(t)
           p == InSection(n, s)
           q == InSection(n, t)
           r == InSection(n, u)
<1>1. /\ IsList(u) /\ Len(u) = N + M /\ N \in Nat /\ M \in Nat
      /\ \A i \in 1..N : u[i] = s[i]
      /\ \A i \in 1..M : u[N + i] = t[i]
  BY JoinedIs
<1> HIDE DEF u
<1>2. /\ IsList(p) /\ Len(p) = N /\ \A i \in 1..N : p[i] = <<n, s[i]>>
      /\ IsList(q) /\ Len(q) = M /\ \A i \in 1..M : q[i] = <<n, t[i]>>
      /\ IsList(r) /\ Len(r) = N + M /\ \A i \in 1..(N + M) : r[i] = <<n, u[i]>>
  BY <1>1, InSectionIs
<1> HIDE DEF p, q, r, N, M
<1> DEFINE v == p \o q
<1>3. /\ IsList(v) /\ Len(v) = N + M
      /\ \A i \in 1..N : v[i] = p[i]
      /\ \A i \in 1..M : v[N + i] = q[i]
  <2>1. /\ IsList(v) /\ Len(v) = Len(p) + Len(q)
        /\ \A i \in 1..Len(p) : v[i] = p[i]
        /\ \A i \in 1..Len(q) : v[Len(p) + i] = q[i]
    <3>1. IsList(p) /\ IsList(q)
      BY <1>2
    <3> QED BY <3>1, JoinedIs
  <2>2. Len(p) = N /\ Len(q) = M
    BY <1>2
  <2> QED BY <2>1, <2>2
<1> HIDE DEF v
<1>4. ASSUME NEW i \in 1..(N + M) PROVE r[i] = v[i]
  <2>1. CASE i <= N
    <3>1. i \in 1..N
      BY <1>1, <2>1
    <3>2. r[i] = <<n, u[i]>> /\ u[i] = s[i] /\ v[i] = p[i] /\ p[i] = <<n, s[i]>>
      BY <1>1, <1>2, <1>3, <3>1
    <3> QED BY <3>2
  <2>2. CASE ~(i <= N)
    <3>1. i - N \in 1..M /\ N + (i - N) = i
      BY <1>1, <2>2
    <3>2. u[N + (i - N)] = t[i - N] /\ v[N + (i - N)] = q[i - N] /\ q[i - N] = <<n, t[i - N]>>
      BY <1>1, <1>2, <1>3, <3>1
    <3> QED BY <1>2, <3>1, <3>2
  <2> QED BY <2>1, <2>2
<1>5. r = v
  BY <1>2, <1>3, <1>4, SameList
<1> QED BY <1>5 DEF r, v, p, q, u

-----------------------------------------------------------------------------
(* What a run of list entries says                                         *)

\* A run whose entries say texts.
IsSaid(items) == IsRun(items) /\ \A i \in 1..Len(items) : IsList(items[i].text)

\* No item of the run says anything.
Silences(items) == \A i \in 1..Len(items) : items[i].item # <<>> => items[i].text = <<>>

\* What an entry after them prints: a block with no item that says anything above it
\* prints nothing.
EntrySays(items, entry) == IF entry.item = <<>> /\ Silences(items) THEN <<>> ELSE entry.text

\* What the lines of the run say.
SaysOf(items) == TextsOfLines(Render(items))

\* The run is silent with an entry more where that is no item that says anything.
LEMMA SilencesLonger ==
  ASSUME NEW items, IsSaid(items), NEW entry, IsEntry(entry), IsList(entry.text)
  PROVE  /\ Silences(Append(items, entry)) <=> Silences(items) /\ (entry.item # <<>> => entry.text = <<>>)
         /\ IsSaid(Append(items, entry))
<1> DEFINE longer == Append(items, entry)
           N == Len(items)
<1>1. /\ IsList(longer) /\ Len(longer) = N + 1 /\ N \in Nat
      /\ longer[N + 1] = entry /\ \A i \in 1..N : longer[i] = items[i]
  BY LongerIs DEF IsSaid, IsRun
<1>2. IsRun(longer)
  BY RunLonger DEF IsSaid
<1> HIDE DEF longer
<1>s. \A i \in 1..N : IsList(items[i].text)
  BY DEF IsSaid
<1> HIDE DEF N
<1>3. ASSUME NEW i \in 1..(N + 1)
      PROVE  /\ IsList(longer[i].text)
             /\ longer[i] = IF i = N + 1 THEN entry ELSE items[i]
             /\ i = N + 1 \/ i \in 1..N
  <2>1. CASE i = N + 1
    BY <1>1, <2>1
  <2>2. CASE i # N + 1
    <3>1. i \in 1..N
      BY <1>1, <2>2
    <3>2. longer[i] = items[i] /\ IsList(items[i].text)
      BY <1>1, <1>s, <3>1
    <3> QED BY <2>2, <3>1, <3>2
  <2> QED BY <2>1, <2>2
<1>4. IsSaid(longer)
  BY <1>1, <1>2, <1>3 DEF IsSaid
<1>5. Silences(longer) <=> \A i \in 1..(N + 1) : longer[i].item # <<>> => longer[i].text = <<>>
  BY <1>1 DEF Silences
<1>6. Silences(items) <=> \A i \in 1..N : items[i].item # <<>> => items[i].text = <<>>
  BY DEF Silences, N
<1>7. ASSUME Silences(longer) PROVE Silences(items) /\ (entry.item # <<>> => entry.text = <<>>)
  <2>1. \A i \in 1..N : i \in 1..(N + 1) /\ longer[i] = items[i]
    BY <1>1
  <2>2. N + 1 \in 1..(N + 1) /\ longer[N + 1] = entry
    BY <1>1
  <2> QED BY <1>5, <1>6, <1>7, <2>1, <2>2
<1>8. ASSUME Silences(items), entry.item # <<>> => entry.text = <<>> PROVE Silences(longer)
  <2> SUFFICES ASSUME NEW i \in 1..(N + 1), longer[i].item # <<>> PROVE longer[i].text = <<>>
    BY <1>5
  <2>1. CASE i = N + 1
    BY <1>1, <1>8, <2>1
  <2>2. CASE i # N + 1
    <3>1. i \in 1..N
      BY <1>1, <2>2
    <3>2. longer[i] = items[i]
      BY <1>1, <3>1
    <3> QED BY <1>6, <1>8, <3>1, <3>2
  <2> QED BY <2>1, <2>2
<1> QED BY <1>4, <1>7, <1>8 DEF longer

\* The page a run is printed on has an item open where one said something.
PageIs(page, items) ==
  /\ DOMAIN page = {"lines", "stack"} /\ IsStack(page.stack) /\ Speaks(OfLine, page.lines)
  /\ page.stack = <<>> <=> Silences(items)

\* An entry more prints what it says.
LEMMA EntryTaken ==
  ASSUME NEW items, IsSaid(items), NEW entry, IsEntry(entry), IsList(entry.text),
         NEW page, PageIs(page, items)
  PROVE  /\ PageIs(TakeEntry(page, entry), Append(items, entry))
         /\ AllSpoken(OfLine, TakeEntry(page, entry).lines) =
              AllSpoken(OfLine, page.lines) \o EntrySays(items, entry)
<1> DEFINE next == TakeEntry(page, entry)
           longer == Append(items, entry)
           stack == page.stack
           sheet == page.lines
           text == entry.text
           before == AllSpoken(OfLine, sheet)
<1>1. /\ DOMAIN page = {"lines", "stack"} /\ IsStack(stack) /\ Speaks(OfLine, sheet)
      /\ stack = <<>> <=> Silences(items)
  BY DEF PageIs
<1>2. Silences(longer) <=> Silences(items) /\ (entry.item # <<>> => text = <<>>)
  BY SilencesLonger
<1>3. IsList(before) /\ before \o <<>> = before
  BY <1>1, SpokenIs, EmptyList, JoinedIs
<1> HIDE DEF longer
<1>4. CASE text = <<>> \/ (entry.item = <<>> /\ stack = <<>>)
  <2>1. next = page
    BY <1>4 DEF TakeEntry
  <2>2. EntrySays(items, entry) = <<>>
    BY <1>1, <1>4 DEF EntrySays
  <2>3. PageIs(next, longer)
    <3>1. Silences(longer) <=> Silences(items)
      BY <1>2, <1>4
    <3> HIDE DEF next
    <3> QED BY <2>1, <3>1 DEF PageIs
  <2> HIDE DEF next, before
  <2>4. AllSpoken(OfLine, next.lines) = before \o EntrySays(items, entry)
    BY <1>3, <2>1, <2>2 DEF before
  <2> QED BY <2>3, <2>4 DEF next, longer, before
<1>5. CASE text # <<>> /\ entry.item = <<>> /\ stack # <<>>
  <2> DEFINE line == BlockLine(stack, text)
             ls == Append(sheet, line)
  <2>1. next = [page EXCEPT !.lines = ls]
    BY <1>5 DEF TakeEntry, BlockLine
  <2>2. line.text = text
    BY DEF BlockLine, Line
  <2>3. Spoken(OfLine, line) = text
    <3> HIDE DEF line
    <3> QED BY <2>2, SpokenAre
  <2> HIDE DEF line
  <2>4. Speaks(OfLine, ls) /\ AllSpoken(OfLine, ls) = before \o text
    BY <1>1, <2>3, SpokenLonger
  <2> HIDE DEF ls, next
  <2>5. DOMAIN next = {"lines", "stack"} /\ next.lines = ls /\ next.stack = stack
    BY <1>1, <2>1
  <2>6. PageIs(next, longer)
    BY <1>1, <1>2, <1>5, <2>4, <2>5 DEF PageIs
  <2>7. EntrySays(items, entry) = text
    BY <1>1, <1>5 DEF EntrySays
  <2> HIDE DEF before
  <2>8. AllSpoken(OfLine, next.lines) = before \o EntrySays(items, entry)
    BY <2>4, <2>5, <2>7
  <2> QED BY <2>6, <2>8 DEF next, longer, before
<1>6. CASE text # <<>> /\ entry.item # <<>>
  <2> DEFINE taking == Taking(stack, entry.item[1])
             line == ItemLine(taking, text)
             ls == Append(sheet, line)
  <2>1. next = [stack |-> taking, lines |-> ls]
    BY <1>6 DEF TakeEntry, AddItem, Taking, ItemLine
  <2>2. line.text = text
    <3> HIDE DEF taking
    <3> QED BY DEF ItemLine, Line
  <2>3. Spoken(OfLine, line) = text
    <3> HIDE DEF line
    <3> QED BY <2>2, SpokenAre
  <2> HIDE DEF line
  <2>4. Speaks(OfLine, ls) /\ AllSpoken(OfLine, ls) = before \o text
    BY <1>1, <2>3, SpokenLonger
  <2>5. IsStack(taking) /\ taking # <<>>
    <3>1. IsMarked(entry.item[1])
      BY <1>6 DEF IsEntry
    <3> DEFINE item == entry.item[1]
    <3> HIDE DEF item, stack
    <3>2. Placing(stack, item, Taking(stack, item))
      BY <1>1, <3>1, PlacingIs DEF item
    <3> DEFINE placed == Taking(stack, item)
    <3> HIDE DEF placed
    <3>3. Lodges(stack, item, placed)
      BY <1>1, <3>2, LodgesIs DEF placed
    <3>4. IsStack(placed) /\ Len(placed) # 0
      BY <3>3 DEF Lodges
    <3>5. placed # <<>>
      BY <3>4, EmptyList
    <3> QED BY <3>4, <3>5 DEF placed, item
  <2> HIDE DEF ls, next, taking
  <2>6. DOMAIN next = {"lines", "stack"} /\ next.lines = ls /\ next.stack = taking
    BY <2>1
  <2>7. PageIs(next, longer)
    BY <1>2, <1>6, <2>4, <2>5, <2>6 DEF PageIs
  <2>8. EntrySays(items, entry) = text
    BY <1>6 DEF EntrySays
  <2> HIDE DEF before
  <2>9. AllSpoken(OfLine, next.lines) = before \o EntrySays(items, entry)
    BY <2>4, <2>6, <2>8
  <2> QED BY <2>7, <2>9 DEF next, longer, before
<1> QED BY <1>4, <1>5, <1>6

\* The first entries of a run are one.
LEMMA FirstIsSaid ==
  ASSUME NEW items, IsSaid(items), NEW first, Growing(first, items), NEW n \in 0..Len(items)
  PROVE  IsSaid(first[n])
<1> DEFINE f == first[n]
           N == Len(items)
<1>1. IsList(f) /\ Len(f) = n /\ \A i \in 1..n : f[i] = items[i]
  BY DEF Growing
<1>2. N \in Nat /\ \A i \in 1..N : IsEntry(items[i]) /\ IsList(items[i].text)
  BY DEF IsSaid, IsRun, IsList
<1> HIDE DEF f, N
<1>3. \A i \in 1..n : i \in 1..N
  BY <1>2 DEF N
<1>4. \A i \in 1..Len(f) : IsEntry(f[i]) /\ IsList(f[i].text)
  BY <1>1, <1>2, <1>3
<1>5. IsSaid(f)
  BY <1>1, <1>4 DEF IsSaid, IsRun
<1> QED BY <1>5 DEF f

\* Every page of a run has an item open where one said something.
LEMMA PagesAre ==
  ASSUME NEW items, IsSaid(items), NEW pages, OnPages(pages, items)
  PROVE  PageIs(pages[Len(items)], items)
<1> DEFINE N == Len(items)
<1>0. IsList(items) /\ N \in Nat
  BY LongerIs DEF IsSaid, IsRun
<1>1. PICK first : Growing(first, items)
  BY <1>0, GrowsByOne
<1>2. /\ first[0] = <<>> /\ first[N] = items
      /\ \A n \in 1..N : first[n] = Append(first[n - 1], items[n])
  BY <1>1 DEF Growing
<1>3. /\ pages[0] = [lines |-> <<>>, stack |-> <<>>]
      /\ \A n \in 1..N : pages[n] = TakeEntry(pages[n - 1], items[n])
  BY DEF OnPages
<1>4. \A n \in 0..N : IsSaid(first[n])
  BY <1>1, FirstIsSaid
<1>5. \A n \in 1..N : IsEntry(items[n]) /\ IsList(items[n].text)
  BY DEF IsSaid, IsRun
<1> HIDE DEF N
<1> DEFINE good == {n \in 0..N : PageIs(pages[n], first[n])}
<1>6. 0 \in good
  <2> DEFINE page == pages[0]
  <2>1. DOMAIN page = {"lines", "stack"} /\ page.stack = <<>> /\ page.lines = <<>>
    BY <1>3
  <2>2. IsStack(<<>>) /\ Silences(<<>>)
    BY EmptyList DEF IsStack, Silences
  <2> HIDE DEF page
  <2>3. PageIs(page, <<>>)
    BY <2>1, <2>2, NoneSpoken DEF PageIs
  <2> QED BY <1>0, <1>2, <2>3 DEF page
<1>7. ASSUME NEW n \in 1..N, n - 1 \in good PROVE n \in good
  <2>1. PageIs(pages[n - 1], first[n - 1]) /\ n \in 0..N /\ n - 1 \in 0..N
    BY <1>0, <1>7
  <2> DEFINE page == pages[n - 1]
             before == first[n - 1]
             entry == items[n]
  <2>2. IsSaid(before) /\ IsEntry(entry) /\ IsList(entry.text) /\ PageIs(page, before)
    BY <1>4, <1>5, <2>1
  <2>3. pages[n] = TakeEntry(page, entry) /\ first[n] = Append(before, entry)
    BY <1>2, <1>3
  <2> HIDE DEF page, before, entry
  <2>4. PageIs(TakeEntry(page, entry), Append(before, entry))
    BY <2>2, EntryTaken
  <2> QED BY <2>1, <2>3, <2>4
<1>8. N \in good
  <2> HIDE DEF good
  <2>1. 0..N \subseteq good
    BY <1>0, <1>6, <1>7, StepByStep
  <2> QED BY <1>0, <2>1
<1> QED BY <1>2, <1>8 DEF N

\* The pages of a run are the first of those of a longer one.
LEMMA PagesSame ==
  ASSUME NEW items, IsList(items), NEW entry, NEW pages, OnPages(pages, items),
         NEW others, OnPages(others, Append(items, entry))
  PROVE  others[Len(items) + 1] = TakeEntry(pages[Len(items)], entry)
<1> DEFINE N == Len(items)
           longer == Append(items, entry)
<1>1. /\ Len(longer) = N + 1 /\ N \in Nat
      /\ longer[N + 1] = entry /\ \A i \in 1..N : longer[i] = items[i]
  BY LongerIs
<1>2. /\ pages[0] = [lines |-> <<>>, stack |-> <<>>]
      /\ \A n \in 1..N : pages[n] = TakeEntry(pages[n - 1], items[n])
  BY DEF OnPages
<1>3. /\ others[0] = [lines |-> <<>>, stack |-> <<>>]
      /\ \A n \in 1..Len(longer) : others[n] = TakeEntry(others[n - 1], longer[n])
  BY DEF OnPages
<1> HIDE DEF N, longer
<1> DEFINE good == {n \in 0..N : others[n] = pages[n]}
<1>4. 0 \in good
  BY <1>1, <1>2, <1>3
<1>5. ASSUME NEW n \in 1..N, n - 1 \in good PROVE n \in good
  <2>1. n \in 1..Len(longer) /\ longer[n] = items[n] /\ others[n - 1] = pages[n - 1] /\ n \in 0..N
    BY <1>1, <1>5
  <2>2. others[n] = TakeEntry(others[n - 1], longer[n]) /\ pages[n] = TakeEntry(pages[n - 1], items[n])
    BY <1>2, <1>3, <2>1
  <2> QED BY <2>1, <2>2
<1>6. N \in good
  <2> HIDE DEF good
  <2>1. 0..N \subseteq good
    BY <1>1, <1>4, <1>5, StepByStep
  <2> QED BY <1>1, <2>1
<1>7. others[N + 1] = TakeEntry(others[N], entry)
  <2>1. N + 1 \in 1..Len(longer) /\ (N + 1) - 1 = N
    BY <1>1
  <2>2. others[N + 1] = TakeEntry(others[(N + 1) - 1], longer[N + 1])
    BY <1>3, <2>1
  <2> QED BY <1>1, <2>1, <2>2
<1> QED BY <1>6, <1>7 DEF N

\* A run says what it said, and with an entry more what that prints.
LEMMA RunSays ==
  ASSUME NEW items, IsSaid(items), NEW entry, IsEntry(entry), IsList(entry.text)
  PROVE  /\ SaysOf(Append(items, entry)) = SaysOf(items) \o EntrySays(items, entry)
         /\ IsList(SaysOf(items))
<1> DEFINE N == Len(items)
           longer == Append(items, entry)
<1>0. IsList(items)
  BY DEF IsSaid, IsRun
<1>1. IsList(longer) /\ Len(longer) = N + 1
  BY <1>0, LongerIs
<1>2. PICK pages : OnPages(pages, items) /\ Render(items) = pages[N].lines
  BY <1>0, RenderIs
<1> HIDE DEF longer
<1>3. PICK others : OnPages(others, longer) /\ Render(longer) = others[Len(longer)].lines
  BY <1>1, RenderIs
<1> DEFINE page == pages[N]
<1>4. PageIs(page, items)
  BY <1>2, PagesAre
<1>5. others[N + 1] = TakeEntry(page, entry)
  BY <1>0, <1>2, <1>3, PagesSame DEF longer
<1>6. Render(items) = page.lines
  BY <1>2
<1> HIDE DEF page
<1>7. AllSpoken(OfLine, TakeEntry(page, entry).lines) = AllSpoken(OfLine, page.lines) \o EntrySays(items, entry)
  BY <1>4, EntryTaken
<1>8. SaysOf(longer) = AllSpoken(OfLine, TakeEntry(page, entry).lines)
  BY <1>1, <1>3, <1>5, SpokenAre DEF SaysOf
<1>9. SaysOf(items) = AllSpoken(OfLine, page.lines)
  BY <1>6, SpokenAre DEF SaysOf
<1>10. IsList(AllSpoken(OfLine, page.lines))
  BY <1>4, SpokenIs DEF PageIs
<1> QED BY <1>7, <1>8, <1>9, <1>10 DEF longer

\* An empty run says nothing.
LEMMA NothingSaid == SaysOf(<<>>) = <<>> /\ IsSaid(<<>>) /\ Silences(<<>>)
<1>1. IsList(<<>>) /\ Len(<<>>) = 0
  BY EmptyList
<1>2. PICK pages : OnPages(pages, <<>>) /\ Render(<<>>) = pages[Len(<<>>)].lines
  BY <1>1, RenderIs
<1>3. pages[0] = [lines |-> <<>>, stack |-> <<>>]
  BY <1>2 DEF OnPages
<1>4. Render(<<>>) = <<>>
  BY <1>1, <1>2, <1>3
<1>5. SaysOf(<<>>) = <<>>
  BY <1>4, SpokenAre, NoneSpoken DEF SaysOf
<1>6. IsSaid(<<>>) /\ Silences(<<>>)
  BY EmptyList, NoRun DEF IsSaid, Silences
<1> QED BY <1>5, <1>6

-----------------------------------------------------------------------------
(* What the paragraphs of a container say                                  *)

\* A block says the texts it is made of, though they are none.
LEMMA BlockSays ==
  ASSUME NEW is, NEW texts
  PROVE  Block(is, texts).says = texts /\ NoBlock.says = <<>>
BY DEF Block, NoBlock

\* The paragraphs of a container are taken one by one.
Making(made, ps) ==
  /\ made[0] = [run |-> <<>>, says |-> <<>>]
  /\ \A n \in 1..Len(ps) : made[n] = TakeOne(made[n - 1], ps[n])

\* There is such a making of any paragraphs, and their blocks are what it comes to.
LEMMA BlocksAre ==
  ASSUME NEW ps, IsList(ps)
  PROVE  \E made : Making(made, ps) /\ Blocks(ps) = CloseRun(made[Len(ps)]).says
<1> DEFINE N == Len(ps)
           w == [run |-> <<>>, says |-> <<>>]
           Chain(f) == [s \in SUBSET (1..N) |->
                          IF s = {} THEN w ELSE TakeOne(f[s \ {Max(s)}], ps[Max(s)])]
           f == CHOOSE g : g = Chain(g)
           made == [n \in 0..N |-> f[1..n]]
<1>1. DOMAIN ps = 1..N /\ N \in Nat
  BY LongerIs DEF IsList
<1>w. Blocks(ps) = CloseRun(FoldLeft(TakeOne, w, ps)).says
  BY DEF Blocks
<1> HIDE DEF w
<1>2. FoldLeft(TakeOne, w, ps) = f[1..N]
  BY <1>1 DEF FoldLeft, MapThenFoldSet
<1>3. ASSUME NEW g PROVE TakenEach(g, OfPart, w, ps) <=> g = Chain(g)
  <2>1. \A v, next : Taken(OfPart, v, next) = TakeOne(v, next)
    BY DEF Taken, OfPart
  <2> QED BY <2>1 DEF TakenEach
<1>4. \E g : g = Chain(g)
  <2> HIDE DEF Chain
  <2> QED BY <1>3, TakenEachExists
<1>5. f = Chain(f)
  <2> HIDE DEF Chain
  <2> QED BY <1>4
<1> HIDE DEF f
<1>6. TakenEach(f, OfPart, w, ps)
  <2> HIDE DEF Chain
  <2> QED BY <1>3, <1>5
<1>7. f[1..0] = w /\ \A n \in 1..N : f[1..n] = Taken(OfPart, f[1..(n - 1)], ps[n])
  BY <1>6, TakenSteps
<1> HIDE DEF N
<1>8. made[0] = w /\ made[N] = f[1..N]
  BY <1>1, <1>7
<1>9. ASSUME NEW n \in 1..N PROVE made[n] = TakeOne(made[n - 1], ps[n])
  <2>1. made[n] = f[1..n] /\ made[n - 1] = f[1..(n - 1)]
    BY <1>1
  <2> HIDE DEF made
  <2> QED BY <1>7, <2>1 DEF Taken, OfPart
<1> HIDE DEF made
<1>10. Making(made, ps)
  BY <1>8, <1>9 DEF Making, w, N
<1>11. Blocks(ps) = CloseRun(made[Len(ps)]).says
  BY <1>w, <1>2, <1>8 DEF N
<1> QED BY <1>10, <1>11

\* What has been made of some paragraphs says them all: some of it in blocks, the rest
\* in the open run.
MadeOf(made, ps) ==
  /\ DOMAIN made = {"run", "says"} /\ IsSaid(made.run) /\ IsList(made.says)
  /\ made.says \o SaysOf(made.run) = TextsOf(ps)

\* A run closed says what it said.
LEMMA RunClosed ==
  ASSUME NEW made
  PROVE  CloseRun(made) = [run |-> <<>>, says |-> made.says \o SaysOf(made.run)]
<1>1. ListBlock(made.run).says = SaysOf(made.run)
  BY BlockSays DEF ListBlock, SaysOf
<1> QED BY <1>1 DEF CloseRun

\* What a run says is a list.
LEMMA SaidIsList ==
  ASSUME NEW items, IsSaid(items)
  PROVE  IsList(SaysOf(items))
<1> DEFINE entry == [item |-> <<>>, text |-> <<>>]
<1>1. IsEntry(entry) /\ IsList(entry.text)
  BY EmptyList DEF IsEntry
<1> HIDE DEF entry
<1> QED BY <1>1, RunSays

\* One more paragraph is said too.
LEMMA OneMade ==
  ASSUME NEW made, NEW ps, MadeOf(made, ps), IsList(ps), NEW p, IsPart(p)
  PROVE  MadeOf(TakeOne(made, p), Append(ps, p))
<1> DEFINE run == made.run
           says == made.says
           item == ListItem(p)
           text == Text(p)
           next == TakeOne(made, p)
<1>1. /\ DOMAIN made = {"run", "says"} /\ IsSaid(run) /\ IsList(says)
      /\ says \o SaysOf(run) = TextsOf(ps)
  BY DEF MadeOf
<1>2. IsList(text) /\ (item # <<>> => IsMarked(item[1])) /\ IsList(SaysOf(run))
  BY <1>1, TextIs, ItemIsMarked, SaidIsList
<1>3. TextsOf(Append(ps, p)) = TextsOf(ps) \o text
  <2>1. Speaks(OfPart, ps) /\ Spoken(OfPart, p) = text
    BY TextIs, SpokenAre
  <2>2. AllSpoken(OfPart, Append(ps, p)) = AllSpoken(OfPart, ps) \o Spoken(OfPart, p)
    BY <1>2, <2>1, SpokenLonger
  <2> QED BY <2>1, <2>2, SpokenAre
<1> HIDE DEF item, text
<1>4. CASE item # <<>>
  <2> DEFINE entry == [item |-> item, text |-> text]
             longer == Append(run, entry)
  <2>1. next = [made EXCEPT !.run = longer]
    BY <1>4 DEF TakeOne, item, text
  <2>2. IsEntry(entry) /\ entry.text = text /\ entry.item # <<>>
    BY <1>2, <1>4 DEF IsEntry
  <2> HIDE DEF entry, run, says
  <2>3. IsSaid(longer) /\ SaysOf(longer) = SaysOf(run) \o text
    <3>1. EntrySays(run, entry) = text
      BY <2>2 DEF EntrySays
    <3> QED BY <1>1, <1>2, <2>2, <3>1, RunSays, SilencesLonger
  <2> HIDE DEF longer, next
  <2>4. DOMAIN next = {"run", "says"} /\ next.run = longer /\ next.says = says
    BY <1>1, <2>1 DEF says
  <2>5. says \o (SaysOf(run) \o text) = (says \o SaysOf(run)) \o text
    <3> DEFINE ran == SaysOf(run)
    <3>1. IsList(says) /\ IsList(ran) /\ IsList(text)
      BY <1>1, <1>2
    <3> HIDE DEF ran
    <3>2. (says \o ran) \o text = says \o (ran \o text)
      BY <3>1, JoinedThrice
    <3> QED BY <3>2 DEF ran
  <2> QED BY <1>1, <1>3, <2>3, <2>4, <2>5 DEF MadeOf, next
<1>5. CASE item = <<>>
  <2> DEFINE all == says \o SaysOf(run)
  <2>1. next = [run |-> <<>>, says |-> all \o text]
    <3>1. next = [CloseRun(made) EXCEPT !.says = @ \o text]
      BY <1>5 DEF TakeOne, item, text
    <3> QED BY <3>1, RunClosed
  <2> HIDE DEF next, run, says
  <2>2. IsList(all) /\ all = TextsOf(ps)
    BY <1>1, <1>2, JoinedIs
  <2> HIDE DEF all
  <2>3. IsList(all \o text) /\ (all \o text) \o <<>> = all \o text
    <3>1. IsList(all \o text)
      BY <1>2, <2>2, JoinedIs
    <3> QED BY <3>1, EmptyList, JoinedIs
  <2>4. DOMAIN next = {"run", "says"} /\ next.run = <<>> /\ next.says = all \o text
    BY <2>1
  <2> QED BY <1>3, <2>2, <2>3, <2>4, NothingSaid DEF MadeOf, next
<1> QED BY <1>4, <1>5

\* The blocks of some paragraphs say what the paragraphs say, in order.
LEMMA BlocksSay ==
  ASSUME NEW ps, ArePartsIn(ps)
  PROVE  Blocks(ps) = TextsOf(ps) /\ IsList(Blocks(ps))
<1> DEFINE N == Len(ps)
<1>0. IsList(ps) /\ N \in Nat /\ \A i \in 1..N : IsPart(ps[i])
  <2>1. IsList(ps) /\ \A p \in Range(ps) : IsPart(p)
    BY DEF ArePartsIn, IsList
  <2>2. N \in Nat /\ DOMAIN ps = 1..N
    BY <2>1, LongerIs
  <2> QED BY <2>1, <2>2 DEF Range
<1>1. PICK first : Growing(first, ps)
  BY <1>0, GrowsByOne
<1>2. PICK made : Making(made, ps) /\ Blocks(ps) = CloseRun(made[N]).says
  BY <1>0, BlocksAre
<1>3. /\ first[0] = <<>> /\ first[N] = ps
      /\ \A n \in 0..N : IsList(first[n])
      /\ \A n \in 1..N : first[n] = Append(first[n - 1], ps[n])
  BY <1>1 DEF Growing
<1>4. /\ made[0] = [run |-> <<>>, says |-> <<>>]
      /\ \A n \in 1..N : made[n] = TakeOne(made[n - 1], ps[n])
  BY <1>2 DEF Making
<1> HIDE DEF N
<1> DEFINE good == {n \in 0..N : MadeOf(made[n], first[n])}
<1>5. 0 \in good
  <2> DEFINE m == made[0]
  <2>1. DOMAIN m = {"run", "says"} /\ m.run = <<>> /\ m.says = <<>>
    BY <1>4
  <2> HIDE DEF m
  <2>2. MadeOf(m, <<>>)
    BY <2>1, NothingSaid, EmptyList, JoinedIs, NoParts DEF MadeOf
  <2> QED BY <1>0, <1>3, <2>2 DEF m
<1>6. ASSUME NEW n \in 1..N, n - 1 \in good PROVE n \in good
  <2>1. MadeOf(made[n - 1], first[n - 1]) /\ n \in 0..N /\ n - 1 \in 0..N
    BY <1>0, <1>6
  <2> DEFINE m == made[n - 1]
             before == first[n - 1]
             p == ps[n]
  <2>2. MadeOf(m, before) /\ IsList(before) /\ IsPart(p)
    BY <1>0, <1>3, <2>1
  <2>3. made[n] = TakeOne(m, p) /\ first[n] = Append(before, p)
    BY <1>3, <1>4
  <2> HIDE DEF m, before, p
  <2>4. MadeOf(TakeOne(m, p), Append(before, p))
    BY <2>2, OneMade
  <2> QED BY <2>1, <2>3, <2>4
<1>7. N \in good
  <2> HIDE DEF good
  <2>1. 0..N \subseteq good
    BY <1>0, <1>5, <1>6, StepByStep
  <2> QED BY <1>0, <2>1
<1> DEFINE m == made[N]
<1>8. MadeOf(m, ps)
  BY <1>3, <1>7
<1>9. Blocks(ps) = CloseRun(m).says
  BY <1>2
<1> HIDE DEF m
<1>10. Blocks(ps) = TextsOf(ps)
  BY <1>8, <1>9, RunClosed DEF MadeOf
<1>11. IsList(TextsOf(ps))
  <2> DEFINE says == m.says
             ran == SaysOf(m.run)
  <2>1. IsList(says) /\ IsList(ran) /\ says \o ran = TextsOf(ps)
    BY <1>8, SaidIsList DEF MadeOf
  <2> HIDE DEF says, ran
  <2>2. IsList(says \o ran)
    BY <2>1, JoinedIs
  <2> QED BY <2>1, <2>2
<1> QED BY <1>10, <1>11

-----------------------------------------------------------------------------
(* Rows and the columns they fill                                          *)

\* As many of some cells as there are columns, nothing where there are fewer.
Upto(cells, c) == [i \in 1..c |-> IF i \in DOMAIN cells THEN cells[i] ELSE <<>>]

\* They are lists.
LEMMA UptoIs ==
  ASSUME NEW cells, AreLists(cells), NEW c \in Nat
  PROVE  /\ AreLists(Upto(cells, c)) /\ Len(Upto(cells, c)) = c
         /\ \A i \in 1..c : Upto(cells, c)[i] = IF i \in 1..Len(cells) THEN cells[i] ELSE <<>>
<1> DEFINE f == Upto(cells, c)
           value(i) == IF i \in 1..Len(cells) THEN cells[i] ELSE <<>>
<1>1. DOMAIN cells = 1..Len(cells)
  BY LongerIs DEF AreLists
<1>2. f = [i \in 1..c |-> value(i)]
  BY <1>1 DEF Upto
<1>3. \A i \in 1..c : IsList(value(i))
  BY EmptyList DEF AreLists
<1> HIDE DEF f, value
<1>4. f = [i \in 1..c |-> f[i]] /\ \A i \in 1..c : f[i] = value(i)
  BY <1>2
<1>5. IsList(f) /\ Len(f) = c
  BY <1>4, FunctionList
<1>6. AreLists(f)
  BY <1>3, <1>4, <1>5 DEF AreLists
<1> QED BY <1>4, <1>5, <1>6 DEF f, value

\* Columns that hold nothing add nothing.
LEMMA UptoMore ==
  ASSUME NEW cells, AreLists(cells), NEW c \in Nat, Len(cells) <= c
  PROVE  FlattenSeq(Upto(cells, c)) = FlattenSeq(cells)
<1> DEFINE N == Len(cells)
           good == {k \in 0..c : N <= k => FlattenSeq(Upto(cells, k)) = FlattenSeq(cells)}
<1>1. N \in Nat /\ IsList(cells)
  BY LongerIs DEF AreLists
<1>2. ASSUME NEW k \in 0..c, k = N PROVE FlattenSeq(Upto(cells, k)) = FlattenSeq(cells)
  <2> DEFINE f == Upto(cells, k)
  <2>1. AreLists(f) /\ Len(f) = N /\ \A i \in 1..N : f[i] = cells[i]
    BY <1>1, <1>2, UptoIs
  <2> HIDE DEF f
  <2>2. f = cells
    BY <1>1, <2>1, SameList DEF AreLists
  <2> QED BY <2>2 DEF f
<1>3. 0 \in good
  BY <1>1, <1>2
<1>4. ASSUME NEW k \in 1..c, k - 1 \in good PROVE k \in good
  <2>1. CASE k <= N
    <3>1. N <= k => k = N
      BY <1>1, <2>1
    <3> QED BY <1>2, <3>1
  <2>2. CASE ~(k <= N)
    <3> DEFINE f == Upto(cells, k)
               g == Upto(cells, k - 1)
               h == Append(g, <<>>)
    <3>1. k \in Nat /\ k - 1 \in Nat /\ N <= k - 1
      BY <1>1, <2>2
    <3>2. FlattenSeq(g) = FlattenSeq(cells)
      BY <1>4, <3>1
    <3>3. /\ AreLists(f) /\ Len(f) = k
          /\ \A i \in 1..k : f[i] = IF i \in 1..N THEN cells[i] ELSE <<>>
      BY <3>1, UptoIs
    <3>4. /\ AreLists(g) /\ Len(g) = k - 1
          /\ \A i \in 1..(k - 1) : g[i] = IF i \in 1..N THEN cells[i] ELSE <<>>
      BY <3>1, UptoIs
    <3> HIDE DEF f, g, N
    <3>5. /\ IsList(h) /\ Len(h) = k /\ h[k] = <<>>
          /\ \A i \in 1..(k - 1) : h[i] = g[i]
      <4>1. /\ IsList(h) /\ Len(h) = Len(g) + 1 /\ h[Len(g) + 1] = <<>>
            /\ \A i \in 1..Len(g) : h[i] = g[i]
        BY <3>4, LongerIs DEF AreLists
      <4>2. Len(g) + 1 = k
        BY <3>1, <3>4
      <4> QED BY <3>4, <4>1, <4>2
    <3> HIDE DEF h
    <3>6. ASSUME NEW i \in 1..k PROVE f[i] = h[i]
      <4>1. CASE i = k
        <5>1. i \notin 1..N
          BY <2>2, <4>1 DEF N
        <5> QED BY <3>3, <3>5, <4>1, <5>1
      <4>2. CASE i # k
        <5>1. i \in 1..(k - 1)
          BY <3>1, <4>2
        <5> QED BY <3>3, <3>4, <3>5, <5>1
      <4> QED BY <4>1, <4>2
    <3>7. f = h
      BY <3>3, <3>5, <3>6, SameList DEF AreLists
    <3>8. FlattenSeq(h) = FlattenSeq(g) \o <<>> /\ IsList(FlattenSeq(g))
      BY <3>4, EmptyList, FlattenLonger DEF h
    <3>9. FlattenSeq(f) = FlattenSeq(cells)
      <4> DEFINE all == FlattenSeq(g)
      <4>1. IsList(all) /\ FlattenSeq(h) = all \o <<>>
        BY <3>8
      <4> HIDE DEF all
      <4>2. all \o <<>> = all
        BY <4>1, EmptyList, JoinedIs
      <4> QED BY <3>2, <3>7, <4>1, <4>2 DEF all
    <3> QED BY <3>9 DEF f
  <2> QED BY <2>1, <2>2
<1>5. c \in good
  <2> HIDE DEF good
  <2>1. 0..c \subseteq good
    BY <1>3, <1>4, StepByStep
  <2> QED BY <2>1
<1> QED BY <1>5

\* Cells that hold nothing, as many as there are positions up to a number.
Nothings(m) == [i \in 1..m |-> <<>>]

\* Columns after one that hold nothing show nothing.
LEMMA UptoNothings ==
  ASSUME NEW cells, AreLists(cells), NEW m \in Nat, NEW c \in Nat
  PROVE  /\ AreLists(cells \o Nothings(m)) /\ Len(cells \o Nothings(m)) = Len(cells) + m
         /\ Upto(cells \o Nothings(m), c) = Upto(cells, c)
         /\ FlattenSeq(cells \o Nothings(m)) = FlattenSeq(cells)
<1> DEFINE E == Nothings(m)
           all == cells \o E
           N == Len(cells)
<1>1. IsList(E) /\ Len(E) = m /\ \A i \in 1..m : E[i] = <<>>
  <2>1. E = [i \in 1..m |-> E[i]] /\ \A i \in 1..m : E[i] = <<>>
    BY DEF Nothings
  <2> HIDE DEF E
  <2> QED BY <2>1, FunctionList
<1> HIDE DEF E
<1>2. /\ IsList(all) /\ Len(all) = N + m /\ N \in Nat
      /\ \A i \in 1..N : all[i] = cells[i]
      /\ \A i \in 1..m : all[N + i] = E[i]
  <2>1. IsList(cells)
    BY DEF AreLists
  <2> QED BY <1>1, <2>1, JoinedIs
<1> HIDE DEF all, N
<1>3. ASSUME NEW i \in 1..(N + m), i \notin 1..N PROVE all[i] = <<>>
  <2>1. i - N \in 1..m /\ N + (i - N) = i
    BY <1>2, <1>3
  <2> QED BY <1>1, <1>2, <2>1
<1>4. AreLists(all)
  <2> SUFFICES ASSUME NEW i \in 1..(N + m) PROVE IsList(all[i])
    BY <1>2 DEF AreLists
  <2>1. CASE i \in 1..N
    BY <1>2, <2>1 DEF AreLists, N
  <2>2. CASE i \notin 1..N
    BY <1>3, <2>2, EmptyList
  <2> QED BY <2>1, <2>2
<1>5. ASSUME NEW d \in Nat PROVE Upto(all, d) = Upto(cells, d)
  <2> DEFINE f == Upto(all, d)
             g == Upto(cells, d)
  <2>1. /\ AreLists(f) /\ Len(f) = d
        /\ \A i \in 1..d : f[i] = IF i \in 1..(N + m) THEN all[i] ELSE <<>>
    <3>1. /\ AreLists(f) /\ Len(f) = d
          /\ \A i \in 1..d : f[i] = IF i \in 1..Len(all) THEN all[i] ELSE <<>>
      BY <1>4, UptoIs
    <3> QED BY <1>2, <3>1
  <2>2. /\ AreLists(g) /\ Len(g) = d
        /\ \A i \in 1..d : g[i] = IF i \in 1..N THEN cells[i] ELSE <<>>
    BY UptoIs DEF N
  <2> HIDE DEF f, g
  <2>3. ASSUME NEW i \in 1..d PROVE f[i] = g[i]
    <3>1. CASE i \in 1..N
      <4>1. i \in 1..(N + m)
        BY <1>2, <3>1
      <4> QED BY <1>2, <2>1, <2>2, <3>1, <4>1
    <3>2. CASE i \notin 1..N
      <4>1. g[i] = <<>>
        BY <2>2, <3>2
      <4>2. f[i] = <<>>
        BY <1>3, <2>1, <3>2
      <4> QED BY <4>1, <4>2
    <3> QED BY <3>1, <3>2
  <2>4. f = g
    BY <2>1, <2>2, <2>3, SameList DEF AreLists
  <2> QED BY <2>4 DEF f, g
<1>6. FlattenSeq(all) = FlattenSeq(cells)
  <2> DEFINE d == N + m
  <2>1. d \in Nat /\ Len(all) <= d /\ Len(cells) <= d
    BY <1>2 DEF N
  <2> HIDE DEF d
  <2>2. FlattenSeq(Upto(all, d)) = FlattenSeq(all)
    BY <1>4, <2>1, UptoMore
  <2>3. FlattenSeq(Upto(cells, d)) = FlattenSeq(cells)
    BY <2>1, UptoMore
  <2> QED BY <1>5, <2>1, <2>2, <2>3
<1> QED BY <1>2, <1>4, <1>5, <1>6 DEF all, N, E

\* A cell in a column there is shows; one past the last does not.
LEMMA UptoLonger ==
  ASSUME NEW cells, AreLists(cells), NEW x, IsList(x), NEW c \in Nat
  PROVE  /\ AreLists(Append(cells, x)) /\ Len(Append(cells, x)) = Len(cells) + 1
         /\ IsList(FlattenSeq(Upto(cells, c)))
         /\ FlattenSeq(Upto(Append(cells, x), c)) =
              FlattenSeq(Upto(cells, c)) \o (IF Len(cells) >= c THEN <<>> ELSE x)
<1> DEFINE longer == Append(cells, x)
           N == Len(cells)
<1>1. /\ IsList(longer) /\ Len(longer) = N + 1 /\ N \in Nat
      /\ longer[N + 1] = x /\ \A i \in 1..N : longer[i] = cells[i]
  BY LongerIs DEF AreLists
<1>2. AreLists(longer) /\ FlattenSeq(longer) = FlattenSeq(cells) \o x
  BY FlattenLonger
<1> HIDE DEF longer
<1> DEFINE f == Upto(longer, c)
           g == Upto(cells, c)
<1>3. /\ AreLists(f) /\ Len(f) = c
      /\ \A i \in 1..c : f[i] = IF i \in 1..(N + 1) THEN longer[i] ELSE <<>>
  <2>1. /\ AreLists(f) /\ Len(f) = c
        /\ \A i \in 1..c : f[i] = IF i \in 1..Len(longer) THEN longer[i] ELSE <<>>
    BY <1>2, UptoIs
  <2> QED BY <1>1, <2>1
<1>4. /\ AreLists(g) /\ Len(g) = c
      /\ \A i \in 1..c : g[i] = IF i \in 1..N THEN cells[i] ELSE <<>>
  BY UptoIs
<1> DEFINE all == FlattenSeq(g)
<1>5. IsList(all) /\ all \o <<>> = all
  <2>1. IsList(all)
    BY <1>4, EmptyList, FlattenLonger
  <2> HIDE DEF all
  <2> QED BY <2>1, EmptyList, JoinedIs
<1>6. CASE N >= c
  <2> HIDE DEF f, g, N
  <2>1. \A i \in 1..c : i \in 1..N /\ i \in 1..(N + 1)
    BY <1>1, <1>6
  <2>2. \A i \in 1..c : f[i] = g[i]
    BY <1>1, <1>3, <1>4, <2>1
  <2>3. f = g
    BY <1>3, <1>4, <2>2, SameList DEF AreLists
  <2>4. FlattenSeq(f) = all \o <<>>
    BY <1>5, <2>3
  <2>5. FlattenSeq(f) = all \o (IF N >= c THEN <<>> ELSE x)
    BY <1>6, <2>4
  <2> QED BY <1>1, <1>2, <1>5, <2>5 DEF f, g, longer, N
<1>7. CASE ~(N >= c)
  <2>1. N <= c /\ N + 1 <= c
    BY <1>1, <1>7
  <2>2. FlattenSeq(g) = FlattenSeq(cells)
    BY <2>1, UptoMore
  <2>3. FlattenSeq(f) = FlattenSeq(longer)
    <3> HIDE DEF N
    <3>1. Len(longer) <= c
      BY <1>1, <2>1
    <3> QED BY <1>2, <3>1, UptoMore
  <2> HIDE DEF f, g, N
  <2>4. FlattenSeq(f) = all \o x
    BY <1>2, <2>2, <2>3
  <2>5. FlattenSeq(f) = all \o (IF N >= c THEN <<>> ELSE x)
    BY <1>7, <2>4
  <2> QED BY <1>1, <1>2, <1>5, <2>5 DEF f, g, longer, N
<1> QED BY <1>6, <1>7

-----------------------------------------------------------------------------
(* What a table says                                                       *)

\* The columns ahead of each cell of a row are counted one cell after the other.
Counting(spanned, row) ==
  /\ spanned[0] = 0
  /\ \A k \in 1..Len(row) : spanned[k] \in Nat /\ spanned[k] = spanned[k - 1] + row[k].span

\* There is such a counting of any row, and it counts the columns ahead of each cell.
LEMMA BeforeIs ==
  ASSUME NEW row, IsList(row), \A k \in 1..Len(row) : row[k].span \in Nat \ {0}
  PROVE  \E spanned : Counting(spanned, row) /\ \A i \in 1..Len(row) : Before(row, i) = spanned[i - 1]
<1> DEFINE N == Len(row)
           from == [n \in Nat \ {0} |-> n - 1]
           more(n) == IF n \in 1..N THEN row[n].span ELSE 0
           step == [n \in Nat \ {0} |-> [a \in Nat |-> a + more(n)]]
           Chain(f) == [k \in 0..N |-> IF k = 0 THEN 0 ELSE f[k - 1] + row[k].span]
           spanned == CHOOSE f : f = Chain(f)
<1>1. Descends(from)
  BY DEF Descends
<1>2. \A n \in Nat \ {0} : more(n) \in Nat
  OBVIOUS
<1>3. \A n \in 1..N : more(n) = row[n].span
  OBVIOUS
<1> HIDE DEF more
<1>4. step \in [Nat \ {0} -> [Nat -> Nat]]
  BY <1>2
<1>5. PICK g : Wholly(g, Nat, 0, from, step)
  <2> HIDE DEF from, step
  <2> QED BY <1>1, <1>4, Recursion
<1>6. N \in Nat
  BY LongerIs
<1> HIDE DEF N
<1>7. /\ g[0] = 0 /\ \A n \in Nat : g[n] \in Nat
      /\ \A n \in 1..N : g[n] = g[n - 1] + row[n].span
  <2>1. g \in [Nat -> Nat] /\ g[0] = 0
    BY <1>5 DEF Wholly
  <2>2. ASSUME NEW n \in 1..N PROVE g[n] = g[n - 1] + row[n].span
    <3>1. n \in Nat \ {0} /\ from[n] = n - 1
      BY <1>6
    <3>2. g[n] = step[n][g[from[n]]]
      BY <1>5, <3>1 DEF Wholly
    <3>3. g[n - 1] \in Nat
      BY <2>1, <3>1
    <3>4. \A a \in Nat : step[n][a] = a + more(n)
      BY <3>1
    <3> HIDE DEF from, step
    <3> QED BY <1>3, <3>1, <3>2, <3>3, <3>4
  <2> QED BY <2>1, <2>2
<1> DEFINE h == [k \in 0..N |-> g[k]]
<1>8. h = Chain(h)
  <2>1. \A k \in 0..N : h[k] = IF k = 0 THEN 0 ELSE h[k - 1] + row[k].span
    BY <1>6, <1>7
  <2> QED BY <2>1
<1>9. spanned = Chain(spanned)
  <2> HIDE DEF Chain, h
  <2> QED BY <1>8
<1>10. \A i \in 1..N : Before(row, i) = spanned[i - 1]
  BY DEF Before, N
<1> HIDE DEF spanned, h
<1>11. /\ spanned[0] = 0 /\ \A k \in 1..N : spanned[k] = spanned[k - 1] + row[k].span
  <2>1. \A k \in 0..N : spanned[k] = IF k = 0 THEN 0 ELSE spanned[k - 1] + row[k].span
    BY <1>9
  <2>2. \A k \in 1..N : k \in 0..N /\ k # 0
    BY <1>6
  <2> QED BY <1>6, <2>1, <2>2
<1> DEFINE good == {k \in 0..N : spanned[k] \in Nat}
<1>12. 0..N \subseteq good
  <2>1. 0 \in good
    BY <1>6, <1>11
  <2>2. ASSUME NEW k \in 1..N, k - 1 \in good PROVE k \in good
    <3>1. row[k].span \in Nat /\ spanned[k] = spanned[k - 1] + row[k].span /\ k \in 0..N
      BY <1>6, <1>11 DEF N
    <3> QED BY <2>2, <3>1
  <2> HIDE DEF good
  <2> QED BY <1>6, <2>1, <2>2, StepByStep
<1>13. Counting(spanned, row)
  <2>1. \A k \in 1..N : spanned[k] \in Nat
    BY <1>6, <1>12
  <2> QED BY <1>11, <2>1 DEF Counting, N
<1> QED BY <1>10, <1>13 DEF N

\* Paragraphs placed are parts still; no paragraphs are parts too.
LEMMA PlacedParts ==
  ASSUME NEW ps, ArePartsIn(ps), NEW n
  PROVE  ArePartsIn(Placed(n, ps)) /\ IsList(ps) /\ ArePartsIn(<<>>)
<1> DEFINE N == Len(ps)
           q == Placed(n, ps)
<1>1. IsList(ps) /\ \A p \in Range(ps) : IsPart(p)
  BY DEF ArePartsIn, IsList
<1>2. N \in Nat /\ DOMAIN ps = 1..N
  BY <1>1, LongerIs
<1>3. IsList(q) /\ Len(q) = N /\ \A i \in 1..N : q[i] = [ps[i] EXCEPT !.n = n]
  BY <1>1, PlacedIs
<1> HIDE DEF q, N
<1>4. DOMAIN q = 1..N
  BY <1>3, LongerIs
<1>5. ASSUME NEW i \in 1..N PROVE IsPart(q[i])
  <2> DEFINE p == ps[i]
             r == q[i]
  <2>1. IsPart(p)
    BY <1>1, <1>2 DEF Range
  <2>2. r = [p EXCEPT !.n = n]
    BY <1>3
  <2> HIDE DEF p, r
  <2>3. {"n", "k", "says", "own"} \subseteq DOMAIN p /\ p.own.indent \in Seq(Int)
    BY <2>1 DEF IsPart
  <2>4. DOMAIN r = DOMAIN p /\ r.own = p.own
    BY <2>2, <2>3
  <2>5. IsPart(r)
    BY <2>3, <2>4 DEF IsPart
  <2> QED BY <2>5 DEF r
<1>6. ArePartsIn(q)
  BY <1>3, <1>4, <1>5 DEF ArePartsIn, Range, IsList
<1>7. ArePartsIn(<<>>)
  BY EmptyList DEF ArePartsIn, IsList
<1> QED BY <1>1, <1>6, <1>7 DEF q

\* Paragraphs put in blocks say what they say where they stand.
LEMMA PlacedSay ==
  ASSUME NEW ps, ArePartsIn(ps), NEW n
  PROVE  Blocks(Placed(n, ps)) = TextsOf(Placed(n, ps)) /\ IsList(TextsOf(Placed(n, ps)))
<1> DEFINE q == Placed(n, ps)
<1>1. ArePartsIn(q)
  BY PlacedParts
<1> HIDE DEF q
<1>2. Blocks(q) = TextsOf(q) /\ IsList(Blocks(q))
  BY <1>1, BlocksSay
<1> QED BY <1>2 DEF q

-----------------------------------------------------------------------------
(* Rows                                                                    *)

\* A row of cells, each of paragraphs.
IsRow(row) ==
  IsList(row) /\ \A k \in 1..Len(row) : row[k].span \in Nat \ {0} /\ ArePartsIn(row[k].paragraphs)

\* Columns of which each holds paragraphs.
HoldParts(cells) == AreLists(cells) /\ \A i \in 1..Len(cells) : ArePartsIn(cells[i])

\* A cell spans a column at least, and holds paragraphs.
IsCell(cell) == cell.span \in Nat \ {0} /\ ArePartsIn(cell.paragraphs)

\* What a cell shows where so many columns are filled ahead of it.
ShownOf(cell, filled, c) ==
  IF cell.merge = "continues" \/ filled >= c THEN <<>> ELSE cell.paragraphs

\* One cell more fills the columns it spans, and shows in the first of them.
LEMMA ColumnsLonger ==
  ASSUME NEW cells, HoldParts(cells), NEW cell, IsCell(cell), NEW c \in Nat
  PROVE  /\ HoldParts(cells \o ColumnsOf(cell))
         /\ Len(cells \o ColumnsOf(cell)) = Len(cells) + cell.span
         /\ IsList(ColumnsOf(cell)) /\ IsList(FlattenSeq(Upto(cells, c)))
         /\ FlattenSeq(Upto(cells \o ColumnsOf(cell), c)) = FlattenSeq(Upto(cells, c)) \o ShownOf(cell, Len(cells), c)
<1> DEFINE shows == ShownOf(cell, Len(cells), c)
           x == IF cell.merge = "continues" THEN <<>> ELSE cell.paragraphs
           m == cell.span - 1
           E == Nothings(m)
           longer == Append(cells, x)
           more == cells \o ColumnsOf(cell)
           all == FlattenSeq(Upto(cells, c))
<1>0. cell.span \in Nat \ {0} /\ ArePartsIn(cell.paragraphs)
  BY DEF IsCell
<1>1. m \in Nat /\ ArePartsIn(x) /\ IsList(x)
  <2>0. m \in Nat
    BY <1>0
  <2>1. ArePartsIn(x)
    BY <1>0, PlacedParts
  <2> HIDE DEF x, m
  <2> QED BY <2>0, <2>1, PlacedParts
<1>2. ColumnsOf(cell) = <<x>> \o E
  BY DEF ColumnsOf, Nothings
<1>3. cell.span = m + 1
  BY <1>0
<1>4. IsList(E) /\ Len(E) = m /\ \A i \in 1..m : E[i] = <<>>
  <2>1. E = [i \in 1..m |-> E[i]] /\ \A i \in 1..m : E[i] = <<>>
    BY DEF Nothings
  <2> HIDE DEF E, m
  <2> QED BY <1>1, <2>1, FunctionList
<1>5. shows = IF Len(cells) >= c THEN <<>> ELSE x
  BY DEF ShownOf
<1> HIDE DEF x, m, shows
<1>6. /\ AreLists(longer) /\ Len(longer) = Len(cells) + 1
      /\ IsList(all)
      /\ FlattenSeq(Upto(longer, c)) = all \o shows
  BY <1>1, <1>5, UptoLonger DEF HoldParts
<1>7. IsList(cells) /\ \A i \in 1..Len(cells) : ArePartsIn(cells[i])
  BY DEF HoldParts, AreLists
<1>8. longer = cells \o <<x>> /\ IsList(<<x>>)
  BY <1>7, AppendedIs
<1>9. \A i \in 1..Len(longer) : ArePartsIn(longer[i])
  <2>1. /\ Len(longer) = Len(cells) + 1 /\ Len(cells) \in Nat /\ longer[Len(cells) + 1] = x
        /\ \A i \in 1..Len(cells) : longer[i] = cells[i]
    BY <1>7, LongerIs
  <2> HIDE DEF longer
  <2> SUFFICES ASSUME NEW i \in 1..(Len(cells) + 1) PROVE ArePartsIn(longer[i])
    BY <2>1
  <2>2. CASE i = Len(cells) + 1
    BY <1>1, <2>1, <2>2
  <2>3. CASE i # Len(cells) + 1
    <3>1. i \in 1..Len(cells)
      BY <2>1, <2>3
    <3> QED BY <1>7, <2>1, <3>1
  <2> QED BY <2>2, <2>3
<1>10. more = longer \o E /\ IsList(ColumnsOf(cell))
  <2>1. IsList(<<x>>) /\ IsList(cells) /\ IsList(E)
    BY <1>4, <1>7, <1>8
  <2> DEFINE one == <<x>>
  <2> HIDE DEF E, one
  <2>2. (cells \o one) \o E = cells \o (one \o E) /\ IsList(one \o E)
    <3>1. IsList(one) /\ IsList(cells) /\ IsList(E)
      BY <2>1 DEF one
    <3>2. (cells \o one) \o E = cells \o (one \o E)
      BY <3>1, JoinedThrice
    <3>3. IsList(one \o E)
      BY <3>1, JoinedIs
    <3> QED BY <3>2, <3>3
  <2> QED BY <1>2, <1>8, <2>2 DEF one
<1> HIDE DEF longer, all
<1> DEFINE wide == longer \o E
<1>11. /\ AreLists(wide) /\ Len(wide) = Len(longer) + m
       /\ Upto(wide, c) = Upto(longer, c)
  BY <1>1, <1>6, UptoNothings
<1>12. /\ Len(longer) \in Nat
       /\ \A i \in 1..Len(longer) : wide[i] = longer[i]
       /\ \A i \in 1..m : wide[Len(longer) + i] = E[i]
  <2>1. IsList(longer) /\ IsList(E)
    BY <1>4, <1>6 DEF AreLists
  <2> HIDE DEF E
  <2> QED BY <1>4, <2>1, JoinedIs
<1> HIDE DEF wide, E
<1>13. \A i \in 1..Len(wide) : ArePartsIn(wide[i])
  <2> SUFFICES ASSUME NEW i \in 1..(Len(longer) + m) PROVE ArePartsIn(wide[i])
    BY <1>11
  <2>1. CASE i <= Len(longer)
    <3>1. i \in 1..Len(longer)
      BY <1>12, <2>1
    <3> QED BY <1>9, <1>12, <3>1
  <2>2. CASE ~(i <= Len(longer))
    <3>1. i - Len(longer) \in 1..m /\ Len(longer) + (i - Len(longer)) = i
      BY <1>1, <1>12, <2>2
    <3>2. wide[i] = <<>>
      BY <1>4, <1>12, <3>1
    <3>3. ArePartsIn(<<>>)
      BY <1>1, PlacedParts
    <3> QED BY <3>2, <3>3
  <2> QED BY <2>1, <2>2
<1>14. HoldParts(wide)
  BY <1>11, <1>13 DEF HoldParts
<1>15. Len(wide) = Len(cells) + cell.span
  <2>1. Len(cells) \in Nat
    BY <1>7, LongerIs
  <2> QED BY <1>1, <1>3, <1>6, <1>11, <2>1
<1>16. more = wide
  BY <1>10 DEF wide
<1> HIDE DEF more
<1> QED BY <1>6, <1>10, <1>11, <1>14, <1>15, <1>16 DEF more, all, shows

\* The columns of a row show the cells that start in one of them.
LEMMA RowShows ==
  ASSUME NEW row, IsRow(row), NEW table, table.columns \in Nat
  PROVE  /\ HoldParts(RowCells(row, table.columns))
         /\ FlattenSeq(RowCells(row, table.columns)) = RowParts(table, row)
         /\ IsList(RowParts(table, row))
<1> DEFINE N == Len(row)
           c == table.columns
           columns == [i \in 1..N |-> ColumnsOf(row[i])]
           parts == [i \in 1..N |-> CellParts(table, row, i)]
<1>0. IsList(row) /\ N \in Nat /\ DOMAIN row = 1..N
  BY LongerIs DEF IsRow
<1>1. \A k \in 1..N : row[k].span \in Nat \ {0} /\ ArePartsIn(row[k].paragraphs)
  BY DEF IsRow
<1>2. PICK spanned : Counting(spanned, row) /\ \A i \in 1..N : Before(row, i) = spanned[i - 1]
  BY <1>0, <1>1, BeforeIs
<1>3. RowCells(row, c) = Upto(FlattenSeq(columns), c)
  BY <1>0 DEF RowCells, Upto
<1>4. RowParts(table, row) = FlattenSeq(parts)
  BY <1>0 DEF RowParts
<1> HIDE DEF N
<1>5. IsList(columns) /\ Len(columns) = N /\ \A i \in 1..N : columns[i] = ColumnsOf(row[i])
  <2>1. columns = [i \in 1..N |-> columns[i]] /\ \A i \in 1..N : columns[i] = ColumnsOf(row[i])
    OBVIOUS
  <2> HIDE DEF columns
  <2> QED BY <1>0, <2>1, FunctionList
<1>6. IsList(parts) /\ Len(parts) = N /\ \A i \in 1..N : parts[i] = CellParts(table, row, i)
  <2>1. parts = [i \in 1..N |-> parts[i]] /\ \A i \in 1..N : parts[i] = CellParts(table, row, i)
    OBVIOUS
  <2> HIDE DEF parts
  <2> QED BY <1>0, <2>1, FunctionList
<1> HIDE DEF columns, parts
<1>7. PICK left : Growing(left, columns)
  BY <1>5, GrowsByOne
<1>8. PICK right : Growing(right, parts)
  BY <1>6, GrowsByOne
<1>9. /\ left[0] = <<>> /\ left[N] = columns
      /\ \A n \in 1..N : left[n] = Append(left[n - 1], columns[n])
  BY <1>5, <1>7 DEF Growing
<1>10. /\ right[0] = <<>> /\ right[N] = parts
       /\ \A n \in 1..N : right[n] = Append(right[n - 1], parts[n])
  BY <1>6, <1>8 DEF Growing
<1> DEFINE Agree(l, r, filled) ==
             /\ AreLists(l) /\ AreLists(r)
             /\ HoldParts(FlattenSeq(l)) /\ Len(FlattenSeq(l)) = filled
             /\ FlattenSeq(Upto(FlattenSeq(l), c)) = FlattenSeq(r)
           good == {n \in 0..N : Agree(left[n], right[n], spanned[n])}
<1>11. spanned[0] = 0 /\ \A k \in 1..N : spanned[k] \in Nat /\ spanned[k] = spanned[k - 1] + row[k].span
  BY <1>2 DEF Counting, N
<1>12. 0 \in good
  <2>1. HoldParts(<<>>)
    BY EmptyList DEF HoldParts, AreLists
  <2>2. AreLists(<<>>) /\ FlattenSeq(<<>>) = <<>> /\ Len(<<>>) = 0
    BY FlattenNone, EmptyList
  <2>3. FlattenSeq(Upto(<<>>, c)) = <<>>
    <3> HIDE DEF c
    <3>1. c \in Nat /\ Len(<<>>) <= c
      BY <2>2 DEF c
    <3> QED BY <2>2, <3>1, UptoMore
  <2>4. Agree(<<>>, <<>>, 0)
    BY <2>1, <2>2, <2>3
  <2> HIDE DEF Agree
  <2> QED BY <1>0, <1>9, <1>10, <1>11, <2>4
<1>13. ASSUME NEW k \in 1..N, k - 1 \in good PROVE k \in good
  <2> DEFINE l == left[k - 1]
             r == right[k - 1]
             cell == row[k]
             cells == FlattenSeq(l)
             column == ColumnsOf(cell)
             shows == CellParts(table, row, k)
             filled == spanned[k - 1]
  <2>1. Agree(l, r, filled) /\ k \in 0..N
    BY <1>0, <1>13
  <2>2. left[k] = Append(l, column) /\ right[k] = Append(r, shows)
    BY <1>5, <1>6, <1>9, <1>10
  <2>3. IsCell(cell) /\ ArePartsIn(cell.paragraphs) /\ c \in Nat
    BY <1>1 DEF IsCell
  <2>4. shows = ShownOf(cell, filled, c)
    BY <1>2 DEF CellParts, ShownOf, N
  <2>5. IsList(shows)
    <3>1. IsList(cell.paragraphs)
      BY <2>3, PlacedParts
    <3> QED BY <2>4, <3>1, EmptyList DEF ShownOf
  <2>6. spanned[k] = filled + cell.span
    BY <1>11
  <2>7. /\ AreLists(l) /\ AreLists(r) /\ HoldParts(cells) /\ Len(cells) = filled
        /\ FlattenSeq(Upto(cells, c)) = FlattenSeq(r)
    BY <2>1
  <2> HIDE DEF l, r, shows, filled, c, cell
  <2> DEFINE more == cells \o column
  <2>8. /\ HoldParts(more) /\ Len(more) = Len(cells) + cell.span
        /\ IsList(column)
        /\ FlattenSeq(Upto(more, c)) = FlattenSeq(Upto(cells, c)) \o shows
    <3> HIDE DEF cells
    <3>1. shows = ShownOf(cell, Len(cells), c)
      BY <2>4, <2>7
    <3>2. IsCell(cell) /\ HoldParts(cells) /\ c \in Nat
      BY <2>3, <2>7
    <3> QED BY <3>1, <3>2, ColumnsLonger
  <2> HIDE DEF column
  <2>9. AreLists(Append(l, column)) /\ FlattenSeq(Append(l, column)) = more
    BY <2>7, <2>8, FlattenLonger
  <2>10. AreLists(Append(r, shows)) /\ FlattenSeq(Append(r, shows)) = FlattenSeq(r) \o shows
    BY <2>5, <2>7, FlattenLonger
  <2> HIDE DEF more, cells
  <2>11. Agree(Append(l, column), Append(r, shows), spanned[k])
    BY <2>6, <2>7, <2>8, <2>9, <2>10
  <2> HIDE DEF Agree
  <2> QED BY <2>1, <2>2, <2>11
<1>14. Agree(columns, parts, spanned[N])
  <2> HIDE DEF good
  <2>1. 0..N \subseteq good
    BY <1>0, <1>12, <1>13, StepByStep
  <2>2. N \in good
    BY <1>0, <2>1
  <2> HIDE DEF Agree
  <2> QED BY <1>9, <1>10, <2>2 DEF good
<1> DEFINE cells == FlattenSeq(columns)
<1>15. /\ HoldParts(cells) /\ AreLists(parts) /\ c \in Nat
       /\ FlattenSeq(Upto(cells, c)) = FlattenSeq(parts)
  BY <1>14
<1> HIDE DEF cells, c
<1>16. HoldParts(Upto(cells, c))
  <2> DEFINE f == Upto(cells, c)
  <2>1. /\ AreLists(f) /\ Len(f) = c
        /\ \A i \in 1..c : f[i] = IF i \in 1..Len(cells) THEN cells[i] ELSE <<>>
    BY <1>15, UptoIs DEF HoldParts
  <2> HIDE DEF f
  <2>2. ArePartsIn(<<>>)
    BY EmptyList DEF ArePartsIn, IsList
  <2>3. \A i \in 1..c : ArePartsIn(f[i])
    BY <1>15, <2>1, <2>2 DEF HoldParts
  <2>4. HoldParts(f)
    BY <2>1, <2>3 DEF HoldParts
  <2> QED BY <2>4 DEF f
<1>17. IsList(FlattenSeq(parts))
  BY <1>15, EmptyList, FlattenLonger
<1> QED BY <1>3, <1>4, <1>15, <1>16, <1>17 DEF c, cells

\* What stands at each position says what is said of it.
LEMMA SpokenSame ==
  ASSUME NEW by, NEW list, IsList(list), NEW says,
         \A i \in 1..Len(list) : Spoken(by, list[i]) = says[i],
         says = [i \in 1..Len(list) |-> says[i]]
  PROVE  AllSpoken(by, list) = FlattenSeq(says)
<1> DEFINE N == Len(list)
           each == [i \in 1..N |-> Spoken(by, list[i])]
<1>1. DOMAIN list = 1..N
  BY LongerIs
<1>2. AllSpoken(by, list) = FlattenSeq(each)
  BY <1>1 DEF AllSpoken
<1>3. each = says
  <2> DEFINE g(i) == says[i]
             h(i) == Spoken(by, list[i])
  <2>1. \A i \in 1..N : g(i) = h(i)
    OBVIOUS
  <2>2. says = [i \in 1..N |-> g(i)] /\ each = [i \in 1..N |-> h(i)]
    OBVIOUS
  <2> HIDE DEF g, h
  <2>3. [i \in 1..N |-> g(i)] = [i \in 1..N |-> h(i)]
    BY <2>1
  <2> HIDE DEF each
  <2> QED BY <2>2, <2>3
<1> QED BY <1>2, <1>3

\* A row says what its cells show.
LEMMA RowSays ==
  ASSUME NEW n, NEW cells, HoldParts(cells), NEW c, c = Len(cells)
  PROVE  FlattenSeq([i \in 1..c |-> CellMarkdown(n, cells[i])]) =
           TextsOf(Placed(n, FlattenSeq(cells)))
<1> DEFINE by == PartsAt(n)
           says == [i \in 1..c |-> CellMarkdown(n, cells[i])]
<1>1. AreLists(cells) /\ IsList(cells) /\ \A i \in 1..c : ArePartsIn(cells[i])
  BY DEF HoldParts, AreLists
<1>2. ASSUME NEW i \in 1..c PROVE Spoken(by, cells[i]) = CellMarkdown(n, cells[i])
  <2> DEFINE ps == cells[i]
  <2>1. ArePartsIn(ps)
    BY <1>1
  <2> HIDE DEF ps
  <2>2. Blocks(Placed(n, ps)) = TextsOf(Placed(n, ps))
    BY <2>1, PlacedSay
  <2>3. Spoken(by, ps) = CellMarkdown(n, ps)
    BY <2>2, SpokenAre DEF CellMarkdown
  <2> QED BY <2>3 DEF ps
<1>3. says = [i \in 1..c |-> says[i]] /\ \A i \in 1..c : Spoken(by, cells[i]) = says[i]
  BY <1>2
<1> HIDE DEF says, by
<1>4. AllSpoken(by, cells) = FlattenSeq(says)
  BY <1>1, <1>3, SpokenSame
<1>5. TextsOf(Placed(n, FlattenSeq(cells))) = AllSpoken(by, cells)
  BY <1>1, PartsFlat DEF by
<1> QED BY <1>4, <1>5 DEF says

\* The rows of a table are rows.
LEMMA TableIs ==
  ASSUME NEW e, IsTable(e)
  PROVE  /\ e.columns \in Nat /\ IsList(e.rows) /\ Len(e.rows) \in Nat /\ DOMAIN e.rows = 1..Len(e.rows)
         /\ \A r \in 1..Len(e.rows) : IsRow(e.rows[r])
         /\ e.rows # <<>> => \A cell \in Range(e.rows[1]) : cell.merge # "continues"
<1> DEFINE rows == e.rows
           N == Len(rows)
<1>1. /\ e.columns \in Nat /\ IsList(rows)
      /\ \A row \in Range(rows) :
           /\ row \in Seq(Range(row))
           /\ \A cell \in Range(row) : cell.span \in Nat \ {0} /\ ArePartsIn(cell.paragraphs)
      /\ rows # <<>> => \A cell \in Range(rows[1]) : cell.merge # "continues"
  BY DEF IsTable, IsList
<1>2. N \in Nat /\ DOMAIN rows = 1..N
  BY <1>1, LongerIs
<1>3. ASSUME NEW r \in 1..N PROVE IsRow(rows[r])
  <2> DEFINE row == rows[r]
  <2>1. row \in Range(rows)
    BY <1>2 DEF Range
  <2> HIDE DEF row, rows
  <2>2. IsList(row) /\ \A cell \in Range(row) : cell.span \in Nat \ {0} /\ ArePartsIn(cell.paragraphs)
    BY <1>1, <2>1 DEF IsList
  <2>3. DOMAIN row = 1..Len(row)
    BY <2>2, LongerIs
  <2>4. \A k \in 1..Len(row) : row[k] \in Range(row)
    BY <2>3 DEF Range
  <2>5. IsRow(row)
    BY <2>2, <2>4 DEF IsRow
  <2> QED BY <2>5 DEF row, rows
<1> QED BY <1>1, <1>2, <1>3

\* What the rows of a table show is what is in its cells.
LEMMA RowsSay ==
  ASSUME NEW n, NEW e, IsTable(e)
  PROVE  LET says == [r \in DOMAIN e.rows |->
                        FlattenSeq([i \in 1..e.columns |-> CellMarkdown(n, RowCells(e.rows[r], e.columns)[i])])]
         IN  /\ FlattenSeq(says) = TextsOf(Placed(n, TableParts(e)))
             /\ IsList(TableParts(e))
<1> DEFINE c == e.columns
           N == Len(e.rows)
           row(r) == e.rows[r]
           cells(r) == RowCells(row(r), c)
           says == [r \in DOMAIN e.rows |-> FlattenSeq([i \in 1..c |-> CellMarkdown(n, cells(r)[i])])]
           parts == [r \in DOMAIN e.rows |-> RowParts(e, row(r))]
           by == PartsAt(n)
<1>1. c \in Nat /\ N \in Nat /\ DOMAIN e.rows = 1..N /\ \A r \in 1..N : IsRow(row(r))
  BY TableIs
<1>2. TableParts(e) = FlattenSeq(parts)
  BY DEF TableParts
<1>3. ASSUME NEW r \in 1..N
      PROVE  /\ HoldParts(cells(r)) /\ Len(cells(r)) = c
             /\ FlattenSeq(cells(r)) = RowParts(e, row(r)) /\ IsList(RowParts(e, row(r)))
  <2> DEFINE one == row(r)
  <2>1. IsRow(one)
    BY <1>1
  <2> HIDE DEF one
  <2>2. /\ HoldParts(RowCells(one, c)) /\ FlattenSeq(RowCells(one, c)) = RowParts(e, one)
        /\ IsList(RowParts(e, one))
    BY <1>1, <2>1, RowShows
  <2>3. Len(RowCells(one, c)) = c
    <3> DEFINE f == RowCells(one, c)
    <3>1. IsList(f) /\ DOMAIN f = 1..c
      BY <2>2 DEF RowCells, HoldParts, AreLists
    <3> HIDE DEF f
    <3>2. DOMAIN f = 1..Len(f) /\ Len(f) \in Nat
      BY <3>1, LongerIs
    <3> QED BY <1>1, <3>1, <3>2 DEF f
  <2> QED BY <2>2, <2>3 DEF one
<1>4. ASSUME NEW r \in 1..N
      PROVE  says[r] = Spoken(by, parts[r]) /\ IsList(parts[r])
  <2> DEFINE f == cells(r)
  <2>1. HoldParts(f) /\ c = Len(f) /\ FlattenSeq(f) = RowParts(e, row(r))
    BY <1>3
  <2>2. says[r] = FlattenSeq([i \in 1..c |-> CellMarkdown(n, f[i])])
    BY <1>1
  <2> HIDE DEF f, says
  <2>3. says[r] = TextsOf(Placed(n, FlattenSeq(f)))
    BY <2>1, <2>2, RowSays
  <2>4. parts[r] = RowParts(e, row(r))
    BY <1>1
  <2> HIDE DEF parts, row
  <2> QED BY <1>3, <2>1, <2>3, <2>4, SpokenAre
<1>5. parts = [r \in 1..N |-> parts[r]] /\ says = [r \in 1..N |-> says[r]]
  BY <1>1
<1> HIDE DEF parts, says, cells, row, N, c
<1>6. IsList(parts) /\ Len(parts) = N
  BY <1>1, <1>5, FunctionList
<1>7. AreLists(parts)
  BY <1>4, <1>6 DEF AreLists
<1>8. AllSpoken(by, parts) = FlattenSeq(says)
  <2> HIDE DEF by
  <2>1. says = [r \in 1..Len(parts) |-> says[r]]
    BY <1>5, <1>6
  <2>2. \A r \in 1..Len(parts) : Spoken(by, parts[r]) = says[r]
    BY <1>4, <1>6
  <2> QED BY <1>6, <2>1, <2>2, SpokenSame
<1>9. IsList(FlattenSeq(parts)) /\ TextsOf(Placed(n, FlattenSeq(parts))) = AllSpoken(by, parts)
  BY <1>7, PartsFlat
<1> QED BY <1>2, <1>8, <1>9 DEF says, cells, row, c

\* A table with no row, or no column, shows nothing.
LEMMA NoColumns ==
  ASSUME NEW e, IsTable(e), e.rows = <<>> \/ e.columns = 0, NEW n
  PROVE  TextsOf(Placed(n, TableParts(e))) = <<>>
<1> DEFINE says == [r \in DOMAIN e.rows |->
                      FlattenSeq([i \in 1..e.columns |-> CellMarkdown(n, RowCells(e.rows[r], e.columns)[i])])]
           N == Len(e.rows)
<1>1. FlattenSeq(says) = TextsOf(Placed(n, TableParts(e)))
  BY RowsSay
<1>2. e.columns \in Nat /\ N \in Nat /\ DOMAIN e.rows = 1..N
  BY TableIs
<1>3. CASE e.rows = <<>>
  <2>1. DOMAIN e.rows = {}
    BY <1>3, EmptyList
  <2>2. says = <<>>
    BY <2>1
  <2> QED BY <1>1, <2>2, FlattenNone
<1>4. CASE e.columns = 0
  <2>1. [i \in 1..0 |-> <<>>] = <<>>
    OBVIOUS
  <2>2. ASSUME NEW r PROVE FlattenSeq([i \in 1..e.columns |-> CellMarkdown(n, RowCells(e.rows[r], e.columns)[i])]) = <<>>
    <3> DEFINE f == [i \in 1..e.columns |-> CellMarkdown(n, RowCells(e.rows[r], e.columns)[i])]
    <3>1. f = <<>>
      BY <1>4
    <3> HIDE DEF f
    <3>2. FlattenSeq(f) = <<>>
      BY <3>1, FlattenNone
    <3> QED BY <3>2 DEF f
  <2>3. says = Upto(<<>>, N)
    <3>1. says = [r \in 1..N |-> <<>>]
      BY <1>2, <2>2
    <3>2. Upto(<<>>, N) = [r \in 1..N |-> <<>>]
      BY EmptyList DEF Upto
    <3> HIDE DEF says
    <3> QED BY <3>1, <3>2
  <2> HIDE DEF says, N
  <2>4. FlattenSeq(says) = <<>>
    <3>1. AreLists(<<>>) /\ Len(<<>>) <= N /\ FlattenSeq(<<>>) = <<>>
      BY <1>2, EmptyList, FlattenNone
    <3>2. FlattenSeq(Upto(<<>>, N)) = FlattenSeq(<<>>)
      BY <1>2, <3>1, UptoMore
    <3> QED BY <2>3, <3>1, <3>2
  <2> QED BY <1>1, <2>4
<1> QED BY <1>3, <1>4

\* A table of one cell is a box of what the cell holds.
LEMMA OneCell ==
  ASSUME NEW e, IsTable(e), e.columns # 0, Len(e.rows) = 1, Len(e.rows[1]) = 1
  PROVE  TableParts(e) = e.rows[1][1].paragraphs /\ ArePartsIn(e.rows[1][1].paragraphs)
<1> DEFINE row == e.rows[1]
           cell == row[1]
           ps == cell.paragraphs
<1>1. e.columns \in Nat /\ IsList(e.rows) /\ DOMAIN e.rows = 1..1 /\ IsRow(row) /\ e.rows # <<>>
  BY TableIs, EmptyList
<1>2. \A one \in Range(row) : one.merge # "continues"
  BY <1>1, TableIs
<1> HIDE DEF row
<1>w. Len(row) = 1
  BY DEF row
<1>3. IsList(row) /\ DOMAIN row = 1..1 /\ ArePartsIn(ps) /\ \A k \in 1..Len(row) : row[k].span \in Nat \ {0}
  <2>1. IsList(row) /\ \A k \in 1..Len(row) : row[k].span \in Nat \ {0} /\ ArePartsIn(row[k].paragraphs)
    BY <1>1 DEF IsRow
  <2>2. DOMAIN row = 1..1
    BY <1>w, <2>1, LongerIs
  <2>3. 1 \in 1..Len(row)
    BY <1>w
  <2> QED BY <2>1, <2>2, <2>3
<1>4. cell.merge # "continues"
  <2>1. cell \in Range(row)
    BY <1>3 DEF Range
  <2> QED BY <1>2, <2>1
<1>5. Before(row, 1) = 0
  <2>1. PICK spanned : Counting(spanned, row) /\ \A i \in 1..Len(row) : Before(row, i) = spanned[i - 1]
    BY <1>3, BeforeIs
  <2>2. Before(row, 1) = spanned[1 - 1] /\ spanned[0] = 0
    BY <1>w, <2>1 DEF Counting
  <2> QED BY <2>2
<1>6. CellParts(e, row, 1) = ps
  <2>1. ~(0 >= e.columns)
    BY <1>1
  <2> QED BY <1>4, <1>5, <2>1 DEF CellParts
<1>7. IsList(ps)
  BY <1>3, PlacedParts
<1>8. \A x : IsList(x) => FlattenSeq(<<x>>) = x
  <2> SUFFICES ASSUME NEW x, IsList(x) PROVE FlattenSeq(<<x>>) = x
    OBVIOUS
  <2>1. FlattenSeq(Append(<<>>, x)) = FlattenSeq(<<>>) \o x
    BY FlattenNone, FlattenLonger
  <2>2. Append(<<>>, x) = <<x>>
    OBVIOUS
  <2>3. <<>> \o x = x
    BY EmptyList, JoinedIs
  <2> QED BY <2>1, <2>2, <2>3, FlattenNone
<1> HIDE DEF ps, cell
<1>9. RowParts(e, row) = ps
  <2>1. [i \in 1..1 |-> CellParts(e, row, i)] = <<ps>>
    BY <1>6
  <2>2. RowParts(e, row) = FlattenSeq(<<ps>>)
    BY <1>3, <2>1 DEF RowParts
  <2> QED BY <1>7, <1>8, <2>2
<1>10. TableParts(e) = ps
  <2>1. [r \in 1..1 |-> RowParts(e, e.rows[r])] = <<ps>>
    <3>1. RowParts(e, e.rows[1]) = ps
      BY <1>9 DEF row
    <3> QED BY <3>1
  <2>2. TableParts(e) = FlattenSeq(<<ps>>)
    BY <1>1, <2>1 DEF TableParts
  <2> QED BY <1>7, <1>8, <2>2
<1> QED BY <1>3, <1>10 DEF ps, cell, row

\* A table says what is in its cells, in the order it shows them.
LEMMA TableSays ==
  ASSUME NEW n, NEW e, IsTable(e)
  PROVE  /\ TableMarkdown(n, e).says = TextsOf(Placed(n, TableParts(e)))
         /\ IsList(TableParts(e))
<1>1. IsList(TableParts(e))
  BY RowsSay
<1>2. CASE e.rows = <<>> \/ e.columns = 0
  <2>1. TableMarkdown(n, e) = NoBlock
    BY <1>2 DEF TableMarkdown
  <2>2. TextsOf(Placed(n, TableParts(e))) = <<>>
    BY <1>2, NoColumns
  <2> QED BY <1>1, <2>1, <2>2, BlockSays
<1>3. CASE ~(e.rows = <<>> \/ e.columns = 0) /\ Len(e.rows) = 1 /\ Len(e.rows[1]) = 1
  <2> DEFINE ps == e.rows[1][1].paragraphs
  <2>1. TableMarkdown(n, e) = Quote(Placed(n, ps))
    BY <1>3 DEF TableMarkdown
  <2>2. TableParts(e) = ps /\ ArePartsIn(ps)
    BY <1>3, OneCell
  <2> HIDE DEF ps
  <2>3. Blocks(Placed(n, ps)) = TextsOf(Placed(n, ps))
    BY <2>2, PlacedSay
  <2>4. Quote(Placed(n, ps)).says = Blocks(Placed(n, ps))
    BY BlockSays DEF Quote
  <2> QED BY <1>1, <2>1, <2>2, <2>3, <2>4
<1>4. CASE ~(e.rows = <<>> \/ e.columns = 0) /\ ~(Len(e.rows) = 1 /\ Len(e.rows[1]) = 1)
  <2> DEFINE says == [r \in DOMAIN e.rows |->
                        FlattenSeq([i \in 1..e.columns |-> CellMarkdown(n, RowCells(e.rows[r], e.columns)[i])])]
  <2>1. TableMarkdown(n, e) = [is |-> "table", says |-> FlattenSeq(says)]
    BY <1>4 DEF TableMarkdown
  <2>2. FlattenSeq(says) = TextsOf(Placed(n, TableParts(e)))
    BY RowsSay
  <2> HIDE DEF says
  <2> QED BY <1>1, <2>1, <2>2
<1> QED BY <1>2, <1>3, <1>4

\* The boxes a paragraph anchors hold the paragraphs it shows in boxes.
LEMMA ShapesShow ==
  ASSUME NEW p, IsParagraph(p)
  PROVE  /\ AreLists(AnchoredIn(p)) /\ FlattenSeq(AnchoredIn(p)) = ShapeParts(p)
         /\ \A i \in 1..Len(AnchoredIn(p)) : ArePartsIn(AnchoredIn(p)[i])
<1> DEFINE boxes == AnchoredIn(p)
           one(shape) == IF shape.choices # <<>> THEN shape.choices[1] ELSE shape.fallback
           drawn(shape) == Head(shape.choices \o <<shape.fallback>>)
<1>1. IsList(boxes) /\ AreBoxes(boxes)
  BY AnchoredIsList
<1>2. DOMAIN boxes = 1..Len(boxes)
  BY <1>1, LongerIs
<1>3. \A i \in 1..Len(boxes) : ArePartsIn(boxes[i])
  BY <1>1, <1>2 DEF AreBoxes, Range
<1>4. AreLists(boxes)
  BY <1>1, <1>3 DEF AreLists, ArePartsIn, IsList
<1>5. ASSUME NEW i \in DOMAIN p.shapes PROVE drawn(p.shapes[i]) = one(p.shapes[i])
  <2> DEFINE shape == p.shapes[i]
             choices == shape.choices
             fallback == shape.fallback
             both == choices \o <<fallback>>
  <2>1. IsList(choices)
    <3>1. shape \in Range(p.shapes)
      BY DEF Range
    <3> QED BY <3>1 DEF IsParagraph, IsShape, IsList
  <2> HIDE DEF choices, fallback
  <2>2. IsList(<<fallback>>) /\ Len(<<fallback>>) = 1
    BY EmptyList, AppendedIs
  <2>3. /\ IsList(both) /\ Len(both) = Len(choices) + 1 /\ Len(choices) \in Nat
        /\ \A k \in 1..Len(choices) : both[k] = choices[k]
        /\ \A k \in 1..1 : both[Len(choices) + k] = fallback
    <3> DEFINE back == <<fallback>>
    <3>1. IsList(back) /\ Len(back) = 1 /\ back[1] = fallback
      BY <2>2
    <3> HIDE DEF back
    <3>2. /\ IsList(choices \o back) /\ Len(choices \o back) = Len(choices) + Len(back) /\ Len(choices) \in Nat
          /\ \A k \in 1..Len(choices) : (choices \o back)[k] = choices[k]
          /\ \A k \in 1..Len(back) : (choices \o back)[Len(choices) + k] = back[k]
      <4>1. IsList(choices) /\ IsList(back)
        BY <2>1, <3>1
      <4> QED BY <4>1, JoinedIs
    <3> QED BY <3>1, <3>2 DEF back
  <2>4. Head(both) = both[1]
    <3> HIDE DEF both
    <3>1. both \in Seq(Range(both)) /\ both # <<>>
      BY <2>3, EmptyList DEF IsList
    <3> QED BY <3>1
  <2> HIDE DEF both
  <2>5. CASE choices # <<>>
    <3>1. Len(choices) # 0
      <4>1. choices \in Seq(Range(choices))
        BY <2>1 DEF IsList
      <4> QED BY <2>5, <4>1
    <3>2. both[1] = choices[1]
      BY <2>3, <3>1
    <3> QED BY <2>4, <2>5, <3>2 DEF both, choices, fallback
  <2>6. CASE choices = <<>>
    <3>1. Len(choices) = 0
      BY <2>6, EmptyList
    <3>2. both[1] = fallback
      BY <2>3, <3>1
    <3> QED BY <2>4, <2>6, <3>2 DEF both, choices, fallback
  <2> QED BY <2>5, <2>6
<1>6. boxes = FlattenSeq([i \in DOMAIN p.shapes |-> one(p.shapes[i])])
  BY DEF AnchoredIn
<1>7. ShapeParts(p) = FlattenSeq(FlattenSeq([i \in DOMAIN p.shapes |-> drawn(p.shapes[i])]))
  BY DEF ShapeParts
<1> HIDE DEF one, drawn, boxes
<1>8. [i \in DOMAIN p.shapes |-> drawn(p.shapes[i])] = [i \in DOMAIN p.shapes |-> one(p.shapes[i])]
  BY <1>5
<1>9. ShapeParts(p) = FlattenSeq(boxes)
  BY <1>6, <1>7, <1>8
<1> QED BY <1>3, <1>4, <1>9 DEF boxes

-----------------------------------------------------------------------------
(* What is filed                                                           *)

\* Sections whose blocks say texts.
Files(sections) ==
  IsList(sections) /\ \A s \in 1..Len(sections) : Speaks(OfBlock, sections[s].content)

\* What is filed in each of them.
FiledEach(sections) == [s \in DOMAIN sections |-> AllSpoken(FiledAt(s), sections[s].content)]

\* Blocks that say texts say texts of their section.
LEMMA FiledSpeaks ==
  ASSUME NEW content, Speaks(OfBlock, content), NEW s
  PROVE  Speaks(FiledAt(s), content)
<1> DEFINE by == FiledAt(s)
<1>1. IsList(content) /\ \A i \in 1..Len(content) : IsList(content[i].says)
  BY SpokenAre DEF Speaks
<1>2. \A x : Spoken(by, x) = InSection(s, x.says)
  BY SpokenAre
<1>3. \A texts : IsList(texts) => IsList(InSection(s, texts))
  BY InSectionIs
<1> HIDE DEF by
<1>4. Speaks(by, content)
  BY <1>1, <1>2, <1>3 DEF Speaks
<1> QED BY <1>4 DEF by

\* What is filed is what is filed in each section, a list.
LEMMA FiledIs ==
  ASSUME NEW sections, Files(sections)
  PROVE  /\ AreLists(FiledEach(sections)) /\ Len(FiledEach(sections)) = Len(sections)
         /\ Len(sections) \in Nat
         /\ \A s \in 1..Len(sections) :
              FiledEach(sections)[s] = AllSpoken(FiledAt(s), sections[s].content)
         /\ FiledIn(sections) = FlattenSeq(FiledEach(sections)) /\ IsList(FiledIn(sections))
<1> DEFINE N == Len(sections)
           each == FiledEach(sections)
<1>1. N \in Nat /\ DOMAIN sections = 1..N
  BY LongerIs DEF Files
<1>2. FiledIn(sections) = FlattenSeq(each)
  <2>1. \A s, content : FlattenSeq([b \in DOMAIN content |-> InSection(s, content[b].says)])
                          = AllSpoken(FiledAt(s), content)
    BY SpokenAre DEF AllSpoken
  <2> QED BY <2>1 DEF FiledIn, FiledEach
<1>3. each = [s \in 1..N |-> each[s]] /\ \A s \in 1..N : each[s] = AllSpoken(FiledAt(s), sections[s].content)
  BY <1>1 DEF FiledEach
<1>4. \A s \in 1..N : IsList(AllSpoken(FiledAt(s), sections[s].content))
  <2> SUFFICES ASSUME NEW s \in 1..N PROVE IsList(AllSpoken(FiledAt(s), sections[s].content))
    OBVIOUS
  <2> DEFINE content == sections[s].content
             by == FiledAt(s)
  <2>1. Speaks(OfBlock, content)
    BY DEF Files
  <2>2. Speaks(by, content)
    BY <2>1, FiledSpeaks
  <2> HIDE DEF content, by
  <2>3. IsList(AllSpoken(by, content))
    BY <2>2, SpokenIs
  <2> QED BY <2>3 DEF content, by
<1> HIDE DEF each, N
<1>5. IsList(each) /\ Len(each) = N
  BY <1>1, <1>3, FunctionList
<1>6. AreLists(each)
  BY <1>3, <1>4, <1>5 DEF AreLists
<1>7. IsList(FlattenSeq(each))
  BY <1>6, EmptyList, FlattenLonger
<1> QED BY <1>1, <1>2, <1>3, <1>5, <1>6, <1>7 DEF each, N

\* A block is filed at the end of the last section.
FiledLast(sections, block) ==
  [sections EXCEPT ![Len(sections)].content = Append(@, block)]

\* It says what it says at the end of all that is filed.
LEMMA FiledLonger ==
  ASSUME NEW sections, Files(sections), sections # <<>>, NEW block, IsList(block.says),
         \A s \in 1..Len(sections) : DOMAIN sections[s] = SectionParts
  PROVE  /\ Files(FiledLast(sections, block))
         /\ Len(FiledLast(sections, block)) = Len(sections)
         /\ FiledIn(FiledLast(sections, block)) =
              FiledIn(sections) \o InSection(Len(sections), block.says)
<1> DEFINE N == Len(sections)
           content == sections[N].content
           longer == Append(content, block)
           filed == FiledLast(sections, block)
           says == InSection(N, block.says)
<1>1. N \in Nat /\ DOMAIN sections = 1..N /\ IsList(sections)
  BY LongerIs DEF Files
<1>2. N \in 1..N
  <2>1. N # 0
    <3>1. sections \in Seq(Range(sections))
      BY <1>1 DEF IsList
    <3> QED BY <3>1
  <2> QED BY <1>1, <2>1
<1>3. \A s \in 1..N : Speaks(OfBlock, sections[s].content)
  BY DEF Files
<1>4. Speaks(OfBlock, content)
  BY <1>2, <1>3
<1>c. "content" \in DOMAIN sections[N]
  BY <1>2 DEF SectionParts
<1>5. /\ DOMAIN filed = 1..N
      /\ filed[N].content = longer
      /\ \A s \in 1..N : s # N => filed[s].content = sections[s].content
  BY <1>1, <1>2, <1>c DEF FiledLast
<1>d. DOMAIN filed = 1..N /\ filed = [s \in 1..N |-> filed[s]]
  BY <1>1 DEF FiledLast
<1> HIDE DEF filed, N, longer, content
<1>6. IsList(filed) /\ Len(filed) = N
  BY <1>1, <1>d, FunctionList
<1>7. /\ Speaks(OfBlock, longer)
      /\ AllSpoken(FiledAt(N), longer) = AllSpoken(FiledAt(N), content) \o says
      /\ IsList(says)
  <2> DEFINE by == FiledAt(N)
  <2>1. Speaks(by, content) /\ Spoken(by, block) = says /\ Spoken(OfBlock, block) = block.says
    BY <1>4, FiledSpeaks, SpokenAre
  <2>2. IsList(says)
    BY InSectionIs
  <2> HIDE DEF by, says
  <2>3. IsList(Spoken(by, block)) /\ IsList(Spoken(OfBlock, block))
    BY <2>1, <2>2
  <2>4. Speaks(OfBlock, longer)
    BY <1>4, <2>3, SpokenLonger DEF longer
  <2>5. AllSpoken(by, longer) = AllSpoken(by, content) \o Spoken(by, block)
    BY <2>1, <2>3, SpokenLonger DEF longer
  <2> QED BY <2>1, <2>2, <2>4, <2>5 DEF by
<1>8. Files(filed)
  BY <1>3, <1>5, <1>6, <1>7 DEF Files
<1> DEFINE each == FiledEach(sections)
           more == FiledEach(filed)
<1>9. /\ AreLists(each) /\ Len(each) = N
      /\ \A s \in 1..N : each[s] = AllSpoken(FiledAt(s), sections[s].content)
      /\ FiledIn(sections) = FlattenSeq(each)
  BY FiledIs DEF N
<1>10. /\ AreLists(more) /\ Len(more) = N
       /\ \A s \in 1..N : more[s] = AllSpoken(FiledAt(s), filed[s].content)
       /\ FiledIn(filed) = FlattenSeq(more)
  <2>1. /\ AreLists(more) /\ Len(more) = Len(filed)
        /\ \A s \in 1..Len(filed) : more[s] = AllSpoken(FiledAt(s), filed[s].content)
        /\ FiledIn(filed) = FlattenSeq(more)
    BY <1>8, FiledIs
  <2> QED BY <1>6, <2>1
<1> HIDE DEF each, more, says
<1>11. each # <<>>
  BY <1>2, <1>9, EmptyList
<1>12. \A s \in 1..N : more[s] = IF s = N THEN each[s] \o says ELSE each[s]
  <2> SUFFICES ASSUME NEW s \in 1..N PROVE more[s] = IF s = N THEN each[s] \o says ELSE each[s]
    OBVIOUS
  <2>1. CASE s = N
    <3>1. more[s] = AllSpoken(FiledAt(N), longer) /\ each[s] = AllSpoken(FiledAt(N), content)
      BY <1>5, <1>9, <1>10, <2>1 DEF content
    <3> QED BY <1>7, <2>1, <3>1
  <2>2. CASE s # N
    BY <1>5, <1>9, <1>10, <2>2
  <2> QED BY <2>1, <2>2
<1>13. FlattenSeq(more) = FlattenSeq(each) \o says
  <2>1. IsList(more) /\ Len(more) = Len(each)
    BY <1>9, <1>10 DEF AreLists
  <2>2. \A s \in 1..Len(each) : more[s] = IF s = Len(each) THEN each[s] \o says ELSE each[s]
    BY <1>9, <1>12
  <2> QED BY <1>7, <1>9, <1>11, <2>1, <2>2, FlattenLast
<1> QED BY <1>6, <1>8, <1>9, <1>10, <1>13 DEF filed, says, N

\* A section opened holds nothing.
LEMMA FiledOpened ==
  ASSUME NEW sections, Files(sections), NEW section, section.content = <<>>
  PROVE  /\ Files(Append(sections, section)) /\ Len(Append(sections, section)) = Len(sections) + 1
         /\ FiledIn(Append(sections, section)) = FiledIn(sections)
<1> DEFINE N == Len(sections)
           opened == Append(sections, section)
           each == FiledEach(sections)
           more == FiledEach(opened)
           filed == FlattenSeq(each)
<1>1. /\ IsList(opened) /\ Len(opened) = N + 1 /\ N \in Nat
      /\ opened[N + 1] = section /\ \A s \in 1..N : opened[s] = sections[s]
  BY LongerIs DEF Files
<1>2. \A s \in 1..N : Speaks(OfBlock, sections[s].content)
  BY DEF Files
<1> HIDE DEF opened
<1>3. Files(opened)
  <2> SUFFICES ASSUME NEW s \in 1..(N + 1) PROVE Speaks(OfBlock, opened[s].content)
    BY <1>1 DEF Files
  <2>1. CASE s = N + 1
    BY <1>1, <2>1, NoneSpoken
  <2>2. CASE s # N + 1
    <3>1. s \in 1..N
      BY <1>1, <2>2
    <3> QED BY <1>1, <1>2, <3>1
  <2> QED BY <2>1, <2>2
<1>4. /\ AreLists(each) /\ Len(each) = N
      /\ \A s \in 1..N : each[s] = AllSpoken(FiledAt(s), sections[s].content)
      /\ FiledIn(sections) = filed /\ IsList(filed)
  BY FiledIs
<1>5. /\ AreLists(more) /\ Len(more) = N + 1
      /\ \A s \in 1..(N + 1) : more[s] = AllSpoken(FiledAt(s), opened[s].content)
      /\ FiledIn(opened) = FlattenSeq(more)
  <2>1. /\ AreLists(more) /\ Len(more) = Len(opened)
        /\ \A s \in 1..Len(opened) : more[s] = AllSpoken(FiledAt(s), opened[s].content)
        /\ FiledIn(opened) = FlattenSeq(more)
    BY <1>3, FiledIs
  <2> QED BY <1>1, <2>1
<1> HIDE DEF each, more, N
<1> DEFINE other == Append(each, <<>>)
<1>6. /\ IsList(other) /\ Len(other) = N + 1 /\ other[N + 1] = <<>>
      /\ \A s \in 1..N : other[s] = each[s]
  BY <1>4, LongerIs DEF AreLists
<1>7. FlattenSeq(other) = filed \o <<>>
  BY <1>4, EmptyList, FlattenLonger
<1> HIDE DEF other
<1>8. ASSUME NEW s \in 1..(N + 1) PROVE more[s] = other[s]
  <2>1. CASE s = N + 1
    <3>1. more[s] = AllSpoken(FiledAt(s), <<>>)
      BY <1>1, <1>5, <2>1
    <3> QED BY <1>6, <2>1, <3>1, NoneSpoken
  <2>2. CASE s # N + 1
    <3>1. s \in 1..N
      BY <1>1, <2>2
    <3> QED BY <1>1, <1>4, <1>5, <1>6, <3>1
  <2> QED BY <2>1, <2>2
<1>9. more = other
  BY <1>5, <1>6, <1>8, SameList DEF AreLists
<1>10. filed \o <<>> = filed
  <2>1. IsList(filed)
    BY <1>4
  <2> HIDE DEF filed
  <2> QED BY <2>1, EmptyList, JoinedIs
<1> QED BY <1>1, <1>3, <1>4, <1>5, <1>7, <1>9, <1>10 DEF opened, N

-----------------------------------------------------------------------------
(* What the walk tells                                                     *)

\* What the walk has filed and holds says texts; prose is held for an item only.
Tidy(w) ==
  /\ HasShape(w) /\ Files(w.sections) /\ IsSaid(w.items)
  /\ Speaks(OfBlock, w.pending) /\ ArePartsIn(w.boxed)
  /\ w.items = <<>> => w.pending = <<>>

\* The texts held since the last item, and all that are held.
Waiting(w) == AllSpoken(OfBlock, w.pending) \o TextsOf(w.boxed)
Held(w) == SaysOf(w.items) \o Waiting(w)

\* Texts in the last section, if there is any.
Here(w, texts) == IF w.sections = <<>> THEN <<>> ELSE InSection(Len(w.sections), texts)

\* What is filed and what will be.
Told(w) == FiledIn(w.sections) \o Here(w, Held(w))

\* What is held now has no item to belong to.
Mute(w) == w.items # <<>> /\ Silences(w.items)

\* None of the texts is to be kept.
Spare(w, texts, kept) == \A text \in texts : <<Len(w.sections), text>> \notin kept

\* Texts are given to the walk, which tells them too, but for some that are not to
\* be kept where it holds them for an item that says nothing.
Gives(w, v, texts, kept) ==
  /\ Tidy(v) /\ Len(v.sections) = Len(w.sections) /\ (Mute(v) => Mute(w))
  /\ Range(Waiting(v)) \subseteq Range(Waiting(w)) \cup Range(texts)
  /\ (Mute(w) => Spare(w, Range(Waiting(w)) \cup Range(texts), kept)) =>
       Shed(Told(w) \o Here(w, texts), Told(v), kept)

\* Texts are in one section as they are anywhere.
LEMMA HereIs ==
  ASSUME NEW w, IsList(w.sections), NEW s, IsList(s), NEW t, IsList(t)
  PROVE  /\ IsList(Here(w, s)) /\ Here(w, s \o t) = Here(w, s) \o Here(w, t) /\ Here(w, <<>>) = <<>>
         /\ Range(Here(w, s)) \subseteq {<<Len(w.sections), text>> : text \in Range(s)}
<1>1. CASE w.sections = <<>>
  <2>1. \A texts : Here(w, texts) = <<>>
    BY <1>1 DEF Here
  <2> QED BY <2>1, EmptyList, JoinedIs
<1>2. CASE w.sections # <<>>
  <2> DEFINE n == Len(w.sections)
  <2>1. \A texts : Here(w, texts) = InSection(n, texts)
    BY <1>2 DEF Here
  <2> HIDE DEF n
  <2>2. IsList(InSection(n, s)) /\ Range(InSection(n, s)) = {<<n, text>> : text \in Range(s)}
    BY InSectionIs
  <2>3. InSection(n, s \o t) = InSection(n, s) \o InSection(n, t)
    BY InSectionJoined
  <2>4. InSection(n, <<>>) = <<>>
    BY DEF InSection
  <2> QED BY <2>1, <2>2, <2>3, <2>4 DEF n
<1> QED BY <1>1, <1>2

\* What the walk tells is a list, as is each part of it.
LEMMA TidyIs ==
  ASSUME NEW w, Tidy(w)
  PROVE  /\ IsList(w.sections) /\ IsList(FiledIn(w.sections)) /\ IsList(SaysOf(w.items))
         /\ IsList(AllSpoken(OfBlock, w.pending)) /\ IsList(TextsOf(w.boxed)) /\ IsList(w.boxed)
         /\ IsList(Waiting(w)) /\ IsList(Held(w)) /\ IsList(Told(w))
         /\ Range(Waiting(w)) = Range(AllSpoken(OfBlock, w.pending)) \cup Range(TextsOf(w.boxed))
<1>1. HasShape(w) /\ Files(w.sections) /\ IsSaid(w.items) /\ Speaks(OfBlock, w.pending) /\ ArePartsIn(w.boxed)
  BY DEF Tidy
<1>2. IsList(w.sections)
  BY <1>1 DEF Files
<1>3. IsList(FiledIn(w.sections))
  BY <1>1, FiledIs
<1>4. IsList(SaysOf(w.items))
  BY <1>1, SaidIsList
<1>5. IsList(AllSpoken(OfBlock, w.pending))
  BY <1>1, SpokenIs
<1>6. IsList(w.boxed)
  BY <1>1 DEF ArePartsIn, IsList
<1>7. IsList(TextsOf(w.boxed))
  <2>1. Speaks(OfPart, w.boxed)
    BY <1>6, TextIs
  <2>2. TextsOf(w.boxed) = AllSpoken(OfPart, w.boxed)
    BY SpokenAre
  <2> QED BY <2>1, <2>2, SpokenIs
<1>8. IsList(Waiting(w)) /\ Range(Waiting(w)) = Range(AllSpoken(OfBlock, w.pending)) \cup Range(TextsOf(w.boxed))
  BY <1>5, <1>7, JoinedIs DEF Waiting
<1>9. IsList(Held(w))
  BY <1>4, <1>8, JoinedIs DEF Held
<1>10. IsList(Here(w, Held(w)))
  BY <1>2, <1>9, HereIs
<1>11. IsList(Told(w))
  BY <1>3, <1>10, JoinedIs DEF Told
<1> QED BY <1>2, <1>3, <1>4, <1>5, <1>6, <1>7, <1>8, <1>9, <1>11

\* The same section is the last of two walks with as many.
LEMMA HereSame ==
  ASSUME NEW w, NEW v, IsList(w.sections), IsList(v.sections), Len(v.sections) = Len(w.sections), NEW texts
  PROVE  Here(v, texts) = Here(w, texts)
<1>1. w.sections = <<>> <=> Len(w.sections) = 0
  BY DEF IsList
<1>2. v.sections = <<>> <=> Len(v.sections) = 0
  BY DEF IsList
<1> QED BY <1>1, <1>2 DEF Here

\* Texts given after others.
LEMMA GivesOn ==
  ASSUME NEW w, Tidy(w), NEW u, NEW v, NEW s, IsList(s), NEW t, IsList(t), NEW kept,
         Gives(w, u, s, kept), Gives(u, v, t, kept)
  PROVE  Gives(w, v, s \o t, kept)
<1>1. /\ Tidy(u) /\ Len(u.sections) = Len(w.sections) /\ (Mute(u) => Mute(w))
      /\ Range(Waiting(u)) \subseteq Range(Waiting(w)) \cup Range(s)
  BY DEF Gives
<1>2. /\ Tidy(v) /\ Len(v.sections) = Len(u.sections) /\ (Mute(v) => Mute(u))
      /\ Range(Waiting(v)) \subseteq Range(Waiting(u)) \cup Range(t)
  BY DEF Gives
<1>3. Range(s \o t) = Range(s) \cup Range(t)
  BY JoinedIs
<1>4. ASSUME Mute(w) => Spare(w, Range(Waiting(w)) \cup Range(s \o t), kept)
      PROVE  Shed(Told(w) \o Here(w, s \o t), Told(v), kept)
  <2>1. Mute(w) => Spare(w, Range(Waiting(w)) \cup Range(s), kept)
    BY <1>3, <1>4 DEF Spare
  <2>2. Shed(Told(w) \o Here(w, s), Told(u), kept)
    BY <2>1 DEF Gives
  <2>3. Mute(u) => Spare(u, Range(Waiting(u)) \cup Range(t), kept)
    BY <1>1, <1>3, <1>4 DEF Spare
  <2>4. Shed(Told(u) \o Here(u, t), Told(v), kept)
    BY <2>3 DEF Gives
  <2>5. IsList(w.sections) /\ IsList(u.sections) /\ IsList(Told(w))
    BY <1>1, TidyIs
  <2>6. Here(u, t) = Here(w, t)
    BY <1>1, <2>5, HereSame
  <2>7. IsList(Here(w, t)) /\ IsList(Here(w, s)) /\ Here(w, s \o t) = Here(w, s) \o Here(w, t)
    BY <2>5, HereIs
  <2> DEFINE told == Told(w)
             hereS == Here(w, s)
             hereT == Here(w, t)
  <2>8. IsList(told) /\ IsList(hereS) /\ IsList(hereT)
    BY <2>5, <2>7
  <2> HIDE DEF told, hereS, hereT
  <2>9. (told \o hereS) \o hereT = told \o (hereS \o hereT)
    BY <2>8, JoinedThrice
  <2>10. Shed((told \o hereS) \o hereT, Told(u) \o hereT, kept)
    BY <2>2, <2>8, ShedBefore DEF told, hereS
  <2>11. Shed(Told(u) \o hereT, Told(v), kept)
    BY <2>4, <2>6 DEF hereT
  <2>12. Shed((told \o hereS) \o hereT, Told(v), kept)
    BY <2>10, <2>11, ShedTwice
  <2> QED BY <2>7, <2>9, <2>12 DEF told, hereS, hereT
<1> QED BY <1>1, <1>2, <1>3, <1>4 DEF Gives

\* All that is given is told but for what is lost, at the end, after an item that says
\* nothing.
LEMMA GivesBut ==
  ASSUME NEW w, Tidy(w), NEW v, Tidy(v), Len(v.sections) = Len(w.sections), Mute(v) => Mute(w),
         NEW texts, IsList(texts), Range(Waiting(v)) \subseteq Range(Waiting(w)) \cup Range(texts),
         NEW lost, IsList(lost), Range(lost) \subseteq Range(Waiting(w)) \cup Range(texts),
         lost # <<>> => Mute(w),
         Told(w) \o Here(w, texts) = Told(v) \o Here(w, lost), NEW kept
  PROVE  Gives(w, v, texts, kept)
<1>1. SUFFICES ASSUME Mute(w) => Spare(w, Range(Waiting(w)) \cup Range(texts), kept)
               PROVE  Shed(Told(w) \o Here(w, texts), Told(v), kept)
  BY DEF Gives
<1>2. IsList(w.sections) /\ IsList(Told(v))
  BY TidyIs
<1>3. IsList(Here(w, lost)) /\ Range(Here(w, lost)) \subseteq {<<Len(w.sections), text>> : text \in Range(lost)}
  BY <1>2, HereIs
<1>4. Range(Here(w, lost)) \cap kept = {}
  <2>1. CASE lost = <<>>
    <3>1. Here(w, <<>>) = <<>>
      BY <1>2, EmptyList, HereIs
    <3> QED BY <2>1, <3>1, EmptyList
  <2>2. CASE lost # <<>>
    BY <1>1, <1>3, <2>2 DEF Spare
  <2> QED BY <2>1, <2>2
<1>5. Shed(Told(v) \o Here(w, lost), Told(v), kept)
  BY <1>2, <1>3, <1>4, ShedLast
<1> QED BY <1>5

\* All that is given is told.
LEMMA GivesAll ==
  ASSUME NEW w, Tidy(w), NEW v, Tidy(v), Len(v.sections) = Len(w.sections), Mute(v) => Mute(w),
         NEW texts, IsList(texts), Range(Waiting(v)) \subseteq Range(Waiting(w)) \cup Range(texts),
         Told(w) \o Here(w, texts) = Told(v), NEW kept
  PROVE  Gives(w, v, texts, kept)
<1>1. IsList(w.sections) /\ IsList(Told(v))
  BY TidyIs
<1>2. Here(w, <<>>) = <<>>
  BY <1>1, EmptyList, HereIs
<1>3. Told(w) \o Here(w, texts) = Told(v) \o Here(w, <<>>)
  BY <1>1, <1>2, EmptyList, JoinedIs
<1>4. IsList(<<>>) /\ Range(<<>>) \subseteq Range(Waiting(w)) \cup Range(texts)
  BY EmptyList
<1> DEFINE lost == <<>>
<1>5. lost = <<>>
  OBVIOUS
<1> HIDE DEF lost
<1>6. IsList(lost) /\ Range(lost) \subseteq Range(Waiting(w)) \cup Range(texts)
  BY <1>4, <1>5
<1>7. Told(w) \o Here(w, texts) = Told(v) \o Here(w, lost)
  BY <1>3, <1>5
<1> QED BY <1>5, <1>6, <1>7, GivesBut

\* No step gives nothing.
LEMMA GivesNothing ==
  ASSUME NEW w, Tidy(w), NEW kept
  PROVE  Gives(w, w, <<>>, kept)
<1>1. IsList(w.sections) /\ IsList(Told(w))
  BY TidyIs
<1>2. Here(w, <<>>) = <<>>
  BY <1>1, EmptyList, HereIs
<1>3. Told(w) \o <<>> = Told(w)
  BY <1>1, EmptyList, JoinedIs
<1> QED BY <1>2, <1>3, EmptyList, GivesAll

-----------------------------------------------------------------------------
(* What is filed at once                                                   *)

\* Texts are filed in the last section, and nothing else is done.
FilesOnly(w, v, texts) ==
  /\ HasShape(v) /\ Files(v.sections) /\ Len(v.sections) = Len(w.sections)
  /\ FiledIn(v.sections) = FiledIn(w.sections) \o Here(w, texts)
  /\ v.items = w.items /\ v.pending = w.pending /\ v.boxed = w.boxed

\* A block is filed, if there is a section to file it in.
LEMMA BlockFiled ==
  ASSUME NEW w, HasShape(w), Files(w.sections), NEW block, IsList(block.says)
  PROVE  FilesOnly(w, AppendBlock(w, block), block.says)
<1> DEFINE v == AppendBlock(w, block)
<1>1. IsList(w.sections) /\ IsList(FiledIn(w.sections))
  BY FiledIs DEF Files
<1>2. FiledIn(w.sections) \o <<>> = FiledIn(w.sections)
  BY <1>1, EmptyList, JoinedIs
<1>3. HasShape(v)
  BY AppendBlockKeeps DEF Keeps
<1>4. CASE w.sections = <<>> \/ block = NoBlock
  <2>1. v = w
    BY <1>4 DEF AppendBlock
  <2>2. Here(w, block.says) = <<>>
    <3>1. CASE w.sections = <<>>
      BY <3>1 DEF Here
    <3>2. CASE block = NoBlock
      <4>1. block.says = <<>>
        BY <3>2 DEF NoBlock
      <4> QED BY <1>1, <4>1, EmptyList, HereIs
    <3> QED BY <1>4, <3>1, <3>2
  <2> QED BY <1>2, <1>3, <2>1, <2>2 DEF FilesOnly
<1>5. CASE w.sections # <<>> /\ block # NoBlock
  <2> DEFINE filed == FiledLast(w.sections, block)
  <2>1. v = [w EXCEPT !.sections = filed]
    BY <1>5 DEF AppendBlock, FiledLast
  <2>2. \A s \in 1..Len(w.sections) : DOMAIN w.sections[s] = SectionParts
    BY DEF HasShape
  <2>3. DOMAIN w = Parts
    BY DEF HasShape, IsWalk
  <2> DEFINE sections == w.sections
  <2>4. Files(sections) /\ sections # <<>> /\ \A s \in 1..Len(sections) : DOMAIN sections[s] = SectionParts
    BY <1>5, <2>2
  <2> HIDE DEF sections
  <2>5. /\ Files(FiledLast(sections, block)) /\ Len(FiledLast(sections, block)) = Len(sections)
        /\ FiledIn(FiledLast(sections, block)) = FiledIn(sections) \o InSection(Len(sections), block.says)
    BY <2>4, FiledLonger
  <2>6. Files(filed) /\ Len(filed) = Len(w.sections)
        /\ FiledIn(filed) = FiledIn(w.sections) \o Here(w, block.says)
    BY <1>5, <2>5 DEF sections, Here
  <2> HIDE DEF filed
  <2>7. v.sections = filed /\ v.items = w.items /\ v.pending = w.pending /\ v.boxed = w.boxed
    BY <2>1, <2>3 DEF Parts
  <2> QED BY <1>3, <2>6, <2>7 DEF FilesOnly
<1> QED BY <1>4, <1>5

\* Texts filed after others are filed after them.
LEMMA FilesOn ==
  ASSUME NEW w, HasShape(w), Files(w.sections), NEW u, NEW v, NEW s, IsList(s), NEW t, IsList(t),
         FilesOnly(w, u, s), FilesOnly(u, v, t)
  PROVE  FilesOnly(w, v, s \o t)
<1>1. IsList(w.sections) /\ IsList(u.sections) /\ Len(u.sections) = Len(w.sections)
  BY DEF FilesOnly, Files
<1>2. Here(u, t) = Here(w, t)
  BY <1>1, HereSame
<1>3. IsList(FiledIn(w.sections))
  BY FiledIs
<1>4. IsList(Here(w, t)) /\ IsList(Here(w, s)) /\ Here(w, s \o t) = Here(w, s) \o Here(w, t)
  BY <1>1, HereIs
<1> DEFINE filed == FiledIn(w.sections)
           hereS == Here(w, s)
           hereT == Here(w, t)
<1>5. IsList(filed) /\ IsList(hereS) /\ IsList(hereT)
  BY <1>3, <1>4
<1>6. FiledIn(v.sections) = (filed \o hereS) \o hereT
  BY <1>2 DEF FilesOnly
<1> HIDE DEF filed, hereS, hereT
<1>7. (filed \o hereS) \o hereT = filed \o (hereS \o hereT)
  BY <1>5, JoinedThrice
<1>8. FiledIn(v.sections) = FiledIn(w.sections) \o Here(w, s \o t)
  BY <1>4, <1>6, <1>7 DEF filed, hereS, hereT
<1> QED BY <1>8 DEF FilesOnly

\* Nothing filed.
LEMMA FilesNothing ==
  ASSUME NEW w, HasShape(w), Files(w.sections)
  PROVE  FilesOnly(w, w, <<>>)
<1>1. IsList(w.sections) /\ IsList(FiledIn(w.sections))
  BY FiledIs DEF Files
<1>2. FiledIn(w.sections) \o <<>> = FiledIn(w.sections)
  BY <1>1, EmptyList, JoinedIs
<1>3. Here(w, <<>>) = <<>>
  BY <1>1, EmptyList, HereIs
<1> QED BY <1>2, <1>3 DEF FilesOnly

\* Blocks are filed one after the other.
LEMMA BlocksFiled ==
  ASSUME NEW w, HasShape(w), Files(w.sections), NEW list, Speaks(OfBlock, list)
  PROVE  FilesOnly(w, FoldLeft(AppendBlock, w, list), AllSpoken(OfBlock, list))
<1>1. IsList(list) /\ \A i \in 1..Len(list) : IsList(list[i].says)
  <2>1. \A x : Spoken(OfBlock, x) = x.says
    BY SpokenAre
  <2> QED BY <2>1 DEF Speaks
<1>2. PICK f : TakenEach(f, Filing, w, list) /\ FoldLeft(AppendBlock, w, list) = f[1..Len(list)]
  BY <1>1, AppendsAre
<1>3. /\ f[1..0] = w
      /\ \A k \in 1..Len(list) : f[1..k] = Taken(Filing, f[1..(k - 1)], list[k])
  BY <1>1, <1>2, TakenSteps
<1>4. \A k \in 1..Len(list) : f[1..k] = AppendBlock(f[1..(k - 1)], list[k])
  BY <1>3 DEF Taken, Filing
<1>5. PICK first : Growing(first, list)
  BY <1>1, GrowsByOne
<1> DEFINE N == Len(list)
           good == {n \in 0..N : Speaks(OfBlock, first[n]) /\ FilesOnly(w, f[1..n], AllSpoken(OfBlock, first[n]))}
<1>6. N \in Nat /\ DOMAIN list = 1..N
  BY <1>1, LongerIs
<1>7. 0 \in good
  <2>1. first[0] = <<>>
    BY <1>5 DEF Growing
  <2>2. Speaks(OfBlock, <<>>) /\ AllSpoken(OfBlock, <<>>) = <<>>
    BY NoneSpoken
  <2> QED BY <1>3, <1>6, <2>1, <2>2, FilesNothing
<1>8. ASSUME NEW n \in 1..N, n - 1 \in good PROVE n \in good
  <2> DEFINE u == f[1..(n - 1)]
             s == AllSpoken(OfBlock, first[n - 1])
             block == list[n]
  <2>1. FilesOnly(w, u, s) /\ Speaks(OfBlock, first[n - 1])
    BY <1>8
  <2>2. IsList(s)
    BY <2>1, SpokenIs
  <2>3. first[n] = Append(first[n - 1], block)
    BY <1>5 DEF Growing
  <2>4. IsList(block.says) /\ Spoken(OfBlock, block) = block.says
    BY <1>1, SpokenAre
  <2>5. Speaks(OfBlock, first[n]) /\ AllSpoken(OfBlock, first[n]) = s \o block.says
    <3> DEFINE before == first[n - 1]
    <3>1. Speaks(OfBlock, before) /\ IsList(Spoken(OfBlock, block))
      BY <2>1, <2>4
    <3> HIDE DEF before, block
    <3>2. /\ Speaks(OfBlock, Append(before, block))
          /\ AllSpoken(OfBlock, Append(before, block)) = AllSpoken(OfBlock, before) \o Spoken(OfBlock, block)
      BY <3>1, SpokenLonger
    <3> QED BY <2>3, <2>4, <3>2 DEF before
  <2> HIDE DEF u, s, block
  <2>6. FilesOnly(u, AppendBlock(u, block), block.says)
    <3>1. HasShape(u) /\ Files(u.sections)
      BY <2>1 DEF FilesOnly
    <3> QED BY <2>4, <3>1, BlockFiled
  <2>7. FilesOnly(w, AppendBlock(u, block), s \o block.says)
    BY <2>1, <2>2, <2>4, <2>6, FilesOn
  <2>8. f[1..n] = AppendBlock(u, block)
    BY <1>4 DEF u, block
  <2>9. FilesOnly(w, f[1..n], AllSpoken(OfBlock, first[n]))
    BY <2>5, <2>7, <2>8
  <2>10. n \in 0..N
    BY <1>6
  <2> QED BY <2>5, <2>9, <2>10
<1>9. 0..N \subseteq good
  <2> HIDE DEF good, N
  <2> QED BY <1>6, <1>7, <1>8, StepByStep
<1>10. N \in good
  BY <1>6, <1>9
<1>11. first[N] = list
  BY <1>5 DEF Growing
<1> QED BY <1>2, <1>10, <1>11

-----------------------------------------------------------------------------
(* Lists and boxes closed                                                  *)

\* Nothing is held.
Idle(w) == w.items = <<>> /\ w.pending = <<>> /\ w.boxed = <<>>

\* What an idle walk tells is filed.
LEMMA IdleTells ==
  ASSUME NEW w, HasShape(w), Files(w.sections), Idle(w)
  PROVE  Tidy(w) /\ Told(w) = FiledIn(w.sections) /\ ~Mute(w) /\ Waiting(w) = <<>> /\ Held(w) = <<>>
<1>1. SaysOf(<<>>) = <<>> /\ IsSaid(<<>>)
  BY NothingSaid
<1>2. Speaks(OfBlock, <<>>) /\ AllSpoken(OfBlock, <<>>) = <<>>
  BY NoneSpoken
<1>3. ArePartsIn(<<>>)
  <2>1. <<>> \in Seq(Range(<<>>)) /\ Range(<<>>) = {}
    BY EmptyList DEF IsList
  <2> QED BY <2>1 DEF ArePartsIn
<1>4. TextsOf(<<>>) = <<>>
  BY NoParts
<1>5. <<>> \o <<>> = <<>>
  BY EmptyList, JoinedIs
<1>6. Tidy(w)
  BY <1>1, <1>2, <1>3 DEF Tidy, Idle
<1>7. Waiting(w) = <<>> /\ Held(w) = <<>>
  BY <1>1, <1>2, <1>4, <1>5 DEF Waiting, Held, Idle
<1>8. IsList(w.sections) /\ IsList(FiledIn(w.sections))
  BY <1>6, TidyIs
<1>9. Here(w, <<>>) = <<>>
  BY <1>8, EmptyList, HereIs
<1>10. FiledIn(w.sections) \o <<>> = FiledIn(w.sections)
  BY <1>8, EmptyList, JoinedIs
<1> QED BY <1>6, <1>7, <1>9, <1>10 DEF Told, Mute, Idle

\* A block filed by a walk that holds nothing.
LEMMA IdleFiles ==
  ASSUME NEW w, Tidy(w), Idle(w), NEW block, IsList(block.says), NEW kept
  PROVE  Gives(w, AppendBlock(w, block), block.says, kept) /\ Idle(AppendBlock(w, block))
<1> DEFINE v == AppendBlock(w, block)
<1>1. HasShape(w) /\ Files(w.sections)
  BY DEF Tidy
<1>2. FilesOnly(w, v, block.says)
  BY <1>1, BlockFiled
<1>3. Told(w) = FiledIn(w.sections) /\ Waiting(w) = <<>>
  BY <1>1, IdleTells
<1> HIDE DEF v
<1>4. Idle(v) /\ HasShape(v) /\ Files(v.sections)
  BY <1>2 DEF FilesOnly, Idle
<1>5. Tidy(v) /\ Told(v) = FiledIn(v.sections) /\ ~Mute(v) /\ Waiting(v) = <<>>
  BY <1>4, IdleTells
<1>6. Told(w) \o Here(w, block.says) = Told(v) /\ Len(v.sections) = Len(w.sections)
  BY <1>2, <1>3, <1>5 DEF FilesOnly
<1>7. Range(Waiting(v)) \subseteq Range(Waiting(w)) \cup Range(block.says)
  BY <1>5, EmptyList
<1>8. Gives(w, v, block.says, kept)
  BY <1>5, <1>6, <1>7, GivesAll
<1> QED BY <1>4, <1>8 DEF v

\* A list closed is filed, and what waited for another item of it after it.
LEMMA ListClosed ==
  ASSUME NEW w, Tidy(w), w.boxed = <<>>, NEW kept
  PROVE  Gives(w, CloseList(w), <<>>, kept) /\ Idle(CloseList(w)) /\ Told(CloseList(w)) = Told(w)
<1> DEFINE listed == IF w.items = <<>> THEN w ELSE AppendBlock(w, ListBlock(w.items))
           says   == SaysOf(w.items)
           held   == AllSpoken(OfBlock, w.pending)
           filed  == FoldLeft(AppendBlock, listed, w.pending)
           v      == CloseList(w)
<1>1. HasShape(w) /\ Files(w.sections) /\ Speaks(OfBlock, w.pending)
  BY DEF Tidy
<1>2. IsList(says) /\ IsList(held) /\ IsList(w.sections) /\ IsList(Told(w))
  BY TidyIs
<1>3. FilesOnly(w, listed, says)
  <2>1. CASE w.items = <<>>
    <3>1. says = <<>>
      BY <2>1, NothingSaid
    <3> QED BY <1>1, <2>1, <3>1, FilesNothing
  <2>2. CASE w.items # <<>>
    <3> DEFINE block == ListBlock(w.items)
    <3>1. block.says = says
      BY BlockSays DEF ListBlock, SaysOf
    <3> HIDE DEF block, says
    <3>2. FilesOnly(w, AppendBlock(w, block), block.says)
      BY <1>1, <1>2, <3>1, BlockFiled
    <3> QED BY <2>2, <3>1, <3>2 DEF block
  <2> QED BY <2>1, <2>2
<1> HIDE DEF listed, says, held
<1>4. FilesOnly(listed, filed, held)
  <2>1. HasShape(listed) /\ Files(listed.sections)
    BY <1>3 DEF FilesOnly
  <2> QED BY <1>1, <2>1, BlocksFiled DEF held
<1>5. FilesOnly(w, filed, says \o held)
  BY <1>1, <1>2, <1>3, <1>4, FilesOn
<1>6. v = [filed EXCEPT !.items = <<>>, !.pending = <<>>]
  BY DEF CloseList, listed
<1> HIDE DEF filed, v
<1>7. DOMAIN filed = Parts
  BY <1>5 DEF FilesOnly, HasShape, IsWalk
<1>8. v.sections = filed.sections /\ v.boxed = filed.boxed /\ v.items = <<>> /\ v.pending = <<>>
  BY <1>6, <1>7 DEF Parts
<1>9. HasShape(v)
  BY <1>1, CloseListKeeps DEF Keeps, v
<1>10. Idle(v) /\ Files(v.sections)
  BY <1>5, <1>8 DEF Idle, FilesOnly
<1>11. Tidy(v) /\ Told(v) = FiledIn(v.sections) /\ ~Mute(v) /\ Waiting(v) = <<>>
  BY <1>9, <1>10, IdleTells
<1>12. Held(w) = says \o held
  <2>1. TextsOf(<<>>) = <<>>
    BY NoParts
  <2>2. held \o <<>> = held
    BY <1>2, EmptyList, JoinedIs
  <2> QED BY <2>1, <2>2 DEF Held, Waiting, says, held
<1>13. Told(v) = Told(w) /\ Len(v.sections) = Len(w.sections)
  BY <1>5, <1>8, <1>11, <1>12 DEF Told, FilesOnly
<1>14. Told(w) \o Here(w, <<>>) = Told(v)
  <2>1. Here(w, <<>>) = <<>>
    BY <1>2, EmptyList, HereIs
  <2> QED BY <1>2, <1>13, <2>1, EmptyList, JoinedIs
<1>15. Range(Waiting(v)) \subseteq Range(Waiting(w)) \cup Range(<<>>)
  BY <1>11, EmptyList
<1>16. Gives(w, v, <<>>, kept)
  BY <1>11, <1>13, <1>14, <1>15, EmptyList, GivesAll
<1> QED BY <1>10, <1>13, <1>16 DEF v

-----------------------------------------------------------------------------
(* What is held                                                            *)

\* Two lists joined make the same as two others.
AsJoined(s, t, u, v) == s \o t = u \o v

\* Texts that are held after what is held, all but those lost, are given.
LEMMA HeldGives ==
  ASSUME NEW w, Tidy(w), NEW v, Tidy(v), v.sections = w.sections, Mute(v) => Mute(w),
         NEW texts, IsList(texts), Range(Waiting(v)) \subseteq Range(Waiting(w)) \cup Range(texts),
         NEW lost, IsList(lost), Range(lost) \subseteq Range(Waiting(w)) \cup Range(texts),
         lost # <<>> => Mute(w),
         AsJoined(Held(w), texts, Held(v), lost), NEW kept
  PROVE  Gives(w, v, texts, kept)
<1>1. /\ IsList(w.sections) /\ IsList(FiledIn(w.sections)) /\ IsList(Held(w)) /\ IsList(Held(v))
      /\ IsList(v.sections)
  BY TidyIs
<1> DEFINE filed == FiledIn(w.sections)
           was   == Held(w)
           is    == Held(v)
           hereWas == Here(w, was)
           hereIs  == Here(w, is)
           hereTexts == Here(w, texts)
           hereLost  == Here(w, lost)
<1>2. IsList(was) /\ IsList(is) /\ IsList(filed) /\ AsJoined(was, texts, is, lost)
  BY <1>1
<1>3. Here(v, is) = hereIs
  BY <1>1, HereSame
<1>4. Told(w) = filed \o hereWas /\ Told(v) = filed \o hereIs
  BY <1>3 DEF Told
<1> HIDE DEF was, is, filed
<1>5. IsList(hereWas) /\ IsList(hereTexts) /\ Here(w, was \o texts) = hereWas \o hereTexts
  BY <1>1, <1>2, HereIs
<1>6. IsList(hereIs) /\ IsList(hereLost) /\ Here(w, is \o lost) = hereIs \o hereLost
  BY <1>1, <1>2, HereIs
<1>7. AsJoined(hereWas, hereTexts, hereIs, hereLost)
  BY <1>2, <1>5, <1>6 DEF AsJoined
<1> HIDE DEF hereWas, hereTexts, hereIs, hereLost
<1>8. IsList(filed) /\ IsList(hereWas) /\ IsList(hereTexts) /\ IsList(hereIs) /\ IsList(hereLost)
  BY <1>2, <1>5, <1>6
<1>9. (filed \o hereWas) \o hereTexts = (filed \o hereIs) \o hereLost
  <2>1. IsList(filed) /\ IsList(hereWas) /\ IsList(hereTexts)
    BY <1>8
  <2>2. IsList(filed) /\ IsList(hereIs) /\ IsList(hereLost)
    BY <1>8
  <2>3. (filed \o hereWas) \o hereTexts = filed \o (hereWas \o hereTexts)
    BY ONLY <2>1, JoinedThrice
  <2>4. (filed \o hereIs) \o hereLost = filed \o (hereIs \o hereLost)
    BY ONLY <2>2, JoinedThrice
  <2>5. hereWas \o hereTexts = hereIs \o hereLost
    BY ONLY <1>7 DEF AsJoined
  <2> QED BY ONLY <2>3, <2>4, <2>5
<1>10. Told(w) \o hereTexts = Told(v) \o hereLost
  BY <1>4, <1>9
<1>11. Told(w) \o Here(w, texts) = Told(v) \o Here(w, lost)
  BY <1>10 DEF hereTexts, hereLost
<1> QED BY <1>11, GivesBut

\* Texts that are held after what is held, all of them.
LEMMA HeldGivesAll ==
  ASSUME NEW w, Tidy(w), NEW v, Tidy(v), v.sections = w.sections, Mute(v) => Mute(w),
         NEW texts, IsList(texts), Range(Waiting(v)) \subseteq Range(Waiting(w)) \cup Range(texts),
         Held(v) = Held(w) \o texts, NEW kept
  PROVE  Gives(w, v, texts, kept)
<1> DEFINE lost == <<>>
<1>1. IsList(Held(v)) /\ IsList(Held(w))
  BY TidyIs
<1>2. Held(v) \o <<>> = Held(v)
  BY <1>1, EmptyList, JoinedIs
<1>3. IsList(lost) /\ Range(lost) = {} /\ lost = <<>>
  BY EmptyList
<1> HIDE DEF lost
<1>4. AsJoined(Held(w), texts, Held(v), lost)
  BY <1>2, <1>3 DEF AsJoined
<1> QED BY <1>3, <1>4, HeldGives

\* A walk without an open box.
LEMMA Unboxed ==
  ASSUME NEW w, Tidy(w), w.boxed = <<>>
  PROVE  /\ Waiting(w) = AllSpoken(OfBlock, w.pending)
         /\ w.pending = <<>> => Waiting(w) = <<>> /\ Held(w) = SaysOf(w.items)
<1>1. IsList(AllSpoken(OfBlock, w.pending)) /\ IsList(SaysOf(w.items))
  BY TidyIs
<1>2. TextsOf(<<>>) = <<>>
  BY NoParts
<1>3. AllSpoken(OfBlock, w.pending) \o <<>> = AllSpoken(OfBlock, w.pending)
  BY <1>1, EmptyList, JoinedIs
<1>4. Waiting(w) = AllSpoken(OfBlock, w.pending)
  BY <1>2, <1>3 DEF Waiting
<1>5. AllSpoken(OfBlock, <<>>) = <<>>
  BY NoneSpoken
<1>6. SaysOf(w.items) \o <<>> = SaysOf(w.items)
  BY <1>1, EmptyList, JoinedIs
<1> QED BY <1>4, <1>5, <1>6 DEF Held

\* A block that waits with the prose that waits.
LEMMA BlockWaits ==
  ASSUME NEW w, Tidy(w), w.boxed = <<>>, w.items # <<>>, NEW block, IsList(block.says),
         NEW v, v = [w EXCEPT !.pending = Append(@, block)], NEW kept
  PROVE  Gives(w, v, block.says, kept) /\ v.boxed = <<>>
<1> DEFINE held == AllSpoken(OfBlock, w.pending)
           says == SaysOf(w.items)
<1>1. DOMAIN w = Parts /\ HasShape(w)
  BY DEF Tidy, HasShape, IsWalk
<1>2. /\ v.pending = Append(w.pending, block) /\ v.sections = w.sections /\ v.items = w.items
      /\ v.boxed = w.boxed /\ DOMAIN v = Parts
  BY <1>1 DEF Parts
<1>3. Spoken(OfBlock, block) = block.says /\ Speaks(OfBlock, w.pending)
  BY SpokenAre DEF Tidy
<1>4. /\ Speaks(OfBlock, v.pending)
      /\ AllSpoken(OfBlock, v.pending) = held \o block.says
  <2> DEFINE pending == w.pending
  <2>1. Speaks(OfBlock, pending) /\ IsList(Spoken(OfBlock, block))
    BY <1>3
  <2> HIDE DEF pending
  <2>2. /\ Speaks(OfBlock, Append(pending, block))
        /\ AllSpoken(OfBlock, Append(pending, block)) = AllSpoken(OfBlock, pending) \o Spoken(OfBlock, block)
    BY <2>1, SpokenLonger
  <2> QED BY <1>2, <1>3, <2>2 DEF pending
<1>5. HasShape(v)
  <2>1. IsList(v.pending)
    BY <1>4 DEF Speaks
  <2> QED BY <1>1, <1>2, <2>1 DEF HasShape, IsWalk
<1>6. Tidy(v)
  BY <1>2, <1>4, <1>5 DEF Tidy
<1>7. Waiting(w) = held /\ Waiting(v) = held \o block.says
  BY <1>2, <1>4, <1>6, Unboxed
<1>8. IsList(held) /\ IsList(says)
  BY TidyIs
<1> HIDE DEF held, says
<1>9. (says \o held) \o block.says = says \o (held \o block.says)
  <2> DEFINE b == block.says
  <2>1. IsList(b)
    OBVIOUS
  <2> HIDE DEF b
  <2>2. (says \o held) \o b = says \o (held \o b)
    BY <1>8, <2>1, JoinedThrice
  <2> QED BY <2>2 DEF b
<1>10. Held(v) = Held(w) \o block.says
  BY <1>2, <1>7, <1>9 DEF Held, says
<1>11. Range(Waiting(v)) \subseteq Range(Waiting(w)) \cup Range(block.says)
  BY <1>7, <1>8, JoinedIs
<1>12. Mute(v) => Mute(w)
  BY <1>2 DEF Mute
<1> QED BY <1>2, <1>6, <1>10, <1>11, <1>12, HeldGivesAll

\* A block that continues the item above it, told where that run says something.
LEMMA BlockContinues ==
  ASSUME NEW w, Tidy(w), w.boxed = <<>>, w.pending = <<>>, w.items # <<>>,
         NEW block, IsList(block.says),
         NEW v, v = [w EXCEPT !.items = Append(@, Continuation(block))], NEW kept
  PROVE  Gives(w, v, block.says, kept) /\ v.boxed = <<>>
<1> DEFINE entry == Continuation(block)
           says  == SaysOf(w.items)
           items == w.items
           lost  == IF Silences(items) THEN block.says ELSE <<>>
<1>1. DOMAIN w = Parts /\ HasShape(w) /\ IsSaid(items)
  BY DEF Tidy, HasShape, IsWalk
<1>2. /\ v.items = Append(items, entry) /\ v.sections = w.sections /\ v.pending = <<>>
      /\ v.boxed = <<>> /\ DOMAIN v = Parts
  BY <1>1 DEF Parts
<1>3. IsEntry(entry)
  BY ContinuationIs
<1>4. entry.item = <<>> /\ entry.text = block.says
  BY DEF Continuation
<1> HIDE DEF entry
<1>5. IsList(entry.text)
  BY <1>4
<1> HIDE DEF items, says
<1>6. /\ Silences(Append(items, entry)) <=> Silences(items)
      /\ IsSaid(Append(items, entry))
  BY <1>1, <1>3, <1>4, <1>5, SilencesLonger
<1>7. SaysOf(Append(items, entry)) = SaysOf(items) \o EntrySays(items, entry) /\ IsList(SaysOf(items))
  BY <1>1, <1>3, <1>5, RunSays
<1>8. Append(items, entry) # <<>>
  <2>1. IsList(items)
    BY <1>1 DEF IsSaid, IsRun
  <2> QED BY <2>1, LongerIs, EmptyList
<1>9. HasShape(v)
  <2>1. IsRun(Append(items, entry))
    BY <1>6 DEF IsSaid
  <2> QED BY <1>1, <1>2, <2>1, EmptyList DEF HasShape, IsWalk
<1>10. Tidy(v)
  BY <1>2, <1>6, <1>8, <1>9 DEF Tidy
<1>11. Waiting(w) = <<>> /\ Held(w) = SaysOf(items)
  BY Unboxed DEF items
<1>12. Waiting(v) = <<>> /\ Held(v) = SaysOf(items) \o EntrySays(items, entry)
  BY <1>2, <1>7, <1>10, Unboxed
<1>13. EntrySays(items, entry) = IF Silences(items) THEN <<>> ELSE block.says
  BY <1>4 DEF EntrySays
<1>14. IsList(lost) /\ Range(lost) \subseteq Range(block.says) /\ (lost # <<>> => Mute(w))
  BY EmptyList DEF Mute, items
<1>15. Held(w) \o block.says = Held(v) \o lost
  <2>1. SaysOf(items) \o <<>> = SaysOf(items)
    BY <1>7, EmptyList, JoinedIs
  <2>2. CASE Silences(items)
    BY <1>11, <1>12, <1>13, <2>1, <2>2
  <2>3. CASE ~Silences(items)
    <3> DEFINE all == SaysOf(items) \o block.says
    <3>1. IsList(all)
      BY <1>7, JoinedIs
    <3> HIDE DEF all
    <3>2. all \o <<>> = all
      BY <3>1, EmptyList, JoinedIs
    <3> QED BY <1>11, <1>12, <1>13, <2>3, <3>2 DEF all
  <2> QED BY <2>2, <2>3
<1> HIDE DEF lost
<1>16. Mute(v) => Mute(w)
  BY <1>2, <1>6 DEF Mute, items
<1>17. Range(Waiting(v)) \subseteq Range(Waiting(w)) \cup Range(block.says)
  BY <1>12, EmptyList
<1>18. AsJoined(Held(w), block.says, Held(v), lost)
  BY <1>15 DEF AsJoined
<1> QED BY <1>2, <1>10, <1>14, <1>16, <1>17, <1>18, HeldGives

\* A box is filed, waits, or continues an item.
LEMMA BoxTaken ==
  ASSUME NEW w, Tidy(w), w.boxed = <<>>, NEW block, IsList(block.says), NEW kept
  PROVE  Gives(w, TakeBox(w, block), block.says, kept) /\ TakeBox(w, block).boxed = <<>>
<1>1. CASE w.items = <<>>
  <2> DEFINE u == CloseList(w)
             v == AppendBlock(u, block)
  <2>1. Gives(w, u, <<>>, kept) /\ Idle(u)
    BY ListClosed
  <2>2. Tidy(u)
    BY <2>1 DEF Gives
  <2> HIDE DEF u
  <2>3. Gives(u, v, block.says, kept) /\ Idle(v)
    BY <2>1, <2>2, IdleFiles
  <2>4. Gives(w, v, <<>> \o block.says, kept)
    BY <2>1, <2>3, EmptyList, GivesOn
  <2>5. <<>> \o block.says = block.says
    BY EmptyList, JoinedIs
  <2>6. TakeBox(w, block) = v
    BY <1>1 DEF TakeBox, u
  <2> QED BY <2>3, <2>4, <2>5, <2>6 DEF Idle
<1>2. CASE w.items # <<>> /\ w.pending # <<>>
  BY <1>2, BlockWaits DEF TakeBox
<1>3. CASE w.items # <<>> /\ w.pending = <<>>
  BY <1>3, BlockContinues DEF TakeBox
<1> QED BY <1>1, <1>2, <1>3

\* A walk that differs elsewhere tells the same.
Alike(v, w) ==
  /\ DOMAIN v = Parts /\ v.sections = w.sections
  /\ v.items = w.items /\ v.pending = w.pending /\ v.boxed = w.boxed

\* It is as tidy, and tells what that tells.
LEMMA AlikeTells ==
  ASSUME NEW w, Tidy(w), NEW v, Alike(v, w)
  PROVE  Tidy(v) /\ Told(v) = Told(w) /\ Waiting(v) = Waiting(w) /\ Mute(v) = Mute(w) /\ Held(v) = Held(w)
<1>1. HasShape(v)
  BY DEF Tidy, HasShape, IsWalk, Alike
<1>2. Tidy(v)
  BY <1>1 DEF Tidy, Alike
<1>3. Waiting(v) = Waiting(w)
  BY DEF Waiting, Alike
<1>4. Held(v) = Held(w)
  BY <1>3 DEF Held, Alike
<1>5. Mute(v) = Mute(w)
  BY DEF Mute, Alike
<1>6. Told(v) = Told(w)
  BY <1>4 DEF Told, Here, Alike
<1> QED BY <1>2, <1>3, <1>4, <1>5, <1>6

\* What is given to one is given to the other.
LEMMA AlikeGives ==
  ASSUME NEW w, NEW u, NEW texts, NEW kept, Gives(w, u, texts, kept), NEW v, Alike(v, u)
  PROVE  Gives(w, v, texts, kept)
<1>1. Tidy(v) /\ Told(v) = Told(u) /\ Waiting(v) = Waiting(u) /\ Mute(v) = Mute(u)
  BY AlikeTells DEF Gives
<1> QED BY <1>1 DEF Gives, Alike

\* A box closed is taken: what was in it is given no more.
LEMMA BoxClosed ==
  ASSUME NEW w, Tidy(w), NEW kept
  PROVE  Gives(w, CloseBox(w), <<>>, kept) /\ CloseBox(w).boxed = <<>>
<1>1. CASE w.boxed = <<>>
  BY <1>1, GivesNothing DEF CloseBox
<1>2. CASE w.boxed # <<>>
  <2> DEFINE u == [w EXCEPT !.boxed = <<>>]
             block == Quote(w.boxed)
             v == TakeBox(u, block)
             says == SaysOf(w.items)
             held == AllSpoken(OfBlock, w.pending)
             texts == TextsOf(w.boxed)
  <2>1. CloseBox(w) = v
    BY <1>2 DEF CloseBox
  <2>2. DOMAIN w = Parts /\ HasShape(w) /\ ArePartsIn(w.boxed)
    BY DEF Tidy, HasShape, IsWalk
  <2>3. /\ u.boxed = <<>> /\ u.sections = w.sections /\ u.items = w.items /\ u.pending = w.pending
        /\ DOMAIN u = Parts
    BY <2>2 DEF Parts
  <2>4. block.says = texts /\ IsList(texts)
    <3>1. Blocks(w.boxed) = TextsOf(w.boxed) /\ IsList(Blocks(w.boxed))
      BY <2>2, BlocksSay
    <3> QED BY <3>1, BlockSays DEF Quote
  <2> HIDE DEF u, block
  <2>5. HasShape(u)
    BY <2>2, <2>3 DEF HasShape, IsWalk
  <2>6. ArePartsIn(<<>>)
    BY <2>2, PlacedParts
  <2>7. Tidy(u)
    BY <2>3, <2>5, <2>6 DEF Tidy
  <2>8. Gives(u, v, block.says, kept) /\ v.boxed = <<>>
    BY <2>3, <2>4, <2>7, BoxTaken
  <2>9. IsList(says) /\ IsList(held) /\ IsList(w.sections) /\ IsList(FiledIn(w.sections)) /\ IsList(Told(w))
        /\ Range(Waiting(w)) = Range(held) \cup Range(texts)
    BY TidyIs
  <2>10. Waiting(u) = held /\ Held(u) = says \o held
    <3>1. Waiting(u) = held
      BY <2>3, <2>7, Unboxed
    <3> QED BY <2>3, <3>1 DEF Held
  <2>11. Held(w) = (says \o held) \o texts
    <3> HIDE DEF says, held, texts
    <3>1. (says \o held) \o texts = says \o (held \o texts)
      BY ONLY <2>4, <2>9, JoinedThrice
    <3> QED BY <3>1 DEF Held, Waiting, says, held, texts
  <2>12. Told(u) \o Here(u, texts) = Told(w)
    <3> DEFINE all == says \o held
               filed == FiledIn(w.sections)
               hereAll == Here(w, all)
               hereTexts == Here(w, texts)
    <3>1. IsList(all)
      BY <2>9, JoinedIs
    <3>2. IsList(filed) /\ Told(u) = filed \o hereAll /\ Here(u, texts) = hereTexts
      BY <2>3, <2>9, <2>10 DEF Told, Here
    <3>3. Told(w) = filed \o Here(w, all \o texts)
      BY <2>11 DEF Told
    <3> HIDE DEF all, texts, filed
    <3>4. IsList(hereAll) /\ IsList(hereTexts) /\ Here(w, all \o texts) = hereAll \o hereTexts
      BY <2>4, <2>9, <3>1, HereIs
    <3> HIDE DEF hereAll, hereTexts
    <3>5. (filed \o hereAll) \o hereTexts = filed \o (hereAll \o hereTexts)
      BY <3>2, <3>4, JoinedThrice
    <3> QED BY <3>2, <3>3, <3>4, <3>5
  <2>13. Told(w) \o Here(w, <<>>) = Told(w)
    <3>1. Here(w, <<>>) = <<>>
      BY <2>9, EmptyList, HereIs
    <3> QED BY <2>9, <3>1, EmptyList, JoinedIs
  <2>14. Mute(u) = Mute(w)
    BY <2>3 DEF Mute
  <2>15. \A some : Spare(u, some, kept) = Spare(w, some, kept)
    BY <2>3 DEF Spare
  <2>16. Range(Waiting(u)) \cup Range(texts) = Range(Waiting(w)) /\ Range(<<>>) = {}
    BY <2>9, <2>10, EmptyList
  <2>17. Gives(u, v, texts, kept)
    BY <2>4, <2>8
  <2> HIDE DEF v, says, held, texts
  <2>18. Gives(w, v, <<>>, kept)
    <3>1. /\ Tidy(v) /\ Len(v.sections) = Len(w.sections) /\ (Mute(v) => Mute(w))
          /\ Range(Waiting(v)) \subseteq Range(Waiting(w)) \cup Range(<<>>)
      BY <2>3, <2>14, <2>16, <2>17 DEF Gives
    <3>2. ASSUME Mute(w) => Spare(w, Range(Waiting(w)) \cup Range(<<>>), kept)
          PROVE  Shed(Told(w) \o Here(w, <<>>), Told(v), kept)
      <4>1. Mute(u) => Spare(u, Range(Waiting(u)) \cup Range(texts), kept)
        BY <2>14, <2>15, <2>16, <3>2
      <4>2. Shed(Told(u) \o Here(u, texts), Told(v), kept)
        BY <2>17, <4>1 DEF Gives
      <4> QED BY <2>12, <2>13, <4>2
    <3> QED BY <3>1, <3>2 DEF Gives
  <2> QED BY <2>1, <2>8, <2>18 DEF v
<1> QED BY <1>1, <1>2

-----------------------------------------------------------------------------
(* Paragraphs taken                                                        *)

\* One more paragraph in the open box waits there.
LEMMA Boxed ==
  ASSUME NEW w, Tidy(w), NEW p, IsPart(p), NEW v, v = [w EXCEPT !.boxed = Append(@, p)], NEW kept
  PROVE  Gives(w, v, Text(p), kept)
<1> DEFINE says == SaysOf(w.items)
           held == AllSpoken(OfBlock, w.pending)
           texts == TextsOf(w.boxed)
           more == Text(p)
           boxed == w.boxed
<1>1. DOMAIN w = Parts /\ HasShape(w) /\ ArePartsIn(boxed)
  BY DEF Tidy, HasShape, IsWalk
<1>2. /\ v.boxed = Append(boxed, p) /\ v.sections = w.sections /\ v.items = w.items
      /\ v.pending = w.pending /\ DOMAIN v = Parts
  BY <1>1 DEF Parts
<1>3. IsList(says) /\ IsList(held) /\ IsList(texts) /\ IsList(boxed)
  BY TidyIs
<1>4. IsList(more)
  BY TextIs
<1>5. TextsOf(Append(boxed, p)) = texts \o more
  <2> HIDE DEF boxed
  <2>1. Speaks(OfPart, boxed) /\ Spoken(OfPart, p) = Text(p) /\ IsList(Spoken(OfPart, p))
    BY <1>3, <1>4, TextIs, SpokenAre
  <2>2. AllSpoken(OfPart, Append(boxed, p)) = AllSpoken(OfPart, boxed) \o Spoken(OfPart, p)
    BY <2>1, SpokenLonger
  <2> QED BY <2>1, <2>2, SpokenAre DEF boxed
<1>6. ArePartsIn(v.boxed)
  <2>1. IsList(Append(boxed, p)) /\ Range(Append(boxed, p)) = Range(boxed) \cup {p}
    <3> HIDE DEF boxed
    <3>1. IsList(<<p>>) /\ Append(boxed, p) = boxed \o <<p>>
      BY <1>3, AppendedIs
    <3>2. Range(<<p>>) = {p}
      BY DEF Range
    <3>3. IsList(boxed \o <<p>>) /\ Range(boxed \o <<p>>) = Range(boxed) \cup Range(<<p>>)
      <4> DEFINE one == <<p>>
      <4>1. IsList(one)
        BY <3>1
      <4> HIDE DEF one
      <4>2. IsList(boxed \o one) /\ Range(boxed \o one) = Range(boxed) \cup Range(one)
        BY <1>3, <4>1, JoinedIs
      <4> QED BY <4>2 DEF one
    <3> QED BY <3>1, <3>2, <3>3
  <2> QED BY <1>1, <1>2, <2>1 DEF ArePartsIn, IsList
<1>7. Tidy(v)
  BY <1>1, <1>2, <1>6 DEF Tidy, HasShape, IsWalk
<1>8. Waiting(v) = held \o (texts \o more)
  BY <1>2, <1>5 DEF Waiting
<1>9. Waiting(w) = held \o texts
  BY DEF Waiting
<1> HIDE DEF says, held, texts, more
<1>10. (held \o texts) \o more = held \o (texts \o more)
  <2>1. IsList(held) /\ IsList(texts) /\ IsList(more)
    BY <1>3, <1>4
  <2> QED BY ONLY <2>1, JoinedThrice
<1> DEFINE wait == held \o texts
<1>11. IsList(wait)
  BY <1>3, JoinedIs
<1>12. Waiting(w) = wait /\ Waiting(v) = wait \o more
  BY <1>8, <1>9, <1>10
<1> HIDE DEF wait
<1>13. (says \o wait) \o more = says \o (wait \o more)
  <2>1. IsList(says) /\ IsList(wait) /\ IsList(more)
    BY <1>3, <1>4, <1>11
  <2> QED BY <2>1, JoinedThrice
<1>14. Held(v) = Held(w) \o more
  BY <1>2, <1>12, <1>13 DEF Held, says
<1>15. Range(Waiting(v)) \subseteq Range(Waiting(w)) \cup Range(more)
  BY <1>4, <1>11, <1>12, JoinedIs
<1>16. Mute(v) => Mute(w)
  BY <1>2 DEF Mute
<1>17. IsList(Text(p)) /\ Held(v) = Held(w) \o Text(p)
       /\ Range(Waiting(v)) \subseteq Range(Waiting(w)) \cup Range(Text(p))
  BY <1>4, <1>14, <1>15 DEF more
<1> QED BY <1>2, <1>7, <1>16, <1>17, HeldGivesAll

\* A bordered paragraph joins the open box, or opens one once that is closed.
LEMMA BorderedTaken ==
  ASSUME NEW w, Tidy(w), NEW p, IsPart(p), NEW kept
  PROVE  Gives(w, TakeBordered(w, p), Text(p), kept)
<1>1. PICK u : /\ Gives(w, u, <<>>, kept)
               /\ TakeBordered(w, p) = [u EXCEPT !.boxed = Append(@, p)]
  BY BoxClosed, GivesNothing DEF TakeBordered
<1> DEFINE v == [u EXCEPT !.boxed = Append(@, p)]
<1>2. Tidy(u)
  BY <1>1 DEF Gives
<1>3. Gives(u, v, Text(p), kept)
  BY <1>2, Boxed
<1> HIDE DEF v
<1>4. IsList(Text(p))
  BY TextIs
<1>5. Gives(w, v, <<>> \o Text(p), kept)
  BY <1>1, <1>3, <1>4, EmptyList, GivesOn
<1>6. <<>> \o Text(p) = Text(p)
  BY <1>4, EmptyList, JoinedIs
<1> QED BY <1>1, <1>5, <1>6 DEF v

\* The blocks that continue an item, of some that are held.
Continuations(pending) == [i \in DOMAIN pending |-> Continuation(pending[i])]

\* Blocks that continue the items say what they say, unless no item says anything.
LEMMA ContinuationsSay ==
  ASSUME NEW items, IsSaid(items), NEW pending, Speaks(OfBlock, pending)
  PROVE  /\ IsSaid(items \o Continuations(pending))
         /\ Silences(items \o Continuations(pending)) <=> Silences(items)
         /\ SaysOf(items \o Continuations(pending)) =
              SaysOf(items) \o (IF Silences(items) THEN <<>> ELSE AllSpoken(OfBlock, pending))
<1> DEFINE conts == Continuations(pending)
           N == Len(pending)
<1>1. IsList(pending) /\ N \in Nat /\ DOMAIN pending = 1..N
  BY LongerIs DEF Speaks
<1>2. IsList(conts) /\ Len(conts) = N /\ \A i \in 1..N : conts[i] = Continuation(pending[i])
  <2>1. conts = [i \in 1..N |-> conts[i]] /\ \A i \in 1..N : conts[i] = Continuation(pending[i])
    BY <1>1 DEF Continuations
  <2> HIDE DEF conts
  <2> QED BY <1>1, <2>1, FunctionList
<1> HIDE DEF conts
<1>3. PICK first : Growing(first, conts)
  BY <1>2, GrowsByOne
<1>4. PICK before : Growing(before, pending)
  BY <1>1, GrowsByOne
<1> HIDE DEF N
<1> DEFINE silent == Silences(items)
           says(n) == IF silent THEN <<>> ELSE AllSpoken(OfBlock, before[n])
           Good(n) == /\ Speaks(OfBlock, before[n])
                      /\ IsSaid(items \o first[n]) /\ (Silences(items \o first[n]) <=> silent)
                      /\ SaysOf(items \o first[n]) = SaysOf(items) \o says(n)
           good == {n \in 0..N : Good(n)}
<1>5. IsList(items) /\ IsList(SaysOf(items))
  BY SaidIsList DEF IsSaid, IsRun
<1>6. 0 \in good
  <2>1. first[0] = <<>> /\ before[0] = <<>>
    BY <1>3, <1>4 DEF Growing
  <2>2. Speaks(OfBlock, <<>>) /\ AllSpoken(OfBlock, <<>>) = <<>>
    BY NoneSpoken
  <2>3. items \o <<>> = items
    BY <1>5, EmptyList, JoinedIs
  <2>4. SaysOf(items) \o <<>> = SaysOf(items)
    BY <1>5, EmptyList, JoinedIs
  <2>5. says(0) = <<>>
    BY <2>1, <2>2
  <2>6. Good(0)
    BY <2>1, <2>2, <2>3, <2>4, <2>5
  <2> QED BY <1>1, <2>6 DEF N
<1>7. ASSUME NEW n \in 1..N, n - 1 \in good PROVE n \in good
  <2> DEFINE run == items \o first[n - 1]
             entry == conts[n]
             block == pending[n]
             said == SaysOf(items)
             was == says(n - 1)
  <2>1. Good(n - 1)
    BY <1>7
  <2>2. entry.item = <<>> /\ entry.text = block.says /\ IsEntry(entry) /\ IsList(block.says)
    <3>1. entry = Continuation(block) /\ Spoken(OfBlock, block) = block.says /\ IsList(Spoken(OfBlock, block))
      BY <1>2, SpokenAre DEF Speaks, N
    <3>2. IsEntry(Continuation(block))
      BY ContinuationIs
    <3> QED BY <3>1, <3>2 DEF Continuation
  <2>3. /\ first[n] = Append(first[n - 1], entry) /\ IsList(first[n - 1])
        /\ before[n] = Append(before[n - 1], block)
    <3>1. n \in 1..Len(conts) /\ n \in 1..Len(pending) /\ n - 1 \in 0..Len(conts)
      BY <1>1, <1>2 DEF N
    <3> QED BY <1>3, <1>4, <3>1 DEF Growing
  <2>4. items \o first[n] = Append(run, entry)
    <3> DEFINE begun == first[n - 1]
               one == <<entry>>
    <3>1. IsList(begun) /\ first[n] = Append(begun, entry)
      BY <2>3
    <3> HIDE DEF begun, entry
    <3>2. Append(begun, entry) = begun \o one /\ IsList(one)
      BY <3>1, AppendedIs
    <3> DEFINE joined == items \o begun
    <3>3. IsList(joined)
      BY <1>5, <3>1, JoinedIs
    <3> HIDE DEF joined
    <3>4. Append(joined, entry) = joined \o one
      BY <3>3, AppendedIs
    <3> HIDE DEF one
    <3>5. (items \o begun) \o one = items \o (begun \o one)
      BY <1>5, <3>1, <3>2, JoinedThrice
    <3> QED BY <3>1, <3>2, <3>4, <3>5 DEF joined, begun
  <2>5. Speaks(OfBlock, before[n]) /\ AllSpoken(OfBlock, before[n]) = AllSpoken(OfBlock, before[n - 1]) \o block.says
    <3> DEFINE begun == before[n - 1]
    <3>1. Speaks(OfBlock, begun) /\ Spoken(OfBlock, block) = block.says /\ IsList(Spoken(OfBlock, block))
      BY <2>1, <2>2, SpokenAre
    <3> HIDE DEF begun, block
    <3>2. /\ Speaks(OfBlock, Append(begun, block))
          /\ AllSpoken(OfBlock, Append(begun, block)) = AllSpoken(OfBlock, begun) \o Spoken(OfBlock, block)
      BY <3>1, SpokenLonger
    <3> QED BY <2>3, <3>1, <3>2 DEF begun
  <2>6. IsSaid(run) /\ (Silences(run) <=> silent) /\ SaysOf(run) = said \o was
    BY <2>1
  <2> HIDE DEF entry, run
  <2>7. IsList(entry.text)
    BY <2>2
  <2>8. /\ Silences(Append(run, entry)) <=> silent
        /\ IsSaid(Append(run, entry))
    BY <2>2, <2>6, <2>7, SilencesLonger
  <2>9. SaysOf(Append(run, entry)) = SaysOf(run) \o EntrySays(run, entry)
    BY <2>2, <2>6, <2>7, RunSays
  <2>10. EntrySays(run, entry) = IF silent THEN <<>> ELSE block.says
    BY <2>2, <2>6 DEF EntrySays
  <2>11. IsList(said) /\ IsList(was) /\ IsList(block.says)
    <3>1. IsList(AllSpoken(OfBlock, before[n - 1]))
      BY <2>1, SpokenIs
    <3> QED BY <1>5, <2>2, <3>1, EmptyList
  <2>12. SaysOf(Append(run, entry)) = said \o says(n)
    <3>1. CASE silent
      <4>1. was = <<>> /\ says(n) = <<>>
        BY <3>1
      <4>2. said \o <<>> = said
        BY <2>11, EmptyList, JoinedIs
      <4> QED BY <2>6, <2>9, <2>10, <3>1, <4>1, <4>2
    <3>2. CASE ~silent
      <4> DEFINE more == block.says
      <4>1. was \o more = says(n) /\ IsList(more)
        BY <2>5, <2>11, <3>2
      <4>2. SaysOf(Append(run, entry)) = (said \o was) \o more
        BY <2>6, <2>9, <2>10, <3>2
      <4> HIDE DEF said, was, more, says
      <4>3. (said \o was) \o more = said \o (was \o more)
        <5>1. IsList(said) /\ IsList(was) /\ IsList(more)
          BY <2>11, <4>1
        <5> QED BY <5>1, JoinedThrice
      <4> QED BY <4>1, <4>2, <4>3
    <3> QED BY <3>1, <3>2
  <2>13. Good(n)
    BY <2>4, <2>5, <2>8, <2>12
  <2> QED BY <1>1, <2>13 DEF N
<1>8. 0..N \subseteq good
  <2> HIDE DEF good
  <2> QED BY <1>1, <1>6, <1>7, StepByStep DEF N
<1>9. Good(N)
  <2>1. N \in 0..N
    BY <1>1 DEF N
  <2> QED BY <1>8, <2>1
<1>10. first[N] = conts /\ before[N] = pending
  BY <1>2, <1>3, <1>4 DEF Growing, N
<1> QED BY <1>9, <1>10 DEF conts

\* What is held for an item deeper than the run continues the one above it.
LEMMA PendingContinues ==
  ASSUME NEW w, Tidy(w), w.boxed = <<>>, w.pending # <<>>,
         NEW v, v = [w EXCEPT !.items = @ \o Continuations(w.pending), !.pending = <<>>], NEW kept
  PROVE  Gives(w, v, <<>>, kept) /\ v.pending = <<>> /\ v.boxed = <<>>
<1> DEFINE items == w.items
           longer == items \o Continuations(w.pending)
           says  == SaysOf(w.items)
           held  == AllSpoken(OfBlock, w.pending)
           told  == IF Silences(items) THEN <<>> ELSE held
           lost  == IF Silences(items) THEN held ELSE <<>>
<1>1. DOMAIN w = Parts /\ HasShape(w) /\ IsSaid(items) /\ Speaks(OfBlock, w.pending) /\ items # <<>>
  BY DEF Tidy, HasShape, IsWalk
<1>2. /\ v.items = longer /\ v.sections = w.sections /\ v.pending = <<>>
      /\ v.boxed = <<>> /\ DOMAIN v = Parts
  BY <1>1 DEF Parts
<1>3. /\ IsSaid(longer) /\ (Silences(longer) <=> Silences(items))
      /\ SaysOf(longer) = says \o told
  <2> HIDE DEF items
  <2>1. /\ IsSaid(items \o Continuations(w.pending))
        /\ Silences(items \o Continuations(w.pending)) <=> Silences(items)
        /\ SaysOf(items \o Continuations(w.pending)) =
             SaysOf(items) \o (IF Silences(items) THEN <<>> ELSE AllSpoken(OfBlock, w.pending))
    BY <1>1, ContinuationsSay
  <2> QED BY <2>1 DEF items
<1>4. IsList(says) /\ IsList(held)
  BY TidyIs
<1> HIDE DEF longer
<1>5. HasShape(v)
  BY <1>1, <1>2, <1>3, EmptyList DEF HasShape, IsWalk, IsSaid
<1>6. Tidy(v)
  <2>1. Speaks(OfBlock, <<>>)
    BY NoneSpoken
  <2> QED BY <1>1, <1>2, <1>3, <1>5, <2>1 DEF Tidy
<1>7. Waiting(w) = held /\ Waiting(v) = <<>> /\ Held(v) = says \o told
  BY <1>2, <1>3, <1>6, Unboxed
<1>8. Held(w) = says \o held
  BY <1>7 DEF Held
<1>9. IsList(told) /\ IsList(lost) /\ Range(lost) \subseteq Range(held) /\ (lost # <<>> => Mute(w))
  BY <1>1, <1>4, EmptyList DEF Mute
<1>10. AsJoined(Held(w), <<>>, Held(v), lost)
  <2> HIDE DEF says, held
  <2> DEFINE all == says \o held
  <2>1. IsList(all)
    BY <1>4, JoinedIs
  <2> HIDE DEF all
  <2>2. all \o <<>> = all
    BY <2>1, EmptyList, JoinedIs
  <2>3. says \o <<>> = says
    BY <1>4, EmptyList, JoinedIs
  <2>4. CASE Silences(items)
    BY <1>7, <1>8, <2>2, <2>3, <2>4 DEF AsJoined, all
  <2>5. CASE ~Silences(items)
    BY <1>7, <1>8, <2>2, <2>5 DEF AsJoined, all
  <2> QED BY <2>4, <2>5
<1>11. Mute(v) => Mute(w)
  BY <1>1, <1>2, <1>3 DEF Mute
<1>12. /\ Range(Waiting(v)) \subseteq Range(Waiting(w)) \cup Range(<<>>)
       /\ Range(lost) \subseteq Range(Waiting(w)) \cup Range(<<>>)
  BY <1>7, <1>9, EmptyList
<1> HIDE DEF lost
<1>13. IsList(<<>>) /\ IsList(lost) /\ (lost # <<>> => Mute(w))
  BY <1>9, EmptyList
<1>14. Gives(w, v, <<>>, kept)
  BY <1>2, <1>6, <1>10, <1>11, <1>12, <1>13, HeldGives
<1> QED BY <1>2, <1>14

\* What is held for an item goes to it, or is filed with the run it ends.
LEMMA PendingTaken ==
  ASSUME NEW w, Tidy(w), w.boxed = <<>>, NEW item, NEW kept
  PROVE  /\ Gives(w, TakePending(w, item), <<>>, kept)
         /\ TakePending(w, item).pending = <<>> /\ TakePending(w, item).boxed = <<>>
<1>1. CASE w.pending = <<>>
  BY <1>1, GivesNothing DEF TakePending
<1>2. CASE w.pending # <<>> /\ IsDeeper(item, Floor(w))
  <2> DEFINE v == [w EXCEPT !.items = @ \o Continuations(w.pending), !.pending = <<>>]
  <2>1. Gives(w, v, <<>>, kept) /\ v.pending = <<>> /\ v.boxed = <<>>
    <3> HIDE DEF v
    <3>1. v = [w EXCEPT !.items = @ \o Continuations(w.pending), !.pending = <<>>]
      BY DEF v
    <3> QED BY <1>2, <3>1, PendingContinues
  <2>2. TakePending(w, item) = v
    BY <1>2 DEF TakePending, Continuations
  <2> HIDE DEF v
  <2> QED BY <2>1, <2>2
<1>3. CASE w.pending # <<>> /\ ~IsDeeper(item, Floor(w))
  <2>1. TakePending(w, item) = CloseList(w)
    BY <1>3 DEF TakePending
  <2>2. Gives(w, CloseList(w), <<>>, kept) /\ Idle(CloseList(w))
    BY ListClosed
  <2> QED BY <2>1, <2>2 DEF Idle
<1> QED BY <1>1, <1>2, <1>3

\* An item of the run is told; where it says nothing it may silence the run.
LEMMA ItemTaken ==
  ASSUME NEW w, Tidy(w), w.pending = <<>>, w.boxed = <<>>,
         NEW entry, IsEntry(entry), IsList(entry.text), entry.item # <<>>,
         NEW v, v = [w EXCEPT !.items = Append(@, entry)]
  PROVE  /\ Tidy(v) /\ v.sections = w.sections /\ Told(v) = Told(w) \o Here(w, entry.text)
         /\ Waiting(v) = <<>> /\ (Mute(v) => entry.text = <<>>)
<1> DEFINE items == w.items
           says == SaysOf(items)
<1>1. DOMAIN w = Parts /\ HasShape(w) /\ IsSaid(items)
  BY DEF Tidy, HasShape, IsWalk
<1>2. /\ v.items = Append(items, entry) /\ v.sections = w.sections /\ v.pending = <<>>
      /\ v.boxed = <<>> /\ DOMAIN v = Parts
  BY <1>1 DEF Parts
<1> HIDE DEF items, says
<1>3. /\ Silences(Append(items, entry)) => entry.text = <<>>
      /\ IsSaid(Append(items, entry))
  BY <1>1, SilencesLonger
<1>4. SaysOf(Append(items, entry)) = SaysOf(items) \o EntrySays(items, entry) /\ IsList(SaysOf(items))
  BY <1>1, RunSays
<1>5. EntrySays(items, entry) = entry.text
  BY DEF EntrySays
<1>6. Append(items, entry) # <<>>
  <2>1. IsList(items)
    BY <1>1 DEF IsSaid, IsRun
  <2> QED BY <2>1, LongerIs, EmptyList
<1>7. HasShape(v)
  <2>1. IsRun(Append(items, entry))
    BY <1>3 DEF IsSaid
  <2> QED BY <1>1, <1>2, <2>1, EmptyList DEF HasShape, IsWalk
<1>8. Tidy(v)
  BY <1>2, <1>3, <1>6, <1>7 DEF Tidy
<1>9. Held(w) = says
  BY Unboxed DEF items, says
<1>10. Waiting(v) = <<>> /\ Held(v) = says \o entry.text
  BY <1>2, <1>4, <1>5, <1>8, Unboxed DEF says
<1>11. Told(v) = Told(w) \o Here(w, entry.text)
  <2> DEFINE filed == FiledIn(w.sections)
             text == entry.text
             hereSays == Here(w, says)
             hereText == Here(w, text)
  <2>1. IsList(w.sections) /\ IsList(filed) /\ IsList(says) /\ IsList(text)
    BY <1>4, TidyIs DEF says
  <2>2. Told(w) = filed \o hereSays
    BY <1>9 DEF Told
  <2>3. Told(v) = filed \o Here(w, says \o text)
    <3>1. \A texts : Here(v, texts) = Here(w, texts)
      BY <1>2 DEF Here
    <3> QED BY <1>2, <1>10, <3>1 DEF Told
  <2> HIDE DEF filed, text
  <2>4. IsList(hereSays) /\ IsList(hereText) /\ Here(w, says \o text) = hereSays \o hereText
    BY <2>1, HereIs
  <2> HIDE DEF hereSays, hereText
  <2>5. (filed \o hereSays) \o hereText = filed \o (hereSays \o hereText)
    <3>1. IsList(filed) /\ IsList(hereSays) /\ IsList(hereText)
      BY <2>1, <2>4
    <3> QED BY <3>1, JoinedThrice
  <2> QED BY <2>2, <2>3, <2>4, <2>5 DEF hereText, text
<1>12. Mute(v) => entry.text = <<>>
  BY <1>2, <1>3 DEF Mute
<1> QED BY <1>2, <1>8, <1>10, <1>11, <1>12

\* Prose is filed, or held for an item; an entry of the contents ends the list.
LEMMA ProseTaken ==
  ASSUME NEW w, Tidy(w), w.boxed = <<>>, NEW p, p.kind = "toc" \/ ListItem(p) = <<>>, NEW kept
  PROVE  /\ Gives(w, CollectBody(w, p), IF p.kind = "toc" THEN <<>> ELSE Text(p), kept)
         /\ CollectBody(w, p).boxed = <<>>
<1> DEFINE block == Block("prose", Text(p))
<1>1. block.says = Text(p) /\ IsList(Text(p))
  BY BlockSays, TextIs
<1> HIDE DEF block
<1>2. CASE p.kind = "toc"
  <2>1. Gives(w, CloseList(w), <<>>, kept) /\ Idle(CloseList(w))
    BY ListClosed
  <2> QED BY <1>2, <2>1 DEF CollectBody, Idle
<1>3. CASE p.kind # "toc" /\ block = NoBlock
  <2>1. CollectBody(w, p) = w
    BY <1>3 DEF CollectBody, block
  <2>2. Text(p) = <<>>
    BY <1>1, <1>3 DEF NoBlock
  <2> QED BY <1>3, <2>1, <2>2, GivesNothing
<1>4. CASE p.kind # "toc" /\ block # NoBlock /\ w.items # <<>>
  <2>1. CollectBody(w, p) = [w EXCEPT !.pending = Append(@, block)]
    BY <1>4 DEF CollectBody, block
  <2>2. IsList(block.says)
    BY <1>1
  <2> DEFINE v == [w EXCEPT !.pending = Append(@, block)]
  <2>3. v = [w EXCEPT !.pending = Append(@, block)]
    OBVIOUS
  <2> HIDE DEF v
  <2>4. Gives(w, v, block.says, kept) /\ v.boxed = <<>>
    BY <1>4, <2>2, <2>3, BlockWaits
  <2> QED BY <1>1, <1>4, <2>1, <2>3, <2>4
<1>5. CASE p.kind # "toc" /\ block # NoBlock /\ w.items = <<>>
  <2>1. CollectBody(w, p) = AppendBlock(w, block)
    BY <1>5 DEF CollectBody, block
  <2>2. Idle(w) /\ IsList(block.says)
    BY <1>1, <1>5 DEF Idle, Tidy
  <2>3. Gives(w, AppendBlock(w, block), block.says, kept) /\ Idle(AppendBlock(w, block))
    BY <2>2, IdleFiles
  <2> QED BY <1>1, <1>5, <2>1, <2>3 DEF Idle
<1> QED BY <1>2, <1>3, <1>4, <1>5

\* The boxes a paragraph anchors are told one after the other.
LEMMA AnchoredTaken ==
  ASSUME NEW w, Tidy(w), NEW p, IsParagraph(p), NEW kept
  PROVE  Gives(w, TakeAnchored(w, p), TextsOf(Placed(p.n, ShapeParts(p))), kept)
<1> DEFINE boxes == AnchoredIn(p)
           by == PartsAt(p.n)
           N == Len(boxes)
<1>1. /\ AreLists(boxes) /\ FlattenSeq(boxes) = ShapeParts(p)
      /\ \A i \in 1..N : ArePartsIn(boxes[i])
  BY ShapesShow
<1>2. IsList(boxes)
  BY <1>1 DEF AreLists
<1>3. Speaks(by, boxes) /\ TextsOf(Placed(p.n, ShapeParts(p))) = AllSpoken(by, boxes)
  <2> DEFINE n == p.n
  <2> HIDE DEF boxes, n
  <2>1. /\ Speaks(PartsAt(n), boxes)
        /\ TextsOf(Placed(n, FlattenSeq(boxes))) = AllSpoken(PartsAt(n), boxes)
    BY <1>1, PartsFlat
  <2> QED BY <1>1, <2>1 DEF n
<1>4. PICK f : TakenEach(f, BoxesAt(p.n), w, boxes) /\ TakeAnchored(w, p) = f[1..N]
  BY <1>2, BoxesAre
<1> HIDE DEF boxes
<1>5. /\ f[1..0] = w
      /\ \A k \in 1..N : f[1..k] = Taken(BoxesAt(p.n), f[1..(k - 1)], boxes[k])
  <2> DEFINE taking == BoxesAt(p.n)
  <2>1. TakenEach(f, taking, w, boxes)
    BY <1>4
  <2> HIDE DEF taking
  <2>2. /\ f[1..0] = w
        /\ \A k \in 1..Len(boxes) : f[1..k] = Taken(taking, f[1..(k - 1)], boxes[k])
    BY <1>2, <2>1, TakenSteps
  <2> QED BY <2>2 DEF taking
<1>6. \A k \in 1..N : f[1..k] = TakeBox(CloseBox(f[1..(k - 1)]), Quote(Placed(p.n, boxes[k])))
  BY <1>5 DEF Taken, BoxesAt
<1>7. PICK first : Growing(first, boxes)
  BY <1>2, GrowsByOne
<1> DEFINE good == {n \in 0..N : Speaks(by, first[n]) /\ Gives(w, f[1..n], AllSpoken(by, first[n]), kept)}
<1>8. N \in Nat
  BY <1>2, LongerIs
<1>9. 0 \in good
  <2>1. first[0] = <<>>
    BY <1>7 DEF Growing
  <2>2. Speaks(by, <<>>) /\ AllSpoken(by, <<>>) = <<>>
    BY NoneSpoken
  <2>3. Gives(w, w, <<>>, kept)
    BY GivesNothing
  <2> QED BY <1>5, <1>8, <2>1, <2>2, <2>3
<1>10. ASSUME NEW n \in 1..N, n - 1 \in good PROVE n \in good
  <2> DEFINE u == f[1..(n - 1)]
             x == CloseBox(u)
             s == AllSpoken(by, first[n - 1])
             box == boxes[n]
             t == TextsOf(Placed(p.n, box))
             block == Quote(Placed(p.n, box))
             v == TakeBox(x, block)
             begun == first[n - 1]
  <2>1. Gives(w, u, s, kept) /\ Speaks(by, begun)
    BY <1>10
  <2>2. IsList(s)
    BY <2>1, SpokenIs
  <2>3. first[n] = Append(begun, box)
    BY <1>7 DEF Growing
  <2>4. Spoken(by, box) = t /\ IsList(t) /\ block.says = t
    <3>1. ArePartsIn(box)
      BY <1>1
    <3>2. Spoken(by, box) = t
      BY SpokenAre
    <3> HIDE DEF box
    <3>3. Blocks(Placed(p.n, box)) = t /\ IsList(t)
      BY <3>1, PlacedSay
    <3> QED BY <3>2, <3>3, BlockSays DEF Quote
  <2>5. Speaks(by, first[n]) /\ AllSpoken(by, first[n]) = s \o t
    <3>1. IsList(Spoken(by, box))
      BY <2>4
    <3> HIDE DEF by, begun, box
    <3>2. /\ Speaks(by, Append(begun, box))
          /\ AllSpoken(by, Append(begun, box)) = AllSpoken(by, begun) \o Spoken(by, box)
      BY <2>1, <3>1, SpokenLonger
    <3> QED BY <2>3, <2>4, <3>2 DEF by, begun
  <2>6. f[1..n] = v
    BY <1>6
  <2> HIDE DEF u, s, t, block
  <2>7. Tidy(u)
    BY <2>1 DEF Gives
  <2>8. Gives(u, x, <<>>, kept) /\ x.boxed = <<>>
    BY <2>7, BoxClosed
  <2>9. Tidy(x)
    BY <2>8 DEF Gives
  <2> HIDE DEF x
  <2>10. IsList(block.says)
    BY <2>4
  <2>11. Gives(x, v, block.says, kept)
    BY <2>8, <2>9, <2>10, BoxTaken
  <2> HIDE DEF v
  <2>12. Gives(w, x, s \o <<>>, kept)
    BY <2>1, <2>2, <2>8, EmptyList, GivesOn
  <2>13. s \o <<>> = s
    BY <2>2, EmptyList, JoinedIs
  <2>14. Gives(w, x, s, kept) /\ Gives(x, v, t, kept) /\ IsList(t)
    BY <2>4, <2>11, <2>12, <2>13
  <2>15. Gives(w, v, s \o t, kept)
    BY <2>2, <2>14, GivesOn
  <2>16. Gives(w, f[1..n], AllSpoken(by, first[n]), kept)
    BY <2>5, <2>6, <2>15
  <2>17. n \in 0..N
    BY <1>8
  <2> QED BY <2>5, <2>16, <2>17
<1>11. 0..N \subseteq good
  <2> HIDE DEF good, N
  <2> QED BY <1>8, <1>9, <1>10, StepByStep
<1>12. N \in good
  BY <1>8, <1>11
<1>13. first[N] = boxes
  BY <1>7 DEF Growing
<1> QED BY <1>3, <1>4, <1>12, <1>13

\* A section opened by a walk that holds nothing tells nothing more.
LEMMA OpenedTells ==
  ASSUME NEW w, Tidy(w), Idle(w), NEW p, NEW opened, opened = OpenSection(w, p)
  PROVE  /\ Files(opened.sections) /\ Len(opened.sections) = Len(w.sections) + 1
         /\ FiledIn(opened.sections) = Told(w) /\ Idle(opened) /\ HasShape(opened)
<1>1. DOMAIN w = Parts /\ HasShape(w) /\ Files(w.sections)
  BY DEF Tidy, HasShape, IsWalk
<1> DEFINE appendix == p.kind = "appendix"
           under    == Beneath(w.stack, HeadingLevel(p))
           parent   == Last(under)
           counted  == IF appendix THEN [parent EXCEPT !.appendices = @ + 1]
                       ELSE [parent EXCEPT !.numbered = @ + 1]
           section  == [heading |-> p.heading, appendix |-> appendix,
                        ordinal |-> IF appendix THEN counted.appendices ELSE counted.numbered,
                        parent  |-> parent.section, content |-> <<>>]
           stack    == Append(Append(Front(under), counted),
                              Frame(HeadingLevel(p), Len(w.sections) + 1))
<1>2. /\ section.content = <<>> /\ DOMAIN section = SectionParts
      /\ opened = [w EXCEPT !.sections = Append(@, section), !.stack = stack]
  BY DEF OpenSection, SectionParts
<1> HIDE DEF section, stack
<1>3. /\ opened.sections = Append(w.sections, section) /\ opened.items = w.items
      /\ opened.pending = w.pending /\ opened.boxed = w.boxed
  BY <1>1, <1>2 DEF Parts
<1>4. Told(w) = FiledIn(w.sections)
  BY <1>1, IdleTells
<1>5. /\ Files(Append(w.sections, section)) /\ Len(Append(w.sections, section)) = Len(w.sections) + 1
      /\ FiledIn(Append(w.sections, section)) = FiledIn(w.sections)
  <2> DEFINE sections == w.sections
  <2>1. Files(sections)
    BY <1>1
  <2> HIDE DEF sections
  <2>2. /\ Files(Append(sections, section)) /\ Len(Append(sections, section)) = Len(sections) + 1
        /\ FiledIn(Append(sections, section)) = FiledIn(sections)
    BY <1>2, <2>1, FiledOpened
  <2> QED BY <2>2 DEF sections
<1>6. HasShape(opened)
  <2>1. DOMAIN opened = Parts
    BY <1>1, <1>2
  <2>2. /\ IsList(Append(w.sections, section))
        /\ \A i \in 1..Len(Append(w.sections, section)) :
             DOMAIN Append(w.sections, section)[i] = SectionParts
    <3> DEFINE sections == w.sections
               more == Append(sections, section)
               N == Len(sections)
    <3>1. IsList(sections) /\ \A i \in 1..N : DOMAIN sections[i] = SectionParts
      BY <1>1 DEF HasShape
    <3> HIDE DEF sections
    <3>2. /\ IsList(more) /\ Len(more) = N + 1 /\ N \in Nat
          /\ more[N + 1] = section /\ \A i \in 1..N : more[i] = sections[i]
      BY <3>1, LongerIs
    <3> HIDE DEF more
    <3>3. \A i \in 1..(N + 1) : i \in 1..N \/ i = N + 1
      BY <3>2
    <3>4. \A i \in 1..(N + 1) : DOMAIN more[i] = SectionParts
      BY <1>2, <3>1, <3>2, <3>3
    <3> QED BY <3>2, <3>4 DEF more, sections
  <2> QED BY <1>1, <1>3, <2>1, <2>2 DEF HasShape, IsWalk
<1> QED BY <1>3, <1>4, <1>5, <1>6 DEF Idle

-----------------------------------------------------------------------------
(* The paragraphs an element shows                                         *)

\* Runs of parts are parts all together.
LEMMA FlattenParts ==
  ASSUME NEW seqs, AreLists(seqs), \A i \in 1..Len(seqs) : ArePartsIn(seqs[i])
  PROVE  ArePartsIn(FlattenSeq(seqs))
<1> DEFINE A == UNION {Range(seqs[i]) : i \in 1..Len(seqs)}
           flat == FlattenSeq(seqs)
<1>1. seqs \in Seq(Range(seqs)) /\ Len(seqs) \in Nat /\ DOMAIN seqs = 1..Len(seqs)
  BY DEF AreLists, IsList
<1>2. \A i \in 1..Len(seqs) : seqs[i] \in Seq(A)
  <2> SUFFICES ASSUME NEW i \in 1..Len(seqs) PROVE seqs[i] \in Seq(A)
    OBVIOUS
  <2> DEFINE s == seqs[i]
  <2>1. IsList(s) /\ Range(s) \subseteq A
    BY DEF AreLists
  <2> HIDE DEF s, A
  <2>2. s \in Seq(A)
    BY <2>1, ListOf
  <2> QED BY <2>2 DEF s
<1>3. \A x \in A : IsPart(x)
  BY DEF ArePartsIn
<1> HIDE DEF A
<1>4. seqs \in Seq(Seq(A))
  BY <1>1, <1>2
<1>5. flat \in Seq(A)
  BY <1>4, FlattenIs
<1> HIDE DEF flat
<1>6. Range(flat) \subseteq A /\ IsList(flat)
  BY <1>5, ListIs DEF Range
<1> QED BY <1>3, <1>6 DEF ArePartsIn, IsList, flat

\* The paragraphs in a table are parts.
LEMMA TablePartsAre ==
  ASSUME NEW e, IsTable(e)
  PROVE  ArePartsIn(TableParts(e))
<1> DEFINE rows == [r \in DOMAIN e.rows |-> RowParts(e, e.rows[r])]
           N == Len(e.rows)
<1>1. /\ e.columns \in Nat /\ N \in Nat /\ DOMAIN e.rows = 1..N
      /\ \A r \in 1..N : IsRow(e.rows[r])
  BY TableIs
<1>2. ASSUME NEW r \in 1..N PROVE ArePartsIn(RowParts(e, e.rows[r])) /\ IsList(RowParts(e, e.rows[r]))
  <2> DEFINE cells == RowCells(e.rows[r], e.columns)
  <2>1. HoldParts(cells) /\ FlattenSeq(cells) = RowParts(e, e.rows[r]) /\ IsList(RowParts(e, e.rows[r]))
    BY <1>1, RowShows
  <2> HIDE DEF cells
  <2>2. AreLists(cells) /\ \A i \in 1..Len(cells) : ArePartsIn(cells[i])
    BY <2>1 DEF HoldParts
  <2>3. ArePartsIn(FlattenSeq(cells))
    BY <2>2, FlattenParts
  <2> QED BY <2>1, <2>3
<1>3. rows = [r \in 1..N |-> rows[r]] /\ \A r \in 1..N : rows[r] = RowParts(e, e.rows[r])
  BY <1>1
<1>4. TableParts(e) = FlattenSeq(rows)
  BY DEF TableParts
<1> HIDE DEF rows, N
<1>5. IsList(rows) /\ Len(rows) = N
  BY <1>1, <1>3, FunctionList
<1>6. AreLists(rows) /\ \A r \in 1..Len(rows) : ArePartsIn(rows[r])
  BY <1>2, <1>3, <1>5 DEF AreLists
<1>7. ArePartsIn(FlattenSeq(rows))
  BY <1>6, FlattenParts
<1> QED BY <1>4, <1>7

\* A part alone, and parts joined, are parts.
LEMMA JoinedParts ==
  ASSUME NEW s, ArePartsIn(s), NEW t, ArePartsIn(t), NEW p, IsPart(p)
  PROVE  ArePartsIn(s \o t) /\ ArePartsIn(<<p>>)
<1>1. IsList(s) /\ IsList(t)
  BY DEF ArePartsIn, IsList
<1>2. IsList(s \o t) /\ Range(s \o t) = Range(s) \cup Range(t)
  BY <1>1, JoinedIs
<1>3. IsList(<<p>>) /\ Range(<<p>>) = {p}
  BY <1>1, AppendedIs DEF Range
<1> QED BY <1>2, <1>3 DEF ArePartsIn, IsList

\* An element as the body may have it: no two of its paragraphs are in one place.
Known(e) ==
  /\ (e.is = "paragraph" => IsParagraph(e)) /\ (e.is = "table" => IsTable(e))
  /\ \A i, j \in DOMAIN PartsOf(e) : PartsOf(e)[i].k = PartsOf(e)[j].k => i = j

\* What it shows are parts.
LEMMA PartsAre ==
  ASSUME NEW e, Known(e)
  PROVE  ArePartsIn(PartsOf(e)) /\ IsList(PartsOf(e))
<1>1. ArePartsIn(<<>>)
  <2>1. Range(<<>>) = {} /\ <<>> \in Seq({})
    BY EmptyList
  <2> QED BY <2>1 DEF ArePartsIn
<1>2. ArePartsIn(PartsOf(e))
  <2>1. CASE e.is = "table"
    BY <2>1, TablePartsAre DEF PartsOf, Known
  <2>2. CASE e.is = "paragraph"
    <3>1. IsParagraph(e) /\ IsPart(e)
      BY <2>2 DEF Known, IsParagraph
    <3>2. ArePartsIn(ShapeParts(e))
      <4> DEFINE boxes == AnchoredIn(e)
      <4>1. AreLists(boxes) /\ FlattenSeq(boxes) = ShapeParts(e) /\ \A i \in 1..Len(boxes) : ArePartsIn(boxes[i])
        BY <3>1, ShapesShow
      <4> HIDE DEF boxes
      <4>2. ArePartsIn(FlattenSeq(boxes))
        BY <4>1, FlattenParts
      <4> QED BY <4>1, <4>2
    <3>3. ArePartsIn(OwnParts(e))
      <4>1. ArePartsIn(<<e>>)
        BY <1>1, <3>1, JoinedParts
      <4> QED BY <1>1, <4>1 DEF OwnParts
    <3> DEFINE s == OwnParts(e)
               t == ShapeParts(e)
    <3>4. ArePartsIn(s) /\ ArePartsIn(t) /\ PartsOf(e) = s \o t
      BY <2>2, <3>2, <3>3 DEF PartsOf
    <3> HIDE DEF s, t
    <3>5. ArePartsIn(s \o t)
      BY <3>1, <3>4, JoinedParts
    <3> QED BY <3>4, <3>5
  <2>3. CASE e.is \notin {"table", "paragraph"}
    <3>1. PartsOf(e) = <<>>
      BY <2>3 DEF PartsOf
    <3> QED BY <1>1, <3>1
  <2> QED BY <2>1, <2>2, <2>3
<1> QED BY <1>2 DEF ArePartsIn, IsList

\* What paragraphs placed say: texts at the element's number, each in one place.
PlacedAt(n, ps, texts) ==
  /\ IsList(texts) /\ Apart(texts)
  /\ \A text \in Range(texts) : \E i \in 1..Len(ps) : text.at = <<n, ps[i].k>>

\* The texts of paragraphs in different places are different, each where its paragraph is.
LEMMA PlacesApart ==
  ASSUME NEW n, NEW ps, ArePartsIn(ps), \A i, j \in 1..Len(ps) : ps[i].k = ps[j].k => i = j
  PROVE  PlacedAt(n, ps, TextsOf(Placed(n, ps)))
<1> DEFINE list == Placed(n, ps)
           N == Len(ps)
<1>1. IsList(ps)
  BY DEF ArePartsIn, IsList
<1>2. /\ IsList(list) /\ Len(list) = N /\ N \in Nat
      /\ \A i \in 1..N : list[i] = [ps[i] EXCEPT !.n = n]
  BY <1>1, PlacedIs
<1>3. \A i \in 1..N : /\ list[i].n = n /\ list[i].k = ps[i].k
  <2> SUFFICES ASSUME NEW i \in 1..N PROVE list[i].n = n /\ list[i].k = ps[i].k
    OBVIOUS
  <2> DEFINE p == ps[i]
  <2>1. IsPart(p)
    <3>1. p \in Range(ps)
      BY <1>1 DEF IsList, Range
    <3> QED BY <3>1 DEF ArePartsIn
  <2>2. {"n", "k"} \subseteq DOMAIN p
    BY <2>1 DEF IsPart
  <2>3. list[i] = [p EXCEPT !.n = n]
    BY <1>2
  <2> HIDE DEF p, list
  <2>4. list[i].n = n /\ list[i].k = p.k
    BY <2>2, <2>3
  <2> QED BY <2>4 DEF p
<1> HIDE DEF list, N
<1>4. PICK first : Growing(first, list)
  BY <1>2, GrowsByOne
<1> DEFINE texts(m) == AllSpoken(OfPart, first[m])
           Good(m) == /\ Speaks(OfPart, first[m]) /\ IsList(texts(m)) /\ Apart(texts(m))
                      /\ \A text \in Range(texts(m)) : \E i \in 1..m : text.at = <<n, ps[i].k>>
           good == {m \in 0..N : Good(m)}
<1>5. 0 \in good
  <2>1. first[0] = <<>>
    BY <1>4 DEF Growing
  <2>2. Speaks(OfPart, <<>>) /\ AllSpoken(OfPart, <<>>) = <<>>
    BY NoneSpoken
  <2>3. IsList(<<>>) /\ Apart(<<>>) /\ Range(<<>>) = {}
    BY EmptyList DEF Apart
  <2> QED BY <1>2, <2>1, <2>2, <2>3
<1>6. ASSUME NEW m \in 1..N, m - 1 \in good PROVE m \in good
  <2> DEFINE s == texts(m - 1)
             p == list[m]
             t == Text(p)
             begun == first[m - 1]
  <2>1. /\ Speaks(OfPart, begun) /\ IsList(s) /\ Apart(s)
        /\ \A text \in Range(s) : \E i \in 1..(m - 1) : text.at = <<n, ps[i].k>>
    BY <1>6
  <2>2. first[m] = Append(begun, p) /\ m \in 1..Len(list)
    <3>1. m \in 1..Len(list)
      BY <1>2
    <3> QED BY <1>4, <3>1 DEF Growing
  <2>3. IsList(t) /\ Spoken(OfPart, p) = t
    BY TextIs, SpokenAre
  <2>4. Speaks(OfPart, first[m]) /\ texts(m) = s \o t
    <3>1. IsList(Spoken(OfPart, p))
      BY <2>3
    <3> HIDE DEF begun, p
    <3>2. /\ Speaks(OfPart, Append(begun, p))
          /\ AllSpoken(OfPart, Append(begun, p)) = AllSpoken(OfPart, begun) \o Spoken(OfPart, p)
      BY <2>1, <3>1, SpokenLonger
    <3> QED BY <2>2, <2>3, <3>2 DEF begun
  <2>5. Apart(t) /\ \A text \in Range(t) : text.at = <<n, ps[m].k>>
    <3>1. p.n = n /\ p.k = ps[m].k
      BY <1>3
    <3>2. CASE p.says = "nothing"
      <4>1. t = <<>>
        BY <3>2 DEF Text
      <4> QED BY <4>1, EmptyList DEF Apart
    <3>3. CASE p.says # "nothing"
      <4> DEFINE text == [at |-> <<p.n, p.k>>, link |-> p.link, hashes |-> p.hashes]
      <4>1. t = <<text>> /\ text.at = <<n, ps[m].k>>
        BY <3>1, <3>3 DEF Text
      <4> HIDE DEF text, t
      <4>2. Len(t) = 1 /\ Range(t) = {text}
        BY <4>1 DEF Range
      <4> QED BY <4>1, <4>2 DEF Apart
    <3> QED BY <3>2, <3>3
  <2>6. Range(s) \cap Range(t) = {}
    <3> SUFFICES ASSUME NEW text \in Range(s), text \in Range(t) PROVE FALSE
      OBVIOUS
    <3>1. PICK i \in 1..(m - 1) : text.at = <<n, ps[i].k>>
      BY <2>1
    <3>2. text.at = <<n, ps[m].k>>
      BY <2>5
    <3>3. ps[i].k = ps[m].k
      BY <3>1, <3>2
    <3>4. i \in 1..N /\ m \in 1..N /\ i # m
      BY <1>2
    <3> QED BY <3>3, <3>4 DEF N
  <2> HIDE DEF s, t
  <2>7. Apart(s \o t)
    BY <2>1, <2>3, <2>5, <2>6, ApartJoined
  <2>8. IsList(s \o t) /\ Range(s \o t) = Range(s) \cup Range(t)
    BY <2>1, <2>3, JoinedIs
  <2>9. ASSUME NEW text \in Range(s \o t) PROVE \E i \in 1..m : text.at = <<n, ps[i].k>>
    <3>1. CASE text \in Range(s)
      <4>1. PICK i \in 1..(m - 1) : text.at = <<n, ps[i].k>>
        BY <2>1, <3>1
      <4>2. i \in 1..m
        BY <1>2
      <4> QED BY <4>1, <4>2
    <3>2. CASE text \in Range(t)
      <4>1. m \in 1..m
        BY <1>2
      <4> QED BY <2>5, <3>2, <4>1
    <3> QED BY <2>8, <2>9, <3>1, <3>2
  <2>10. Good(m)
    BY <2>4, <2>7, <2>8, <2>9
  <2>11. m \in 0..N
    BY <1>2
  <2> QED BY <2>10, <2>11
<1>7. 0..N \subseteq good
  <2> HIDE DEF good
  <2> QED BY <1>2, <1>5, <1>6, StepByStep
<1>8. Good(N)
  <2>1. N \in 0..N
    BY <1>2
  <2> QED BY <1>7, <2>1
<1>9. texts(N) = TextsOf(list)
  <2>1. first[N] = list
    BY <1>2, <1>4 DEF Growing
  <2> QED BY <2>1, SpokenAre
<1> HIDE DEF texts
<1>10. PlacedAt(n, ps, texts(N))
  BY <1>8 DEF PlacedAt, N
<1> QED BY <1>9, <1>10 DEF list

-----------------------------------------------------------------------------
(* What some elements say                                                  *)

\* The section an element stands in, and what is said of it there.
SectionIn(elements, n) == Cardinality({m \in 1..n : HeadingAt(elements, m)})
SaidAt(elements, n) ==
  IF SectionIn(elements, n) = 0 THEN <<>>
  ELSE InSection(SectionIn(elements, n), TextsOf(Placed(n, PartsOf(elements[n]))))

\* What they all say.
SaidOf(elements) == FlattenSeq([n \in DOMAIN elements |-> SaidAt(elements, n)])

\* Those that are items, and those that may be lost behind one that says nothing.
IsItemAt(elements, n) ==
  /\ elements[n].is = "paragraph" /\ ~HeadingAt(elements, n) /\ ~IsBoxed(elements[n])
  /\ ListItem(elements[n]) # <<>>
SilentAt(elements, n) ==
  \E m \in 1..n : /\ IsItemAt(elements, m) /\ elements[m].says = "nothing"
                  /\ \A j \in m..n : /\ ~HeadingAt(elements, j)
                                     /\ ~(IsItemAt(elements, j) /\ j < n /\ elements[j].says # "nothing")
KeptIn(elements) == {text \in Range(SaidOf(elements)) : ~SilentAt(elements, text[2].at[1])}

\* From the m-th, an item that says nothing, to the n-th there is none that does.
SilentSince(elements, m, n) ==
  /\ m \in 1..n /\ IsItemAt(elements, m) /\ elements[m].says = "nothing"
  /\ \A j \in m..n : ~HeadingAt(elements, j) /\ ~(IsItemAt(elements, j) /\ elements[j].says # "nothing")

\* All of them, and one after them that is no heading, may be lost.
LEMMA SilentAre ==
  ASSUME NEW elements, NEW n \in Nat, NEW m, SilentSince(elements, m, n)
  PROVE  /\ \A j \in m..n : SilentAt(elements, j)
         /\ ~HeadingAt(elements, n + 1) => SilentAt(elements, n + 1)
<1>1. /\ m \in 1..n /\ IsItemAt(elements, m) /\ elements[m].says = "nothing"
      /\ \A j \in m..n : ~HeadingAt(elements, j) /\ ~(IsItemAt(elements, j) /\ elements[j].says # "nothing")
  BY DEF SilentSince
<1>2. ASSUME NEW j \in m..n PROVE SilentAt(elements, j)
  <2>1. m \in 1..j /\ \A i \in m..j : i \in m..n
    BY <1>1
  <2> QED BY <1>1, <2>1 DEF SilentAt
<1>3. ASSUME ~HeadingAt(elements, n + 1) PROVE SilentAt(elements, n + 1)
  <2>1. m \in 1..(n + 1) /\ \A i \in m..(n + 1) : i \in m..n \/ i = n + 1
    BY <1>1
  <2>2. \A i \in m..(n + 1) :
          ~HeadingAt(elements, i) /\ ~(IsItemAt(elements, i) /\ i < n + 1 /\ elements[i].says # "nothing")
    BY <1>1, <1>3, <2>1
  <2> QED BY <1>1, <2>1, <2>2 DEF SilentAt
<1> QED BY <1>2, <1>3

\* What is so of an element does not depend on those after it.
SameUpto(elements, longer) ==
  \A n \in 1..Len(elements) :
    /\ longer[n] = elements[n]
    /\ HeadingAt(longer, n) = HeadingAt(elements, n) /\ IsItemAt(longer, n) = IsItemAt(elements, n)
    /\ SectionIn(longer, n) = SectionIn(elements, n) /\ SaidAt(longer, n) = SaidAt(elements, n)
    /\ SilentAt(longer, n) = SilentAt(elements, n)

\* Nor where there is one more.
LEMMA SameBefore ==
  ASSUME NEW elements, IsList(elements), NEW e
  PROVE  SameUpto(elements, Append(elements, e))
<1> DEFINE longer == Append(elements, e)
           N == Len(elements)
<1>1. N \in Nat /\ \A n \in 1..N : longer[n] = elements[n]
  BY LongerIs
<1> HIDE DEF longer
<1>2. \A n \in 1..N : HeadingAt(longer, n) = HeadingAt(elements, n)
  BY <1>1 DEF HeadingAt
<1>3. \A n \in 1..N : IsItemAt(longer, n) = IsItemAt(elements, n)
  BY <1>1, <1>2 DEF IsItemAt
<1>4. \A n \in 1..N : SectionIn(longer, n) = SectionIn(elements, n)
  <2> SUFFICES ASSUME NEW n \in 1..N PROVE SectionIn(longer, n) = SectionIn(elements, n)
    OBVIOUS
  <2>1. \A m \in 1..n : m \in 1..N
    BY <1>1
  <2>2. {m \in 1..n : HeadingAt(longer, m)} = {m \in 1..n : HeadingAt(elements, m)}
    BY <1>2, <2>1
  <2> QED BY <2>2 DEF SectionIn
<1>5. \A n \in 1..N : SaidAt(longer, n) = SaidAt(elements, n)
  BY <1>1, <1>4 DEF SaidAt
<1>6. \A n \in 1..N : SilentAt(longer, n) = SilentAt(elements, n)
  <2> SUFFICES ASSUME NEW n \in 1..N PROVE SilentAt(longer, n) <=> SilentAt(elements, n)
    BY DEF SilentAt
  <2>1. \A m \in 1..n : m \in 1..N /\ \A j \in m..n : j \in 1..N
    BY <1>1
  <2>2. \A m \in 1..N : longer[m].says = elements[m].says
    BY <1>1
  <2>3. ASSUME SilentAt(longer, n) PROVE SilentAt(elements, n)
    <3>1. PICK m \in 1..n :
            /\ IsItemAt(longer, m) /\ longer[m].says = "nothing"
            /\ \A j \in m..n : ~HeadingAt(longer, j) /\ ~(IsItemAt(longer, j) /\ j < n /\ longer[j].says # "nothing")
      BY <2>3 DEF SilentAt
    <3>2. IsItemAt(elements, m) /\ elements[m].says = "nothing"
      BY <1>3, <2>1, <2>2, <3>1
    <3>3. \A j \in m..n : ~HeadingAt(elements, j) /\ ~(IsItemAt(elements, j) /\ j < n /\ elements[j].says # "nothing")
      BY <1>2, <1>3, <2>1, <2>2, <3>1
    <3> QED BY <3>1, <3>2, <3>3 DEF SilentAt
  <2>4. ASSUME SilentAt(elements, n) PROVE SilentAt(longer, n)
    <3>1. PICK m \in 1..n :
            /\ IsItemAt(elements, m) /\ elements[m].says = "nothing"
            /\ \A j \in m..n : ~HeadingAt(elements, j) /\ ~(IsItemAt(elements, j) /\ j < n /\ elements[j].says # "nothing")
      BY <2>4 DEF SilentAt
    <3>2. IsItemAt(longer, m) /\ longer[m].says = "nothing"
      BY <1>3, <2>1, <2>2, <3>1
    <3>3. \A j \in m..n : ~HeadingAt(longer, j) /\ ~(IsItemAt(longer, j) /\ j < n /\ longer[j].says # "nothing")
      BY <1>2, <1>3, <2>1, <2>2, <3>1
    <3> QED BY <3>1, <3>2, <3>3 DEF SilentAt
  <2> QED BY <2>3, <2>4
<1> QED BY <1>1, <1>2, <1>3, <1>4, <1>5, <1>6 DEF SameUpto, longer, N

\* A heading more is a section more.
LEMMA SectionsLonger ==
  ASSUME NEW elements, IsList(elements), NEW e
  PROVE  LET N == Len(elements)
             longer == Append(elements, e)
         IN  /\ SectionIn(elements, 0) = 0 /\ SectionIn(elements, N) \in Nat
             /\ SectionIn(longer, N + 1) = SectionIn(elements, N) + (IF HeadingAt(longer, N + 1) THEN 1 ELSE 0)
<1> DEFINE N == Len(elements)
           longer == Append(elements, e)
           before == {m \in 1..N : HeadingAt(elements, m)}
           after == {m \in 1..(N + 1) : HeadingAt(longer, m)}
<1>1. N \in Nat /\ \A n \in 1..N : HeadingAt(longer, n) = HeadingAt(elements, n)
  BY LongerIs, SameBefore DEF SameUpto
<1>2. IsFiniteSet(before) /\ N + 1 \notin before
  <2>1. IsFiniteSet(1..N)
    BY <1>1, FS_Interval
  <2> QED BY <1>1, <2>1, FS_Subset
<1>3. Cardinality(before) \in Nat /\ Cardinality(before \cup {N + 1}) = Cardinality(before) + 1
  BY <1>2, FS_CardinalityType, FS_AddElement
<1>4. after = IF HeadingAt(longer, N + 1) THEN before \cup {N + 1} ELSE before
  <2>1. \A m : m \in 1..(N + 1) <=> m \in 1..N \/ m = N + 1
    BY <1>1
  <2> HIDE DEF longer, N
  <2> QED BY <1>1, <2>1
<1>5. SectionIn(elements, 0) = 0
  <2>1. {m \in 1..0 : HeadingAt(elements, m)} = {}
    OBVIOUS
  <2> QED BY <2>1, FS_EmptySet DEF SectionIn
<1>6. SectionIn(elements, N) = Cardinality(before) /\ SectionIn(longer, N + 1) = Cardinality(after)
  BY DEF SectionIn
<1> HIDE DEF before, after, longer, N
<1>7. /\ SectionIn(elements, N) \in Nat
      /\ SectionIn(longer, N + 1) = SectionIn(elements, N) + (IF HeadingAt(longer, N + 1) THEN 1 ELSE 0)
  BY <1>3, <1>4, <1>6
<1> QED BY <1>5, <1>7 DEF longer, N

\* Elements as the body may have them.
BodyKnown(elements) == IsList(elements) /\ \A n \in 1..Len(elements) : Known(elements[n])

\* What an element says where it stands is a list.
LEMMA SaidAtIs ==
  ASSUME NEW elements, BodyKnown(elements), NEW n \in 1..Len(elements)
  PROVE  /\ IsList(SaidAt(elements, n)) /\ Apart(SaidAt(elements, n))
         /\ \A x \in Range(SaidAt(elements, n)) : x[2].at[1] = n
<1> DEFINE e == elements[n]
           ps == PartsOf(e)
           texts == TextsOf(Placed(n, ps))
           s == SectionIn(elements, n)
<1>1. Known(e)
  BY DEF BodyKnown
<1> HIDE DEF e
<1>2. ArePartsIn(ps) /\ IsList(ps)
  BY <1>1, PartsAre
<1>3. \A i, j \in 1..Len(ps) : ps[i].k = ps[j].k => i = j
  <2>1. DOMAIN ps = 1..Len(ps)
    BY <1>2, LongerIs
  <2> QED BY <1>1, <2>1 DEF Known
<1> HIDE DEF ps
<1>4. PlacedAt(n, ps, texts)
  BY <1>2, <1>3, PlacesApart
<1>5. IsList(texts) /\ Apart(texts) /\ \A text \in Range(texts) : text.at[1] = n
  BY <1>4 DEF PlacedAt
<1> HIDE DEF texts, s
<1>6. /\ IsList(InSection(s, texts)) /\ Len(InSection(s, texts)) = Len(texts)
      /\ \A i \in 1..Len(texts) : InSection(s, texts)[i] = <<s, texts[i]>>
      /\ Range(InSection(s, texts)) = {<<s, text>> : text \in Range(texts)}
  BY <1>5, InSectionIs
<1>7. Apart(InSection(s, texts))
  BY <1>5, <1>6 DEF Apart
<1>8. \A x \in Range(InSection(s, texts)) : x[2].at[1] = n
  BY <1>5, <1>6
<1>9. IsList(<<>>) /\ Apart(<<>>) /\ Range(<<>>) = {}
  BY EmptyList DEF Apart
<1>10. SaidAt(elements, n) = IF s = 0 THEN <<>> ELSE InSection(s, texts)
  BY DEF SaidAt, s, texts, ps, e
<1> QED BY <1>6, <1>7, <1>8, <1>9, <1>10

\* An element more says what it says at the end.
LEMMA SaidLonger ==
  ASSUME NEW elements, NEW e, BodyKnown(elements), BodyKnown(Append(elements, e))
  PROVE  /\ SaidOf(Append(elements, e)) = SaidOf(elements) \o SaidAt(Append(elements, e), Len(elements) + 1)
         /\ IsList(SaidOf(elements)) /\ IsList(SaidAt(Append(elements, e), Len(elements) + 1))
<1> DEFINE longer == Append(elements, e)
           N == Len(elements)
           each == [n \in DOMAIN elements |-> SaidAt(elements, n)]
           more == [n \in DOMAIN longer |-> SaidAt(longer, n)]
           last == SaidAt(longer, N + 1)
<1>1. /\ N \in Nat /\ DOMAIN elements = 1..N /\ Len(longer) = N + 1 /\ DOMAIN longer = 1..(N + 1)
      /\ IsList(elements)
  BY LongerIs DEF BodyKnown
<1>2. \A n \in 1..N : SaidAt(longer, n) = SaidAt(elements, n)
  BY <1>1, SameBefore DEF SameUpto
<1> HIDE DEF longer
<1>3. \A n \in 1..N : IsList(SaidAt(elements, n))
  BY SaidAtIs
<1>4. \A n \in 1..(N + 1) : IsList(SaidAt(longer, n))
  BY <1>1, SaidAtIs DEF longer
<1>5. IsList(last)
  BY <1>1, <1>4
<1>6. each = [n \in 1..N |-> each[n]] /\ \A n \in 1..N : each[n] = SaidAt(elements, n)
  BY <1>1
<1>7. more = [n \in 1..(N + 1) |-> more[n]] /\ \A n \in 1..(N + 1) : more[n] = SaidAt(longer, n)
  BY <1>1
<1>8. SaidOf(longer) = FlattenSeq(more) /\ SaidOf(elements) = FlattenSeq(each)
  BY DEF SaidOf
<1> HIDE DEF each, more
<1>9. IsList(each) /\ Len(each) = N /\ IsList(more) /\ Len(more) = N + 1
  <2>1. IsList(each) /\ Len(each) = N
    BY <1>1, <1>6, FunctionList
  <2>2. N + 1 \in Nat
    BY <1>1
  <2>3. IsList(more) /\ Len(more) = N + 1
    BY <1>7, <2>2, FunctionList
  <2> QED BY <2>1, <2>3
<1> HIDE DEF N, last
<1>10. AreLists(each)
  BY <1>3, <1>6, <1>9 DEF AreLists
<1> DEFINE other == Append(each, last)
<1>11. FlattenSeq(other) = FlattenSeq(each) \o last /\ IsList(FlattenSeq(each))
  BY <1>5, <1>10, FlattenLonger
<1>12. /\ IsList(other) /\ Len(other) = N + 1 /\ other[N + 1] = last
       /\ \A n \in 1..N : other[n] = each[n]
  BY <1>9, LongerIs
<1> HIDE DEF other
<1>13. ASSUME NEW n \in 1..(N + 1) PROVE more[n] = other[n]
  <2>1. CASE n = N + 1
    BY <1>7, <1>12, <2>1 DEF last
  <2>2. CASE n # N + 1
    <3>1. n \in 1..N
      BY <1>1, <2>2
    <3> QED BY <1>2, <1>6, <1>7, <1>12, <3>1
  <2> QED BY <2>1, <2>2
<1>14. more = other
  BY <1>9, <1>12, <1>13, SameList
<1> QED BY <1>5, <1>8, <1>11, <1>14 DEF longer, last, N

\* What elements say is different, and stands at one of them.
SaidWell(elements) ==
  /\ IsList(SaidOf(elements)) /\ Apart(SaidOf(elements))
  /\ \A x \in Range(SaidOf(elements)) : x[2].at[1] \in 1..Len(elements)

\* That is so of no elements.
LEMMA NothingToSay == SaidOf(<<>>) = <<>> /\ SaidWell(<<>>) /\ BodyKnown(<<>>)
<1>1. SaidOf(<<>>) = <<>>
  <2>1. [n \in DOMAIN <<>> |-> SaidAt(<<>>, n)] = <<>>
    BY EmptyList
  <2> QED BY <2>1, FlattenNone DEF SaidOf
<1> QED BY <1>1, EmptyList DEF SaidWell, BodyKnown, Apart

\* And with one more of them.
LEMMA SaidWellLonger ==
  ASSUME NEW elements, NEW e, BodyKnown(elements), BodyKnown(Append(elements, e)), SaidWell(elements)
  PROVE  SaidWell(Append(elements, e))
<1> DEFINE longer == Append(elements, e)
           N == Len(elements)
           s == SaidOf(elements)
           t == SaidAt(longer, N + 1)
<1>1. SaidOf(longer) = s \o t /\ IsList(s) /\ IsList(t)
  BY SaidLonger
<1>2. N \in Nat /\ Len(longer) = N + 1
  BY LongerIs DEF BodyKnown
<1>3. Apart(t) /\ \A x \in Range(t) : x[2].at[1] = N + 1
  <2>1. N + 1 \in 1..Len(longer)
    BY <1>2
  <2> HIDE DEF longer
  <2>2. BodyKnown(longer)
    BY DEF longer
  <2> QED BY <2>1, <2>2, SaidAtIs
<1>4. Apart(s) /\ \A x \in Range(s) : x[2].at[1] \in 1..N
  BY DEF SaidWell
<1> HIDE DEF s, t, N, longer
<1>5. Range(s) \cap Range(t) = {}
  BY <1>2, <1>3, <1>4
<1>6. Apart(s \o t)
  BY <1>1, <1>3, <1>4, <1>5, ApartJoined
<1>7. IsList(s \o t) /\ Range(s \o t) = Range(s) \cup Range(t)
  BY <1>1, JoinedIs
<1>8. \A x \in Range(s \o t) : x[2].at[1] \in 1..(N + 1)
  BY <1>2, <1>3, <1>4, <1>7
<1> QED BY <1>1, <1>2, <1>6, <1>7, <1>8 DEF SaidWell, longer

\* What is to be kept stays so, whatever comes after.
LEMMA KeptSame ==
  ASSUME NEW elements, NEW e, BodyKnown(elements), BodyKnown(Append(elements, e)), SaidWell(elements)
  PROVE  Range(SaidOf(elements)) \cap KeptIn(elements) = Range(SaidOf(elements)) \cap KeptIn(Append(elements, e))
<1> DEFINE longer == Append(elements, e)
           N == Len(elements)
           s == SaidOf(elements)
           t == SaidAt(longer, N + 1)
<1>1. SaidOf(longer) = s \o t /\ IsList(s) /\ IsList(t)
  BY SaidLonger
<1>2. \A x \in Range(s) : x[2].at[1] \in 1..N
  BY DEF SaidWell
<1>3. \A n \in 1..N : SilentAt(longer, n) = SilentAt(elements, n)
  BY SameBefore DEF SameUpto, BodyKnown
<1> HIDE DEF longer, N
<1>4. Range(s) \subseteq Range(SaidOf(longer))
  <2> HIDE DEF s, t
  <2> QED BY <1>1, JoinedIs
<1> SUFFICES ASSUME NEW x \in Range(s) PROVE x \in KeptIn(elements) <=> x \in KeptIn(longer)
  BY DEF longer
<1>5. SilentAt(longer, x[2].at[1]) = SilentAt(elements, x[2].at[1])
  BY <1>2, <1>3
<1> QED BY <1>4, <1>5 DEF KeptIn

-----------------------------------------------------------------------------
(* The walk over some elements                                             *)

\* What the elements say is told, but for what may be lost; and where no item of the
\* run says anything, what waits was said since one of them.
FiledFrom(w, elements) ==
  /\ Tidy(w) /\ Len(w.sections) = SectionIn(elements, Len(elements))
  /\ SaidWell(elements) /\ Shed(SaidOf(elements), Told(w), KeptIn(elements))
  /\ Mute(w) => \E m : /\ SilentSince(elements, m, Len(elements))
                       /\ \A text \in Range(Waiting(w)) : text.at[1] \in m..Len(elements)

\* An element more, and what it says.
Further(elements, e) == BodyKnown(elements) /\ BodyKnown(Append(elements, e))
SaysNext(elements, e) == TextsOf(Placed(Len(elements) + 1, PartsOf(e)))

\* It says texts of its own.
LEMMA NextSays ==
  ASSUME NEW elements, NEW e, Further(elements, e)
  PROVE  /\ Known(e) /\ Len(elements) \in Nat /\ IsList(elements)
         /\ Append(elements, e)[Len(elements) + 1] = e /\ Len(Append(elements, e)) = Len(elements) + 1
         /\ IsList(SaysNext(elements, e))
         /\ \A text \in Range(SaysNext(elements, e)) : text.at[1] = Len(elements) + 1
<1> DEFINE longer == Append(elements, e)
           N == Len(elements)
           ps == PartsOf(e)
           n == N + 1
<1>1. N \in Nat /\ Len(longer) = N + 1 /\ longer[N + 1] = e /\ IsList(elements)
  BY LongerIs DEF Further, BodyKnown
<1> HIDE DEF longer
<1>2. Known(e)
  <2>1. N + 1 \in 1..Len(longer)
    BY <1>1
  <2>2. Known(longer[N + 1])
    BY <2>1 DEF Further, BodyKnown, longer
  <2> QED BY <1>1, <2>2
<1>3. ArePartsIn(ps) /\ IsList(ps)
  BY <1>2, PartsAre
<1>4. \A i, j \in 1..Len(ps) : ps[i].k = ps[j].k => i = j
  <2>1. DOMAIN ps = 1..Len(ps)
    BY <1>3, LongerIs
  <2> QED BY <1>2, <2>1 DEF Known
<1> HIDE DEF ps, n
<1>5. PlacedAt(n, ps, TextsOf(Placed(n, ps)))
  BY <1>3, <1>4, PlacesApart
<1>6. IsList(TextsOf(Placed(n, ps))) /\ \A text \in Range(TextsOf(Placed(n, ps))) : text.at[1] = n
  BY <1>5 DEF PlacedAt
<1>7. SaysNext(elements, e) = TextsOf(Placed(n, ps))
  BY DEF SaysNext, n, ps
<1> QED BY <1>1, <1>2, <1>6, <1>7 DEF n, longer

\* What may be lost in the next step is not to be kept.
LEMMA SpareNext ==
  ASSUME NEW w, NEW elements, NEW e, FiledFrom(w, elements), Further(elements, e), Mute(w)
  PROVE  LET longer == Append(elements, e)
         IN  /\ Spare(w, Range(Waiting(w)), KeptIn(longer))
             /\ ~HeadingAt(longer, Len(elements) + 1) =>
                  Spare(w, Range(Waiting(w)) \cup Range(SaysNext(elements, e)), KeptIn(longer))
<1> DEFINE longer == Append(elements, e)
           N == Len(elements)
<1>1. PICK m : /\ SilentSince(elements, m, N)
               /\ \A text \in Range(Waiting(w)) : text.at[1] \in m..N
  BY DEF FiledFrom
<1>2. N \in Nat /\ IsList(elements) /\ \A text \in Range(SaysNext(elements, e)) : text.at[1] = N + 1
  BY NextSays
<1>3. \A n \in 1..N : /\ HeadingAt(longer, n) = HeadingAt(elements, n)
                      /\ IsItemAt(longer, n) = IsItemAt(elements, n)
                      /\ longer[n] = elements[n]
  BY <1>2, SameBefore DEF SameUpto
<1> HIDE DEF longer, N
<1>4. m \in 1..N /\ \A j \in m..N : j \in 1..N
  BY <1>1, <1>2 DEF SilentSince
<1>5. SilentSince(longer, m, N)
  <2>1. IsItemAt(longer, m) /\ longer[m].says = "nothing"
    BY <1>1, <1>3, <1>4 DEF SilentSince
  <2>2. \A j \in m..N : ~HeadingAt(longer, j) /\ ~(IsItemAt(longer, j) /\ longer[j].says # "nothing")
    BY <1>1, <1>3, <1>4 DEF SilentSince
  <2> QED BY <1>4, <2>1, <2>2 DEF SilentSince
<1>6. /\ \A j \in m..N : SilentAt(longer, j)
      /\ ~HeadingAt(longer, N + 1) => SilentAt(longer, N + 1)
  BY <1>2, <1>5, SilentAre
<1>7. \A x \in KeptIn(longer) : ~SilentAt(longer, x[2].at[1])
  BY DEF KeptIn
<1>8. ASSUME NEW text, SilentAt(longer, text.at[1]) PROVE <<Len(w.sections), text>> \notin KeptIn(longer)
  <2> DEFINE x == <<Len(w.sections), text>>
  <2>1. x[2] = text
    OBVIOUS
  <2> HIDE DEF x
  <2>2. x \notin KeptIn(longer)
    BY <1>7, <1>8, <2>1
  <2> QED BY <2>2 DEF x
<1>9. Spare(w, Range(Waiting(w)), KeptIn(longer))
  BY <1>1, <1>6, <1>8 DEF Spare
<1>10. ASSUME ~HeadingAt(longer, N + 1)
       PROVE  Spare(w, Range(Waiting(w)) \cup Range(SaysNext(elements, e)), KeptIn(longer))
  BY <1>1, <1>2, <1>6, <1>8, <1>10 DEF Spare
<1> QED BY <1>9, <1>10 DEF longer, N

\* What was told is told still, whatever is to be kept of what comes after.
LEMMA StillTold ==
  ASSUME NEW w, NEW elements, NEW e, FiledFrom(w, elements), Further(elements, e)
  PROVE  Shed(SaidOf(elements), Told(w), KeptIn(Append(elements, e)))
<1> DEFINE kept == KeptIn(elements)
           others == KeptIn(Append(elements, e))
           said == SaidOf(elements)
<1>1. Shed(said, Told(w), kept) /\ SaidWell(elements)
  BY DEF FiledFrom
<1>2. Range(said) \cap kept = Range(said) \cap others
  BY <1>1, KeptSame DEF Further
<1> HIDE DEF kept, others, said
<1>3. Shed(said, Told(w), others)
  BY <1>1, <1>2, ShedOf
<1> QED BY <1>3 DEF others, said

\* An element that is no heading is given to the walk.
Takes(w, v, elements, e) ==
  LET longer == Append(elements, e)
      texts  == SaysNext(elements, e)
      last   == Len(elements) + 1
  IN  /\ Tidy(v) /\ Len(v.sections) = Len(w.sections)
      /\ Mute(v) => \/ /\ Mute(w) /\ ~IsItemAt(longer, last)
                       /\ Range(Waiting(v)) \subseteq Range(Waiting(w)) \cup Range(texts)
                    \/ /\ IsItemAt(longer, last) /\ e.says = "nothing"
                       /\ Range(Waiting(v)) \subseteq Range(texts)
      /\ (Mute(w) => Spare(w, Range(Waiting(w)) \cup Range(texts), KeptIn(longer))) =>
           Shed(Told(w) \o Here(w, texts), Told(v), KeptIn(longer))

\* It stands where those before it do, and is told after them.
LEMMA ElementTaken ==
  ASSUME NEW w, NEW v, NEW elements, NEW e, FiledFrom(w, elements), Further(elements, e),
         ~HeadingAt(Append(elements, e), Len(elements) + 1), Takes(w, v, elements, e)
  PROVE  FiledFrom(v, Append(elements, e))
<1> DEFINE longer == Append(elements, e)
           N == Len(elements)
           texts == SaysNext(elements, e)
           s == SectionIn(longer, N + 1)
           kept == KeptIn(longer)
           said == SaidOf(elements)
<1>1. /\ N \in Nat /\ IsList(elements) /\ longer[N + 1] = e /\ Len(longer) = N + 1
      /\ IsList(texts) /\ \A text \in Range(texts) : text.at[1] = N + 1
  BY NextSays
<1>2. s = SectionIn(elements, N) /\ SectionIn(elements, N) = Len(w.sections)
  <2>1. SectionIn(elements, N) \in Nat
        /\ SectionIn(longer, N + 1) = SectionIn(elements, N) + (IF HeadingAt(longer, N + 1) THEN 1 ELSE 0)
    BY <1>1, SectionsLonger
  <2> QED BY <2>1 DEF FiledFrom
<1>3. SaidWell(longer) /\ SaidOf(longer) = said \o SaidAt(longer, N + 1)
  <2>1. SaidWell(elements)
    BY DEF FiledFrom
  <2> QED BY <2>1, SaidWellLonger, SaidLonger DEF Further
<1>4. SaidAt(longer, N + 1) = Here(w, texts)
  <2>1. IsList(w.sections)
    BY TidyIs DEF FiledFrom
  <2>2. w.sections = <<>> <=> Len(w.sections) = 0
    BY <2>1, EmptyList DEF IsList
  <2>3. SaidAt(longer, N + 1) = IF s = 0 THEN <<>> ELSE InSection(s, texts)
    BY <1>1 DEF SaidAt, SaysNext
  <2> HIDE DEF longer, texts, s, N
  <2> QED BY <1>2, <2>2, <2>3 DEF Here
<1>5. /\ Tidy(v) /\ Len(v.sections) = Len(w.sections)
      /\ Mute(v) => \/ /\ Mute(w) /\ ~IsItemAt(longer, N + 1)
                       /\ Range(Waiting(v)) \subseteq Range(Waiting(w)) \cup Range(texts)
                    \/ /\ IsItemAt(longer, N + 1) /\ e.says = "nothing"
                       /\ Range(Waiting(v)) \subseteq Range(texts)
      /\ (Mute(w) => Spare(w, Range(Waiting(w)) \cup Range(texts), kept)) =>
           Shed(Told(w) \o Here(w, texts), Told(v), kept)
  BY DEF Takes
<1>6. Mute(w) => Spare(w, Range(Waiting(w)) \cup Range(texts), kept)
  BY SpareNext
<1>7. Shed(Told(w) \o Here(w, texts), Told(v), kept)
  BY <1>5, <1>6
<1>8. Shed(said, Told(w), kept)
  BY StillTold
<1>9. IsList(Here(w, texts))
  <2>1. IsList(w.sections)
    BY TidyIs DEF FiledFrom
  <2> HIDE DEF texts
  <2> QED BY <1>1, <2>1, HereIs
<1> DEFINE here == Here(w, texts)
<1> HIDE DEF said, kept, here
<1>10. Shed(said \o here, Told(w) \o here, kept)
  <2>1. IsList(here)
    BY <1>9 DEF here
  <2> QED BY <1>8, <2>1, ShedBefore
<1>11. Shed(said \o here, Told(v), kept)
  <2>1. Shed(Told(w) \o here, Told(v), kept)
    BY <1>7 DEF here
  <2> QED BY <1>10, <2>1, ShedTwice
<1>12. Shed(SaidOf(longer), Told(v), KeptIn(longer))
  BY <1>3, <1>4, <1>11 DEF here, kept
<1>13. ASSUME Mute(v)
       PROVE  \E m : /\ SilentSince(longer, m, N + 1)
                     /\ \A text \in Range(Waiting(v)) : text.at[1] \in m..(N + 1)
  <2> HIDE DEF longer, N, texts
  <2>1. CASE /\ Mute(w) /\ ~IsItemAt(longer, N + 1)
             /\ Range(Waiting(v)) \subseteq Range(Waiting(w)) \cup Range(texts)
    <3>1. PICK m : /\ SilentSince(elements, m, N)
                   /\ \A text \in Range(Waiting(w)) : text.at[1] \in m..N
      BY <2>1 DEF FiledFrom, N
    <3>2. \A n \in 1..N : /\ HeadingAt(longer, n) = HeadingAt(elements, n)
                          /\ IsItemAt(longer, n) = IsItemAt(elements, n)
                          /\ longer[n] = elements[n]
      BY <1>1, SameBefore DEF SameUpto, longer, N
    <3>3. m \in 1..N /\ \A j \in m..(N + 1) : j = N + 1 \/ (j \in m..N /\ j \in 1..N)
      BY <1>1, <3>1 DEF SilentSince
    <3>4. IsItemAt(longer, m) /\ longer[m].says = "nothing" /\ m \in 1..(N + 1)
      BY <1>1, <3>1, <3>2, <3>3 DEF SilentSince
    <3>5. ~HeadingAt(longer, N + 1)
      BY DEF longer, N
    <3>6. \A j \in m..(N + 1) : ~HeadingAt(longer, j) /\ ~(IsItemAt(longer, j) /\ longer[j].says # "nothing")
      BY <2>1, <3>1, <3>2, <3>3, <3>5 DEF SilentSince
    <3>7. SilentSince(longer, m, N + 1)
      BY <3>4, <3>6 DEF SilentSince
    <3>8. ASSUME NEW text \in Range(Waiting(v)) PROVE text.at[1] \in m..(N + 1)
      <4>1. CASE text \in Range(Waiting(w))
        <5>1. text.at[1] \in m..N
          BY <3>1, <4>1
        <5> DEFINE a == text.at[1]
        <5> HIDE DEF a
        <5>2. a \in m..N
          BY <5>1 DEF a
        <5>3. a \in m..(N + 1)
          BY <1>1, <3>3, <5>2
        <5> QED BY <5>3 DEF a
      <4>2. CASE text \in Range(texts)
        BY <1>1, <3>3, <4>2
      <4> QED BY <2>1, <4>1, <4>2
    <3> QED BY <3>7, <3>8
  <2>2. CASE /\ IsItemAt(longer, N + 1) /\ e.says = "nothing"
             /\ Range(Waiting(v)) \subseteq Range(texts)
    <3>1. N + 1 \in 1..(N + 1) /\ \A j \in (N + 1)..(N + 1) : j = N + 1
      BY <1>1
    <3>2. ~HeadingAt(longer, N + 1)
      BY DEF longer, N
    <3>3. SilentSince(longer, N + 1, N + 1)
      BY <1>1, <2>2, <3>1, <3>2 DEF SilentSince
    <3>4. \A text \in Range(Waiting(v)) : text.at[1] \in (N + 1)..(N + 1)
      BY <1>1, <2>2
    <3> QED BY <3>3, <3>4
  <2> QED BY <1>5, <1>13, <2>1, <2>2
<1> HIDE DEF texts, s
<1> QED BY <1>1, <1>2, <1>3, <1>5, <1>12, <1>13 DEF FiledFrom, s

-----------------------------------------------------------------------------
(* Each element taken                                                      *)

\* A paragraph where it stands.
At(e, n) == [e EXCEPT !.n = n]

\* What it says itself.
OwnText(e, n) == IF OwnParts(e) = <<>> THEN <<>> ELSE Text(At(e, n))

\* A paragraph says its text, then what the boxes it anchors say.
LEMMA ParagraphSays ==
  ASSUME NEW e, e.is = "paragraph", IsParagraph(e), NEW n
  PROVE  LET p == At(e, n)
         IN  /\ TextsOf(Placed(n, PartsOf(e))) = OwnText(e, n) \o TextsOf(Placed(p.n, ShapeParts(p)))
             /\ IsList(OwnText(e, n)) /\ IsList(TextsOf(Placed(p.n, ShapeParts(p))))
             /\ IsParagraph(p) /\ IsPart(p) /\ ListItem(p) = ListItem(e) /\ p.kind = e.kind
             /\ p.says = e.says /\ HeadingLevel(p) = HeadingLevel(e)
<1> DEFINE p == At(e, n)
           own == OwnParts(e)
           shapes == ShapeParts(e)
<1>1. p.n = n /\ IsParagraph(p) /\ HeadingLevel(p) = HeadingLevel(e)
  BY NumberedIs DEF At
<1>2. IsPart(p) /\ IsPart(e)
  BY <1>1 DEF IsParagraph
<1>3. {"kind", "says", "shapes", "own"} \subseteq DOMAIN e
  BY <1>2 DEF IsParagraph, IsPart
<1>4. p.kind = e.kind /\ p.says = e.says /\ p.shapes = e.shapes /\ p.own = e.own /\ p.style = e.style
  BY DEF At
<1>5. ListItem(p) = ListItem(e)
  <2> HIDE DEF p
  <2>1. \A numId, level : Indent(p, numId, level) = Indent(e, numId, level)
    BY <1>4 DEF Indent
  <2> QED BY <1>4, <2>1 DEF ListItem
<1>6. ShapeParts(p) = shapes
  <2> HIDE DEF p
  <2> QED BY <1>4 DEF ShapeParts
<1>7. PartsOf(e) = own \o shapes
  BY DEF PartsOf
<1>8. IsList(shapes) /\ IsList(own)
  <2>1. IsList(ShapeParts(e))
    <3> DEFINE boxes == AnchoredIn(e)
    <3>1. AreLists(boxes) /\ FlattenSeq(boxes) = ShapeParts(e)
      BY ShapesShow
    <3> HIDE DEF boxes
    <3>2. IsList(FlattenSeq(boxes))
      BY <3>1, EmptyList, FlattenLonger
    <3> QED BY <3>1, <3>2
  <2>2. IsList(<<e>>)
    BY EmptyList, AppendedIs
  <2> QED BY <2>1, <2>2, EmptyList DEF OwnParts
<1>9. TextsOf(Placed(n, own)) = OwnText(e, n) /\ IsList(OwnText(e, n))
  <2>1. CASE own = <<>>
    BY <2>1, EmptyList, NoParts DEF OwnText
  <2>2. CASE own # <<>>
    <3>1. own = <<e>> /\ OwnText(e, n) = Text(p)
      BY <2>2 DEF OwnParts, OwnText
    <3>2. Placed(n, <<e>>) = <<p>>
      BY DEF Placed, At
    <3>3. TextsOf(<<p>>) = Text(p) /\ IsList(Text(p))
      <4> HIDE DEF p
      <4>1. Speaks(OfPart, <<>>) /\ AllSpoken(OfPart, <<>>) = <<>>
        BY NoneSpoken
      <4>2. Spoken(OfPart, p) = Text(p) /\ IsList(Text(p))
        BY SpokenAre, TextIs
      <4> DEFINE none == <<>>
      <4>3. Speaks(OfPart, none) /\ IsList(Spoken(OfPart, p)) /\ AllSpoken(OfPart, none) = <<>>
        BY <4>1, <4>2
      <4>4. Append(none, p) = <<p>>
        OBVIOUS
      <4> HIDE DEF none
      <4>5. AllSpoken(OfPart, Append(none, p)) = AllSpoken(OfPart, none) \o Spoken(OfPart, p)
        BY <4>3, SpokenLonger
      <4>6. <<>> \o Text(p) = Text(p)
        BY <4>2, EmptyList, JoinedIs
      <4> QED BY <4>2, <4>3, <4>4, <4>5, <4>6, SpokenAre
    <3> QED BY <3>1, <3>2, <3>3
  <2> QED BY <2>1, <2>2
<1> HIDE DEF own, shapes
<1>10. /\ TextsOf(Placed(n, own \o shapes)) = TextsOf(Placed(n, own)) \o TextsOf(Placed(n, shapes))
       /\ IsList(TextsOf(Placed(n, own)))
  BY <1>8, PartsJoined
<1>11. IsList(TextsOf(Placed(n, shapes)))
  BY <1>8, PartsJoined
<1> QED BY <1>1, <1>2, <1>4, <1>5, <1>6, <1>7, <1>9, <1>10, <1>11

\* What is given and leaves the walk as open as it was is taken.
LEMMA GivenTaken ==
  ASSUME NEW w, NEW v, NEW elements, NEW e,
         ~Mute(v) \/ ~IsItemAt(Append(elements, e), Len(elements) + 1),
         Gives(w, v, SaysNext(elements, e), KeptIn(Append(elements, e)))
  PROVE  Takes(w, v, elements, e)
BY DEF Gives, Takes

\* A bookmark says nothing.
LEMMA BookmarkGiven ==
  ASSUME NEW w, NEW elements, NEW e, FiledFrom(w, elements), Further(elements, e), e.is = "bookmark",
         NEW v, Alike(v, w)
  PROVE  FiledFrom(v, Append(elements, e))
<1> DEFINE longer == Append(elements, e)
           last == Len(elements) + 1
           kept == KeptIn(longer)
<1>1. longer[last] = e
  BY NextSays
<1>2. ~HeadingAt(longer, last) /\ ~IsItemAt(longer, last)
  BY <1>1 DEF HeadingAt, IsItemAt
<1>3. SaysNext(elements, e) = <<>>
  <2>1. PartsOf(e) = <<>>
    BY DEF PartsOf
  <2> QED BY <2>1, NoParts DEF SaysNext
<1> HIDE DEF kept
<1>4. Gives(w, v, <<>>, kept)
  <2>1. Gives(w, w, <<>>, kept)
    BY GivesNothing DEF FiledFrom
  <2> QED BY <2>1, AlikeGives
<1>5. Takes(w, v, elements, e)
  BY <1>2, <1>3, <1>4, GivenTaken DEF kept
<1> QED BY <1>2, <1>5, ElementTaken

\* A list ended after a box is filed with it.
LEMMA RunsClosed ==
  ASSUME NEW w, Tidy(w), NEW kept
  PROVE  LET v == CloseList(CloseBox(w))
         IN  Gives(w, v, <<>>, kept) /\ Tidy(v) /\ Idle(v)
<1> DEFINE u == CloseBox(w)
           v == CloseList(u)
<1>1. Gives(w, u, <<>>, kept) /\ u.boxed = <<>>
  BY BoxClosed
<1>2. Tidy(u)
  BY <1>1 DEF Gives
<1> HIDE DEF u
<1>3. Gives(u, v, <<>>, kept) /\ Idle(v)
  BY <1>1, <1>2, ListClosed
<1>4. Tidy(v)
  BY <1>3 DEF Gives
<1> HIDE DEF v
<1>5. Gives(w, v, <<>> \o <<>>, kept)
  BY <1>1, <1>3, EmptyList, GivesOn
<1>6. <<>> \o <<>> = <<>>
  BY EmptyList, JoinedIs
<1> QED BY <1>3, <1>4, <1>5, <1>6 DEF u, v

\* A table is filed once what came before it is.
LEMMA TableGiven ==
  ASSUME NEW w, NEW elements, NEW e, FiledFrom(w, elements), Further(elements, e), e.is = "table",
         NEW v, Alike(v, AppendBlock(CloseList(CloseBox(w)), TableMarkdown(Len(elements) + 1, e)))
  PROVE  FiledFrom(v, Append(elements, e))
<1> DEFINE longer == Append(elements, e)
           last == Len(elements) + 1
           kept == KeptIn(longer)
           texts == SaysNext(elements, e)
           block == TableMarkdown(last, e)
           u == CloseList(CloseBox(w))
           x == AppendBlock(u, block)
<1>1. longer[last] = e /\ Known(e) /\ IsList(texts)
  BY NextSays
<1>2. ~HeadingAt(longer, last) /\ ~IsItemAt(longer, last)
  BY <1>1 DEF HeadingAt, IsItemAt
<1>3. block.says = texts
  <2>1. IsTable(e) /\ PartsOf(e) = TableParts(e)
    BY <1>1 DEF Known, PartsOf
  <2> QED BY <2>1, TableSays DEF SaysNext
<1>4. Tidy(w)
  BY DEF FiledFrom
<1> HIDE DEF kept, texts, block
<1>5. Gives(w, u, <<>>, kept) /\ Tidy(u) /\ Idle(u)
  BY <1>4, RunsClosed
<1> HIDE DEF u
<1>6. Gives(u, x, block.says, kept)
  <2>1. IsList(block.says)
    BY <1>1, <1>3
  <2> QED BY <1>5, <2>1, IdleFiles
<1> HIDE DEF x
<1>7. Gives(w, x, <<>> \o texts, kept)
  <2>1. Gives(u, x, texts, kept)
    BY <1>3, <1>6
  <2> QED BY <1>1, <1>4, <1>5, <2>1, EmptyList, GivesOn
<1>8. <<>> \o texts = texts
  BY <1>1, EmptyList, JoinedIs
<1>9. Gives(w, v, texts, kept)
  <2>1. Alike(v, x)
    BY DEF x, u, block
  <2>2. Gives(w, x, texts, kept)
    BY <1>7, <1>8
  <2> QED BY <2>1, <2>2, AlikeGives
<1>10. Takes(w, v, elements, e)
  BY <1>2, <1>9, GivenTaken DEF kept, texts
<1> QED BY <1>2, <1>10, ElementTaken

\* What a paragraph says itself is given before the boxes it anchors.
LEMMA ThenAnchored ==
  ASSUME NEW w, Tidy(w), NEW p, IsParagraph(p), NEW u, NEW x, Alike(x, u), NEW own, IsList(own),
         NEW kept, Gives(w, u, own, kept)
  PROVE  /\ Gives(w, TakeAnchored(x, p), own \o TextsOf(Placed(p.n, ShapeParts(p))), kept)
         /\ Mute(TakeAnchored(x, p)) => Mute(u)
<1> DEFINE texts == TextsOf(Placed(p.n, ShapeParts(p)))
           v == TakeAnchored(x, p)
<1>1. Gives(w, x, own, kept)
  BY AlikeGives
<1>2. Tidy(x)
  BY <1>1 DEF Gives
<1>3. Gives(x, v, texts, kept)
  BY <1>2, AnchoredTaken
<1>4. IsList(texts)
  <2> DEFINE boxes == AnchoredIn(p)
             parts == ShapeParts(p)
             n == p.n
  <2>1. AreLists(boxes) /\ FlattenSeq(boxes) = ShapeParts(p)
    BY ShapesShow
  <2> HIDE DEF boxes
  <2>2. IsList(FlattenSeq(boxes))
    BY <2>1, EmptyList, FlattenLonger
  <2>3. IsList(parts)
    BY <2>1, <2>2
  <2> HIDE DEF parts, n
  <2>4. IsList(TextsOf(Placed(n, parts)))
    BY <2>3, PartsJoined
  <2> QED BY <2>4 DEF parts, n
<1> HIDE DEF texts, v
<1>5. Gives(w, v, own \o texts, kept)
  BY <1>1, <1>3, <1>4, GivesOn
<1>6. Mute(x) = Mute(u)
  BY DEF Mute, Alike
<1>7. Mute(v) => Mute(u)
  BY <1>3, <1>6 DEF Gives
<1> QED BY <1>5, <1>7 DEF texts, v

\* A paragraph that is no heading, where it stands.
IsBody(elements, e) ==
  Further(elements, e) /\ e.is = "paragraph" /\ HeadingLevel(e) = 0

\* It opens no section; it is an item where its numbering says so.
LEMMA BodyElement ==
  ASSUME NEW elements, NEW e, IsBody(elements, e)
  PROVE  LET last == Len(elements) + 1
             longer == Append(elements, e)
         IN  /\ IsParagraph(e) /\ longer[last] = e /\ ~HeadingAt(longer, last)
             /\ IsItemAt(longer, last) <=> ~IsBoxed(e) /\ ListItem(e) # <<>>
             /\ SaysNext(elements, e) =
                  OwnText(e, last) \o TextsOf(Placed(At(e, last).n, ShapeParts(At(e, last))))
<1> DEFINE last == Len(elements) + 1
           longer == Append(elements, e)
<1>1. longer[last] = e /\ Known(e)
  BY NextSays DEF IsBody
<1>2. IsParagraph(e)
  BY <1>1 DEF Known, IsBody
<1> HIDE DEF longer, last
<1>3. ~HeadingAt(longer, last)
  BY <1>1 DEF HeadingAt, IsBody
<1>4. IsItemAt(longer, last) <=> ~IsBoxed(e) /\ ListItem(e) # <<>>
  BY <1>1, <1>3 DEF IsItemAt, IsBody
<1>5. SaysNext(elements, e) = TextsOf(Placed(last, PartsOf(e)))
  BY DEF SaysNext, last
<1>6. TextsOf(Placed(last, PartsOf(e))) =
        OwnText(e, last) \o TextsOf(Placed(At(e, last).n, ShapeParts(At(e, last))))
  BY <1>2, ParagraphSays DEF IsBody
<1> QED BY <1>1, <1>2, <1>3, <1>4, <1>5, <1>6 DEF longer, last

\* A walk without its bookmarks is alike.
LEMMA UnopenedAlike ==
  ASSUME NEW w, Tidy(w)
  PROVE  Alike([w EXCEPT !.opened = <<>>], w)
<1>1. DOMAIN w = Parts
  BY DEF Tidy, HasShape, IsWalk
<1> QED BY <1>1 DEF Alike, Parts

\* What is given of such a paragraph, its own text first, is taken.
LEMMA BodyGiven ==
  ASSUME NEW w, NEW elements, NEW e, FiledFrom(w, elements), IsBody(elements, e), NEW u,
         Gives(w, u, OwnText(e, Len(elements) + 1), KeptIn(Append(elements, e))),
         ~Mute(u) \/ IsBoxed(e) \/ ListItem(e) = <<>>
  PROVE  FiledFrom(TakeAnchored([u EXCEPT !.opened = <<>>], At(e, Len(elements) + 1)), Append(elements, e))
<1> DEFINE last == Len(elements) + 1
           longer == Append(elements, e)
           kept == KeptIn(longer)
           p == At(e, last)
           own == OwnText(e, last)
           x == [u EXCEPT !.opened = <<>>]
           v == TakeAnchored(x, p)
           texts == TextsOf(Placed(p.n, ShapeParts(p)))
<1>1. /\ IsParagraph(e) /\ ~HeadingAt(longer, last)
      /\ IsItemAt(longer, last) <=> ~IsBoxed(e) /\ ListItem(e) # <<>>
      /\ SaysNext(elements, e) = own \o texts
  BY BodyElement
<1>2. IsParagraph(p) /\ IsList(own)
  BY <1>1, ParagraphSays DEF IsBody
<1>3. Tidy(w) /\ Tidy(u)
  BY DEF FiledFrom, Gives
<1>4. Alike(x, u)
  BY <1>3, UnopenedAlike
<1>5. Gives(w, u, own, kept)
  OBVIOUS
<1> HIDE DEF x, p, own, kept
<1>6. Gives(w, v, own \o TextsOf(Placed(p.n, ShapeParts(p))), kept) /\ (Mute(v) => Mute(u))
  BY <1>2, <1>3, <1>4, <1>5, ThenAnchored
<1> HIDE DEF v
<1>7. Gives(w, v, SaysNext(elements, e), KeptIn(longer))
  BY <1>1, <1>6 DEF kept
<1>8. ~Mute(v) \/ ~IsItemAt(longer, last)
  BY <1>1, <1>6
<1>9. Takes(w, v, elements, e)
  BY <1>7, <1>8, GivenTaken
<1>10. FiledFrom(v, longer)
  BY <1>1, <1>9, ElementTaken DEF IsBody
<1> QED BY <1>10 DEF v, x, p

\* A paragraph with a border is held in its box.
LEMMA BoxedGiven ==
  ASSUME NEW w, NEW elements, NEW e, FiledFrom(w, elements), IsBody(elements, e), IsBoxed(e)
  PROVE  LET p == At(e, Len(elements) + 1)
         IN  FiledFrom(TakeAnchored([TakeBordered(w, p) EXCEPT !.opened = <<>>], p), Append(elements, e))
<1> DEFINE last == Len(elements) + 1
           kept == KeptIn(Append(elements, e))
           p == At(e, last)
           u == TakeBordered(w, p)
<1>1. IsParagraph(e)
  BY BodyElement
<1>2. IsPart(p)
  BY <1>1, ParagraphSays DEF IsBody
<1>3. OwnText(e, last) = Text(p)
  <2>1. OwnParts(e) = <<e>>
    BY DEF OwnParts, IsBody
  <2> QED BY <2>1 DEF OwnText
<1>4. Tidy(w)
  BY DEF FiledFrom
<1> HIDE DEF kept, p
<1>5. Gives(w, u, Text(p), kept)
  BY <1>2, <1>4, BorderedTaken
<1> HIDE DEF u
<1>6. Gives(w, u, OwnText(e, last), KeptIn(Append(elements, e)))
  BY <1>3, <1>5 DEF kept
<1>7. FiledFrom(TakeAnchored([u EXCEPT !.opened = <<>>], At(e, last)), Append(elements, e))
  BY <1>6, BodyGiven
<1> QED BY <1>7 DEF u, p

\* Prose and entries of the contents.
LEMMA ProseGiven ==
  ASSUME NEW w, NEW elements, NEW e, FiledFrom(w, elements), IsBody(elements, e), ~IsBoxed(e),
         e.kind = "toc" \/ ListItem(e) = <<>>
  PROVE  LET p == At(e, Len(elements) + 1)
         IN  FiledFrom(TakeAnchored([CollectBody(CloseBox(w), p) EXCEPT !.opened = <<>>], p),
                       Append(elements, e))
<1> DEFINE last == Len(elements) + 1
           kept == KeptIn(Append(elements, e))
           p == At(e, last)
           c == CloseBox(w)
           u == CollectBody(c, p)
           own == IF p.kind = "toc" THEN <<>> ELSE Text(p)
<1>1. IsParagraph(e)
  BY BodyElement
<1>2. p.kind = e.kind /\ ListItem(p) = ListItem(e) /\ IsList(own)
  <2>1. p.kind = e.kind /\ ListItem(p) = ListItem(e)
    BY <1>1, ParagraphSays DEF IsBody
  <2> QED BY <2>1, TextIs, EmptyList
<1>3. OwnText(e, last) = own
  <2>1. OwnParts(e) = IF e.kind = "toc" THEN <<>> ELSE <<e>>
    BY DEF OwnParts, IsBody
  <2> QED BY <1>2, <2>1 DEF OwnText
<1>4. Tidy(w)
  BY DEF FiledFrom
<1> HIDE DEF kept, p
<1>5. Gives(w, c, <<>>, kept) /\ c.boxed = <<>>
  BY <1>4, BoxClosed
<1>6. Tidy(c)
  BY <1>5 DEF Gives
<1> HIDE DEF c
<1>7. Gives(c, u, own, kept)
  BY <1>2, <1>5, <1>6, ProseTaken
<1>8. ~Mute(u) \/ ListItem(e) = <<>>
  <2>1. CASE e.kind = "toc"
    <3>1. u = CloseList(c)
      BY <1>2, <2>1 DEF CollectBody
    <3>2. Idle(CloseList(c))
      BY <1>5, <1>6, ListClosed
    <3> QED BY <3>1, <3>2 DEF Idle, Mute
  <2>2. CASE ListItem(e) = <<>>
    BY <2>2
  <2> QED BY <2>1, <2>2
<1> HIDE DEF u, own
<1>9. Gives(w, u, <<>> \o own, kept)
  BY <1>2, <1>4, <1>5, <1>7, EmptyList, GivesOn
<1>10. <<>> \o own = own
  BY <1>2, EmptyList, JoinedIs
<1>11. Gives(w, u, OwnText(e, last), KeptIn(Append(elements, e)))
  BY <1>3, <1>9, <1>10 DEF kept
<1>12. FiledFrom(TakeAnchored([u EXCEPT !.opened = <<>>], At(e, last)), Append(elements, e))
  BY <1>8, <1>11, BodyGiven
<1> QED BY <1>12 DEF u, p, c

\* What is held for an item that says nothing is not to be kept.
LEMMA SpareItem ==
  ASSUME NEW w, NEW elements, NEW e, FiledFrom(w, elements), Further(elements, e),
         IsItemAt(Append(elements, e), Len(elements) + 1), e.says = "nothing"
  PROVE  Spare(w, Range(SaysNext(elements, e)), KeptIn(Append(elements, e)))
<1> DEFINE longer == Append(elements, e)
           last == Len(elements) + 1
           texts == SaysNext(elements, e)
           kept == KeptIn(longer)
<1>1. /\ longer[last] = e /\ last \in Nat \ {0}
      /\ \A text \in Range(texts) : text.at[1] = last
  BY NextSays
<1> HIDE DEF longer, last, texts
<1>2. SilentSince(longer, last, last)
  <2>1. last \in 1..last /\ \A j \in last..last : j = last
    BY <1>1
  <2>2. IsItemAt(longer, last) /\ longer[last].says = "nothing" /\ ~HeadingAt(longer, last)
    BY <1>1 DEF longer, last, IsItemAt
  <2> QED BY <2>1, <2>2 DEF SilentSince
<1>3. SilentAt(longer, last)
  <2>1. last \in Nat /\ last \in last..last
    BY <1>1
  <2> QED BY <1>2, <2>1, SilentAre
<1>4. ASSUME NEW text \in Range(texts) PROVE <<Len(w.sections), text>> \notin kept
  <2> DEFINE x == <<Len(w.sections), text>>
  <2>1. x[2] = text
    OBVIOUS
  <2> HIDE DEF x
  <2>2. SilentAt(longer, x[2].at[1])
    BY <1>1, <1>3, <2>1
  <2>3. x \notin kept
    BY <2>2 DEF KeptIn
  <2> QED BY <2>3 DEF x
<1> QED BY <1>4 DEF Spare, longer, last, texts

\* An item is told after what was held for it; where it says nothing, and no other
\* of its run does, what is held for it may be lost.
LEMMA ItemGiven ==
  ASSUME NEW w, NEW elements, NEW e, FiledFrom(w, elements), IsBody(elements, e), ~IsBoxed(e),
         e.kind # "toc", ListItem(e) # <<>>
  PROVE  LET p == At(e, Len(elements) + 1)
         IN  FiledFrom(TakeAnchored([CollectBody(CloseBox(w), p) EXCEPT !.opened = <<>>], p),
                       Append(elements, e))
<1> DEFINE last == Len(elements) + 1
           longer == Append(elements, e)
           kept == KeptIn(longer)
           p == At(e, last)
           c == CloseBox(w)
           item == ListItem(p)
           t == TakePending(c, item[1])
           own == Text(p)
           entry == [item |-> item, text |-> own]
           u == [t EXCEPT !.items = Append(@, entry)]
           x == [u EXCEPT !.opened = <<>>]
           v == TakeAnchored(x, p)
           texts == TextsOf(Placed(p.n, ShapeParts(p)))
           next == SaysNext(elements, e)
<1>1. IsParagraph(e) /\ ~HeadingAt(longer, last) /\ IsItemAt(longer, last) /\ Further(elements, e)
  BY BodyElement DEF IsBody
<1>2. /\ p.kind = e.kind /\ item = ListItem(e) /\ IsList(own) /\ IsPart(p) /\ IsParagraph(p)
      /\ p.says = e.says /\ IsList(texts)
  BY <1>1, ParagraphSays, TextIs DEF IsBody
<1>3. OwnText(e, last) = own
  <2>1. OwnParts(e) = <<e>>
    BY DEF OwnParts, IsBody
  <2> QED BY <2>1 DEF OwnText
<1>4. next = own \o texts
  BY <1>3, BodyElement
<1>5. Tidy(w)
  BY DEF FiledFrom
<1>6. u = CollectBody(c, p)
  BY <1>2 DEF CollectBody
<1>7. item # <<>> /\ IsEntry(entry) /\ entry.item = item /\ entry.text = own
  <2>1. item # <<>>
    BY <1>2
  <2>2. IsMarked(item[1])
    BY <1>2, <2>1, ItemIsMarked
  <2> HIDE DEF item, own
  <2> QED BY <2>1, <2>2 DEF IsEntry
<1>8. own = <<>> => e.says = "nothing"
  <2> SUFFICES ASSUME e.says # "nothing" PROVE own # <<>>
    OBVIOUS
  <2>1. own = << [at |-> <<p.n, p.k>>, link |-> p.link, hashes |-> p.hashes] >>
    BY <1>2 DEF Text
  <2> HIDE DEF own, p
  <2> QED BY <2>1
<1> HIDE DEF kept, p, item, own, texts, next, entry
<1>9. Gives(w, c, <<>>, kept) /\ c.boxed = <<>>
  BY <1>5, BoxClosed
<1>10. Tidy(c)
  BY <1>9 DEF Gives
<1> HIDE DEF c
<1>11. Gives(c, t, <<>>, kept) /\ t.pending = <<>> /\ t.boxed = <<>>
  BY <1>9, <1>10, PendingTaken
<1>12. Tidy(t)
  BY <1>11 DEF Gives
<1> HIDE DEF t
<1>13. Gives(w, t, <<>> \o <<>>, kept)
  BY <1>5, <1>9, <1>11, EmptyList, GivesOn
<1>14. Gives(w, t, <<>>, kept)
  <2>1. <<>> \o <<>> = <<>>
    BY EmptyList, JoinedIs
  <2> QED BY <1>13, <2>1
<1>15. /\ Tidy(u) /\ u.sections = t.sections /\ Told(u) = Told(t) \o Here(t, own)
       /\ Waiting(u) = <<>> /\ (Mute(u) => own = <<>>)
  BY <1>2, <1>7, <1>11, <1>12, ItemTaken
<1> HIDE DEF u
<1>16. Alike(x, u)
  BY <1>15, UnopenedAlike
<1> HIDE DEF x
<1>17. Tidy(x) /\ Told(x) = Told(u) /\ Waiting(x) = Waiting(u) /\ Mute(x) = Mute(u)
  BY <1>15, <1>16, AlikeTells
<1>18. Gives(x, v, texts, kept)
  BY <1>2, <1>17, AnchoredTaken DEF texts
<1> HIDE DEF v
<1>19. Tidy(v) /\ Len(v.sections) = Len(x.sections) /\ (Mute(v) => Mute(x))
       /\ Range(Waiting(v)) \subseteq Range(Waiting(x)) \cup Range(texts)
       /\ ((Mute(x) => Spare(x, Range(Waiting(x)) \cup Range(texts), kept)) =>
             Shed(Told(x) \o Here(x, texts), Told(v), kept))
  BY <1>18 DEF Gives
<1>20. Range(Waiting(x)) = {}
  BY <1>15, <1>17, EmptyList
<1>21. Len(t.sections) = Len(w.sections) /\ Len(x.sections) = Len(w.sections)
  <2>1. Len(t.sections) = Len(w.sections)
    BY <1>14 DEF Gives
  <2> QED BY <1>15, <1>16, <2>1 DEF Alike
<1>22. Range(next) = Range(own) \cup Range(texts) /\ IsList(next)
  BY <1>2, <1>4, JoinedIs
<1>23. Mute(x) => Spare(x, Range(texts), kept)
  <2> SUFFICES ASSUME Mute(x) PROVE Spare(x, Range(texts), kept)
    OBVIOUS
  <2>1. e.says = "nothing"
    BY <1>8, <1>15, <1>17
  <2>2. Spare(w, Range(next), kept)
    BY <1>1, <2>1, SpareItem DEF next, kept
  <2> QED BY <1>21, <1>22, <2>2 DEF Spare
<1>24. Shed(Told(x) \o Here(x, texts), Told(v), kept)
  <2>1. Range(Waiting(x)) \cup Range(texts) = Range(texts)
    BY <1>20
  <2> QED BY <1>19, <1>23, <2>1
<1>25. /\ IsList(w.sections) /\ IsList(t.sections) /\ IsList(x.sections)
       /\ IsList(Told(w)) /\ IsList(Told(t)) /\ IsList(Told(x))
  BY <1>5, <1>12, <1>17, TidyIs
<1>26. /\ Here(t, own) = Here(w, own) /\ Here(x, texts) = Here(w, texts)
       /\ Here(w, next) = Here(w, own) \o Here(w, texts)
       /\ IsList(Here(w, own)) /\ IsList(Here(w, texts))
  <2>1. Here(t, own) = Here(w, own)
    BY <1>21, <1>25, HereSame
  <2>2. Here(x, texts) = Here(w, texts)
    BY <1>21, <1>25, HereSame
  <2>3. Here(w, own \o texts) = Here(w, own) \o Here(w, texts)
    BY <1>2, <1>25, HereIs
  <2>4. IsList(Here(w, own)) /\ IsList(Here(w, texts))
    BY <1>2, <1>25, HereIs
  <2> QED BY <1>4, <2>1, <2>2, <2>3, <2>4
<1> DEFINE a == Here(w, own)
           b == Here(w, texts)
<1> HIDE DEF a, b
<1>27. ASSUME Mute(w) => Spare(w, Range(Waiting(w)) \cup Range(next), kept)
       PROVE  Shed(Told(w) \o Here(w, next), Told(v), kept)
  <2>1. Shed(Told(w) \o <<>>, Told(t), kept)
    <3>1. Mute(w) => Spare(w, Range(Waiting(w)) \cup Range(<<>>), kept)
      BY <1>27, EmptyList DEF Spare
    <3>2. Here(w, <<>>) = <<>>
      BY <1>25, EmptyList, HereIs
    <3> QED BY <1>14, <3>1, <3>2 DEF Gives
  <2>2. Told(w) \o <<>> = Told(w)
    BY <1>25, EmptyList, JoinedIs
  <2>3. Shed(Told(w), Told(t), kept)
    BY <2>1, <2>2
  <2>4. IsList(a) /\ IsList(b) /\ IsList(Told(w)) /\ IsList(Told(t))
    BY <1>25, <1>26 DEF a, b
  <2>5. Told(x) = Told(t) \o a
    BY <1>15, <1>17, <1>26 DEF a
  <2>6. Shed(Told(w) \o a, Told(t) \o a, kept)
    BY <2>3, <2>4, ShedBefore
  <2>7. Shed(Told(w) \o a, Told(x), kept)
    BY <2>5, <2>6
  <2>8. Shed((Told(w) \o a) \o b, Told(x) \o b, kept)
    BY <2>4, <2>7, ShedBefore
  <2>9. Shed(Told(x) \o b, Told(v), kept)
    BY <1>24, <1>26 DEF b
  <2>10. Shed((Told(w) \o a) \o b, Told(v), kept)
    BY <2>8, <2>9, ShedTwice
  <2>11. (Told(w) \o a) \o b = Told(w) \o (a \o b)
    BY <2>4, JoinedThrice
  <2>12. a \o b = Here(w, next)
    BY <1>26 DEF a, b
  <2> QED BY <2>10, <2>11, <2>12
<1>28. Takes(w, v, elements, e)
  <2>1. Tidy(v) /\ Len(v.sections) = Len(w.sections)
    BY <1>19, <1>21
  <2>2. ASSUME Mute(v)
        PROVE  /\ IsItemAt(longer, last) /\ e.says = "nothing"
               /\ Range(Waiting(v)) \subseteq Range(next)
    <3>1. Mute(x) /\ e.says = "nothing"
      BY <1>8, <1>15, <1>17, <1>19, <2>2
    <3>2. Range(Waiting(v)) \subseteq Range(next)
      BY <1>19, <1>20, <1>22
    <3> QED BY <1>1, <3>1, <3>2
  <2> QED BY <1>27, <2>1, <2>2 DEF Takes, next, kept
<1>29. FiledFrom(v, longer)
  BY <1>1, <1>28, ElementTaken
<1>30. v = TakeAnchored([CollectBody(c, p) EXCEPT !.opened = <<>>], p)
  BY <1>6 DEF v, x, u, t
<1> QED BY <1>29, <1>30 DEF c, p

\* A heading opens a section once what came before it is filed, with the boxes it
\* anchors in it.
LEMMA HeadingGiven ==
  ASSUME NEW w, NEW elements, NEW e, FiledFrom(w, elements), Further(elements, e),
         e.is = "paragraph", HeadingLevel(e) > 0, NEW bookmarks
  PROVE  LET p == At(e, Len(elements) + 1)
             opened == OpenSection(CloseList(CloseBox(w)), p)
         IN  FiledFrom(TakeAnchored([opened EXCEPT !.bookmarks = bookmarks, !.opened = <<>>], p),
                       Append(elements, e))
<1> DEFINE N == Len(elements)
           last == N + 1
           longer == Append(elements, e)
           said == SaidOf(elements)
           kept == KeptIn(longer)
           p == At(e, last)
           u == CloseList(CloseBox(w))
           opened == OpenSection(u, p)
           x == [opened EXCEPT !.bookmarks = bookmarks, !.opened = <<>>]
           v == TakeAnchored(x, p)
           texts == TextsOf(Placed(p.n, ShapeParts(p)))
           next == SaysNext(elements, e)
           s == SectionIn(longer, last)
<1>1. /\ Known(e) /\ N \in Nat /\ IsList(elements) /\ longer[last] = e /\ Len(longer) = last
      /\ IsList(next)
  BY NextSays
<1>2. IsParagraph(e)
  BY <1>1 DEF Known
<1>3. IsParagraph(p) /\ IsList(texts) /\ next = texts
  <2>1. OwnText(e, last) = <<>>
    BY DEF OwnText, OwnParts
  <2>2. IsParagraph(p) /\ IsList(texts) /\ TextsOf(Placed(last, PartsOf(e))) = OwnText(e, last) \o texts
    BY <1>2, ParagraphSays
  <2> HIDE DEF texts
  <2>3. <<>> \o texts = texts
    BY <2>2, EmptyList, JoinedIs
  <2> QED BY <2>1, <2>2, <2>3 DEF SaysNext
<1>4. HeadingAt(longer, last)
  <2> HIDE DEF longer, last
  <2> QED BY <1>1 DEF HeadingAt
<1>5. Tidy(w) /\ Len(w.sections) = SectionIn(elements, N)
  BY DEF FiledFrom
<1>6. s = Len(w.sections) + 1 /\ Len(w.sections) \in Nat
  <2>1. /\ SectionIn(elements, N) \in Nat
        /\ s = SectionIn(elements, N) + (IF HeadingAt(longer, last) THEN 1 ELSE 0)
    BY <1>1, SectionsLonger
  <2> QED BY <1>4, <1>5, <2>1
<1>7. SaidWell(longer) /\ SaidOf(longer) = said \o SaidAt(longer, last) /\ IsList(said)
      /\ IsList(SaidAt(longer, last))
  <2>1. SaidWell(elements)
    BY DEF FiledFrom
  <2> QED BY <2>1, SaidWellLonger, SaidLonger DEF Further
<1>8. Mute(w) => Spare(w, Range(Waiting(w)), kept)
  BY SpareNext
<1>9. Shed(said, Told(w), kept)
  BY StillTold
<1>10. SaidAt(longer, last) = InSection(s, texts)
  <2>1. s # 0
    BY <1>6
  <2>2. texts = TextsOf(Placed(last, PartsOf(longer[last])))
    BY <1>1, <1>3 DEF SaysNext
  <2> HIDE DEF texts, longer, last, s
  <2>3. SaidAt(longer, last) = IF s = 0 THEN <<>> ELSE InSection(s, TextsOf(Placed(last, PartsOf(longer[last]))))
    BY DEF SaidAt, s
  <2> QED BY <2>1, <2>2, <2>3
<1> HIDE DEF said, kept, p, texts, next, s
<1>11. Gives(w, u, <<>>, kept) /\ Tidy(u) /\ Idle(u)
  BY <1>5, RunsClosed
<1>12. Len(u.sections) = Len(w.sections)
  BY <1>11 DEF Gives
<1>13. Shed(said, Told(u), kept)
  <2>1. IsList(w.sections) /\ IsList(Told(w))
    BY <1>5, TidyIs
  <2>2. Mute(w) => Spare(w, Range(Waiting(w)) \cup Range(<<>>), kept)
    BY <1>8, EmptyList DEF Spare
  <2>3. Here(w, <<>>) = <<>> /\ Told(w) \o <<>> = Told(w)
    BY <2>1, EmptyList, HereIs, JoinedIs
  <2>4. Shed(Told(w), Told(u), kept)
    BY <1>11, <2>2, <2>3 DEF Gives
  <2> QED BY <1>9, <2>4, ShedTwice
<1> HIDE DEF u
<1>14. /\ Files(opened.sections) /\ Len(opened.sections) = Len(u.sections) + 1
       /\ FiledIn(opened.sections) = Told(u) /\ Idle(opened) /\ HasShape(opened)
  BY <1>11, OpenedTells
<1> HIDE DEF opened
<1>15. Tidy(opened) /\ Told(opened) = Told(u) /\ ~Mute(opened) /\ Waiting(opened) = <<>>
  BY <1>14, IdleTells
<1>16. Alike(x, opened)
  <2>1. DOMAIN opened = Parts
    BY <1>14 DEF HasShape, IsWalk
  <2> QED BY <2>1 DEF Alike, Parts
<1> HIDE DEF x
<1>17. Tidy(x) /\ Told(x) = Told(u) /\ ~Mute(x) /\ Waiting(x) = <<>> /\ x.sections = opened.sections
  BY <1>15, <1>16, AlikeTells DEF Alike
<1>18. Gives(x, v, texts, kept)
  BY <1>3, <1>17, AnchoredTaken DEF texts
<1> HIDE DEF v
<1>19. Tidy(v) /\ Len(v.sections) = s /\ Len(x.sections) = s /\ ~Mute(v)
  BY <1>6, <1>12, <1>14, <1>17, <1>18 DEF Gives
<1>20. Shed(Told(x) \o Here(x, texts), Told(v), kept)
  BY <1>17, <1>18 DEF Gives
<1>21. Here(x, texts) = SaidAt(longer, last)
  <2>1. x.sections # <<>>
    BY <1>6, <1>19, EmptyList
  <2> QED BY <1>10, <1>19, <2>1 DEF Here
<1> DEFINE more == SaidAt(longer, last)
<1> HIDE DEF more
<1>22. IsList(more) /\ Shed(Told(u) \o more, Told(v), kept)
  BY <1>7, <1>17, <1>20, <1>21 DEF more
<1>23. Shed(said \o more, Told(u) \o more, kept)
  BY <1>13, <1>22, ShedBefore
<1>24. Shed(said \o more, Told(v), kept)
  BY <1>22, <1>23, ShedTwice
<1>25. Shed(SaidOf(longer), Told(v), KeptIn(longer))
  BY <1>7, <1>24 DEF more, kept
<1>26. FiledFrom(v, longer)
  BY <1>1, <1>7, <1>19, <1>25 DEF FiledFrom, s
<1> QED BY <1>26 DEF v, x, opened, u, p

-----------------------------------------------------------------------------
(* The invariant                                                           *)

\* What waits when the document ends behind an item that says nothing is not to be kept.
LEMMA SpareNow ==
  ASSUME NEW w, NEW elements, FiledFrom(w, elements), BodyKnown(elements), Mute(w)
  PROVE  Spare(w, Range(Waiting(w)), KeptIn(elements))
<1> DEFINE N == Len(elements)
<1>1. PICK m : /\ SilentSince(elements, m, N)
               /\ \A text \in Range(Waiting(w)) : text.at[1] \in m..N
  BY DEF FiledFrom
<1>2. N \in Nat
  BY DEF BodyKnown, IsList
<1> HIDE DEF N
<1>3. \A j \in m..N : SilentAt(elements, j)
  BY <1>1, <1>2, SilentAre
<1>4. ASSUME NEW text \in Range(Waiting(w)) PROVE <<Len(w.sections), text>> \notin KeptIn(elements)
  <2> DEFINE x == <<Len(w.sections), text>>
  <2>1. x[2] = text
    OBVIOUS
  <2> HIDE DEF x
  <2>2. SilentAt(elements, x[2].at[1])
    BY <1>1, <1>3, <2>1
  <2>3. x \notin KeptIn(elements)
    BY <2>2 DEF KeptIn
  <2> QED BY <2>3 DEF x
<1> QED BY <1>4 DEF Spare

\* At the end what is held is filed.
LEMMA EndGiven ==
  ASSUME NEW w, NEW elements, FiledFrom(w, elements), BodyKnown(elements)
  PROVE  LET v == CloseList(CloseBox(w))
         IN  FiledFrom(v, elements) /\ Idle(v)
<1> DEFINE v == CloseList(CloseBox(w))
           kept == KeptIn(elements)
<1>1. /\ Tidy(w) /\ Len(w.sections) = SectionIn(elements, Len(elements))
      /\ SaidWell(elements) /\ Shed(SaidOf(elements), Told(w), kept)
  BY DEF FiledFrom
<1>2. Mute(w) => Spare(w, Range(Waiting(w)), kept)
  BY SpareNow
<1> HIDE DEF kept
<1>3. Gives(w, v, <<>>, kept) /\ Tidy(v) /\ Idle(v)
  BY <1>1, RunsClosed
<1> HIDE DEF v
<1>4. IsList(w.sections) /\ IsList(Told(w))
  BY <1>1, TidyIs
<1>5. Mute(w) => Spare(w, Range(Waiting(w)) \cup Range(<<>>), kept)
  BY <1>2, EmptyList DEF Spare
<1>6. Here(w, <<>>) = <<>> /\ Told(w) \o <<>> = Told(w)
  BY <1>4, EmptyList, HereIs, JoinedIs
<1>7. Shed(Told(w), Told(v), kept) /\ Len(v.sections) = Len(w.sections)
  BY <1>3, <1>5, <1>6 DEF Gives
<1>8. Shed(SaidOf(elements), Told(v), kept)
  BY <1>1, <1>7, ShedTwice
<1>9. ~Mute(v)
  BY <1>3 DEF Idle, Mute
<1>10. FiledFrom(v, elements)
  BY <1>1, <1>3, <1>7, <1>8, <1>9 DEF FiledFrom, kept
<1> QED BY <1>3, <1>10 DEF v

\* The walk tells what the body says; at its end all of it is filed.
FiledInv ==
  /\ kind \in DOMAIN Bodies /\ BodyKnown(body) /\ FiledFrom(walk, body)
  /\ ended => Idle(walk)

\* Nothing is said of no element.
LEMMA InitFiled == Init => FiledInv
<1> SUFFICES ASSUME Init PROVE FiledInv
  OBVIOUS
<1>1. /\ kind \in DOMAIN Bodies /\ body = <<>> /\ ~ended
      /\ walk.sections = <<>> /\ walk.items = <<>> /\ walk.pending = <<>> /\ walk.boxed = <<>>
      /\ DOMAIN walk = Parts
  BY DEF Init, WalkInit, Parts
<1>2. HasShape(walk) /\ Files(walk.sections) /\ Idle(walk)
  <2>1. IsList(walk.sections) /\ Len(walk.sections) = 0 /\ IsList(walk.pending)
    BY <1>1, EmptyList
  <2>2. IsRun(walk.items)
    BY <1>1, NoRun
  <2>3. \A i \in 1..Len(walk.sections) : FALSE
    BY <2>1
  <2> QED BY <1>1, <2>1, <2>2, <2>3 DEF HasShape, IsWalk, Files, Idle
<1>3. Tidy(walk) /\ Told(walk) = FiledIn(walk.sections) /\ ~Mute(walk)
  BY <1>2, IdleTells
<1>4. SaidOf(body) = <<>> /\ SaidWell(body) /\ BodyKnown(body)
  BY <1>1, NothingToSay
<1>5. FiledIn(walk.sections) = <<>>
  <2>1. /\ Len(FiledEach(<<>>)) = Len(<<>>) /\ IsList(FiledEach(<<>>))
        /\ FiledIn(<<>>) = FlattenSeq(FiledEach(<<>>))
    BY <1>1, <1>2, FiledIs DEF AreLists
  <2>2. FiledEach(<<>>) = <<>>
    BY <2>1, EmptyList, SameList
  <2> QED BY <1>1, <2>1, <2>2, FlattenNone
<1>6. Shed(SaidOf(body), Told(walk), KeptIn(body))
  BY <1>3, <1>4, <1>5, EmptyList, ShedNothing
<1>7. Len(walk.sections) = SectionIn(body, Len(body))
  <2>1. IsList(body) /\ Len(body) = 0 /\ Len(walk.sections) = 0
    BY <1>1, EmptyList
  <2>2. SectionIn(body, 0) = 0
    BY <2>1, SectionsLonger
  <2> QED BY <2>1, <2>2
<1> QED BY <1>1, <1>3, <1>4, <1>6, <1>7 DEF FiledInv, FiledFrom

\* What is read is as the bodies of its kind may have it.
LEMMA ReadKnown ==
  ASSUME FiledInv, NEW e, Read(e)
  PROVE  Further(body, e) /\ BodyKnown(body') /\ body' = Append(body, e) /\ ~ended
<1>1. e \in Bodies[kind].first \cup Bodies[kind].elements /\ body' = Append(body, e) /\ ~ended
  BY DEF Read
<1>2. Known(e)
  <2>1. (e.is = "paragraph" => IsParagraph(e)) /\ (e.is = "table" => IsTable(e))
    BY <1>1, BodiesAssumption DEF FiledInv
  <2>2. \A i, j \in DOMAIN PartsOf(e) : PartsOf(e)[i].k = PartsOf(e)[j].k => i = j
    BY <1>1, PlacesAssumption DEF FiledInv
  <2> QED BY <2>1, <2>2 DEF Known
<1> DEFINE longer == Append(body, e)
           N == Len(body)
<1>3. IsList(body) /\ \A n \in 1..N : Known(body[n])
  BY DEF FiledInv, BodyKnown
<1>4. /\ IsList(longer) /\ Len(longer) = N + 1 /\ N \in Nat
      /\ longer[N + 1] = e /\ \A n \in 1..N : longer[n] = body[n]
  BY <1>3, LongerIs
<1> HIDE DEF longer, N
<1>5. \A n \in 1..(N + 1) : n \in 1..N \/ n = N + 1
  BY <1>4
<1>6. \A n \in 1..(N + 1) : Known(longer[n])
  BY <1>2, <1>3, <1>4, <1>5
<1>7. BodyKnown(longer)
  BY <1>4, <1>6 DEF BodyKnown
<1> QED BY <1>1, <1>7 DEF Further, FiledInv, longer

\* Whatever the walk takes next, it tells what the body says.
LEMMA NextFiled ==
  ASSUME FiledInv, NEW e, TakeNext(e)
  PROVE  FiledInv'
<1>1. Read(e) /\ kind' = kind /\ ended' = ended
  BY DEF TakeNext, TakeBookmark, TakeTable, TakeHeading, TakeBoxed, TakeBody
<1>2. Further(body, e) /\ BodyKnown(body') /\ body' = Append(body, e) /\ ~ended
  BY <1>1, ReadKnown
<1>3. SUFFICES FiledFrom(walk', body')
  BY <1>1, <1>2 DEF FiledInv
<1>4. FiledFrom(walk, body) /\ Tidy(walk)
  BY DEF FiledInv, FiledFrom
<1> DEFINE last == Len(body) + 1
           p == At(e, last)
<1>5. CASE TakeBookmark(e)
  <2> DEFINE v == [walk EXCEPT !.opened = Append(@, e.name)]
  <2>1. e.is = "bookmark" /\ walk' = v
    BY <1>5 DEF TakeBookmark
  <2>2. Alike(v, walk)
    <3>1. DOMAIN walk = Parts
      BY <1>4 DEF Tidy, HasShape, IsWalk
    <3> QED BY <3>1 DEF Alike, Parts
  <2> HIDE DEF v
  <2>3. FiledFrom(v, Append(body, e))
    BY <1>2, <1>4, <2>1, <2>2, BookmarkGiven
  <2> QED BY <1>2, <2>1, <2>3
<1>6. CASE TakeTable(e)
  <2> DEFINE u == CloseList(CloseBox(walk))
             block == TableMarkdown(Len(body) + 1, e)
             y == AppendBlock(u, block)
             v == [y EXCEPT !.opened = <<>>]
  <2>1. e.is = "table" /\ walk' = v
    BY <1>6 DEF TakeTable
  <2>2. Tidy(u)
    BY <1>4, RunsClosed
  <2>3. DOMAIN y = Parts
    <3>1. DOMAIN u = Parts
      BY <2>2 DEF Tidy, HasShape, IsWalk
    <3> HIDE DEF u, block
    <3> QED BY <3>1 DEF AppendBlock
  <2> HIDE DEF y
  <2>4. Alike(v, y)
    BY <2>3 DEF Alike, Parts
  <2> HIDE DEF v
  <2>5. FiledFrom(v, Append(body, e))
    BY <1>2, <1>4, <2>1, <2>4, TableGiven DEF y
  <2> QED BY <1>2, <2>1, <2>5
<1>7. CASE TakeHeading(e)
  <2> DEFINE opened == OpenSection(CloseList(CloseBox(walk)), p)
             claim(bookmarks, name) == Claim(bookmarks, name, Len(opened.sections))
             bookmarks == FoldLeft(claim, opened.bookmarks, walk.opened \o p.names)
             v == TakeAnchored([opened EXCEPT !.bookmarks = bookmarks, !.opened = <<>>], p)
  <2>1. e.is = "paragraph" /\ HeadingLevel(e) > 0 /\ walk' = v
    BY <1>7 DEF TakeHeading, At
  <2> HIDE DEF bookmarks
  <2>2. FiledFrom(v, Append(body, e))
    BY <1>2, <1>4, <2>1, HeadingGiven
  <2> QED BY <1>2, <2>1, <2>2
<1>8. CASE TakeBoxed(e)
  <2> DEFINE v == TakeAnchored([TakeBordered(walk, p) EXCEPT !.opened = <<>>], p)
  <2>1. e.is = "paragraph" /\ HeadingLevel(e) = 0 /\ IsBoxed(e) /\ walk' = v
    BY <1>8 DEF TakeBoxed, At
  <2>2. FiledFrom(v, Append(body, e))
    BY <1>2, <1>4, <2>1, BoxedGiven DEF IsBody
  <2> QED BY <1>2, <2>1, <2>2
<1>9. CASE TakeBody(e)
  <2> DEFINE v == TakeAnchored([CollectBody(CloseBox(walk), p) EXCEPT !.opened = <<>>], p)
  <2>1. e.is = "paragraph" /\ HeadingLevel(e) = 0 /\ ~IsBoxed(e) /\ walk' = v
    BY <1>9 DEF TakeBody, At
  <2>2. IsBody(body, e)
    BY <1>2, <2>1 DEF IsBody
  <2>3. FiledFrom(v, Append(body, e))
    BY <1>4, <2>1, <2>2, ProseGiven, ItemGiven
  <2> QED BY <1>2, <2>1, <2>3
<1> QED BY <1>5, <1>6, <1>7, <1>8, <1>9 DEF TakeNext

\* The invariant is inductive.
LEMMA StepFiled == FiledInv /\ [Next]_vars => FiledInv'
<1> SUFFICES ASSUME FiledInv, [Next]_vars PROVE FiledInv'
  OBVIOUS
<1>1. ASSUME NEW child, ReadChild(child) PROVE FiledInv'
  BY <1>1 DEF ReadChild, walkVars, FiledInv
<1>2. ASSUME NEW e, TakeElement(e) PROVE FiledInv'
  BY <1>2, NextFiled DEF TakeElement
<1>3. CASE EndDocument
  <2>1. walk' = CloseList(CloseBox(walk)) /\ body' = body /\ kind' = kind
    BY <1>3 DEF EndDocument, End
  <2>2. FiledFrom(walk', body) /\ Idle(walk')
    BY <2>1, EndGiven DEF FiledInv
  <2> QED BY <2>1, <2>2 DEF FiledInv
<1>4. CASE UNCHANGED vars
  BY <1>4 DEF vars, walkVars, FiledInv
<1> QED BY <1>1, <1>2, <1>3, <1>4 DEF Next

\* What the document says is what its body says, and what is to be kept of it.
LEMMA SaidIs ==
  /\ Said = SaidOf(body)
  /\ \A text : Kept(text) <=> ~SilentAt(body, text[2].at[1])
<1>1. \A n : IsHeading(n) = HeadingAt(body, n)
  BY DEF IsHeading, HeadingAt
<1>2. \A n : SectionAt(n) = SectionIn(body, n)
  BY <1>1 DEF SectionAt, SectionIn
<1>3. \A n : (IF SectionAt(n) = 0 THEN <<>> ELSE InSection(SectionAt(n), ElementSays(n))) = SaidAt(body, n)
  BY <1>2 DEF SaidAt, ElementSays
<1>4. Said = SaidOf(body)
  BY <1>3 DEF Said, SaidOf, Elements
<1>5. \A n : IsItem(n) = IsItemAt(body, n)
  BY <1>1 DEF IsItem, IsItemAt
<1>6. \A n : FollowsSilentItem(n) = SilentAt(body, n)
  BY <1>1, <1>5 DEF FollowsSilentItem, SilentAt
<1> QED BY <1>4, <1>6 DEF Kept

\* Every text is filed once, where it is said and in that order, at the end.
LEMMA EndFiled == FiledInv /\ ended => BlocksAreFiled(Filed, Said)
<1> SUFFICES ASSUME FiledInv, ended PROVE BlocksAreFiled(Filed, Said)
  OBVIOUS
<1> DEFINE said == Said
           filed == Filed
           kept == KeptIn(body)
<1>1. Tidy(walk) /\ SaidWell(body) /\ Shed(SaidOf(body), Told(walk), kept) /\ Idle(walk)
  BY DEF FiledInv, FiledFrom
<1>2. filed = Told(walk)
  BY <1>1, IdleTells DEF Filed, Tidy
<1>3. said = SaidOf(body) /\ \A text : Kept(text) <=> ~SilentAt(body, text[2].at[1])
  BY SaidIs
<1>4. kept = {text \in Range(said) : Kept(text)}
  BY <1>3 DEF KeptIn
<1> HIDE DEF said, filed, kept
<1>5. /\ Shed(said, filed, kept) /\ IsList(said) /\ IsList(filed) /\ Apart(filed)
      /\ Only(said, kept) = Only(filed, kept) /\ Range(filed) \subseteq Range(said)
  BY <1>1, <1>2, <1>3 DEF Shed, SaidWell
<1>6. KeptOf(said) = Only(said, kept)
  BY <1>4 DEF KeptOf
<1>7. KeptOf(filed) = Only(filed, kept)
  <2> DEFINE some == {text \in Range(filed) : Kept(text)}
  <2>1. Range(filed) \cap some = Range(filed) \cap kept
    BY <1>4, <1>5
  <2> HIDE DEF some
  <2>2. Only(filed, some) = Only(filed, kept)
    <3>1. filed \in Seq(Range(filed))
      BY <1>5 DEF IsList
    <3> QED BY <2>1, <3>1, OnlySame
  <2> QED BY <2>2 DEF KeptOf, some
<1>8. ASSUME NEW k \in DOMAIN filed
      PROVE  /\ Cardinality({j \in DOMAIN filed : filed[j] = filed[k]}) = 1
             /\ filed[k] \in Range(said)
  <2>1. DOMAIN filed = 1..Len(filed)
    BY <1>5 DEF IsList
  <2>2. {j \in DOMAIN filed : filed[j] = filed[k]} = {k}
    BY <1>5, <2>1 DEF Apart
  <2>3. filed[k] \in Range(filed)
    BY DEF Range
  <2> QED BY <1>5, <2>2, <2>3, FS_Singleton
<1>9. BlocksAreFiled(filed, said)
  BY <1>5, <1>6, <1>7, <1>8 DEF BlocksAreFiled
<1> QED BY <1>9 DEF filed, said

-----------------------------------------------------------------------------
(* What is kept, in its order                                              *)

\* Two positions of what is kept came from two of the list, in their order.
KeptInOrder(list, some) ==
  \A i, j \in 1..Len(Only(list, some)) : i < j =>
    \E p, q \in 1..Len(list) : /\ p < q /\ list[p] \in some /\ list[q] \in some
                               /\ list[p] = Only(list, some)[i] /\ list[q] = Only(list, some)[j]

\* What is kept is in the order it was in.
LEMMA OnlyInOrder ==
  ASSUME NEW list, IsList(list), NEW some
  PROVE  KeptInOrder(list, some)
<1> DEFINE kept == Only(list, some)
           upTo(p) == {q \in 1..p : list[q] \in some}
<1>1. list \in Seq(Range(list)) /\ DOMAIN list = 1..Len(list) /\ Len(list) \in Nat
  BY LongerIs DEF IsList
<1>2. IsList(kept) /\ Range(kept) = Range(list) \cap some
  BY <1>1, OnlyKeeps, ListIs
<1>3. DOMAIN kept = 1..Len(kept) /\ Len(kept) \in Nat
  BY <1>2, LongerIs
<1>4. \A i \in DOMAIN kept : \E p \in DOMAIN list : list[p] = kept[i] /\ Cardinality(upTo(p)) = i
  <2> DEFINE A == Range(list)
  <2>1. list \in Seq(A)
    BY <1>1
  <2> HIDE DEF A
  <2>2. StoodAt(list, some)
    BY <2>1, OnlyPlaces
  <2> QED BY <2>2 DEF StoodAt
<1> HIDE DEF kept
<1>5. ASSUME NEW i \in 1..Len(kept), NEW j \in 1..Len(kept), i < j
      PROVE  \E p, q \in 1..Len(list) : /\ p < q /\ list[p] \in some /\ list[q] \in some
                                        /\ list[p] = kept[i] /\ list[q] = kept[j]
  <2>1. PICK p \in 1..Len(list) : list[p] = kept[i] /\ Cardinality(upTo(p)) = i
    BY <1>1, <1>3, <1>4
  <2>2. PICK q \in 1..Len(list) : list[q] = kept[j] /\ Cardinality(upTo(q)) = j
    BY <1>1, <1>3, <1>4
  <2>3. kept[i] \in some /\ kept[j] \in some
    BY <1>2, <1>3 DEF Range
  <2>4. p < q
    <3> SUFFICES ASSUME q <= p PROVE FALSE
      BY <1>1
    <3>1. upTo(q) \subseteq upTo(p)
      BY <1>1
    <3>2. IsFiniteSet(1..p)
      BY <1>1, FS_Interval
    <3>3. IsFiniteSet(upTo(p))
      BY <3>2, FS_Subset
    <3>4. Cardinality(upTo(q)) <= Cardinality(upTo(p))
      BY <3>1, <3>3, FS_Subset
    <3> QED BY <1>3, <1>5, <2>1, <2>2, <3>4
  <2> QED BY <2>1, <2>2, <2>3, <2>4
<1> QED BY <1>5 DEF KeptInOrder, kept

\* Paragraphs one after the other on the page.
DownPage(list) ==
  \A i, j \in 1..Len(list) : /\ list[i].n \in Nat
                             /\ i < j => list[i].n < list[j].n

\* They stay so where some are kept.
LEMMA OnlyDownPage ==
  ASSUME NEW list, IsList(list), NEW some,
         \A i \in 1..Len(list) : list[i] \in some => list[i].n \in Nat,
         \A i, j \in 1..Len(list) : list[i] \in some /\ list[j] \in some /\ i < j => list[i].n < list[j].n
  PROVE  DownPage(Only(list, some))
<1> DEFINE kept == Only(list, some)
<1>1. list \in Seq(Range(list)) /\ DOMAIN list = 1..Len(list)
  BY LongerIs DEF IsList
<1>2. IsList(kept) /\ Range(kept) = Range(list) \cap some
  BY <1>1, OnlyKeeps, ListIs
<1>3. DOMAIN kept = 1..Len(kept)
  BY <1>2, LongerIs
<1>4. \A i, j \in 1..Len(kept) : i < j =>
        \E p, q \in 1..Len(list) : /\ p < q /\ list[p] \in some /\ list[q] \in some
                                   /\ list[p] = kept[i] /\ list[q] = kept[j]
  BY OnlyInOrder DEF KeptInOrder
<1> HIDE DEF kept
<1>5. ASSUME NEW i \in 1..Len(kept) PROVE kept[i].n \in Nat
  <2>1. kept[i] \in Range(list) /\ kept[i] \in some
    BY <1>2, <1>3 DEF Range
  <2>2. PICK p \in 1..Len(list) : list[p] = kept[i]
    BY <1>1, <2>1 DEF Range
  <2> QED BY <2>1, <2>2
<1>6. ASSUME NEW i \in 1..Len(kept), NEW j \in 1..Len(kept), i < j
      PROVE  kept[i].n < kept[j].n
  <2>1. PICK p, q \in 1..Len(list) : /\ p < q /\ list[p] \in some /\ list[q] \in some
                                     /\ list[p] = kept[i] /\ list[q] = kept[j]
    BY <1>4, <1>6
  <2>2. list[p].n < list[q].n
    BY <2>1
  <2> QED BY <2>1, <2>2
<1> QED BY <1>5, <1>6 DEF DownPage, kept

-----------------------------------------------------------------------------
(* What is on lists concatenated                                           *)

\* It is on all of them concatenated, and nothing else is.
LEMMA FlattenHolds ==
  ASSUME NEW seqs, AreLists(seqs)
  PROVE  /\ IsList(FlattenSeq(seqs))
         /\ \A x : x \in Range(FlattenSeq(seqs)) <=> \E i \in 1..Len(seqs) : x \in Range(seqs[i])
<1> DEFINE N == Len(seqs)
<1>1. IsList(seqs) /\ N \in Nat /\ \A i \in 1..N : IsList(seqs[i])
  BY DEF AreLists, IsList
<1>2. PICK first : Growing(first, seqs)
  BY <1>1, GrowsByOne
<1>3. /\ first[0] = <<>> /\ first[N] = seqs
      /\ \A n \in 1..N : first[n] = Append(first[n - 1], seqs[n])
  BY <1>2 DEF Growing
<1> DEFINE Good(n) == /\ AreLists(first[n])
                      /\ \A x : x \in Range(FlattenSeq(first[n])) <=> \E i \in 1..n : x \in Range(seqs[i])
           good == {n \in 0..N : Good(n)}
<1>4. 0 \in good
  <2>1. AreLists(<<>>) /\ FlattenSeq(<<>>) = <<>> /\ Range(<<>>) = {}
    BY FlattenNone, EmptyList
  <2> QED BY <1>1, <1>3, <2>1
<1>5. ASSUME NEW n \in 1..N, n - 1 \in good PROVE n \in good
  <2> DEFINE before == first[n - 1]
             s == seqs[n]
             flat == FlattenSeq(before)
  <2>1. AreLists(before) /\ IsList(s)
    BY <1>1, <1>5
  <2>2. \A x : x \in Range(flat) <=> \E i \in 1..(n - 1) : x \in Range(seqs[i])
    BY <1>5
  <2>3. first[n] = Append(before, s)
    BY <1>3
  <2> HIDE DEF before
  <2>4. AreLists(first[n]) /\ IsList(flat) /\ FlattenSeq(first[n]) = flat \o s
    <3> HIDE DEF s
    <3>1. /\ AreLists(Append(before, s)) /\ IsList(FlattenSeq(before))
          /\ FlattenSeq(Append(before, s)) = FlattenSeq(before) \o s
      BY <2>1, FlattenLonger
    <3> QED BY <2>3, <3>1
  <2> HIDE DEF flat
  <2>5. Range(flat \o s) = Range(flat) \cup Range(s)
    <3> HIDE DEF s
    <3> QED BY <2>1, <2>4, JoinedIs
  <2>6. n \in 0..N /\ \A i \in 1..n : i \in 1..(n - 1) \/ i = n
    BY <1>1
  <2>7. \A i \in 1..(n - 1) : i \in 1..n
    BY <1>1
  <2>8. n \in 1..n
    BY <1>1
  <2>9. ASSUME NEW x PROVE x \in Range(FlattenSeq(first[n])) <=> \E i \in 1..n : x \in Range(seqs[i])
    BY <2>2, <2>4, <2>5, <2>6, <2>7, <2>8
  <2> QED BY <2>4, <2>6, <2>9
<1> HIDE DEF good
<1>6. N \in good
  <2>1. 0..N \subseteq good
    BY <1>1, <1>4, <1>5, StepByStep
  <2> QED BY <1>1, <2>1
<1>7. Good(N)
  BY <1>6 DEF good
<1>8. IsList(FlattenSeq(seqs))
  BY EmptyList, FlattenLonger
<1> QED BY <1>3, <1>7, <1>8

\* Nothing is kept of nothing.
LEMMA NothingKept ==
  ASSUME NEW some
  PROVE  Only(<<>>, some) = <<>>
<1> DEFINE none == <<>>
           A == {}
<1>1. none \in Seq(A) /\ none = <<>> /\ A = {}
  OBVIOUS
<1> HIDE DEF none, A
<1>2. Only(none, some) \in Seq(A)
  BY <1>1, OnlyKeeps
<1>3. Only(none, some) = <<>>
  BY <1>1, <1>2
<1> QED BY <1>1, <1>3

\* What is kept of each list concatenated is kept of them all.
LEMMA FlattenKept ==
  ASSUME NEW seqs, AreLists(seqs), NEW some,
         NEW each, IsList(each), Len(each) = Len(seqs), \A i \in 1..Len(seqs) : each[i] = Only(seqs[i], some)
  PROVE  AreLists(each) /\ FlattenSeq(each) = Only(FlattenSeq(seqs), some)
<1> DEFINE N == Len(seqs)
<1>1. IsList(seqs) /\ N \in Nat /\ \A i \in 1..N : IsList(seqs[i])
  BY DEF AreLists, IsList
<1>2. PICK first : Growing(first, seqs)
  BY <1>1, GrowsByOne
<1>3. PICK of : Growing(of, each)
  BY GrowsByOne
<1>4. /\ first[0] = <<>> /\ first[N] = seqs /\ of[0] = <<>> /\ of[N] = each
      /\ \A n \in 1..N : first[n] = Append(first[n - 1], seqs[n])
      /\ \A n \in 1..N : of[n] = Append(of[n - 1], each[n])
  BY <1>2, <1>3 DEF Growing
<1> DEFINE Good(n) == /\ AreLists(first[n]) /\ AreLists(of[n])
                      /\ FlattenSeq(of[n]) = Only(FlattenSeq(first[n]), some)
           good == {n \in 0..N : Good(n)}
<1>5. 0 \in good
  <2>1. AreLists(<<>>) /\ FlattenSeq(<<>>) = <<>>
    BY FlattenNone
  <2>2. Only(<<>>, some) = <<>>
    BY NothingKept
  <2> QED BY <1>1, <1>4, <2>1, <2>2
<1>6. ASSUME NEW n \in 1..N, n - 1 \in good PROVE n \in good
  <2> DEFINE before == first[n - 1]
             ofBefore == of[n - 1]
             s == seqs[n]
             t == each[n]
             flat == FlattenSeq(before)
  <2>1. AreLists(before) /\ AreLists(ofBefore) /\ IsList(s) /\ t = Only(s, some)
    BY <1>1, <1>6
  <2>2. FlattenSeq(ofBefore) = Only(flat, some)
    BY <1>6
  <2>3. first[n] = Append(before, s) /\ of[n] = Append(ofBefore, t)
    BY <1>4
  <2>4. n \in 0..N
    BY <1>1
  <2> HIDE DEF before, ofBefore, s, t
  <2>5. IsList(t)
    <3>1. s \in Seq(Range(s))
      BY <2>1 DEF IsList
    <3> DEFINE A == Range(s)
    <3> HIDE DEF A
    <3>2. s \in Seq(A)
      BY <3>1 DEF A
    <3>3. Only(s, some) \in Seq(A)
      BY <3>2, OnlyKeeps
    <3> QED BY <2>1, <3>3, ListIs
  <2>6. AreLists(Append(before, s)) /\ IsList(flat) /\ FlattenSeq(Append(before, s)) = flat \o s
    BY <2>1, FlattenLonger
  <2>7. AreLists(Append(ofBefore, t)) /\ FlattenSeq(Append(ofBefore, t)) = FlattenSeq(ofBefore) \o t
    BY <2>1, <2>5, FlattenLonger
  <2> HIDE DEF flat
  <2>8. Only(flat \o s, some) = Only(flat, some) \o Only(s, some)
    <3>1. KeptOfBoth(flat, s, some)
      BY <2>1, <2>6, OnlyJoined
    <3> QED BY <3>1 DEF KeptOfBoth
  <2>9. FlattenSeq(of[n]) = Only(FlattenSeq(first[n]), some)
    BY <2>1, <2>2, <2>3, <2>6, <2>7, <2>8
  <2> QED BY <2>3, <2>4, <2>6, <2>7, <2>9
<1> HIDE DEF good
<1>7. N \in good
  <2>1. 0..N \subseteq good
    BY <1>1, <1>5, <1>6, StepByStep
  <2> QED BY <1>1, <2>1
<1>8. Good(N)
  BY <1>7 DEF good
<1> QED BY <1>4, <1>8

\* Lists without the empty ones concatenate to the same.
LEMMA FlattenDrops ==
  ASSUME NEW seqs, AreLists(seqs), NEW some, \A i \in 1..Len(seqs) : seqs[i] \notin some => seqs[i] = <<>>
  PROVE  AreLists(Only(seqs, some)) /\ FlattenSeq(Only(seqs, some)) = FlattenSeq(seqs)
<1> DEFINE N == Len(seqs)
           A == Range(seqs)
<1>1. IsList(seqs) /\ N \in Nat /\ \A i \in 1..N : IsList(seqs[i])
  BY DEF AreLists, IsList
<1>2. PICK first : Growing(first, seqs)
  BY <1>1, GrowsByOne
<1>3. /\ first[0] = <<>> /\ first[N] = seqs
      /\ \A n \in 1..N : first[n] = Append(first[n - 1], seqs[n])
  BY <1>2 DEF Growing
<1> DEFINE Good(n) == /\ AreLists(first[n]) /\ AreLists(Only(first[n], some))
                      /\ FlattenSeq(Only(first[n], some)) = FlattenSeq(first[n])
           good == {n \in 0..N : Good(n)}
<1>4. 0 \in good
  <2>1. AreLists(<<>>)
    BY FlattenNone
  <2>2. Only(<<>>, some) = <<>>
    BY NothingKept
  <2> QED BY <1>1, <1>3, <2>1, <2>2
<1>5. ASSUME NEW n \in 1..N, n - 1 \in good PROVE n \in good
  <2> DEFINE before == first[n - 1]
             left == Only(before, some)
             s == seqs[n]
  <2>1. /\ AreLists(before) /\ AreLists(left) /\ FlattenSeq(left) = FlattenSeq(before)
        /\ IsList(s) /\ (s \notin some => s = <<>>)
    BY <1>1, <1>5
  <2>2. first[n] = Append(before, s)
    BY <1>3
  <2>3. n \in 0..N
    BY <1>1
  <2> HIDE DEF before, s
  <2>4. Only(Append(before, s), some) = IF s \in some THEN Append(left, s) ELSE left
    <3> DEFINE B == Range(before) \cup {s}
    <3>1. IsList(before) /\ Range(before) \subseteq B /\ s \in B
      BY <2>1 DEF AreLists
    <3> HIDE DEF B
    <3>2. before \in Seq(B)
      BY <3>1, ListOf
    <3> QED BY <3>1, <3>2, OnlyLonger DEF left
  <2> HIDE DEF left
  <2>5. AreLists(Append(before, s)) /\ IsList(FlattenSeq(before)) /\ FlattenSeq(Append(before, s)) = FlattenSeq(before) \o s
    BY <2>1, FlattenLonger
  <2>6. AreLists(Append(left, s)) /\ FlattenSeq(Append(left, s)) = FlattenSeq(left) \o s
    BY <2>1, FlattenLonger
  <2>7. FlattenSeq(before) \o <<>> = FlattenSeq(before)
    BY <2>5, EmptyList, JoinedIs
  <2>8. Good(n)
    <3>1. CASE s \in some
      BY <2>1, <2>2, <2>4, <2>5, <2>6, <3>1
    <3>2. CASE s \notin some
      BY <2>1, <2>2, <2>4, <2>5, <2>7, <3>2
    <3> QED BY <3>1, <3>2
  <2> QED BY <2>3, <2>8
<1> HIDE DEF good
<1>6. N \in good
  <2>1. 0..N \subseteq good
    BY <1>1, <1>4, <1>5, StepByStep
  <2> QED BY <1>1, <2>1
<1>7. Good(N)
  BY <1>6 DEF good
<1> QED BY <1>3, <1>7

-----------------------------------------------------------------------------
(* The paragraphs of the body                                              *)

\* They are in the order of the page, each numbered where it stands.
LEMMA ParagraphsAre ==
  ASSUME BodyKnown(body)
  PROVE  /\ IsList(Paragraphs) /\ DownPage(Paragraphs)
         /\ \A p \in Range(Paragraphs) :
              p.n \in 1..Len(body) /\ body[p.n].is = "paragraph" /\ p = At(body[p.n], p.n)
         /\ \A n \in 1..Len(body) : body[n].is = "paragraph" =>
              At(body[n], n) \in Range(Paragraphs) /\ At(body[n], n).n = n
<1> DEFINE N == Len(body)
           placed == [n \in DOMAIN body |-> IF body[n].is = "paragraph"
                                              THEN [body[n] EXCEPT !.n = n] ELSE body[n]]
           some == {e \in Range(placed) : e.is = "paragraph"}
<1>1. DOMAIN body = 1..N /\ N \in Nat /\ \A n \in 1..N : Known(body[n])
  BY LongerIs DEF BodyKnown, IsList
<1>2. ASSUME NEW n \in 1..N, body[n].is = "paragraph"
      PROVE  placed[n] = At(body[n], n) /\ At(body[n], n).n = n /\ At(body[n], n).is = "paragraph"
  <2> DEFINE e == body[n]
  <2>1. {"n", "k"} \subseteq DOMAIN e /\ e.is = "paragraph"
    BY <1>1, <1>2 DEF Known, IsParagraph, IsPart
  <2>2. placed[n] = [e EXCEPT !.n = n]
    BY <1>1, <1>2
  <2> HIDE DEF e
  <2>3. At(e, n).n = n /\ At(e, n).is = "paragraph"
    BY <2>1 DEF At
  <2> QED BY <2>2, <2>3 DEF At, e
<1>3. \A n \in 1..N : body[n].is # "paragraph" => placed[n] = body[n]
  BY <1>1
<1>4. IsList(placed) /\ Len(placed) = N /\ DOMAIN placed = 1..N
  <2>1. placed = [n \in 1..N |-> placed[n]]
    BY <1>1
  <2>2. DOMAIN placed = 1..N
    BY <1>1
  <2> HIDE DEF placed
  <2> QED BY <1>1, <2>1, <2>2, FunctionList
<1> HIDE DEF placed
<1>5. \A n \in 1..N : placed[n] \in some <=> body[n].is = "paragraph"
  BY <1>2, <1>3, <1>4 DEF Range
<1> HIDE DEF some
<1>6. \A n \in 1..N : placed[n] \in some => placed[n] = At(body[n], n) /\ placed[n].n = n
  BY <1>2, <1>5
<1>7. DownPage(Only(placed, some))
  <2>1. \A i \in 1..Len(placed) : placed[i] \in some => placed[i].n \in Nat
    BY <1>1, <1>4, <1>6
  <2>2. \A i, j \in 1..Len(placed) : placed[i] \in some /\ placed[j] \in some /\ i < j => placed[i].n < placed[j].n
    BY <1>1, <1>4, <1>6
  <2> QED BY <1>4, <2>1, <2>2, OnlyDownPage
<1>8. Paragraphs = Only(placed, some)
  BY DEF Paragraphs, placed, some
<1>9. IsList(Paragraphs) /\ Range(Paragraphs) = Range(placed) \cap some
  <2> DEFINE A == Range(placed)
  <2>1. placed \in Seq(A)
    BY <1>4 DEF IsList
  <2> HIDE DEF A
  <2>2. Only(placed, some) \in Seq(A) /\ Range(Only(placed, some)) = Range(placed) \cap some
    BY <2>1, OnlyKeeps
  <2> QED BY <1>8, <2>2, ListIs
<1>10. ASSUME NEW p \in Range(Paragraphs)
       PROVE  p.n \in 1..N /\ body[p.n].is = "paragraph" /\ p = At(body[p.n], p.n)
  <2>1. PICK n \in 1..N : placed[n] = p /\ p \in some
    BY <1>4, <1>9 DEF Range
  <2> QED BY <1>5, <1>6, <2>1
<1>11. ASSUME NEW n \in 1..N, body[n].is = "paragraph"
       PROVE  At(body[n], n) \in Range(Paragraphs) /\ At(body[n], n).n = n
  <2>1. placed[n] \in some /\ placed[n] \in Range(placed)
    BY <1>4, <1>5, <1>11 DEF Range
  <2> QED BY <1>2, <1>9, <1>11, <2>1
<1> QED BY <1>7, <1>8, <1>9, <1>10, <1>11

-----------------------------------------------------------------------------
(* The cover of some paragraphs                                            *)

Covering == [of |-> "cover"]

\* What folding the paragraphs of a list onto the cover comes to.
LEMMA CoversAre ==
  ASSUME NEW w, NEW list, IsList(list)
  PROVE  \E f : TakenEach(f, Covering, w, list) /\ FoldLeft(TakeCover, w, list) = f[1..Len(list)]
<1> DEFINE N == Len(list)
           Chain(f) == [s \in SUBSET (1..N) |->
                          IF s = {} THEN w ELSE TakeCover(f[s \ {Max(s)}], list[Max(s)])]
           f == CHOOSE g : g = Chain(g)
<1>1. DOMAIN list = 1..N
  BY LongerIs DEF IsList
<1>2. FoldLeft(TakeCover, w, list) = f[1..N]
  BY <1>1 DEF FoldLeft, MapThenFoldSet
<1>3. ASSUME NEW g PROVE TakenEach(g, Covering, w, list) <=> g = Chain(g)
  <2>1. \A v, next : Taken(Covering, v, next) = TakeCover(v, next)
    BY DEF Taken, Covering
  <2> QED BY <2>1 DEF TakenEach
<1>4. \E g : g = Chain(g)
  <2> HIDE DEF Chain
  <2> QED BY <1>3, TakenEachExists
<1>5. f = Chain(f)
  <2> HIDE DEF Chain
  <2> QED BY <1>4
<1> HIDE DEF f
<1>6. TakenEach(f, Covering, w, list)
  <2> HIDE DEF Chain
  <2> QED BY <1>3, <1>5
<1> QED BY <1>2, <1>6

\* The paragraph is the last of the cover, or past it.
Ends(p) == OpensBody(p) \/ p.page = "within"

\* What the cover says.
CoverOf(paragraphs) ==
  Only(paragraphs, {p \in Range(paragraphs) : OnCover(p, paragraphs) /\ p.says = "text"})

\* A paragraph further down the page than those before it.
Below(paragraphs, x) ==
  IsList(paragraphs) /\ x.n \in Nat /\ \A p \in Range(paragraphs) : p.n \in Nat /\ p.n < x.n

\* It is on the cover where nothing before it ends that.
LEMMA CoverLonger ==
  ASSUME NEW paragraphs, NEW x, Below(paragraphs, x)
  PROVE  CoverOf(Append(paragraphs, x)) =
           IF x.says = "text" /\ ~OpensBody(x) /\ ~\E q \in Range(paragraphs) : Ends(q)
             THEN Append(CoverOf(paragraphs), x) ELSE CoverOf(paragraphs)
<1> DEFINE longer == Append(paragraphs, x)
           some == {p \in Range(paragraphs) : OnCover(p, paragraphs) /\ p.says = "text"}
           more == {p \in Range(longer) : OnCover(p, longer) /\ p.says = "text"}
           A == Range(paragraphs) \cup {x}
<1>1. IsList(paragraphs) /\ x.n \in Nat /\ \A p \in Range(paragraphs) : p.n \in Nat /\ p.n < x.n
  BY DEF Below
<1>2. paragraphs \in Seq(A) /\ x \in A
  <2>1. Range(paragraphs) \subseteq A /\ x \in A
    OBVIOUS
  <2> HIDE DEF A
  <2> QED BY <1>1, <2>1, ListOf
<1>3. Range(longer) = Range(paragraphs) \cup {x}
  <2> HIDE DEF A
  <2> QED BY <1>2, RangeAppend
<1> HIDE DEF longer
<1>4. ASSUME NEW p \in Range(paragraphs) PROVE OnCover(p, longer) <=> OnCover(p, paragraphs)
  <2>1. ~(x.n <= p.n) /\ ~(x.n < p.n)
    BY <1>1
  <2> QED BY <1>3, <2>1 DEF OnCover
<1>5. OnCover(x, longer) <=> ~OpensBody(x) /\ ~\E q \in Range(paragraphs) : Ends(q)
  <2>1. x.n <= x.n /\ ~(x.n < x.n) /\ \A q \in Range(paragraphs) : q.n <= x.n /\ q.n < x.n
    BY <1>1
  <2> QED BY <1>3, <2>1 DEF OnCover, Ends, OpensBody
<1>6. Range(paragraphs) \cap more = Range(paragraphs) \cap some
  BY <1>3, <1>4
<1>7. x \in more <=> x.says = "text" /\ ~OpensBody(x) /\ ~\E q \in Range(paragraphs) : Ends(q)
  BY <1>3, <1>5
<1> HIDE DEF some, more, A
<1>8. Only(paragraphs, more) = Only(paragraphs, some)
  BY <1>2, <1>6, OnlySame
<1>9. Only(Append(paragraphs, x), more) = IF x \in more THEN Append(Only(paragraphs, more), x) ELSE Only(paragraphs, more)
  BY <1>2, OnlyLonger
<1>10. CoverOf(longer) = Only(longer, more) /\ CoverOf(paragraphs) = Only(paragraphs, some)
  BY DEF CoverOf, some, more
<1> QED BY <1>7, <1>8, <1>9, <1>10 DEF longer

\* No blank paragraph parts those of one list.
Solid(list, paragraphs) ==
  \A p, q \in Range(list) : \A blank \in Range(paragraphs) :
    p.n < blank.n /\ blank.n < q.n => blank.says = "text"

\* One parts those of two.
Parted(list, other, paragraphs) ==
  \A p \in Range(list) : \A q \in Range(other) : \E blank \in Range(paragraphs) :
    p.n < blank.n /\ blank.n < q.n /\ blank.says # "text"

\* There is one below a paragraph.
Blanked(p, paragraphs) == \E blank \in Range(paragraphs) : p.n < blank.n /\ blank.says # "text"

\* The groups, and the one that is open, are parted where the page is.
Grouping(groups, part, paragraphs) ==
  /\ AreLists(groups) /\ IsList(part) /\ Solid(part, paragraphs) /\ Range(part) \subseteq Range(paragraphs)
  /\ \A g \in 1..Len(groups) : /\ Solid(groups[g], paragraphs) /\ Parted(groups[g], part, paragraphs)
                               /\ Range(groups[g]) \subseteq Range(paragraphs)
  /\ \A g, h \in 1..Len(groups) : g < h => Parted(groups[g], groups[h], paragraphs)

\* The open group goes on with the next paragraph; the others do not.
GoesOn(groups, part, paragraphs) ==
  /\ \A p \in Range(part) : ~Blanked(p, paragraphs)
  /\ \A g \in 1..Len(groups) : \A p \in Range(groups[g]) : Blanked(p, paragraphs)

\* What is so of the groups is so whatever stands below them.
LEMMA GroupingKept ==
  ASSUME NEW paragraphs, NEW x, Below(paragraphs, x), NEW groups, NEW part, Grouping(groups, part, paragraphs)
  PROVE  /\ Grouping(groups, part, Append(paragraphs, x))
         /\ part = <<>> /\ GoesOn(groups, part, paragraphs) => GoesOn(groups, part, Append(paragraphs, x))
<1> DEFINE longer == Append(paragraphs, x)
<1>1. IsList(paragraphs) /\ x.n \in Nat /\ \A p \in Range(paragraphs) : p.n \in Nat /\ p.n < x.n
  BY DEF Below
<1>2. Range(longer) = Range(paragraphs) \cup {x}
  <2>1. IsList(<<x>>) /\ Append(paragraphs, x) = paragraphs \o <<x>>
    BY <1>1, AppendedIs
  <2>2. Range(paragraphs \o <<x>>) = Range(paragraphs) \cup Range(<<x>>)
    BY <1>1, <2>1, JoinedIs
  <2>3. Range(<<x>>) = {x}
    BY DEF Range
  <2> QED BY <2>1, <2>2, <2>3
<1> HIDE DEF longer
<1>3. ASSUME NEW list, Solid(list, paragraphs), Range(list) \subseteq Range(paragraphs)
      PROVE  Solid(list, longer)
  <2>1. \A q \in Range(list) : ~(x.n < q.n)
    BY <1>1, <1>3
  <2> QED BY <1>2, <1>3, <2>1 DEF Solid
<1>4. ASSUME NEW list, NEW other, Parted(list, other, paragraphs)
      PROVE  Parted(list, other, longer)
  BY <1>2, <1>4 DEF Parted
<1>5. Grouping(groups, part, longer)
  BY <1>2, <1>3, <1>4 DEF Grouping
<1>6. ASSUME part = <<>>, GoesOn(groups, part, paragraphs) PROVE GoesOn(groups, part, longer)
  <2>1. Range(part) = {}
    BY <1>6, EmptyList
  <2> QED BY <1>2, <1>6, <2>1 DEF GoesOn, Blanked
<1> QED BY <1>5, <1>6 DEF longer

\* A paragraph with words goes on with the open group.
LEMMA GroupingTakes ==
  ASSUME NEW paragraphs, NEW x, Below(paragraphs, x), x.says = "text",
         NEW groups, NEW part, Grouping(groups, part, paragraphs), GoesOn(groups, part, paragraphs)
  PROVE  Grouping(groups, Append(part, x), Append(paragraphs, x)) /\ GoesOn(groups, Append(part, x), Append(paragraphs, x))
<1> DEFINE longer == Append(paragraphs, x)
           more == Append(part, x)
<1>1. IsList(paragraphs) /\ x.n \in Nat /\ \A p \in Range(paragraphs) : p.n \in Nat /\ p.n < x.n
  BY DEF Below
<1>2. Grouping(groups, part, longer)
  BY GroupingKept
<1>3. /\ AreLists(groups) /\ IsList(part) /\ Solid(part, longer) /\ Range(part) \subseteq Range(paragraphs)
      /\ \A g \in 1..Len(groups) : /\ Solid(groups[g], longer) /\ Parted(groups[g], part, longer)
                                   /\ Range(groups[g]) \subseteq Range(paragraphs)
      /\ \A g, h \in 1..Len(groups) : g < h => Parted(groups[g], groups[h], longer)
  <2> HIDE DEF longer
  <2> QED BY <1>2 DEF Grouping
<1>4. ASSUME NEW list, IsList(list) PROVE Range(Append(list, x)) = Range(list) \cup {x}
  <2>1. IsList(<<x>>) /\ Append(list, x) = list \o <<x>>
    BY <1>4, AppendedIs
  <2>2. Range(list \o <<x>>) = Range(list) \cup Range(<<x>>)
    BY <1>4, <2>1, JoinedIs
  <2>3. Range(<<x>>) = {x}
    BY DEF Range
  <2> QED BY <2>1, <2>2, <2>3
<1>5. Range(longer) = Range(paragraphs) \cup {x} /\ Range(more) = Range(part) \cup {x} /\ IsList(more)
  BY <1>1, <1>3, <1>4, LongerIs
<1> HIDE DEF longer, more
<1>6. /\ \A p \in Range(part) : ~Blanked(p, paragraphs)
      /\ \A g \in 1..Len(groups) : \A p \in Range(groups[g]) : Blanked(p, paragraphs)
  BY DEF GoesOn
<1>7. \A p \in Range(part) : ~Blanked(p, longer)
  BY <1>5, <1>6 DEF Blanked
<1>8. ~Blanked(x, longer)
  <2>1. \A b \in Range(longer) : ~(x.n < b.n)
    BY <1>1, <1>5
  <2> QED BY <2>1 DEF Blanked
<1>9. \A g \in 1..Len(groups) : \A p \in Range(groups[g]) : Blanked(p, longer)
  BY <1>5, <1>6 DEF Blanked
<1>10. GoesOn(groups, more, longer)
  BY <1>5, <1>7, <1>8, <1>9 DEF GoesOn
<1>11. Solid(more, longer)
  <2> SUFFICES ASSUME NEW p \in Range(more), NEW q \in Range(more), NEW b \in Range(longer),
                      p.n < b.n, b.n < q.n
               PROVE  b.says = "text"
    BY DEF Solid
  <2>1. ~Blanked(p, longer)
    BY <1>5, <1>7, <1>8
  <2> QED BY <2>1 DEF Blanked
<1>12. ASSUME NEW g \in 1..Len(groups) PROVE Parted(groups[g], more, longer)
  <2> SUFFICES ASSUME NEW p \in Range(groups[g]), NEW q \in Range(more)
               PROVE  \E b \in Range(longer) : p.n < b.n /\ b.n < q.n /\ b.says # "text"
    BY DEF Parted
  <2>1. CASE q \in Range(part)
    BY <1>3, <2>1 DEF Parted
  <2>2. CASE q = x
    <3>1. PICK b \in Range(paragraphs) : p.n < b.n /\ b.says # "text"
      BY <1>6 DEF Blanked
    <3> QED BY <1>1, <1>5, <2>2, <3>1
  <2> QED BY <1>5, <2>1, <2>2
<1>13. Grouping(groups, more, longer)
  BY <1>3, <1>5, <1>11, <1>12 DEF Grouping
<1> QED BY <1>10, <1>13 DEF more, longer

\* A blank paragraph closes the open group.
LEMMA GroupingCloses ==
  ASSUME NEW paragraphs, NEW x, Below(paragraphs, x), x.says # "text",
         NEW groups, NEW part, Grouping(groups, part, paragraphs), GoesOn(groups, part, paragraphs)
  PROVE  LET longer == Append(paragraphs, x)
         IN  Grouping(Append(groups, part), <<>>, longer) /\ GoesOn(Append(groups, part), <<>>, longer)
<1> DEFINE longer == Append(paragraphs, x)
           more == Append(groups, part)
           G == Len(groups)
           none == <<>>
<1>1. IsList(paragraphs) /\ x.n \in Nat /\ \A p \in Range(paragraphs) : p.n \in Nat /\ p.n < x.n
  BY DEF Below
<1>2. Grouping(groups, part, longer)
  BY GroupingKept
<1>3. /\ AreLists(groups) /\ IsList(part) /\ Solid(part, longer) /\ Range(part) \subseteq Range(longer)
      /\ Range(part) \subseteq Range(paragraphs)
      /\ \A g \in 1..G : /\ Solid(groups[g], longer) /\ Parted(groups[g], part, longer)
                         /\ Range(groups[g]) \subseteq Range(longer)
      /\ \A g, h \in 1..G : g < h => Parted(groups[g], groups[h], longer)
  <2> HIDE DEF longer
  <2> QED BY <1>2 DEF Grouping
<1>4. Range(longer) = Range(paragraphs) \cup {x}
  <2>1. IsList(<<x>>) /\ Append(paragraphs, x) = paragraphs \o <<x>>
    BY <1>1, AppendedIs
  <2>2. Range(paragraphs \o <<x>>) = Range(paragraphs) \cup Range(<<x>>)
    BY <1>1, <2>1, JoinedIs
  <2>3. Range(<<x>>) = {x}
    BY DEF Range
  <2> QED BY <2>1, <2>2, <2>3
<1>5. /\ AreLists(more) /\ Len(more) = G + 1 /\ G \in Nat /\ more[G + 1] = part
      /\ \A g \in 1..G : more[g] = groups[g]
  BY <1>3, FlattenLonger, LongerIs DEF AreLists
<1>6. IsList(none) /\ Range(none) = {}
  BY EmptyList
<1> HIDE DEF longer, more, G, none
<1>7. \A g \in 1..(G + 1) : g \in 1..G \/ g = G + 1
  BY <1>5
<1>8. ASSUME NEW g \in 1..(G + 1) PROVE Solid(more[g], longer) /\ Range(more[g]) \subseteq Range(longer)
  BY <1>3, <1>5, <1>7
<1>9. ASSUME NEW g \in 1..(G + 1), NEW h \in 1..(G + 1), g < h PROVE Parted(more[g], more[h], longer)
  <2>1. g \in 1..G
    BY <1>5, <1>9
  <2>2. CASE h \in 1..G
    BY <1>3, <1>5, <1>9, <2>1, <2>2
  <2>3. CASE h = G + 1
    BY <1>3, <1>5, <2>1, <2>3
  <2> QED BY <1>7, <2>2, <2>3
<1>10. Grouping(more, none, longer)
  <2>1. Solid(none, longer) /\ \A list : Parted(list, none, longer)
    BY <1>6 DEF Solid, Parted
  <2>2. 1..Len(more) = 1..(G + 1)
    BY <1>5
  <2> QED BY <1>5, <1>6, <1>8, <1>9, <2>1, <2>2 DEF Grouping
<1>11. ASSUME NEW g \in 1..(G + 1), NEW p \in Range(more[g]) PROVE Blanked(p, longer)
  <2>1. CASE g \in 1..G
    <3>1. p \in Range(groups[g])
      BY <1>5, <2>1
    <3>2. Blanked(p, paragraphs)
      BY <2>1, <3>1 DEF GoesOn, G
    <3> QED BY <1>4, <3>2 DEF Blanked
  <2>2. CASE g = G + 1
    <3>1. p.n < x.n
      BY <1>1, <1>3, <1>5, <2>2
    <3> QED BY <1>4, <3>1 DEF Blanked
  <2> QED BY <1>7, <2>1, <2>2
<1>12. GoesOn(more, none, longer)
  <2>1. 1..Len(more) = 1..(G + 1)
    BY <1>5
  <2> QED BY <1>6, <1>11, <2>1 DEF GoesOn
<1> QED BY <1>10, <1>12 DEF longer, more, none

\* The cover holds what it says in groups, until it is over.
CoverIs(cover, paragraphs) ==
  /\ DOMAIN cover = {"groups", "part", "over"}
  /\ Grouping(cover.groups, cover.part, paragraphs)
  /\ FlattenSeq(cover.groups) \o cover.part = CoverOf(paragraphs)
  /\ cover.over \in BOOLEAN /\ (cover.over <=> \E q \in Range(paragraphs) : Ends(q))
  /\ ~cover.over => GoesOn(cover.groups, cover.part, paragraphs)

\* And does so with the next paragraph.
LEMMA CoverTaken ==
  ASSUME NEW paragraphs, NEW x, Below(paragraphs, x), NEW cover, CoverIs(cover, paragraphs)
  PROVE  CoverIs(TakeCover(cover, x), Append(paragraphs, x))
<1> DEFINE longer == Append(paragraphs, x)
           groups == cover.groups
           part == cover.part
           over == \E q \in Range(paragraphs) : Ends(q)
           v == TakeCover(cover, x)
           said == CoverOf(paragraphs)
<1>1. /\ DOMAIN cover = {"groups", "part", "over"} /\ Grouping(groups, part, paragraphs)
      /\ FlattenSeq(groups) \o part = said /\ cover.over \in BOOLEAN /\ (cover.over <=> over)
      /\ (~cover.over => GoesOn(groups, part, paragraphs))
  BY DEF CoverIs
<1>2. Range(longer) = Range(paragraphs) \cup {x}
  <2>0. IsList(paragraphs)
    BY DEF Below
  <2>1. IsList(<<x>>) /\ Append(paragraphs, x) = paragraphs \o <<x>>
    BY <2>0, AppendedIs
  <2>2. Range(paragraphs \o <<x>>) = Range(paragraphs) \cup Range(<<x>>)
    BY <2>0, <2>1, JoinedIs
  <2>3. Range(<<x>>) = {x}
    BY DEF Range
  <2> QED BY <2>1, <2>2, <2>3
<1>3. CoverOf(longer) = IF x.says = "text" /\ ~OpensBody(x) /\ ~over THEN Append(said, x) ELSE said
  BY CoverLonger
<1>4. (\E q \in Range(longer) : Ends(q)) <=> over \/ Ends(x)
  BY <1>2
<1>5. /\ Grouping(groups, part, longer)
      /\ part = <<>> /\ GoesOn(groups, part, paragraphs) => GoesOn(groups, part, longer)
  BY <1>1, GroupingKept
<1>6. AreLists(groups) /\ IsList(part) /\ IsList(FlattenSeq(groups))
  <2>1. AreLists(groups) /\ IsList(part)
    BY <1>1 DEF Grouping
  <2> HIDE DEF groups
  <2> QED BY <2>1, EmptyList, FlattenLonger
<1> HIDE DEF longer, over, said
<1>7. CASE cover.over
  <2>1. v = cover
    BY <1>7 DEF TakeCover
  <2>2. CoverOf(longer) = said
    BY <1>1, <1>3, <1>7
  <2> QED BY <1>1, <1>4, <1>5, <1>7, <2>1, <2>2 DEF CoverIs, longer
<1>8. CASE ~cover.over /\ OpensBody(x)
  <2>1. v = [cover EXCEPT !.over = TRUE]
    BY <1>8 DEF TakeCover
  <2>2. v.groups = groups /\ v.part = part /\ v.over = TRUE /\ DOMAIN v = {"groups", "part", "over"}
    BY <1>1, <2>1
  <2>3. CoverOf(longer) = said /\ Ends(x)
    BY <1>3, <1>8 DEF Ends
  <2> HIDE DEF v, groups, part
  <2>4. \E q \in Range(longer) : Ends(q)
    BY <1>4, <2>3
  <2>5. FlattenSeq(v.groups) \o v.part = CoverOf(longer)
    BY <1>1, <2>2, <2>3
  <2> QED BY <1>5, <2>2, <2>4, <2>5 DEF CoverIs, longer, v
<1>9. CASE ~cover.over /\ ~OpensBody(x)
  <2>1. ~over /\ GoesOn(groups, part, paragraphs) /\ (Ends(x) <=> x.page = "within")
    BY <1>1, <1>9 DEF Ends
  <2>2. (\E q \in Range(longer) : Ends(q)) <=> x.page = "within"
    BY <1>4, <2>1
  <2> DEFINE u == IF x.says = "text" THEN [cover EXCEPT !.part = Append(@, x)]
                  ELSE IF cover.part # <<>>
                  THEN [cover EXCEPT !.groups = Append(@, cover.part), !.part = <<>>]
                  ELSE cover
  <2>3. v = [u EXCEPT !.over = x.page = "within"]
    BY <1>9 DEF TakeCover
  <2>4. /\ DOMAIN u = {"groups", "part", "over"}
        /\ Grouping(u.groups, u.part, longer) /\ GoesOn(u.groups, u.part, longer)
        /\ FlattenSeq(u.groups) \o u.part = CoverOf(longer)
    <3>1. CASE x.says = "text"
      <4>1. u = [cover EXCEPT !.part = Append(@, x)]
        BY <3>1
      <4>2. u.groups = groups /\ u.part = Append(part, x) /\ DOMAIN u = {"groups", "part", "over"}
        BY <1>1, <4>1
      <4> HIDE DEF u, groups, part
      <4>3. Grouping(groups, Append(part, x), longer) /\ GoesOn(groups, Append(part, x), longer)
        BY <1>1, <2>1, <3>1, GroupingTakes DEF longer
      <4>4. CoverOf(longer) = Append(said, x)
        BY <1>3, <1>9, <2>1, <3>1
      <4>5. FlattenSeq(groups) \o Append(part, x) = Append(FlattenSeq(groups) \o part, x)
        <5> DEFINE flat == FlattenSeq(groups)
        <5>1. IsList(flat) /\ IsList(part)
          BY <1>6
        <5> HIDE DEF flat
        <5>2. IsList(flat \o part)
          BY <5>1, JoinedIs
        <5>3. IsList(<<x>>) /\ Append(part, x) = part \o <<x>>
          BY <5>1, AppendedIs
        <5>4. Append(flat \o part, x) = (flat \o part) \o <<x>>
          BY <5>2, AppendedIs
        <5>5. (flat \o part) \o <<x>> = flat \o (part \o <<x>>)
          BY <5>1, <5>3, JoinedThrice
        <5> QED BY <5>3, <5>4, <5>5 DEF flat
      <4> QED BY <1>1, <4>2, <4>3, <4>4, <4>5
    <3>2. CASE x.says # "text" /\ cover.part # <<>>
      <4>1. u = [cover EXCEPT !.groups = Append(@, cover.part), !.part = <<>>]
        BY <3>2
      <4>2. u.groups = Append(groups, part) /\ u.part = <<>> /\ DOMAIN u = {"groups", "part", "over"}
        BY <1>1, <4>1
      <4> HIDE DEF u, groups, part
      <4>3. Grouping(Append(groups, part), <<>>, longer) /\ GoesOn(Append(groups, part), <<>>, longer)
        BY <1>1, <2>1, <3>2, GroupingCloses DEF longer
      <4>4. FlattenSeq(Append(groups, part)) = FlattenSeq(groups) \o part
        BY <1>6, FlattenLonger
      <4>5. said \o <<>> = said
        <5>1. IsList(said)
          BY <1>1, <1>6, JoinedIs
        <5> QED BY <5>1, EmptyList, JoinedIs
      <4>6. CoverOf(longer) = said
        BY <1>3, <3>2
      <4> QED BY <1>1, <4>2, <4>3, <4>4, <4>5, <4>6
    <3>3. CASE x.says # "text" /\ cover.part = <<>>
      <4>1. u = cover
        BY <3>3
      <4>2. CoverOf(longer) = said
        BY <1>3, <3>3
      <4> HIDE DEF u
      <4> QED BY <1>1, <1>5, <2>1, <3>3, <4>1, <4>2
    <3> QED BY <3>1, <3>2, <3>3
  <2> HIDE DEF u
  <2>5. /\ DOMAIN v = {"groups", "part", "over"} /\ v.groups = u.groups /\ v.part = u.part
        /\ v.over = (x.page = "within")
    BY <2>3, <2>4
  <2> HIDE DEF v
  <2>6. v.over \in BOOLEAN /\ (v.over <=> \E q \in Range(longer) : Ends(q))
    BY <2>2, <2>5
  <2>7. FlattenSeq(v.groups) \o v.part = CoverOf(longer) /\ GoesOn(v.groups, v.part, longer)
        /\ Grouping(v.groups, v.part, longer)
    BY <2>4, <2>5
  <2>8. CoverIs(v, longer)
    BY <2>5, <2>6, <2>7 DEF CoverIs
  <2> QED BY <2>8 DEF v, longer
<1> QED BY <1>1, <1>7, <1>8, <1>9

\* The groups of a cover.
AreGroups(groups, paragraphs) ==
  /\ AreLists(groups)
  /\ \A g \in 1..Len(groups) : Solid(groups[g], paragraphs)
  /\ \A g, h \in 1..Len(groups) : g < h => Parted(groups[g], groups[h], paragraphs)

\* No paragraph is on a cover of none.
LEMMA NoCover == CoverIs([groups |-> <<>>, part |-> <<>>, over |-> FALSE], <<>>)
<1> DEFINE cover == [groups |-> <<>>, part |-> <<>>, over |-> FALSE]
           none == <<>>
<1>1. AreLists(none) /\ FlattenSeq(none) = none /\ IsList(none) /\ Len(none) = 0 /\ Range(none) = {}
  BY FlattenNone, EmptyList
<1>2. CoverOf(none) = none
  BY NothingKept DEF CoverOf
<1>3. none \o none = none
  OBVIOUS
<1>4. DOMAIN cover = {"groups", "part", "over"} /\ cover.groups = none /\ cover.part = none /\ cover.over = FALSE
  OBVIOUS
<1> HIDE DEF cover, none
<1>5. 1..Len(none) = {}
  BY <1>1
<1>6. Grouping(none, none, none) /\ GoesOn(none, none, none)
  BY <1>1, <1>5 DEF Grouping, GoesOn, Solid
<1>7. CoverIs(cover, none)
  BY <1>1, <1>2, <1>3, <1>4, <1>6 DEF CoverIs
<1> QED BY <1>7 DEF cover, none

\* The groups of the cover hold what it says.
LEMMA CoverGroupsAre ==
  ASSUME BodyKnown(body)
  PROVE  AreGroups(CoverGroups, Paragraphs) /\ FlattenSeq(CoverGroups) = CoverOf(Paragraphs)
<1> DEFINE list == Paragraphs
           N == Len(list)
           w == [groups |-> <<>>, part |-> <<>>, over |-> FALSE]
           cover == FoldLeft(TakeCover, w, list)
<1>1. IsList(list) /\ DownPage(list)
  BY ParagraphsAre
<1>2. N \in Nat /\ DOMAIN list = 1..N
  BY <1>1, LongerIs DEF IsList
<1>3. CoverIs(w, <<>>)
  BY NoCover
<1>4. CoverGroups = IF cover.part = <<>> THEN cover.groups ELSE Append(cover.groups, cover.part)
  BY DEF CoverGroups
<1> HIDE DEF w, list
<1>5. PICK f : TakenEach(f, Covering, w, list) /\ cover = f[1..N]
  BY <1>1, CoversAre
<1> HIDE DEF cover
<1>6. /\ f[1..0] = w
      /\ \A k \in 1..N : f[1..k] = Taken(Covering, f[1..(k - 1)], list[k])
  BY <1>1, <1>5, TakenSteps
<1>7. \A k \in 1..N : f[1..k] = TakeCover(f[1..(k - 1)], list[k])
  BY <1>6 DEF Taken, Covering
<1>8. PICK first : Growing(first, list)
  BY <1>1, GrowsByOne
<1>9. /\ first[0] = <<>> /\ first[N] = list
      /\ \A n \in 0..N : /\ IsList(first[n]) /\ Len(first[n]) = n
                         /\ \A i \in 1..n : first[n][i] = list[i]
      /\ \A n \in 1..N : first[n] = Append(first[n - 1], list[n])
  BY <1>8 DEF Growing
<1> DEFINE good == {n \in 0..N : CoverIs(f[1..n], first[n])}
<1>10. 0 \in good
  BY <1>2, <1>3, <1>6, <1>9
<1>11. ASSUME NEW n \in 1..N, n - 1 \in good PROVE n \in good
  <2> DEFINE before == first[n - 1]
             x == list[n]
             c == f[1..(n - 1)]
  <2>1. CoverIs(c, before)
    BY <1>11
  <2>2. first[n] = Append(before, x) /\ f[1..n] = TakeCover(c, x) /\ n \in 0..N /\ n - 1 \in 0..N
    BY <1>2, <1>7, <1>9
  <2>3. IsList(before) /\ Len(before) = n - 1 /\ \A i \in 1..(n - 1) : before[i] = list[i]
    BY <1>9, <2>2
  <2>4. x.n \in Nat /\ \A i \in 1..(n - 1) : list[i].n \in Nat /\ list[i].n < x.n
    BY <1>1, <1>2 DEF DownPage
  <2>5. Below(before, x)
    <3>1. DOMAIN before = 1..(n - 1)
      BY <2>3, LongerIs DEF IsList
    <3>2. ASSUME NEW p \in Range(before) PROVE p.n \in Nat /\ p.n < x.n
      <4>1. PICK i \in 1..(n - 1) : before[i] = p
        BY <3>1 DEF Range
      <4> QED BY <2>3, <2>4, <4>1
    <3> QED BY <2>3, <2>4, <3>2 DEF Below
  <2> HIDE DEF before, x, c
  <2>6. CoverIs(TakeCover(c, x), Append(before, x))
    BY <2>1, <2>5, CoverTaken
  <2> QED BY <2>2, <2>6
<1> HIDE DEF good
<1>12. N \in good
  <2>1. 0..N \subseteq good
    BY <1>2, <1>10, <1>11, StepByStep
  <2> QED BY <1>2, <2>1
<1>13. CoverIs(cover, list)
  BY <1>5, <1>9, <1>12 DEF good
<1> DEFINE groups == cover.groups
           part == cover.part
           G == Len(groups)
           more == Append(groups, part)
<1>14. /\ AreLists(groups) /\ IsList(part) /\ Solid(part, list)
       /\ \A g \in 1..G : Solid(groups[g], list) /\ Parted(groups[g], part, list)
       /\ \A g, h \in 1..G : g < h => Parted(groups[g], groups[h], list)
       /\ FlattenSeq(groups) \o part = CoverOf(list)
  BY <1>13 DEF CoverIs, Grouping
<1> HIDE DEF groups, part
<1>15. AreGroups(groups, list)
  BY <1>14 DEF AreGroups
<1>16. CASE part = <<>>
  <2>1. FlattenSeq(groups) \o <<>> = FlattenSeq(groups)
    <3>1. IsList(FlattenSeq(groups))
      BY <1>14, EmptyList, FlattenLonger
    <3> QED BY <3>1, EmptyList, JoinedIs
  <2>2. CoverGroups = groups
    BY <1>4, <1>16 DEF groups, part
  <2> QED BY <1>14, <1>15, <1>16, <2>1, <2>2 DEF list
<1>17. CASE part # <<>>
  <2>1. CoverGroups = more
    BY <1>4, <1>17 DEF groups, part
  <2>2. AreLists(more) /\ FlattenSeq(more) = FlattenSeq(groups) \o part
    BY <1>14, FlattenLonger
  <2>3. /\ Len(more) = G + 1 /\ G \in Nat /\ more[G + 1] = part /\ \A g \in 1..G : more[g] = groups[g]
    BY <1>14, LongerIs DEF AreLists
  <2> HIDE DEF more, G
  <2>4. \A g \in 1..(G + 1) : g \in 1..G \/ g = G + 1
    BY <2>3
  <2>5. \A g \in 1..(G + 1) : Solid(more[g], list)
    BY <1>14, <2>3, <2>4 DEF G
  <2>6. ASSUME NEW g \in 1..(G + 1), NEW h \in 1..(G + 1), g < h PROVE Parted(more[g], more[h], list)
    <3>1. g \in 1..G
      BY <2>3, <2>6
    <3>2. CASE h \in 1..G
      BY <1>14, <2>3, <2>6, <3>1, <3>2 DEF G
    <3>3. CASE h = G + 1
      BY <1>14, <2>3, <3>1, <3>3 DEF G
    <3> QED BY <2>4, <3>2, <3>3
  <2>7. AreGroups(more, list)
    <3>1. 1..Len(more) = 1..(G + 1)
      BY <2>3
    <3> QED BY <2>2, <2>5, <2>6, <3>1 DEF AreGroups
  <2> QED BY <1>14, <2>1, <2>2, <2>7 DEF list
<1> QED BY <1>16, <1>17

\* Groups that hold some of others, in their order, are parted as those are.
LEMMA GroupsWithin ==
  ASSUME NEW paragraphs, NEW groups, AreGroups(groups, paragraphs), NEW each, AreLists(each),
         Len(each) = Len(groups), \A g \in 1..Len(groups) : Range(each[g]) \subseteq Range(groups[g]),
         NEW some, AreLists(Only(each, some))
  PROVE  AreGroups(Only(each, some), paragraphs)
<1> DEFINE kept == Only(each, some)
           G == Len(groups)
<1>1. /\ \A g \in 1..G : Solid(groups[g], paragraphs)
      /\ \A g, h \in 1..G : g < h => Parted(groups[g], groups[h], paragraphs)
  BY DEF AreGroups
<1>2. IsList(each) /\ DOMAIN each = 1..G /\ IsList(kept) /\ DOMAIN kept = 1..Len(kept)
  BY LongerIs DEF AreLists
<1>3. Range(kept) = Range(each) \cap some
  <2> DEFINE A == Range(each)
  <2>1. each \in Seq(A)
    BY <1>2 DEF IsList
  <2> HIDE DEF A
  <2> QED BY <2>1, OnlyKeeps
<1>4. \A i, j \in 1..Len(kept) : i < j =>
        \E p, q \in 1..G : p < q /\ each[p] = kept[i] /\ each[q] = kept[j]
  <2>1. KeptInOrder(each, some)
    BY <1>2, OnlyInOrder
  <2>2. \A i, j \in 1..Len(kept) : i < j =>
          \E p, q \in 1..Len(each) : /\ p < q /\ each[p] \in some /\ each[q] \in some
                                     /\ each[p] = kept[i] /\ each[q] = kept[j]
    BY <2>1 DEF KeptInOrder
  <2>3. 1..Len(each) = 1..G
    OBVIOUS
  <2> HIDE DEF kept, G
  <2>4. ASSUME NEW i \in 1..Len(kept), NEW j \in 1..Len(kept), i < j
        PROVE  \E p, q \in 1..G : p < q /\ each[p] = kept[i] /\ each[q] = kept[j]
    <3>1. PICK p, q \in 1..Len(each) : /\ p < q /\ each[p] \in some /\ each[q] \in some
                                       /\ each[p] = kept[i] /\ each[q] = kept[j]
      BY <2>2, <2>4
    <3>2. p \in 1..G /\ q \in 1..G
      BY <2>3
    <3> QED BY <3>1, <3>2
  <2> QED BY <2>4
<1> HIDE DEF kept
<1>5. ASSUME NEW i \in 1..Len(kept) PROVE Solid(kept[i], paragraphs)
  <2>1. PICK g \in 1..G : each[g] = kept[i]
    BY <1>2, <1>3 DEF Range
  <2>2. Range(kept[i]) \subseteq Range(groups[g])
    BY <2>1
  <2> QED BY <1>1, <2>2 DEF Solid
<1>6. ASSUME NEW i \in 1..Len(kept), NEW j \in 1..Len(kept), i < j PROVE Parted(kept[i], kept[j], paragraphs)
  <2>1. PICK g, h \in 1..G : g < h /\ each[g] = kept[i] /\ each[h] = kept[j]
    BY <1>4, <1>6
  <2>2. Range(kept[i]) \subseteq Range(groups[g]) /\ Range(kept[j]) \subseteq Range(groups[h])
    BY <2>1
  <2>3. Parted(groups[g], groups[h], paragraphs)
    BY <1>1, <2>1
  <2> QED BY <2>2, <2>3 DEF Parted
<1> QED BY <1>5, <1>6 DEF AreGroups, kept

\* What the cover says in the Title style.
StyledOf(cover) == Only(cover, {p \in Range(cover) : p.kind = "title"})

\* The title is what of the cover is in the Title style, or all of it, in its groups.
LEMMA CoverTitleIs ==
  ASSUME BodyKnown(body)
  PROVE  /\ AreGroups(CoverTitle, Paragraphs)
         /\ FlattenSeq(CoverTitle) =
              IF StyledOf(CoverOf(Paragraphs)) = <<>> THEN CoverOf(Paragraphs) ELSE StyledOf(CoverOf(Paragraphs))
<1> DEFINE groups == CoverGroups
           G == Len(groups)
           flat == FlattenSeq(groups)
           titled(group) == Only(group, {p \in Range(group) : p.kind = "title"})
           each == [g \in DOMAIN groups |-> titled(groups[g])]
           some == {titled(group) : group \in Range(groups)} \ {<<>>}
           styled == {p \in Range(flat) : p.kind = "title"}
           marked == Only(each, some)
<1>1. AreGroups(groups, Paragraphs) /\ flat = CoverOf(Paragraphs)
  BY CoverGroupsAre
<1>2. CoverTitle = IF marked = <<>> THEN groups ELSE marked
  BY DEF CoverTitle
<1> HIDE DEF groups
<1>3. AreLists(groups) /\ DOMAIN groups = 1..G /\ G \in Nat /\ \A g \in 1..G : IsList(groups[g])
  BY <1>1, LongerIs DEF AreGroups, AreLists
<1>4. \A x : x \in Range(flat) <=> \E g \in 1..G : x \in Range(groups[g])
  BY <1>3, FlattenHolds
<1>5. ASSUME NEW g \in 1..G
      PROVE  titled(groups[g]) = Only(groups[g], styled) /\ Range(titled(groups[g])) \subseteq Range(groups[g])
  <2> DEFINE group == groups[g]
             A == Range(group)
             own == {p \in Range(group) : p.kind = "title"}
  <2>1. group \in Seq(A)
    BY <1>3 DEF IsList
  <2>2. Range(group) \cap own = Range(group) \cap styled
    BY <1>4
  <2>3. titled(groups[g]) = Only(group, own)
    OBVIOUS
  <2> HIDE DEF group, own, styled
  <2>4. Only(group, own) = Only(group, styled)
    <3> HIDE DEF A
    <3> QED BY <2>1, <2>2, OnlySame
  <2>5. Range(Only(group, own)) = Range(group) \cap own
    <3> HIDE DEF A
    <3> QED BY <2>1, OnlyKeeps
  <2> QED BY <2>3, <2>4, <2>5 DEF group
<1>6. IsList(each) /\ Len(each) = G /\ \A g \in 1..G : each[g] = titled(groups[g])
  <2>1. each = [g \in 1..G |-> each[g]] /\ \A g \in 1..G : each[g] = titled(groups[g])
    BY <1>3
  <2> HIDE DEF each, titled
  <2> QED BY <1>3, <2>1, FunctionList
<1>7. \A i \in 1..Len(each) : each[i] \notin some => each[i] = <<>>
  <2>1. \A g \in 1..G : groups[g] \in Range(groups)
    BY <1>3 DEF Range
  <2>2. \A g \in 1..G : titled(groups[g]) \in {titled(group) : group \in Range(groups)}
    BY <2>1
  <2> HIDE DEF titled, each
  <2> QED BY <1>6, <2>2
<1>8. <<>> \notin some
  OBVIOUS
<1> HIDE DEF each, some, styled
<1>9. \A g \in 1..G : each[g] = Only(groups[g], styled) /\ Range(each[g]) \subseteq Range(groups[g])
  BY <1>5, <1>6
<1> HIDE DEF titled
<1>10. AreLists(each) /\ FlattenSeq(each) = Only(flat, styled)
  BY <1>3, <1>6, <1>9, FlattenKept
<1>11. AreLists(marked) /\ FlattenSeq(marked) = FlattenSeq(each)
  BY <1>7, <1>10, FlattenDrops
<1>12. AreGroups(marked, Paragraphs)
  BY <1>1, <1>6, <1>9, <1>10, <1>11, GroupsWithin
<1>13. StyledOf(flat) = Only(flat, styled)
  BY DEF StyledOf, styled
<1>14. marked = <<>> <=> Only(flat, styled) = <<>>
  <2>1. ASSUME marked = <<>> PROVE Only(flat, styled) = <<>>
    BY <1>10, <1>11, <2>1, FlattenNone
  <2>2. ASSUME marked # <<>> PROVE Only(flat, styled) # <<>>
    <3>1. IsList(marked) /\ IsList(marked[1]) /\ 1 \in 1..Len(marked) /\ marked[1] \in Range(marked)
      <4>1. IsList(marked) /\ \A i \in 1..Len(marked) : IsList(marked[i])
        BY <1>11 DEF AreLists
      <4> HIDE DEF marked
      <4>2. Len(marked) \in Nat /\ DOMAIN marked = 1..Len(marked) /\ marked \in Seq(Range(marked))
        BY <4>1, LongerIs DEF IsList
      <4>3. Len(marked) # 0
        BY <2>2, <4>2
      <4> QED BY <4>1, <4>2, <4>3 DEF Range
    <3>2. marked[1] \in some
      <4> DEFINE A == Range(each)
      <4>1. each \in Seq(A)
        BY <1>6 DEF IsList
      <4> HIDE DEF A
      <4>2. Range(Only(each, some)) = Range(each) \cap some
        BY <4>1, OnlyKeeps
      <4> QED BY <3>1, <4>2
    <3> DEFINE group == marked[1]
    <3>3. group # <<>> /\ IsList(group)
      BY <1>8, <3>1, <3>2
    <3> HIDE DEF group, marked
    <3>4. group[1] \in Range(group)
      <4>1. Len(group) \in Nat /\ DOMAIN group = 1..Len(group) /\ group \in Seq(Range(group))
        BY <3>3, LongerIs DEF IsList
      <4>2. Len(group) # 0
        BY <3>3, <4>1
      <4> QED BY <4>1, <4>2 DEF Range
    <3>5. group[1] \in Range(FlattenSeq(marked))
      <4>1. \A x : x \in Range(FlattenSeq(marked)) <=> \E i \in 1..Len(marked) : x \in Range(marked[i])
        BY <1>11, FlattenHolds
      <4> QED BY <3>1, <3>4, <4>1 DEF group
    <3>6. FlattenSeq(marked) # <<>>
      BY <3>5, EmptyList
    <3> QED BY <1>10, <1>11, <3>6
  <2> QED BY <2>1, <2>2
<1> HIDE DEF marked, flat
<1>15. FlattenSeq(CoverTitle) = IF StyledOf(flat) = <<>> THEN flat ELSE StyledOf(flat)
  BY <1>2, <1>10, <1>11, <1>13, <1>14 DEF flat
<1> QED BY <1>1, <1>2, <1>12, <1>15

\* The title is of the cover, wrapped as the page wraps it.
LEMMA TitleRead == BodyKnown(body) => TitleIsOfTheCover(CoverTitle, Paragraphs)
<1> SUFFICES ASSUME BodyKnown(body) PROVE TitleIsOfTheCover(CoverTitle, Paragraphs)
  OBVIOUS
<1> DEFINE list == Paragraphs
           parts == CoverTitle
           title == FlattenSeq(parts)
           cover == CoverOf(list)
           styled == StyledOf(cover)
<1>1. IsList(list) /\ DownPage(list)
  BY ParagraphsAre
<1>2. AreGroups(parts, list) /\ title = IF styled = <<>> THEN cover ELSE styled
  BY CoverTitleIs
<1> HIDE DEF list, parts, title
<1>3. IsList(cover) /\ DownPage(cover)
  <2> DEFINE some == {p \in Range(list) : OnCover(p, list) /\ p.says = "text"}
             A == Range(list)
  <2>1. \A i, j \in 1..Len(list) : list[i].n \in Nat /\ (i < j => list[i].n < list[j].n)
    BY <1>1 DEF DownPage
  <2> HIDE DEF some
  <2>2. DownPage(Only(list, some))
    BY <1>1, <2>1, OnlyDownPage
  <2>3. list \in Seq(A)
    BY <1>1 DEF IsList
  <2> HIDE DEF A
  <2>4. IsList(Only(list, some))
    BY <2>3, OnlyKeeps, ListIs
  <2> QED BY <2>2, <2>4 DEF CoverOf, some
<1> HIDE DEF cover
<1>4. IsList(styled) /\ DownPage(styled)
  <2> DEFINE some == {p \in Range(cover) : p.kind = "title"}
             A == Range(cover)
  <2>1. \A i, j \in 1..Len(cover) : cover[i].n \in Nat /\ (i < j => cover[i].n < cover[j].n)
    BY <1>3 DEF DownPage
  <2> HIDE DEF some
  <2>2. DownPage(Only(cover, some))
    BY <1>3, <2>1, OnlyDownPage
  <2>3. cover \in Seq(A)
    BY <1>3 DEF IsList
  <2> HIDE DEF A
  <2>4. IsList(Only(cover, some))
    BY <2>3, OnlyKeeps, ListIs
  <2> QED BY <2>2, <2>4 DEF StyledOf, some
<1> HIDE DEF styled
<1>5. IsList(title) /\ DownPage(title)
  BY <1>2, <1>3, <1>4
<1>6. DOMAIN title = 1..Len(title) /\ DOMAIN parts = 1..Len(parts)
  BY <1>2, <1>5, LongerIs DEF AreGroups, AreLists
<1>7. \A x : x \in Range(title) <=> \E g \in 1..Len(parts) : x \in Range(parts[g])
  BY <1>2, FlattenHolds DEF AreGroups, title
<1>8. /\ \A g \in 1..Len(parts) : Solid(parts[g], list)
      /\ \A g, h \in 1..Len(parts) : g < h => Parted(parts[g], parts[h], list)
      /\ Len(parts) \in Nat
  BY <1>2 DEF AreGroups, AreLists, IsList
<1>9. ASSUME NEW i \in DOMAIN title, NEW j \in DOMAIN title, i < j
      PROVE  (\E g \in DOMAIN parts : {title[i], title[j]} \subseteq Range(parts[g]))
               <=> ~\E blank \in Range(list) :
                      title[i].n < blank.n /\ blank.n < title[j].n /\ blank.says # "text"
  <2> DEFINE p == title[i]
             q == title[j]
  <2>1. p \in Range(title) /\ q \in Range(title)
    BY DEF Range
  <2>2. p.n \in Nat /\ q.n \in Nat /\ p.n < q.n
    BY <1>5, <1>6, <1>9 DEF DownPage
  <2> HIDE DEF p, q
  <2>3. ASSUME NEW g \in 1..Len(parts), p \in Range(parts[g]), q \in Range(parts[g]),
               NEW blank \in Range(list), p.n < blank.n, blank.n < q.n, blank.says # "text"
        PROVE  FALSE
    BY <1>8, <2>3 DEF Solid
  <2>4. ASSUME ~\E blank \in Range(list) : p.n < blank.n /\ blank.n < q.n /\ blank.says # "text"
        PROVE  \E g \in 1..Len(parts) : p \in Range(parts[g]) /\ q \in Range(parts[g])
    <3>1. PICK g \in 1..Len(parts) : p \in Range(parts[g])
      BY <1>7, <2>1
    <3>2. PICK h \in 1..Len(parts) : q \in Range(parts[h])
      BY <1>7, <2>1
    <3>3. ~(g < h)
      BY <1>8, <2>4, <3>1, <3>2 DEF Parted
    <3>4. ~(h < g)
      <4> SUFFICES ASSUME h < g PROVE FALSE
        OBVIOUS
      <4>1. PICK b \in Range(list) : q.n < b.n /\ b.n < p.n
        BY <1>8, <3>1, <3>2 DEF Parted
      <4>2. b.n \in Nat
        <5>1. DOMAIN list = 1..Len(list)
          BY <1>1, LongerIs
        <5> QED BY <1>1, <5>1 DEF DownPage, Range
      <4> QED BY <2>2, <4>1, <4>2
    <3>5. g = h
      BY <1>8, <3>3, <3>4
    <3> QED BY <3>1, <3>2, <3>5
  <2>5. (\E g \in DOMAIN parts : {p, q} \subseteq Range(parts[g]))
          <=> \E g \in 1..Len(parts) : p \in Range(parts[g]) /\ q \in Range(parts[g])
    BY <1>6
  <2>6. (\E g \in DOMAIN parts : {p, q} \subseteq Range(parts[g]))
          <=> ~\E blank \in Range(list) : p.n < blank.n /\ blank.n < q.n /\ blank.says # "text"
    BY <2>3, <2>4, <2>5
  <2> QED BY <2>6 DEF p, q
<1>10. PartsAsWrapped(parts, title, list)
  BY <1>9 DEF PartsAsWrapped
<1>11. TitleIsOfTheCover(parts, list)
  <2>1. cover = Only(list, {p \in Range(list) : OnCover(p, list) /\ p.says = "text"})
    BY DEF cover, CoverOf
  <2>2. styled = Only(cover, {p \in Range(cover) : p.kind = "title"})
    BY DEF styled, StyledOf
  <2>3. FlattenSeq(parts) = IF styled = <<>> THEN cover ELSE styled
    BY <1>2 DEF title
  <2>4. PartsAsWrapped(parts, FlattenSeq(parts), list)
    BY <1>10 DEF title
  <2> QED BY <2>1, <2>2, <2>3, <2>4 DEF TitleIsOfTheCover
<1> QED BY <1>11 DEF parts, list

\* A paragraph of the title stands in no section.
LEMMA TitleIsAhead ==
  ASSUME BodyKnown(body), NEW p \in Range(FlattenSeq(CoverTitle))
  PROVE  p.n \in 1..Len(body) /\ SectionIn(body, p.n) = 0
<1> DEFINE list == Paragraphs
           cover == CoverOf(list)
           A == Range(list)
           some == {q \in Range(list) : OnCover(q, list) /\ q.says = "text"}
<1>1. /\ IsList(list)
      /\ \A q \in Range(list) : q.n \in 1..Len(body) /\ body[q.n].is = "paragraph" /\ q = At(body[q.n], q.n)
      /\ \A n \in 1..Len(body) : body[n].is = "paragraph" => At(body[n], n) \in Range(list) /\ At(body[n], n).n = n
  BY ParagraphsAre
<1>2. FlattenSeq(CoverTitle) = IF StyledOf(cover) = <<>> THEN cover ELSE StyledOf(cover)
  BY CoverTitleIs
<1> HIDE DEF list
<1>3. IsList(cover) /\ Range(cover) \subseteq Range(list) \cap some
  <2>1. list \in Seq(A)
    BY <1>1 DEF IsList
  <2>2. cover = Only(list, some)
    BY DEF CoverOf
  <2> HIDE DEF A, some, cover
  <2>3. cover \in Seq(A) /\ Range(cover) = Range(list) \cap some
    BY <2>1, <2>2, OnlyKeeps
  <2> QED BY <2>3, ListIs
<1> HIDE DEF cover
<1>4. p \in Range(cover)
  <2> DEFINE B == Range(cover)
             marked == {q \in Range(cover) : q.kind = "title"}
  <2>1. cover \in Seq(B)
    BY <1>3 DEF IsList
  <2> HIDE DEF B, marked
  <2>2. Range(Only(cover, marked)) = Range(cover) \cap marked
    BY <2>1, OnlyKeeps
  <2> QED BY <1>2, <2>2 DEF StyledOf, marked
<1>5. p \in Range(list) /\ OnCover(p, list)
  BY <1>3, <1>4
<1>6. p.n \in 1..Len(body)
  BY <1>1, <1>5
<1>7. ASSUME NEW m \in 1..p.n, HeadingAt(body, m) PROVE FALSE
  <2>0. Len(body) \in Nat
    BY DEF BodyKnown, IsList
  <2>1. m \in 1..Len(body) /\ m <= p.n
    BY <1>6, <2>0
  <2> DEFINE e == body[m]
             q == At(e, m)
  <2>2. e.is = "paragraph" /\ HeadingLevel(e) > 0
    BY <1>7 DEF HeadingAt
  <2>3. e.kind \in {"appendix", "heading"}
    BY <2>2 DEF HeadingLevel
  <2>4. q \in Range(list) /\ q.n = m
    BY <1>1, <2>1, <2>2
  <2>5. q.kind = e.kind
    <3> HIDE DEF e
    <3> QED BY DEF At
  <2> HIDE DEF e, q
  <2> QED BY <1>5, <2>1, <2>3, <2>4, <2>5 DEF OnCover
<1>8. {m \in 1..p.n : HeadingAt(body, m)} = {}
  BY <1>7
<1> QED BY <1>6, <1>8, FS_EmptySet DEF SectionIn

\* What is filed stands in a section.
LEMMA FiledIsIn ==
  ASSUME BodyKnown(body), NEW x \in Range(SaidOf(body))
  PROVE  \E n \in 1..Len(body) : x[2].at[1] = n /\ SectionIn(body, n) # 0
<1> DEFINE each == [n \in DOMAIN body |-> SaidAt(body, n)]
           N == Len(body)
<1>1. N \in Nat /\ DOMAIN body = 1..N
  BY LongerIs DEF BodyKnown, IsList
<1>2. \A n \in 1..N : IsList(SaidAt(body, n)) /\ \A y \in Range(SaidAt(body, n)) : y[2].at[1] = n
  BY SaidAtIs
<1>3. each = [n \in 1..N |-> each[n]] /\ \A n \in 1..N : each[n] = SaidAt(body, n)
  BY <1>1
<1>4. SaidOf(body) = FlattenSeq(each)
  BY DEF SaidOf
<1> HIDE DEF each, N
<1>5. AreLists(each) /\ Len(each) = N
  BY <1>1, <1>2, <1>3, FunctionList DEF AreLists
<1>6. PICK n \in 1..N : x \in Range(each[n])
  BY <1>4, <1>5, FlattenHolds
<1>7. x \in Range(SaidAt(body, n)) /\ x[2].at[1] = n
  BY <1>2, <1>3, <1>6
<1>8. SectionIn(body, n) # 0
  <2>1. SaidAt(body, n) # <<>>
    BY <1>7, EmptyList
  <2> QED BY <2>1 DEF SaidAt
<1> QED BY <1>7, <1>8 DEF N

\* What is in the title is filed nowhere.
LEMMA TitleNotFiled ==
  FiledInv /\ ended =>
    {filed[2].at : filed \in Range(Filed)} \cap {<<p.n, p.k>> : p \in Range(FlattenSeq(CoverTitle))} = {}
<1> SUFFICES ASSUME FiledInv, ended,
                    NEW x \in Range(Filed), NEW p \in Range(FlattenSeq(CoverTitle)), x[2].at = <<p.n, p.k>>
             PROVE  FALSE
  OBVIOUS
<1>1. BodyKnown(body) /\ Tidy(walk) /\ Shed(SaidOf(body), Told(walk), KeptIn(body)) /\ Idle(walk)
  BY DEF FiledInv, FiledFrom
<1>2. Filed = Told(walk)
  BY <1>1, IdleTells DEF Filed, Tidy
<1>3. x \in Range(SaidOf(body))
  BY <1>1, <1>2 DEF Shed
<1>4. PICK n \in 1..Len(body) : x[2].at[1] = n /\ SectionIn(body, n) # 0
  BY <1>1, <1>3, FiledIsIn
<1>5. SectionIn(body, p.n) = 0
  BY <1>1, TitleIsAhead
<1>6. x[2].at[1] = p.n
  <2> DEFINE a == p.n
             b == p.k
             at == x[2].at
  <2>1. at = <<a, b>>
    OBVIOUS
  <2> HIDE DEF a, b, at
  <2>2. at[1] = a
    BY <2>1
  <2> QED BY <2>2 DEF a, at
<1> QED BY <1>4, <1>5, <1>6

\* Where the walk tells what the body says, every text is filed at its end.
LEMMA FiledIsFiled == FiledInv => EveryTextIsFiled
BY EndFiled, TitleRead, TitleNotFiled DEF EveryTextIsFiled, FiledInv

\* Every text of a document of any length, however its lists, boxes, tables and held
\* prose meet, is filed once, in its section and in the order of the page, save what
\* is held behind an item that says nothing; and what its cover says is in its title.
THEOREM EveryTextFiled == Spec => []EveryTextIsFiled
<1>1. Init => FiledInv
  BY InitFiled
<1>2. FiledInv /\ [Next]_vars => FiledInv'
  BY StepFiled
<1>3. FiledInv => EveryTextIsFiled
  BY FiledIsFiled
<1> QED BY <1>1, <1>2, <1>3, PTL DEF Spec

=============================================================================
