--------------------------- MODULE Conversion_proofs ---------------------------
(***************************************************************************)
(* Whatever a Word document holds, of any length, its sections are where   *)
(* its headings put them and no two bear one number; and each of its lists *)
(* is read at the depths and under the numbers it is drawn with.           *)
(*                                                                         *)
(* The walk keeps a stack of the sections still open and counts beneath    *)
(* each.  What it is compared with looks at the headings only: a section's *)
(* parent is the nearest heading above of a lower level (Nearest), its     *)
(* ordinal how many of its kind that parent has by then (Kin).  The        *)
(* invariant is that the sections are those of the headings (Outlined) and *)
(* that the stack is what the next heading needs to know of them           *)
(* (Stacked): its frames are of ever lower sections; every heading is      *)
(* above or in a frame whose level is at most its own, so that none that   *)
(* was closed can be a parent again; and each frame has counted what is    *)
(* beneath it.                                                             *)
(*                                                                         *)
(* Opening a section keeps that (OpenSectionOutlines); whatever else the   *)
(* walk does files text in the sections there are and holds entries for a  *)
(* run (Keeps), through two folds over what a paragraph holds.  That       *)
(* numbers are then apart is of the sections alone: the ways down to two   *)
(* sections of one number are the same way, frame by frame (NumbersApart), *)
(* as no two numbers have the same letters (LettersApart).                 *)
(*                                                                         *)
(* A run is taken entry by entry, by the code that prints it and by who    *)
(* reads it (Traced): each open depth is that of the last item in it       *)
(* (Stands); the reader has the same depths open, in the columns they are  *)
(* printed in and under the same numbers (Seen); where markers stand in    *)
(* columns, deeper to the right is deeper on the page (Columned); and what *)
(* takes up a list goes on with its numbers (Carries).  An item and a      *)
(* block keep that (ItemTraced, BlockTraced), hence every run is read as   *)
(* it is printed (RunsRead).                                               *)
(***************************************************************************)
EXTENDS Conversion, Folding

-----------------------------------------------------------------------------
(* Numbers                                                                 *)

\* Division by the number of letters.
LEMMA Divided ==
  ASSUME NEW n \in Nat
  PROVE  /\ n \div ALPHABET \in Nat /\ n % ALPHABET \in Nat
         /\ n = ALPHABET * (n \div ALPHABET) + (n % ALPHABET)
         /\ n \div ALPHABET <= n
<1>1. ALPHABET \in Nat \ {0}
  BY OutlineAssumption
<1>2. /\ n \div ALPHABET \in Int /\ n % ALPHABET \in Nat
      /\ n = ALPHABET * (n \div ALPHABET) + (n % ALPHABET)
      /\ n % ALPHABET < ALPHABET
  BY <1>1
<1>3. n \div ALPHABET \in Nat
  <2>1. \A q \in Int : \A a \in Nat \ {0} : q < 0 => a * q <= -a
    BY SMT
  <2> DEFINE q == n \div ALPHABET
             r == n % ALPHABET
  <2>2. q \in Int /\ r \in Nat /\ n = ALPHABET * q + r /\ r < ALPHABET
    BY <1>2
  <2> HIDE DEF q, r
  <2>3. q < 0 => ALPHABET * q <= -ALPHABET
    BY <1>1, <2>1, <2>2
  <2>4. q \in Nat
    BY <1>1, <2>2, <2>3
  <2> QED BY <2>4 DEF q
<1>4. \A q \in Nat : \A a \in Nat \ {0} : q <= a * q
  BY SMT
<1> QED BY <1>1, <1>2, <1>3, <1>4

\* The letters of a number: those of what is left of it, and one more.
LEMMA LettersAre ==
  /\ Letters \in [Nat -> Seq(Nat)]
  /\ Letters[0] = <<>>
  /\ \A n \in Nat \ {0} :
       Letters[n] = Append(Letters[(n - 1) \div ALPHABET], ((n - 1) % ALPHABET) + 1)
<1> DEFINE from == [n \in Nat \ {0} |-> (n - 1) \div ALPHABET]
           last(n) == ((n - 1) % ALPHABET) + 1
           step == [n \in Nat \ {0} |-> [a \in Seq(Nat) |-> Append(a, last(n))]]
           Chain(f) == [n \in Nat |-> IF n = 0 THEN <<>> ELSE Append(f[(n - 1) \div ALPHABET], last(n))]
<1>1. Descends(from)
  <2>1. \A n \in Nat \ {0} : n - 1 \in Nat /\ (n - 1) \div ALPHABET \in Nat /\ (n - 1) \div ALPHABET < n
    BY Divided
  <2> QED BY <2>1 DEF Descends
<1>2. \A n \in Nat \ {0} : last(n) \in Nat
  <2>1. \A n \in Nat \ {0} : n - 1 \in Nat /\ (n - 1) % ALPHABET \in Nat
    BY Divided
  <2> QED BY <2>1
<1> HIDE DEF last
<1>3. step \in [Nat \ {0} -> [Seq(Nat) -> Seq(Nat)]] /\ <<>> \in Seq(Nat)
  BY <1>2
<1>4. PICK f : Wholly(f, Seq(Nat), <<>>, from, step)
  <2> HIDE DEF from, step
  <2> QED BY <1>1, <1>3, Recursion
<1>5. /\ f \in [Nat -> Seq(Nat)] /\ f[0] = <<>>
      /\ \A n \in Nat \ {0} : f[n] = Append(f[(n - 1) \div ALPHABET], last(n))
  <2>1. ASSUME NEW n \in Nat \ {0} PROVE f[n] = Append(f[(n - 1) \div ALPHABET], last(n))
    <3>1. f[n] = step[n][f[from[n]]] /\ f[from[n]] \in Seq(Nat)
      BY <1>1, <1>4 DEF Wholly, Descends
    <3>2. from[n] = (n - 1) \div ALPHABET
      OBVIOUS
    <3>3. \A a \in Seq(Nat) : step[n][a] = Append(a, last(n))
      OBVIOUS
    <3> HIDE DEF from, step
    <3> QED BY <3>1, <3>2, <3>3
  <2> QED BY <1>4, <2>1 DEF Wholly
<1>6. f = Chain(f)
  BY <1>5
<1>7. Letters = CHOOSE g : g = Chain(g)
  BY DEF Letters, last
<1>8. Letters = Chain(Letters)
  <2> HIDE DEF Chain
  <2> QED BY <1>6, <1>7
<1>9. /\ Letters[0] = <<>>
      /\ \A n \in Nat \ {0} : Letters[n] = Append(Letters[(n - 1) \div ALPHABET], last(n))
  <2> DEFINE L == Letters
  <2>1. L = Chain(L)
    BY <1>8
  <2> HIDE DEF L
  <2>2. /\ L[0] = <<>>
        /\ \A n \in Nat \ {0} : L[n] = Append(L[(n - 1) \div ALPHABET], last(n))
        /\ L = [n \in Nat |-> L[n]]
    BY <2>1
  <2> QED BY <2>2 DEF L
<1>f. Letters = [n \in Nat |-> Letters[n]]
  <2> DEFINE L == Letters
  <2>1. L = Chain(L)
    BY <1>8
  <2> HIDE DEF L
  <2>2. L = [n \in Nat |-> L[n]]
    BY <2>1
  <2> QED BY <2>2 DEF L
<1> DEFINE odd == {n \in Nat : Letters[n] \notin Seq(Nat)}
<1>10. odd = {}
  <2> SUFFICES ASSUME odd # {} PROVE FALSE
    OBVIOUS
  <2>1. PICK n \in odd : \A m \in odd : n <= m
    <3>1. odd \subseteq Nat
      OBVIOUS
    <3> HIDE DEF odd
    <3> QED BY <3>1, LeastElement
  <2>2. n \in Nat \ {0}
    <3>1. n \in Nat /\ Letters[n] \notin Seq(Nat)
      OBVIOUS
    <3>2. <<>> \in Seq(Nat)
      OBVIOUS
    <3> QED BY <1>9, <3>1, <3>2
  <2>3. (n - 1) \div ALPHABET \in Nat /\ (n - 1) \div ALPHABET < n
    BY <1>1, <2>2 DEF Descends
  <2>4. Letters[(n - 1) \div ALPHABET] \in Seq(Nat)
    BY <2>1, <2>3
  <2>5. Letters[n] = Append(Letters[(n - 1) \div ALPHABET], last(n)) /\ last(n) \in Nat
    BY <1>2, <1>9, <2>2
  <2>6. \A a \in Seq(Nat) : \A x \in Nat : Append(a, x) \in Seq(Nat)
    OBVIOUS
  <2>7. Letters[n] \in Seq(Nat)
    BY <2>4, <2>5, <2>6
  <2> QED BY <2>7
<1>11. Letters \in [Nat -> Seq(Nat)]
  BY <1>f, <1>10
<1> QED BY <1>9, <1>11 DEF last

\* No two numbers have the same letters.
LEMMA LettersApart ==
  ASSUME NEW m \in Nat, NEW n \in Nat, Letters[m] = Letters[n]
  PROVE  m = n
<1> DEFINE alike == {k \in Nat : \E l \in Nat : k # l /\ Letters[k] = Letters[l]}
           less(k) == (k - 1) \div ALPHABET
<1> SUFFICES ASSUME alike # {} PROVE FALSE
  OBVIOUS
<1>1. PICK k \in alike : \A l \in alike : k <= l
  <2>1. alike \subseteq Nat
    OBVIOUS
  <2> HIDE DEF alike
  <2> QED BY <2>1, LeastElement
<1>2. PICK l \in Nat : k # l /\ Letters[k] = Letters[l]
  OBVIOUS
<1>3. \A i \in Nat \ {0} :
        /\ less(i) \in Nat /\ less(i) < i /\ (i - 1) % ALPHABET \in Nat
        /\ i - 1 = ALPHABET * less(i) + ((i - 1) % ALPHABET)
        /\ Letters[less(i)] \in Seq(Nat)
        /\ Letters[i] = Append(Letters[less(i)], ((i - 1) % ALPHABET) + 1)
        /\ Letters[i] # <<>>
  <2> SUFFICES ASSUME NEW i \in Nat \ {0}
               PROVE  /\ less(i) \in Nat /\ less(i) < i /\ (i - 1) % ALPHABET \in Nat
                      /\ i - 1 = ALPHABET * less(i) + ((i - 1) % ALPHABET)
                      /\ Letters[less(i)] \in Seq(Nat)
                      /\ Letters[i] = Append(Letters[less(i)], ((i - 1) % ALPHABET) + 1)
                      /\ Letters[i] # <<>>
    OBVIOUS
  <2>1. /\ less(i) \in Nat /\ less(i) <= i - 1 /\ (i - 1) % ALPHABET \in Nat
        /\ i - 1 = ALPHABET * less(i) + ((i - 1) % ALPHABET)
    <3>1. i - 1 \in Nat
      OBVIOUS
    <3> QED BY <3>1, Divided
  <2>2. /\ Letters[less(i)] \in Seq(Nat)
        /\ Letters[i] = Append(Letters[less(i)], ((i - 1) % ALPHABET) + 1)
    BY <2>1, LettersAre
  <2> HIDE DEF less
  <2>3. less(i) < i
    BY <2>1
  <2>4. Letters[i] # <<>>
    <3>1. \A a \in Seq(Nat) : \A x : Append(a, x) # <<>>
      BY SMTT(30)
    <3> QED BY <2>2, <3>1
  <2> QED BY <2>1, <2>2, <2>3, <2>4
<1> HIDE DEF less
<1>4. k # 0 /\ l # 0
  BY <1>2, <1>3, LettersAre
<1>5. k \in Nat \ {0} /\ l \in Nat \ {0}
  BY <1>4
<1>6. Append(Letters[less(k)], ((k - 1) % ALPHABET) + 1)
        = Append(Letters[less(l)], ((l - 1) % ALPHABET) + 1)
  BY <1>2, <1>3, <1>5
<1>7. Letters[less(k)] = Letters[less(l)] /\ (k - 1) % ALPHABET = (l - 1) % ALPHABET
  <2> DEFINE a == Letters[less(k)]
             b == Letters[less(l)]
             x == (k - 1) % ALPHABET
             y == (l - 1) % ALPHABET
  <2>1. a \in Seq(Nat) /\ b \in Seq(Nat) /\ x \in Nat /\ y \in Nat /\ Append(a, x + 1) = Append(b, y + 1)
    BY <1>3, <1>5, <1>6
  <2> HIDE DEF a, b, x, y
  <2>2. /\ Len(Append(a, x + 1)) = Len(a) + 1 /\ Len(Append(b, y + 1)) = Len(b) + 1
        /\ Append(a, x + 1)[Len(a) + 1] = x + 1 /\ Append(b, y + 1)[Len(b) + 1] = y + 1
        /\ \A i \in 1..Len(a) : Append(a, x + 1)[i] = a[i]
        /\ \A i \in 1..Len(b) : Append(b, y + 1)[i] = b[i]
    BY <2>1, SMTT(30)
  <2>3. Len(a) = Len(b) /\ x = y
    BY <2>1, <2>2
  <2>4. a = b
    <3>1. a = [i \in 1..Len(a) |-> a[i]] /\ b = [i \in 1..Len(b) |-> b[i]]
      BY <2>1, SMTT(30)
    <3>2. \A i \in 1..Len(a) : a[i] = b[i]
      BY <2>1, <2>2, <2>3
    <3> QED BY <2>3, <3>1, <3>2
  <2> QED BY <2>3, <2>4 DEF a, b, x, y
<1>8. less(k) # less(l)
  <2> SUFFICES ASSUME less(k) = less(l) PROVE FALSE
    OBVIOUS
  <2>1. k - 1 = l - 1
    BY <1>3, <1>5, <1>7
  <2> QED BY <1>2, <1>5, <2>1
<1>9. less(k) \in alike
  BY <1>3, <1>5, <1>7, <1>8
<1>10. less(k) < k
  BY <1>3, <1>5
<1> QED
  <2>1. k \in Nat /\ less(k) \in Nat
    BY <1>3, <1>5
  <2> HIDE DEF alike
  <2> QED BY <1>1, <1>9, <1>10, <2>1

-----------------------------------------------------------------------------
(* Ancestries                                                              *)

\* Every section's parent is the document or a section before it.
ParentsBefore(sections) ==
  /\ Len(sections) \in Nat
  /\ \A i \in 1..Len(sections) : sections[i].parent \in 0..(i - 1)

\* A section's ancestry is itself, then its parent's.
LEMMA AncestryIs ==
  ASSUME NEW sections, ParentsBefore(sections)
  PROVE  /\ Ancestry(sections, 0) = <<>>
         /\ \A i \in 0..Len(sections) : Ancestry(sections, i) \in Seq(Nat)
         /\ \A i \in 1..Len(sections) :
              Ancestry(sections, i) = <<i>> \o Ancestry(sections, sections[i].parent)
<1> DEFINE N == Len(sections)
           parent(i) == sections[i].parent
           from == [n \in Nat \ {0} |-> IF n \in 1..N THEN parent(n) ELSE 0]
           step == [n \in Nat \ {0} |-> [a \in Seq(Nat) |-> <<n>> \o a]]
           Chain(f) == [k \in 0..N |-> IF k = 0 THEN <<>> ELSE <<k>> \o f[parent(k)]]
           up == CHOOSE f : f = Chain(f)
<1>1. N \in Nat /\ \A i \in 1..N : parent(i) \in 0..(i - 1)
  BY DEF ParentsBefore
<1>2. \A i : Ancestry(sections, i) = up[i]
  BY DEF Ancestry
<1> HIDE DEF N, parent, up
<1>3. Descends(from)
  BY <1>1 DEF Descends
<1>4. step \in [Nat \ {0} -> [Seq(Nat) -> Seq(Nat)]] /\ <<>> \in Seq(Nat)
  <2>1. \A n \in Nat \ {0} : \A a \in Seq(Nat) : <<n>> \o a \in Seq(Nat)
    BY ConcatProperties
  <2> QED BY <2>1
<1>5. PICK f : Wholly(f, Seq(Nat), <<>>, from, step)
  <2> HIDE DEF from, step
  <2> QED BY <1>3, <1>4, Recursion
<1>6. /\ f \in [Nat -> Seq(Nat)] /\ f[0] = <<>>
      /\ \A n \in 1..N : f[n] = <<n>> \o f[parent(n)]
  <2>1. ASSUME NEW n \in 1..N PROVE f[n] = <<n>> \o f[parent(n)]
    <3>1. n \in Nat \ {0} /\ from[n] = parent(n)
      BY <1>1
    <3>2. f[n] = step[n][f[from[n]]] /\ f[from[n]] \in Seq(Nat)
      BY <1>3, <1>5, <3>1 DEF Wholly, Descends
    <3>3. \A a \in Seq(Nat) : step[n][a] = <<n>> \o a
      BY <3>1
    <3> HIDE DEF from, step
    <3> QED BY <3>1, <3>2, <3>3
  <2> QED BY <1>5, <2>1 DEF Wholly
<1> HIDE DEF from, step
<1> DEFINE g == [k \in 0..N |-> f[k]]
<1>7. g = Chain(g)
  <2>1. ASSUME NEW k \in 0..N PROVE g[k] = IF k = 0 THEN <<>> ELSE <<k>> \o g[parent(k)]
    <3>1. CASE k = 0
      BY <1>6, <3>1
    <3>2. CASE k # 0
      <4>1. k \in 1..N /\ parent(k) \in 0..N
        BY <1>1, <3>2
      <4> QED BY <1>6, <3>2, <4>1
    <3> QED BY <3>1, <3>2
  <2>2. g = [k \in 0..N |-> g[k]]
    OBVIOUS
  <2> HIDE DEF g
  <2> QED BY <2>1, <2>2
<1>8. up = Chain(up)
  <2> HIDE DEF Chain, g
  <2> QED BY <1>7 DEF up
<1>9. up[0] = <<>> /\ \A k \in 1..N : up[k] = <<k>> \o up[parent(k)]
  <2>1. 0 \in 0..N /\ \A k \in 1..N : k \in 0..N /\ k # 0
    BY <1>1
  <2> QED BY <1>8, <2>1
<1> DEFINE odd == {k \in 0..N : up[k] \notin Seq(Nat)}
<1>10. odd = {}
  <2> SUFFICES ASSUME odd # {} PROVE FALSE
    OBVIOUS
  <2>1. PICK n \in odd : \A m \in odd : n <= m
    <3>1. odd \subseteq Nat
      BY <1>1
    <3> HIDE DEF odd
    <3> QED BY <3>1, LeastElement
  <2>2. n \in 1..N
    <3>1. n \in 0..N /\ up[n] \notin Seq(Nat) /\ <<>> \in Seq(Nat)
      OBVIOUS
    <3>2. up[0] \in Seq(Nat)
      BY <1>9, <3>1
    <3>3. n # 0
      BY <3>1, <3>2
    <3> QED BY <1>1, <3>1, <3>3
  <2>3. parent(n) \in 0..N /\ parent(n) < n
    BY <1>1, <2>2
  <2>4. up[parent(n)] \in Seq(Nat)
    BY <1>1, <2>1, <2>2, <2>3
  <2>5. <<n>> \o up[parent(n)] \in Seq(Nat)
    <3>1. <<n>> \in Seq(Nat)
      BY <1>1, <2>2
    <3> QED BY <2>4, <3>1, ConcatProperties
  <2> QED BY <1>9, <2>2, <2>5
<1> QED BY <1>2, <1>9, <1>10 DEF N, parent

\* The sections from the top down to one, it last.
DownTo(sections, i) == Reverse(Ancestry(sections, i))

\* The way down to a section goes by its parent.
LEMMA DownIs ==
  ASSUME NEW sections, ParentsBefore(sections)
  PROVE  /\ DownTo(sections, 0) = <<>>
         /\ \A i \in 0..Len(sections) : DownTo(sections, i) \in Seq(Nat)
         /\ \A i \in 1..Len(sections) :
              DownTo(sections, i) = Append(DownTo(sections, sections[i].parent), i)
<1>1. \A s \in Seq(Nat) : Reverse(s) \in Seq(Nat)
  BY DEF Reverse
<1>2. Reverse(<<>>) = <<>>
  BY DEF Reverse
<1>3. ASSUME NEW s \in Seq(Nat), NEW n \in Nat PROVE Reverse(<<n>> \o s) = Append(Reverse(s), n)
  <2> DEFINE all == <<n>> \o s
             L == Len(s)
  <2>1. /\ L \in Nat /\ all \in Seq(Nat) /\ Len(all) = L + 1
        /\ all[1] = n /\ \A k \in 2..(L + 1) : all[k] = s[k - 1]
    BY ConcatProperties
  <2>2. Reverse(s) \in Seq(Nat) /\ Len(Reverse(s)) = L /\ \A k \in 1..L : Reverse(s)[k] = s[(L - k) + 1]
    BY DEF Reverse
  <2>3. /\ Append(Reverse(s), n) \in Seq(Nat) /\ Len(Append(Reverse(s), n)) = L + 1
        /\ \A k \in 1..L : Append(Reverse(s), n)[k] = Reverse(s)[k]
        /\ Append(Reverse(s), n)[L + 1] = n
    BY <2>2
  <2> HIDE DEF all
  <2>4. /\ Reverse(all) \in Seq(Nat) /\ Len(Reverse(all)) = L + 1
        /\ \A k \in 1..(L + 1) : Reverse(all)[k] = all[((L + 1) - k) + 1]
    BY <2>1 DEF Reverse
  <2> HIDE DEF L
  <2>5. \A k \in 1..(L + 1) : Reverse(all)[k] = Append(Reverse(s), n)[k]
    <3> SUFFICES ASSUME NEW k \in 1..(L + 1) PROVE Reverse(all)[k] = Append(Reverse(s), n)[k]
      OBVIOUS
    <3>1. CASE k = L + 1
      <4>1. ((L + 1) - k) + 1 = 1
        BY <2>1, <3>1
      <4> QED BY <2>1, <2>3, <2>4, <3>1, <4>1
    <3>2. CASE k # L + 1
      <4>1. k \in 1..L /\ ((L + 1) - k) + 1 \in 2..(L + 1) /\ (((L + 1) - k) + 1) - 1 = (L - k) + 1
        BY <2>1, <3>2
      <4>2. Reverse(all)[k] = all[((L + 1) - k) + 1]
        BY <2>4
      <4>3. all[((L + 1) - k) + 1] = s[(L - k) + 1]
        BY <2>1, <4>1
      <4>4. Append(Reverse(s), n)[k] = s[(L - k) + 1]
        BY <2>2, <2>3, <4>1
      <4> QED BY <4>2, <4>3, <4>4
    <3> QED BY <3>1, <3>2
  <2>6. Reverse(all) = Append(Reverse(s), n)
    <3> DEFINE a == Reverse(all)
               b == Append(Reverse(s), n)
    <3>1. a \in Seq(Nat) /\ b \in Seq(Nat) /\ Len(a) = Len(b) /\ \A k \in 1..Len(a) : a[k] = b[k]
      BY <2>3, <2>4, <2>5
    <3> HIDE DEF a, b
    <3>2. a = b
      BY <3>1, SeqEqual
    <3> QED BY <3>2 DEF a, b
  <2> QED BY <2>6 DEF all
<1>4. /\ DownTo(sections, 0) = <<>>
      /\ \A i \in 0..Len(sections) : DownTo(sections, i) \in Seq(Nat)
  BY <1>1, <1>2, AncestryIs DEF DownTo
<1>5. ASSUME NEW i \in 1..Len(sections)
      PROVE  DownTo(sections, i) = Append(DownTo(sections, sections[i].parent), i)
  <2>1. sections[i].parent \in 0..Len(sections) /\ i \in Nat
    BY DEF ParentsBefore
  <2>2. Ancestry(sections, sections[i].parent) \in Seq(Nat)
    BY <2>1, AncestryIs
  <2>3. Ancestry(sections, i) = <<i>> \o Ancestry(sections, sections[i].parent)
    BY AncestryIs
  <2> QED BY <1>3, <2>1, <2>2, <2>3 DEF DownTo
<1> QED BY <1>4, <1>5

\* From the top, each section on the way down is the parent of the next.
Descent(sections, i) ==
  LET down == DownTo(sections, i)
  IN  /\ down \in Seq(Nat) /\ down # <<>> /\ down[Len(down)] = i
      /\ \A k \in 1..Len(down) : down[k] \in 1..Len(sections)
      /\ sections[down[1]].parent = 0
      /\ \A k \in 2..Len(down) : sections[down[k]].parent = down[k - 1]

\* Every section that can be, is reached from the top.
LEMMA Descents ==
  ASSUME NEW sections, ParentsBefore(sections), NEW i \in 1..Len(sections)
  PROVE  Descent(sections, i)
<1> DEFINE odd == {k \in 1..Len(sections) : ~Descent(sections, k)}
<1> SUFFICES ASSUME odd # {} PROVE FALSE
  OBVIOUS
<1>0. Len(sections) \in Nat
  BY DEF ParentsBefore
<1>1. PICK n \in odd : \A m \in odd : n <= m
  <2>1. odd \subseteq Nat
    BY <1>0
  <2> HIDE DEF odd
  <2> QED BY <2>1, LeastElement
<1> DEFINE p == sections[n].parent
           down == DownTo(sections, n)
           above == DownTo(sections, p)
<1>2. n \in 1..Len(sections) /\ p \in 0..(n - 1) /\ p \in 0..Len(sections)
  BY <1>0 DEF ParentsBefore
<1>3. down = Append(above, n) /\ above \in Seq(Nat)
  BY <1>2, DownIs
<1>4. /\ down \in Seq(Nat) /\ Len(down) = Len(above) + 1 /\ Len(above) \in Nat
      /\ \A k \in 1..Len(above) : down[k] = above[k]
      /\ down[Len(above) + 1] = n
  <2>1. n \in Nat
    BY <1>0, <1>2
  <2> HIDE DEF down, above
  <2> QED BY <1>3, <2>1
<1>5. p = 0 => above = <<>>
  BY DownIs
<1>6. p # 0 => Descent(sections, p)
  <2>1. p # 0 => p \in 1..Len(sections) /\ p < n
    BY <1>0, <1>2
  <2> HIDE DEF p
  <2> QED BY <1>0, <1>1, <1>2, <2>1
<1>7. Descent(sections, n)
  <2>1. CASE p = 0
    <3>1. Len(above) = 0 /\ down[1] = n /\ down # <<>> /\ Len(down) = 1
      BY <1>4, <1>5, <2>1
    <3>2. /\ \A k \in 1..Len(down) : k = 1
          /\ ~\E k \in 2..Len(down) : TRUE
      BY <3>1
    <3>3. /\ down[Len(down)] = n /\ \A k \in 1..Len(down) : down[k] \in 1..Len(sections)
          /\ sections[down[1]].parent = 0
      BY <1>2, <2>1, <3>1, <3>2
    <3> HIDE DEF down
    <3> QED BY <1>4, <3>1, <3>2, <3>3 DEF Descent, down
  <2>2. CASE p # 0
    <3>1. /\ above # <<>> /\ above[Len(above)] = p
          /\ \A k \in 1..Len(above) : above[k] \in 1..Len(sections)
          /\ sections[above[1]].parent = 0
          /\ \A k \in 2..Len(above) : sections[above[k]].parent = above[k - 1]
      BY <1>6, <2>2 DEF Descent
    <3>2. Len(above) \in Nat \ {0}
      <4> HIDE DEF above
      <4> QED BY <1>3, <3>1
    <3> HIDE DEF down, above
    <3>3. down # <<>> /\ down[Len(down)] = n /\ down[1] = above[1]
      BY <1>4, <3>2
    <3>4. \A k \in 1..Len(down) : down[k] \in 1..Len(sections)
      <4> SUFFICES ASSUME NEW k \in 1..Len(down) PROVE down[k] \in 1..Len(sections)
        OBVIOUS
      <4>1. k \in 1..Len(above) \/ k = Len(above) + 1
        BY <1>4
      <4> QED BY <1>2, <1>4, <3>1, <4>1
    <3>5. \A k \in 2..Len(down) : sections[down[k]].parent = down[k - 1]
      <4> SUFFICES ASSUME NEW k \in 2..Len(down) PROVE sections[down[k]].parent = down[k - 1]
        OBVIOUS
      <4>1. CASE k = Len(above) + 1
        <5>1. down[k] = n /\ k - 1 = Len(above) /\ down[Len(above)] = above[Len(above)]
          BY <1>4, <3>2, <4>1, SMTT(30)
        <5> QED BY <3>1, <5>1
      <4>2. CASE k # Len(above) + 1
        <5>1. k \in 2..Len(above) /\ k \in 1..Len(above) /\ k - 1 \in 1..Len(above)
          BY <1>4, <4>2
        <5> QED BY <1>4, <3>1, <5>1
      <4> QED BY <4>1, <4>2
    <3> QED BY <1>4, <3>1, <3>3, <3>4, <3>5 DEF Descent, down
  <2> QED BY <2>1, <2>2
<1> QED BY <1>1, <1>7

-----------------------------------------------------------------------------
(* Sections counted apart                                                  *)

\* No two sections of one kind beneath one parent are counted alike.
CountedApart(sections) ==
  /\ ParentsBefore(sections)
  /\ \A i \in 1..Len(sections) :
       /\ sections[i].ordinal \in Nat \ {0} /\ sections[i].appendix \in BOOLEAN
       /\ sections[i].appendix => sections[i].parent = 0
  /\ \A i, j \in 1..Len(sections) :
       /\ sections[i].parent = sections[j].parent
       /\ sections[i].appendix = sections[j].appendix
       /\ sections[i].ordinal = sections[j].ordinal
       => i = j

\* Then no two sections bear one number.
LEMMA NumbersApart ==
  ASSUME NEW sections, CountedApart(sections),
         NEW i \in 1..Len(sections), NEW j \in 1..Len(sections),
         Number(sections, i) = Number(sections, j)
  PROVE  i = j
<1> DEFINE d == DownTo(sections, i)
           e == DownTo(sections, j)
           ordinals(down) == [k \in DOMAIN down |-> sections[down[k]].ordinal]
<1>1. ParentsBefore(sections)
  BY DEF CountedApart
<1>2. /\ d \in Seq(Nat) /\ Len(d) \in Nat \ {0} /\ d[Len(d)] = i /\ DOMAIN d = 1..Len(d)
      /\ \A k \in 1..Len(d) : d[k] \in 1..Len(sections)
      /\ sections[d[1]].parent = 0
      /\ \A k \in 2..Len(d) : sections[d[k]].parent = d[k - 1]
  <2>1. Descent(sections, i)
    BY <1>1, Descents
  <2> QED BY <2>1 DEF Descent
<1>3. /\ e \in Seq(Nat) /\ Len(e) \in Nat \ {0} /\ e[Len(e)] = j /\ DOMAIN e = 1..Len(e)
      /\ \A k \in 1..Len(e) : e[k] \in 1..Len(sections)
      /\ sections[e[1]].parent = 0
      /\ \A k \in 2..Len(e) : sections[e[k]].parent = e[k - 1]
  <2>1. Descent(sections, j)
    BY <1>1, Descents
  <2> QED BY <2>1 DEF Descent
<1> DEFINE top == sections[d[1]]
           apex == sections[e[1]]
<1>4. /\ top.ordinal \in Nat \ {0} /\ apex.ordinal \in Nat \ {0}
      /\ top.appendix \in BOOLEAN /\ apex.appendix \in BOOLEAN
  BY <1>2, <1>3 DEF CountedApart
<1>5. /\ Number(sections, i) = IF top.appendix
           THEN [name |-> "", letters |-> Letters[top.ordinal], path |-> Tail(ordinals(d))]
           ELSE [name |-> "", letters |-> <<>>, path |-> ordinals(d)]
      /\ Number(sections, j) = IF apex.appendix
           THEN [name |-> "", letters |-> Letters[apex.ordinal], path |-> Tail(ordinals(e))]
           ELSE [name |-> "", letters |-> <<>>, path |-> ordinals(e)]
  BY DEF Number, DownTo
<1> HIDE DEF d, e
<1>6. \A n \in Nat \ {0} : Letters[n] # <<>>
  <2>1. \A n \in Nat \ {0} : Letters[n] = Letters[0] => n = 0
    BY LettersApart
  <2> QED BY <2>1, LettersAre
<1>7. /\ Number(sections, i).letters = IF top.appendix THEN Letters[top.ordinal] ELSE <<>>
      /\ Number(sections, j).letters = IF apex.appendix THEN Letters[apex.ordinal] ELSE <<>>
      /\ Number(sections, i).path = IF top.appendix THEN Tail(ordinals(d)) ELSE ordinals(d)
      /\ Number(sections, j).path = IF apex.appendix THEN Tail(ordinals(e)) ELSE ordinals(e)
  <2>1. ASSUME NEW number, NEW c, NEW s, NEW t, NEW u,
               number = IF c THEN [name |-> "", letters |-> s, path |-> t]
                        ELSE [name |-> "", letters |-> <<>>, path |-> u]
        PROVE  /\ number.letters = IF c THEN s ELSE <<>>
               /\ number.path = IF c THEN t ELSE u
    <3>1. CASE c
      BY <2>1, <3>1
    <3>2. CASE ~c
      BY <2>1, <3>2
    <3> QED BY <3>1, <3>2
  <2> DEFINE mine == Number(sections, i)
             yours == Number(sections, j)
             a == Tail(ordinals(d))
             b == ordinals(d)
             a2 == Tail(ordinals(e))
             b2 == ordinals(e)
  <2>2. /\ mine = IF top.appendix THEN [name |-> "", letters |-> Letters[top.ordinal], path |-> a]
                  ELSE [name |-> "", letters |-> <<>>, path |-> b]
        /\ yours = IF apex.appendix THEN [name |-> "", letters |-> Letters[apex.ordinal], path |-> a2]
                  ELSE [name |-> "", letters |-> <<>>, path |-> b2]
    BY <1>5
  <2> HIDE DEF top, apex, mine, yours, a, b, a2, b2
  <2>3. /\ mine.letters = IF top.appendix THEN Letters[top.ordinal] ELSE <<>>
        /\ mine.path = IF top.appendix THEN a ELSE b
    BY <2>1, <2>2
  <2>4. /\ yours.letters = IF apex.appendix THEN Letters[apex.ordinal] ELSE <<>>
        /\ yours.path = IF apex.appendix THEN a2 ELSE b2
    BY <2>1, <2>2
  <2> QED BY <2>3, <2>4 DEF mine, yours, a, b, a2, b2
<1>8. top.appendix = apex.appendix
  <2>1. Number(sections, i).letters = Number(sections, j).letters
    OBVIOUS
  <2> HIDE DEF top, apex
  <2> QED BY <1>4, <1>6, <1>7, <2>1
<1>9. /\ ordinals(d) \in Seq(Nat) /\ Len(ordinals(d)) = Len(d)
      /\ \A k \in 1..Len(d) : ordinals(d)[k] = sections[d[k]].ordinal
      /\ ordinals(e) \in Seq(Nat) /\ Len(ordinals(e)) = Len(e)
      /\ \A k \in 1..Len(e) : ordinals(e)[k] = sections[e[k]].ordinal
  <2>1. \A k \in 1..Len(d) : sections[d[k]].ordinal \in Nat
    BY <1>2 DEF CountedApart
  <2>2. \A k \in 1..Len(e) : sections[e[k]].ordinal \in Nat
    BY <1>3 DEF CountedApart
  <2>3. /\ ordinals(d) \in Seq(Nat) /\ Len(ordinals(d)) = Len(d)
        /\ \A k \in 1..Len(d) : ordinals(d)[k] = sections[d[k]].ordinal
    BY <1>2, <2>1
  <2>4. /\ ordinals(e) \in Seq(Nat) /\ Len(ordinals(e)) = Len(e)
        /\ \A k \in 1..Len(e) : ordinals(e)[k] = sections[e[k]].ordinal
    BY <1>3, <2>2
  <2> QED BY <2>3, <2>4
<1>10. Len(d) = Len(e) /\ \A k \in 1..Len(d) : sections[d[k]].ordinal = sections[e[k]].ordinal
  <2> DEFINE a == ordinals(d)
             b == ordinals(e)
  <2>0. Number(sections, i).path = Number(sections, j).path
    OBVIOUS
  <2> HIDE DEF a, b
  <2>1. CASE ~top.appendix
    <3>1. a = b
      BY <1>7, <1>8, <2>0, <2>1 DEF a, b
    <3> QED BY <1>9, <3>1 DEF a, b
  <2>2. CASE top.appendix
    <3>1. Tail(a) = Tail(b)
      BY <1>7, <1>8, <2>0, <2>2 DEF a, b
    <3>2. /\ a \in Seq(Nat) /\ b \in Seq(Nat) /\ Len(a) = Len(d) /\ Len(b) = Len(e)
          /\ a # <<>> /\ b # <<>>
      <4>1. a \in Seq(Nat) /\ b \in Seq(Nat) /\ Len(a) = Len(d) /\ Len(b) = Len(e)
        BY <1>9 DEF a, b
      <4> QED BY <1>2, <1>3, <4>1
    <3>3. /\ Len(Tail(a)) = Len(a) - 1 /\ Len(Tail(b)) = Len(b) - 1
          /\ \A k \in 1..(Len(a) - 1) : Tail(a)[k] = a[k + 1]
          /\ \A k \in 1..(Len(b) - 1) : Tail(b)[k] = b[k + 1]
      BY <3>2
    <3>4. Len(d) = Len(e)
      <4>1. Len(a) - 1 = Len(b) - 1
        BY <3>1, <3>3
      <4>2. Len(a) = Len(d) /\ Len(b) = Len(e) /\ Len(d) \in Nat /\ Len(e) \in Nat
        BY <1>2, <1>3, <3>2
      <4> QED BY <4>1, <4>2
    <3>5. Letters[top.ordinal] = Letters[apex.ordinal]
      <4>1. Number(sections, i).letters = Number(sections, j).letters
        OBVIOUS
      <4> HIDE DEF top, apex
      <4> QED BY <1>7, <1>8, <2>2, <4>1
    <3>6. top.ordinal = apex.ordinal
      <4>1. top.ordinal \in Nat /\ apex.ordinal \in Nat
        BY <1>4
      <4> HIDE DEF top, apex
      <4> QED BY <3>5, <4>1, LettersApart
    <3>7. ASSUME NEW k \in 1..Len(d) PROVE sections[d[k]].ordinal = sections[e[k]].ordinal
      <4>1. CASE k = 1
        BY <3>6, <4>1
      <4>2. CASE k # 1
        <5>1. k - 1 \in 1..(Len(a) - 1) /\ (k - 1) + 1 = k
          BY <1>2, <3>2, <4>2
        <5>2. a[k] = b[k]
          BY <3>1, <3>2, <3>3, <3>4, <5>1
        <5> QED BY <1>9, <3>4, <5>2 DEF a, b
      <4> QED BY <4>1, <4>2
    <3> QED BY <3>4, <3>7
  <2> QED BY <1>4, <2>1, <2>2
<1>11. \A m, n \in 1..Len(sections) :
         /\ sections[m].parent = sections[n].parent
         /\ sections[m].appendix = sections[n].appendix
         /\ sections[m].ordinal = sections[n].ordinal
         => m = n
  BY DEF CountedApart
<1> DEFINE L == Len(d)
           good == {n \in 0..L : n = 0 \/ d[n] = e[n]}
<1>12. 0 \in good /\ L \in Nat
  BY <1>2
<1>13. ASSUME NEW n \in 1..L, n - 1 \in good PROVE n \in good
  <2>1. /\ d[n] \in 1..Len(sections) /\ e[n] \in 1..Len(sections)
        /\ sections[d[n]].ordinal = sections[e[n]].ordinal
    BY <1>2, <1>3, <1>10
  <2>2. d[n] = e[n]
    <3>1. CASE n = 1
      BY <1>2, <1>3, <1>8, <1>11, <2>1, <3>1
    <3>2. CASE n # 1
      <4>1. n \in 2..Len(d) /\ n \in 2..Len(e) /\ d[n - 1] = e[n - 1]
        BY <1>2, <1>10, <1>13, <3>2
      <4>2. /\ sections[d[n]].parent = d[n - 1] /\ sections[e[n]].parent = d[n - 1]
            /\ d[n - 1] \in 1..Len(sections)
        <5>1. sections[d[n]].parent = d[n - 1] /\ d[n - 1] \in 1..Len(sections)
          <6>1. n - 1 \in 1..Len(d)
            BY <1>2, <4>1
          <6> QED BY <1>2, <4>1, <6>1
        <5>2. sections[e[n]].parent = e[n - 1]
          BY <1>3, <4>1
        <5> QED BY <4>1, <5>1, <5>2
      <4>3. sections[d[n]].parent # 0 /\ sections[e[n]].parent # 0
        <5>1. Len(sections) \in Nat
          BY <1>1 DEF ParentsBefore
        <5> QED BY <4>2, <5>1
      <4>4. sections[d[n]].appendix = FALSE /\ sections[e[n]].appendix = FALSE
        BY <2>1, <4>3 DEF CountedApart
      <4> QED BY <1>11, <2>1, <4>2, <4>4
    <3> QED BY <3>1, <3>2
  <2> QED BY <2>2
<1>14. d[L] = e[L]
  <2>1. 0..L \subseteq good
    <3> HIDE DEF good, L
    <3> QED BY <1>12, <1>13, StepByStep
  <2>2. L \in 0..L /\ L # 0
    BY <1>2
  <2> HIDE DEF L
  <2> QED BY <2>1, <2>2
<1> QED BY <1>2, <1>3, <1>10, <1>14

-----------------------------------------------------------------------------
(* The outline the headings make                                           *)

\* What a heading says of the section it opens.
Opens(p) == [level |-> HeadingLevel(p), heading |-> p.heading, appendix |-> p.kind = "appendix"]

\* An appendix is never beneath another section.
IsOutline(o) ==
  /\ IsList(o)
  /\ \A i \in 1..Len(o) : /\ o[i].level \in Nat \ {0} /\ o[i].appendix \in BOOLEAN
                          /\ o[i].appendix => o[i].level = 1

\* The nearest above of a lower level.
Nearest(o, i) ==
  LET above == {j \in 1..(i - 1) : o[j].level < o[i].level}
  IN  IF above = {} THEN 0 ELSE CHOOSE j \in above : \A m \in above : m <= j

\* It is the one with none of a lower level after it.
LEMMA NearestIs ==
  ASSUME NEW o, NEW i \in Nat \ {0}, \A j \in 1..i : o[j].level \in Nat,
         NEW m \in 0..(i - 1), m # 0 => o[m].level < o[i].level,
         \A j \in (m + 1)..(i - 1) : o[j].level >= o[i].level
  PROVE  Nearest(o, i) = m
<1> DEFINE above == {j \in 1..(i - 1) : o[j].level < o[i].level}
<1>1. \A j \in above : j <= m
  <2> SUFFICES ASSUME NEW j \in above, j > m PROVE FALSE
    OBVIOUS
  <2>1. j \in (m + 1)..(i - 1) /\ o[j].level \in Nat /\ o[i].level \in Nat /\ o[j].level < o[i].level
    OBVIOUS
  <2> QED BY <2>1
<1>2. CASE m = 0
  <2>1. above = {}
    BY <1>1, <1>2
  <2> QED BY <1>2, <2>1 DEF Nearest
<1>3. CASE m # 0
  <2>1. m \in above
    BY <1>3
  <2>2. \A j \in above : (\A k \in above : k <= j) => j = m
    BY <1>1, <2>1
  <2>3. Nearest(o, i) = CHOOSE j \in above : \A k \in above : k <= j
    BY <2>1 DEF Nearest
  <2> HIDE DEF above
  <2> QED BY <1>1, <2>1, <2>2, <2>3
<1> QED BY <1>2, <1>3

\* The last of some numbers.
LEMMA GreatestElement ==
  ASSUME NEW N \in Nat, NEW S \in SUBSET (1..N), S # {}
  PROVE  \E n \in S : \A m \in S : m <= n
<1>1. Max(S) \in S
  BY NewestPosition
<1> DEFINE under == {N - m : m \in S}
<1>2. PICK d \in under : \A c \in under : d <= c
  <2>1. under \subseteq Nat /\ under # {}
    OBVIOUS
  <2> HIDE DEF under
  <2> QED BY <2>1, LeastElement
<1>3. PICK n \in S : d = N - n
  BY <1>2
<1>4. ASSUME NEW m \in S PROVE m <= n
  <2>1. N - n <= N - m
    BY <1>2, <1>3
  <2> QED BY <2>1
<1> QED BY <1>4

\* It is above, and of a lower level.
LEMMA NearestBefore ==
  ASSUME NEW o, NEW i \in Nat \ {0}, \A j \in 1..i : o[j].level \in Nat
  PROVE  /\ Nearest(o, i) \in 0..(i - 1)
         /\ Nearest(o, i) # 0 => o[Nearest(o, i)].level < o[i].level
<1> DEFINE above == {j \in 1..(i - 1) : o[j].level < o[i].level}
<1>1. CASE above = {}
  BY <1>1 DEF Nearest
<1>2. CASE above # {}
  <2>1. above \in SUBSET (1..(i - 1)) /\ i - 1 \in Nat
    OBVIOUS
  <2>2. Nearest(o, i) = CHOOSE j \in above : \A k \in above : k <= j
    BY <1>2 DEF Nearest
  <2>3. \E j \in above : \A k \in above : k <= j
    <3> HIDE DEF above
    <3> QED BY <1>2, <2>1, GreatestElement
  <2>4. Nearest(o, i) \in above
    <3> HIDE DEF above
    <3> QED BY <2>2, <2>3
  <2> QED BY <2>4
<1> QED BY <1>1, <1>2

\* What comes later does not matter to it.
LEMMA NearestSame ==
  ASSUME NEW o, NEW other, NEW i \in Nat \ {0}, \A j \in 1..i : o[j] = other[j]
  PROVE  Nearest(o, i) = Nearest(other, i)
<1> DEFINE above == {j \in 1..(i - 1) : o[j].level < o[i].level}
           higher == {j \in 1..(i - 1) : other[j].level < other[i].level}
<1>1. above = higher
  <2>1. \A j \in 1..(i - 1) : o[j] = other[j] /\ o[i] = other[i]
    OBVIOUS
  <2> QED BY <2>1
<1>2. /\ Nearest(o, i) = IF above = {} THEN 0 ELSE CHOOSE j \in above : \A m \in above : m <= j
      /\ Nearest(other, i) = IF higher = {} THEN 0 ELSE CHOOSE j \in higher : \A m \in higher : m <= j
  BY DEF Nearest
<1> HIDE DEF above, higher
<1> QED BY <1>1, <1>2

-----------------------------------------------------------------------------
(* The sections and the stack, and the headings they are of                *)

\* A section among those of its kind beneath its parent, up to it.
Kin(o, i) == {j \in 1..i : Nearest(o, j) = Nearest(o, i) /\ o[j].appendix = o[i].appendix}

\* Each section is where the headings put it.
Outlined(sections, o) ==
  /\ IsList(sections) /\ Len(sections) = Len(o)
  /\ \A i \in 1..Len(o) :
       /\ sections[i].heading = o[i].heading
       /\ sections[i].appendix = o[i].appendix
       /\ sections[i].parent = Nearest(o, i)
       /\ sections[i].ordinal = Cardinality(Kin(o, i))

\* Open sections, and how many each has opened beneath it.
Frames == [level : Nat, section : Nat, numbered : Nat, appendices : Nat]

\* What is of one kind beneath one section.
Beneaths(o, of, appendix) == {j \in 1..Len(o) : Nearest(o, j) = of /\ o[j].appendix = appendix}

\* The frames are of ever lower sections, the last heading's the last; any heading
\* is above or in a frame whose level is at most its own; and each frame has counted
\* what is beneath it.
Stacked(stack, o) ==
  /\ stack \in Seq(Frames) /\ Len(stack) > 0 /\ stack[1].level = 0 /\ stack[1].section = 0
  /\ \A k \in 2..Len(stack) : /\ stack[k].section \in 1..Len(o)
                              /\ stack[k].level = o[stack[k].section].level
  /\ \A k, l \in 1..Len(stack) : k < l => /\ stack[k].level < stack[l].level
                                          /\ stack[k].section < stack[l].section
  /\ \A j \in 1..Len(o) : \E k \in 2..Len(stack) : j <= stack[k].section /\ stack[k].level <= o[j].level
  /\ \A k \in 1..Len(stack) :
       /\ stack[k].numbered = Cardinality(Beneaths(o, stack[k].section, FALSE))
       /\ stack[k].appendices = Cardinality(Beneaths(o, stack[k].section, TRUE))

\* The frames a heading is beneath, up to the k-th.
IsBeneath(stack, level, k) ==
  /\ k \in 1..Len(stack) /\ stack[k].level < level
  /\ \A j \in (k + 1)..Len(stack) : stack[j].level >= level
  /\ Beneath(stack, level) = SubSeq(stack, 1, k)

\* There is a last frame that a heading is beneath: the document itself is a frame.
LEMMA BeneathIs ==
  ASSUME NEW stack, NEW o, Stacked(stack, o), NEW level \in Nat \ {0}
  PROVE  \E k : IsBeneath(stack, level, k)
<1> DEFINE N == Len(stack)
           lower == {k \in 1..N : stack[k].level < level}
           Fits(i) == stack[i].level < level /\ \A j \in (i + 1)..N : stack[j].level >= level
<1>1. N \in Nat /\ DOMAIN stack = 1..N /\ \A k \in 1..N : stack[k].level \in Nat
  <2>1. stack \in Seq(Frames)
    BY DEF Stacked
  <2>2. Len(stack) \in Nat /\ DOMAIN stack = 1..Len(stack)
    BY <2>1
  <2>3. \A k \in 1..Len(stack) : stack[k] \in Frames
    BY <2>1
  <2> QED BY <2>2, <2>3 DEF Frames
<1>2. 1 \in lower
  BY DEF Stacked
<1> HIDE DEF N
<1>3. PICK k \in lower : \A m \in lower : m <= k
  <2>1. lower \in SUBSET (1..N)
    OBVIOUS
  <2> HIDE DEF lower
  <2> QED BY <1>1, <1>2, <2>1, GreatestElement
<1>4. k \in 1..N /\ Fits(k)
  <2>1. ASSUME NEW j \in (k + 1)..N PROVE stack[j].level >= level
    <3>1. j \notin lower /\ j \in 1..N
      BY <1>1, <1>3
    <3> QED BY <1>1, <3>1
  <2> QED BY <2>1
<1>5. ASSUME NEW i \in DOMAIN stack, Fits(i) PROVE i = k
  <2>1. i \in 1..N /\ i \in lower
    BY <1>1, <1>5
  <2>2. i <= k
    BY <1>3, <2>1
  <2>3. CASE i < k
    <3>1. k \in (i + 1)..N /\ stack[k].level < level
      BY <1>1, <2>1, <2>3
    <3> QED BY <1>1, <1>5, <3>1
  <2> QED BY <1>1, <2>1, <2>2, <2>3
<1>6. Beneath(stack, level) = SubSeq(stack, 1, CHOOSE i \in DOMAIN stack : Fits(i))
  BY DEF Beneath, N
<1>7. Beneath(stack, level) = SubSeq(stack, 1, k)
  <2> HIDE DEF Fits, lower
  <2>1. k \in DOMAIN stack /\ Fits(k)
    BY <1>1, <1>4
  <2>2. (CHOOSE i \in DOMAIN stack : Fits(i)) = k
    BY <1>5, <2>1
  <2> QED BY <1>6, <2>2
<1>8. IsBeneath(stack, level, k)
  BY <1>4, <1>7 DEF IsBeneath, N
<1> QED BY <1>8

-----------------------------------------------------------------------------
(* Opening a section                                                       *)

\* What the walk holds.
Parts == {"sections", "stack", "items", "pending", "boxed", "opened", "bookmarks"}
IsWalk(w) == DOMAIN w = Parts

\* The heading put beneath its parent, which counts it.
Counted(frame, appendix) ==
  IF appendix THEN [frame EXCEPT !.appendices = @ + 1] ELSE [frame EXCEPT !.numbered = @ + 1]
Ordinal(frame, appendix) == IF appendix THEN frame.appendices + 1 ELSE frame.numbered + 1

\* Counting keeps a frame a frame.
LEMMA CountedIs ==
  ASSUME NEW frame \in Frames, NEW appendix
  PROVE  Counted(frame, appendix) \in Frames
<1>1. [frame EXCEPT !.appendices = @ + 1] \in Frames
  BY DEF Frames
<1>2. [frame EXCEPT !.numbered = @ + 1] \in Frames
  BY DEF Frames
<1> QED BY <1>1, <1>2 DEF Counted

\* Counting changes one count, by one.
LEMMA CountedFields ==
  ASSUME NEW frame \in Frames, NEW appendix \in BOOLEAN
  PROVE  LET counted == Counted(frame, appendix)
         IN  /\ counted.level = frame.level /\ counted.section = frame.section
             /\ counted.numbered = IF appendix THEN frame.numbered ELSE frame.numbered + 1
             /\ counted.appendices = IF appendix THEN frame.appendices + 1 ELSE frame.appendices
<1>1. CASE appendix = TRUE
  BY <1>1 DEF Frames, Counted
<1>2. CASE appendix = FALSE
  BY <1>2 DEF Frames, Counted
<1> QED BY <1>1, <1>2

\* The stack with frames k to the last replaced by the k-th, counted, and one more.
StackedOn(stack, k, counted, frame, grown) ==
  /\ grown \in Seq(Frames) /\ Len(grown) = k + 1
  /\ \A j \in 1..(k - 1) : grown[j] = stack[j]
  /\ grown[k] = counted /\ grown[k + 1] = frame

\* The stack of a section opened is its parent's, counted, and the frame of its own.
LEMMA StackIs ==
  ASSUME NEW stack \in Seq(Frames), NEW k \in 1..Len(stack), NEW counted \in Frames, NEW frame \in Frames
  PROVE  /\ Last(SubSeq(stack, 1, k)) = stack[k]
         /\ StackedOn(stack, k, counted, frame, Append(Append(Front(SubSeq(stack, 1, k)), counted), frame))
<1> DEFINE under == SubSeq(stack, 1, k)
           front == SubSeq(under, 1, k - 1)
<1>1. /\ under \in Seq(Frames) /\ Len(under) = k /\ k \in Nat \ {0}
      /\ \A j \in 1..k : under[j] = stack[j]
  OBVIOUS
<1> HIDE DEF under
<1>2. Last(under) = stack[k] /\ Front(under) = front
  <2>1. k \in 1..k
    BY <1>1
  <2> QED BY <1>1, <2>1 DEF Last, Front
<1>3. /\ front \in Seq(Frames) /\ Len(front) = k - 1
      /\ \A j \in 1..(k - 1) : front[j] = stack[j]
  <2>1. /\ front \in Seq(Frames) /\ Len(front) = k - 1
        /\ \A j \in 1..(k - 1) : front[j] = under[j]
    BY <1>1
  <2> QED BY <1>1, <2>1
<1> HIDE DEF front
<1> DEFINE one == Append(front, counted)
           grown == Append(one, frame)
<1>4. /\ one \in Seq(Frames) /\ Len(one) = k
      /\ \A j \in 1..(k - 1) : one[j] = stack[j]
      /\ one[k] = counted
  BY <1>1, <1>3
<1> HIDE DEF one
<1>5. /\ grown \in Seq(Frames) /\ Len(grown) = k + 1
      /\ \A j \in 1..k : grown[j] = one[j]
      /\ grown[k + 1] = frame
  BY <1>1, <1>4
<1> HIDE DEF grown
<1>6. StackedOn(stack, k, counted, frame, grown)
  BY <1>1, <1>4, <1>5 DEF StackedOn
<1> QED BY <1>2, <1>6 DEF grown, one, under

\* A section opened is put after the others, and its frame on its parent's.
Grown(w, p, v, k) ==
  LET appendix == p.kind = "appendix"
      parent   == w.stack[k]
  IN  /\ v = [w EXCEPT !.sections = v.sections, !.stack = v.stack]
      /\ v.sections = Append(w.sections, [heading  |-> p.heading, appendix |-> appendix,
                                          ordinal  |-> Ordinal(parent, appendix),
                                          parent   |-> parent.section, content |-> <<>>])
      /\ StackedOn(w.stack, k, Counted(parent, appendix),
                   Frame(HeadingLevel(p), Len(w.sections) + 1), v.stack)

\* OpenSection does that and nothing else.
LEMMA OpenSectionIs ==
  ASSUME NEW w, IsWalk(w), NEW o, Stacked(w.stack, o), IsList(w.sections),
         NEW p, HeadingLevel(p) \in Nat \ {0}
  PROVE  \E k : IsBeneath(w.stack, HeadingLevel(p), k) /\ Grown(w, p, OpenSection(w, p), k)
<1> DEFINE level == HeadingLevel(p)
           appendix == p.kind = "appendix"
           under == Beneath(w.stack, level)
           v == OpenSection(w, p)
<1>1. PICK k : IsBeneath(w.stack, level, k)
  BY BeneathIs
<1>2. k \in 1..Len(w.stack) /\ under = SubSeq(w.stack, 1, k)
  BY <1>1 DEF IsBeneath
<1> DEFINE parent == w.stack[k]
           counted == Counted(parent, appendix)
           frame == Frame(level, Len(w.sections) + 1)
           grown == Append(Append(Front(under), counted), frame)
           sections == Append(w.sections, [heading  |-> p.heading, appendix |-> appendix,
                                          ordinal  |-> Ordinal(parent, appendix),
                                          parent   |-> parent.section, content |-> <<>>])
<1>3. w.stack \in Seq(Frames) /\ parent \in Frames
  <2>1. w.stack \in Seq(Frames)
    BY DEF Stacked
  <2> QED BY <1>2, <2>1
<1>4. counted \in Frames /\ frame \in Frames
  <2>1. counted \in Frames
    <3> HIDE DEF parent, appendix
    <3> QED BY <1>3, CountedIs
  <2>2. Len(w.sections) + 1 \in Nat
    BY DEF IsList
  <2>3. frame \in Frames
    BY <2>2 DEF Frames, Frame
  <2> QED BY <2>1, <2>3
<1>5. Last(under) = parent /\ StackedOn(w.stack, k, counted, frame, grown)
  <2> HIDE DEF counted, frame
  <2> QED BY <1>2, <1>3, <1>4, StackIs
<1>6. v = [w EXCEPT !.sections = sections, !.stack = grown]
  <2> DEFINE tally == IF appendix THEN [Last(under) EXCEPT !.appendices = @ + 1]
                      ELSE [Last(under) EXCEPT !.numbered = @ + 1]
             ordinal == IF appendix THEN tally.appendices ELSE tally.numbered
  <2>1. v = [w EXCEPT !.sections = Append(@, [heading  |-> p.heading, appendix |-> appendix,
                                          ordinal  |-> ordinal,
                                          parent   |-> Last(under).section, content |-> <<>>]),
                      !.stack = Append(Append(Front(under), tally), frame)]
    BY DEF OpenSection
  <2>2. tally = counted
    BY <1>5 DEF Counted
  <2>3. counted.appendices = IF appendix THEN parent.appendices + 1 ELSE parent.appendices
    BY <1>3 DEF Counted, Frames
  <2>4. counted.numbered = IF appendix THEN parent.numbered ELSE parent.numbered + 1
    BY <1>3 DEF Counted, Frames
  <2>5. ordinal = Ordinal(parent, appendix)
    <3> HIDE DEF counted, tally, parent, appendix
    <3> QED BY <2>2, <2>3, <2>4 DEF Ordinal
  <2> HIDE DEF tally, ordinal, under, counted, frame, parent, appendix
  <2> QED BY <1>5, <2>1, <2>2, <2>5
<1>7. v.sections = sections /\ v.stack = grown
  <2> HIDE DEF sections, grown, v
  <2> QED BY <1>6 DEF IsWalk, Parts
<1>8. Grown(w, p, v, k)
  <2> HIDE DEF v, under
  <2> QED BY <1>5, <1>6, <1>7 DEF Grown
<1> QED BY <1>1, <1>8

\* One heading more.
LongerOutline(o, e, longer) ==
  /\ IsOutline(o) /\ IsOutline(longer) /\ Len(o) \in Nat /\ Len(longer) = Len(o) + 1
  /\ \A i \in 1..Len(o) : longer[i] = o[i]
  /\ longer[Len(o) + 1] = e

\* The headings so far are where they were.
LEMMA OutlineLonger ==
  ASSUME NEW o, IsOutline(o), NEW e, e.level \in Nat \ {0}, e.appendix \in BOOLEAN,
         e.appendix => e.level = 1
  PROVE  LongerOutline(o, e, Append(o, e))
<1> DEFINE longer == Append(o, e)
           n == Len(o)
<1>1. /\ IsList(longer) /\ Len(longer) = n + 1 /\ n \in Nat
      /\ \A i \in 1..n : longer[i] = o[i]
      /\ longer[n + 1] = e
  BY LongerIs DEF IsOutline
<1> HIDE DEF longer
<1>2. ASSUME NEW i \in 1..(n + 1)
      PROVE  /\ longer[i].level \in Nat \ {0} /\ longer[i].appendix \in BOOLEAN
             /\ longer[i].appendix => longer[i].level = 1
  <2>1. CASE i = n + 1
    BY <1>1, <2>1
  <2>2. CASE i # n + 1
    <3>1. i \in 1..n
      BY <1>1, <2>2
    <3> QED BY <1>1, <3>1 DEF IsOutline
  <2> QED BY <2>1, <2>2
<1>3. IsOutline(longer)
  BY <1>1, <1>2 DEF IsOutline
<1>4. LongerOutline(o, e, longer)
  BY <1>1, <1>3 DEF LongerOutline
<1> QED BY <1>4 DEF longer

\* The parent of what is opened is the section of the frame it is beneath.
LEMMA ParentIsNearest ==
  ASSUME NEW o, NEW e, NEW longer, LongerOutline(o, e, longer),
         NEW stack, Stacked(stack, o), NEW k, IsBeneath(stack, e.level, k)
  PROVE  /\ stack[k].section \in 0..Len(o)
         /\ Nearest(longer, Len(o) + 1) = stack[k].section
         /\ \A i \in 1..Len(o) : Nearest(longer, i) = Nearest(o, i)
<1> DEFINE n == Len(o)
           N == Len(stack)
           m == stack[k].section
<1>1. /\ n \in Nat /\ \A i \in 1..n : longer[i] = o[i]
      /\ longer[n + 1] = e /\ e.level \in Nat \ {0}
      /\ \A i \in 1..n : o[i].level \in Nat \ {0}
  <2>1. n \in Nat /\ (\A i \in 1..n : longer[i] = o[i]) /\ longer[n + 1] = e
    BY DEF LongerOutline
  <2>2. \A i \in 1..(n + 1) : longer[i].level \in Nat \ {0}
    BY DEF LongerOutline, IsOutline
  <2>3. \A i \in 1..n : o[i].level \in Nat \ {0}
    BY DEF LongerOutline, IsOutline
  <2>4. n + 1 \in 1..(n + 1)
    BY <2>1
  <2> QED BY <2>1, <2>2, <2>3, <2>4
<1>2. \A i \in 1..n : Nearest(longer, i) = Nearest(o, i)
  <2> SUFFICES ASSUME NEW i \in 1..n PROVE Nearest(longer, i) = Nearest(o, i)
    OBVIOUS
  <2>1. i \in Nat \ {0} /\ \A j \in 1..i : longer[j] = o[j]
    BY <1>1
  <2> QED BY <2>1, NearestSame
<1>3. /\ N \in Nat /\ stack[1].level = 0 /\ stack[1].section = 0
      /\ \A l \in 1..N : stack[l].level \in Nat /\ stack[l].section \in Nat
      /\ k \in 1..N /\ stack[k].level < e.level
      /\ \A l \in (k + 1)..N : stack[l].level >= e.level
  <2>1. N \in Nat /\ \A l \in 1..N : stack[l] \in Frames
    BY DEF Stacked
  <2> QED BY <2>1 DEF Stacked, IsBeneath, Frames
<1>4. /\ \A l \in 2..N : stack[l].section \in 1..n /\ stack[l].level = o[stack[l].section].level
      /\ \A l, q \in 1..N : l < q => stack[l].section < stack[q].section
      /\ \A j \in 1..n : \E l \in 2..N : j <= stack[l].section /\ stack[l].level <= o[j].level
  BY DEF Stacked
<1> HIDE DEF n, N
<1>5. m \in 0..n
  <2>1. CASE k = 1
    BY <1>1, <1>3, <2>1
  <2>2. CASE k # 1
    <3>1. k \in 2..N
      BY <1>3, <2>2
    <3> QED BY <1>1, <1>4, <3>1
  <2> QED BY <2>1, <2>2
<1>6. m # 0 => longer[m].level < longer[n + 1].level
  <2> SUFFICES ASSUME m # 0 PROVE longer[m].level < longer[n + 1].level
    OBVIOUS
  <2>1. k \in 2..N
    BY <1>3
  <2>2. m \in 1..n /\ stack[k].level = o[m].level
    BY <1>4, <2>1
  <2> QED BY <1>1, <1>3, <2>2
<1>7. ASSUME NEW j \in (m + 1)..n PROVE longer[j].level >= longer[n + 1].level
  <2>1. j \in 1..n /\ m < j
    BY <1>1, <1>5
  <2>2. PICK l \in 2..N : j <= stack[l].section /\ stack[l].level <= o[j].level
    BY <1>4, <2>1
  <2>3. l \in 1..N /\ stack[l].section > m
    BY <1>1, <1>3, <1>5, <2>1, <2>2
  <2>4. l > k
    <3>1. CASE l = k
      BY <1>5, <2>3, <3>1
    <3>2. CASE l < k
      <4>1. stack[l].section < m
        BY <1>3, <1>4, <2>3, <3>2
      <4> QED BY <1>3, <1>5, <2>3, <4>1
    <3> QED BY <1>3, <2>3, <3>1, <3>2
  <2>5. stack[l].level >= e.level
    BY <1>3, <2>3, <2>4
  <2> QED BY <1>1, <1>3, <2>1, <2>2, <2>3, <2>5
<1>8. Nearest(longer, n + 1) = m
  <2>1. \A j \in 1..(n + 1) : longer[j].level \in Nat
    BY <1>1
  <2>2. n + 1 \in Nat \ {0} /\ (n + 1) - 1 = n
    BY <1>1
  <2> HIDE DEF m
  <2> QED BY <1>5, <1>6, <1>7, <2>1, <2>2, NearestIs
<1> QED BY <1>2, <1>5, <1>8 DEF n, m

\* What is opened is counted beneath its parent alone.
LEMMA BeneathsGrow ==
  ASSUME NEW o, NEW e, NEW longer, LongerOutline(o, e, longer), NEW m \in 0..Len(o),
         Nearest(longer, Len(o) + 1) = m,
         \A i \in 1..Len(o) : Nearest(longer, i) = Nearest(o, i)
  PROVE  /\ \A of \in 0..Len(o) : \A a \in BOOLEAN :
              /\ Cardinality(Beneaths(o, of, a)) \in Nat
              /\ Cardinality(Beneaths(longer, of, a)) =
                   Cardinality(Beneaths(o, of, a)) + (IF of = m /\ a = e.appendix THEN 1 ELSE 0)
         /\ \A a \in BOOLEAN : Cardinality(Beneaths(longer, Len(o) + 1, a)) = 0
         /\ Kin(longer, Len(o) + 1) = Beneaths(longer, m, e.appendix)
         /\ \A i \in 1..Len(o) : Kin(longer, i) = Kin(o, i)
<1> DEFINE n == Len(o)
<1>1. /\ n \in Nat /\ Len(longer) = n + 1 /\ \A i \in 1..n : longer[i] = o[i]
      /\ longer[n + 1] = e
  BY DEF LongerOutline
<1>2. \A i \in 1..n : longer[i].appendix = o[i].appendix /\ Nearest(longer, i) = Nearest(o, i)
  BY <1>1
<1>3. \A i \in 1..n : Nearest(o, i) \in 0..(i - 1)
  <2> SUFFICES ASSUME NEW i \in 1..n PROVE Nearest(o, i) \in 0..(i - 1)
    OBVIOUS
  <2>1. i \in Nat \ {0} /\ \A j \in 1..i : o[j].level \in Nat
    BY <1>1 DEF LongerOutline, IsOutline
  <2> QED BY <2>1, NearestBefore
<1>4. longer[n + 1].appendix = e.appendix /\ Nearest(longer, n + 1) = m /\ m \in 0..n
  BY <1>1
<1> HIDE DEF n
<1>5. ASSUME NEW of \in 0..n, NEW a \in BOOLEAN
      PROVE  /\ Cardinality(Beneaths(o, of, a)) \in Nat
             /\ Cardinality(Beneaths(longer, of, a)) =
                  Cardinality(Beneaths(o, of, a)) + (IF of = m /\ a = e.appendix THEN 1 ELSE 0)
  <2> DEFINE before == Beneaths(o, of, a)
             after == Beneaths(longer, of, a)
  <2>1. IsFiniteSet(before)
    <3>1. before \in SUBSET (1..n)
      BY DEF Beneaths, n
    <3>2. IsFiniteSet(1..n)
      BY <1>1, FS_Interval
    <3> QED BY <3>1, <3>2, FS_Subset
  <2>2. after = IF of = m /\ a = e.appendix THEN before \cup {n + 1} ELSE before
    <3>1. 1..Len(longer) = (1..n) \cup {n + 1}
      BY <1>1
    <3>2. \A j \in 1..Len(longer) :
            j \in after <=> j \in before \/ (j = n + 1 /\ of = m /\ a = e.appendix)
      <4>1. ASSUME NEW j \in 1..n PROVE j \in after <=> j \in before
        <5>1. j \in 1..Len(longer)
          BY <3>1
        <5> QED BY <1>2, <5>1 DEF Beneaths, n
      <4>2. n + 1 \in after <=> of = m /\ a = e.appendix
        <5>1. n + 1 \in 1..Len(longer)
          BY <3>1
        <5> QED BY <1>4, <5>1 DEF Beneaths
      <4>3. n + 1 \notin before
        BY <1>1 DEF Beneaths, n
      <4> QED BY <1>1, <3>1, <4>1, <4>2, <4>3
    <3>3. after \subseteq 1..Len(longer) /\ before \subseteq 1..Len(longer) /\ n + 1 \in 1..Len(longer)
      BY <3>1 DEF Beneaths, n
    <3> HIDE DEF after, before
    <3> QED BY <3>2, <3>3
  <2>3. n + 1 \notin before
    BY <1>1 DEF Beneaths, n
  <2>4. Cardinality(before) \in Nat /\ Cardinality(before \cup {n + 1}) = Cardinality(before) + 1
    <3> HIDE DEF before
    <3> QED BY <2>1, <2>3, FS_CardinalityType, FS_AddElement
  <2> HIDE DEF before, after
  <2>7. Cardinality(after) = Cardinality(before) + (IF of = m /\ a = e.appendix THEN 1 ELSE 0)
    <3>1. CASE of = m /\ a = e.appendix
      BY <2>2, <2>4, <3>1
    <3>2. CASE ~(of = m /\ a = e.appendix)
      BY <2>2, <2>4, <3>2
    <3> QED BY <3>1, <3>2
  <2> QED BY <2>4, <2>7 DEF before, after
<1>6. ASSUME NEW a \in BOOLEAN PROVE Cardinality(Beneaths(longer, n + 1, a)) = 0
  <2>1. \A j \in 1..(n + 1) : Nearest(longer, j) # n + 1
    <3> SUFFICES ASSUME NEW j \in 1..(n + 1) PROVE Nearest(longer, j) # n + 1
      OBVIOUS
    <3>1. CASE j = n + 1
      BY <1>1, <1>4, <3>1
    <3>2. CASE j # n + 1
      <4>1. j \in 1..n
        BY <1>1, <3>2
      <4>2. Nearest(longer, j) \in 0..(j - 1)
        BY <1>2, <1>3, <4>1
      <4> QED BY <1>1, <4>1, <4>2
    <3> QED BY <3>1, <3>2
  <2>2. Beneaths(longer, n + 1, a) = {}
    BY <1>1, <2>1 DEF Beneaths
  <2> QED BY <2>2, FS_EmptySet
<1>7. Kin(longer, n + 1) = Beneaths(longer, m, e.appendix)
  BY <1>1, <1>4 DEF Kin, Beneaths
<1>8. ASSUME NEW i \in 1..n PROVE Kin(longer, i) = Kin(o, i)
  <2>1. \A j \in 1..i : longer[j].appendix = o[j].appendix /\ Nearest(longer, j) = Nearest(o, j)
    BY <1>1, <1>2
  <2>2. \A j \in 1..i : j \in Kin(longer, i) <=> j \in Kin(o, i)
    BY <1>2, <2>1 DEF Kin
  <2>3. Kin(longer, i) \subseteq 1..i /\ Kin(o, i) \subseteq 1..i
    BY DEF Kin
  <2> QED BY <2>2, <2>3
<1> QED BY <1>5, <1>6, <1>7, <1>8 DEF n

\* Where the headings put each section, another heading puts it too.
LEMMA OutlinedLonger ==
  ASSUME NEW sections, NEW o, Outlined(sections, o), NEW e, NEW longer, LongerOutline(o, e, longer),
         NEW stack, Stacked(stack, o), NEW k, IsBeneath(stack, e.level, k),
         e.appendix \in BOOLEAN,
         NEW section, section.heading = e.heading, section.appendix = e.appendix,
         section.parent = stack[k].section, section.ordinal = Ordinal(stack[k], e.appendix)
  PROVE  Outlined(Append(sections, section), longer)
<1> DEFINE n == Len(o)
           m == stack[k].section
           grown == Append(sections, section)
<1>1. /\ n \in Nat /\ Len(longer) = n + 1 /\ \A i \in 1..n : longer[i] = o[i]
      /\ longer[n + 1] = e
  BY DEF LongerOutline
<1>2. /\ IsList(grown) /\ Len(grown) = n + 1
      /\ \A i \in 1..n : grown[i] = sections[i]
      /\ grown[n + 1] = section
  <2>1. IsList(sections) /\ Len(sections) = n
    BY DEF Outlined
  <2> QED BY <2>1, LongerIs
<1>3. /\ m \in 0..n /\ Nearest(longer, n + 1) = m
      /\ \A i \in 1..n : Nearest(longer, i) = Nearest(o, i)
  BY ParentIsNearest
<1>4. /\ \A a \in BOOLEAN : /\ Cardinality(Beneaths(o, m, a)) \in Nat
                            /\ Cardinality(Beneaths(longer, m, a)) =
                                 Cardinality(Beneaths(o, m, a)) + (IF a = e.appendix THEN 1 ELSE 0)
      /\ Kin(longer, n + 1) = Beneaths(longer, m, e.appendix)
      /\ \A i \in 1..n : Kin(longer, i) = Kin(o, i)
  <2> HIDE DEF m
  <2>1. /\ \A of \in 0..n : \A a \in BOOLEAN :
              /\ Cardinality(Beneaths(o, of, a)) \in Nat
              /\ Cardinality(Beneaths(longer, of, a)) =
                   Cardinality(Beneaths(o, of, a)) + (IF of = m /\ a = e.appendix THEN 1 ELSE 0)
         /\ Kin(longer, n + 1) = Beneaths(longer, m, e.appendix)
         /\ \A i \in 1..n : Kin(longer, i) = Kin(o, i)
    BY <1>3, BeneathsGrow
  <2> QED BY <1>3, <2>1
<1>5. /\ stack[k].numbered = Cardinality(Beneaths(o, m, FALSE))
      /\ stack[k].appendices = Cardinality(Beneaths(o, m, TRUE))
  BY DEF Stacked, IsBeneath
<1>6. section.ordinal = Cardinality(Kin(longer, n + 1))
  <2> HIDE DEF m, n
  <2>1. CASE e.appendix = TRUE
    BY <1>4, <1>5, <2>1 DEF Ordinal
  <2>2. CASE e.appendix = FALSE
    BY <1>4, <1>5, <2>2 DEF Ordinal
  <2> QED BY <2>1, <2>2
<1>7. ASSUME NEW i \in 1..(n + 1)
      PROVE  /\ grown[i].heading = longer[i].heading
             /\ grown[i].appendix = longer[i].appendix
             /\ grown[i].parent = Nearest(longer, i)
             /\ grown[i].ordinal = Cardinality(Kin(longer, i))
  <2>1. CASE i = n + 1
    <3> HIDE DEF grown, n, m
    <3>1. section.parent = m
      BY DEF m
    <3> QED BY <1>1, <1>2, <1>3, <1>6, <2>1, <3>1
  <2>2. CASE i # n + 1
    <3>1. i \in 1..n
      BY <1>1, <2>2
    <3>2. /\ sections[i].heading = o[i].heading /\ sections[i].appendix = o[i].appendix
          /\ sections[i].parent = Nearest(o, i) /\ sections[i].ordinal = Cardinality(Kin(o, i))
      BY <3>1 DEF Outlined
    <3>3. /\ grown[i] = sections[i] /\ longer[i] = o[i]
          /\ Nearest(longer, i) = Nearest(o, i) /\ Kin(longer, i) = Kin(o, i)
      <4> HIDE DEF grown, n, m
      <4> QED BY <1>1, <1>2, <1>3, <1>4, <3>1
    <3> HIDE DEF grown
    <3> QED BY <3>2, <3>3
  <2> QED BY <2>1, <2>2
<1> HIDE DEF grown
<1>8. Outlined(grown, longer)
  BY <1>1, <1>2, <1>7 DEF Outlined
<1> QED BY <1>8 DEF grown

\* The frames are of the headings after another heading too.
LEMMA StackedLonger ==
  ASSUME NEW o, NEW e, NEW longer, LongerOutline(o, e, longer), e.appendix \in BOOLEAN,
         NEW stack, Stacked(stack, o), NEW k, IsBeneath(stack, e.level, k),
         NEW grown, StackedOn(stack, k, Counted(stack[k], e.appendix), Frame(e.level, Len(o) + 1), grown)
  PROVE  Stacked(grown, longer)
<1> DEFINE n == Len(o)
           N == Len(stack)
           m == stack[k].section
           counted == Counted(stack[k], e.appendix)
           frame == Frame(e.level, n + 1)
<1>1. /\ n \in Nat /\ Len(longer) = n + 1 /\ \A i \in 1..n : longer[i] = o[i]
      /\ longer[n + 1] = e
  BY DEF LongerOutline
<1>2. /\ m \in 0..n /\ Nearest(longer, n + 1) = m
      /\ \A i \in 1..n : Nearest(longer, i) = Nearest(o, i)
  BY ParentIsNearest
<1>3. /\ \A of \in 0..n : \A a \in BOOLEAN :
              /\ Cardinality(Beneaths(o, of, a)) \in Nat
              /\ Cardinality(Beneaths(longer, of, a)) =
                   Cardinality(Beneaths(o, of, a)) + (IF of = m /\ a = e.appendix THEN 1 ELSE 0)
      /\ \A a \in BOOLEAN : Cardinality(Beneaths(longer, n + 1, a)) = 0
  <2> HIDE DEF m
  <2> QED BY <1>2, BeneathsGrow
<1>4. /\ N \in Nat /\ stack[1].level = 0 /\ stack[1].section = 0
      /\ \A l \in 1..N : stack[l] \in Frames
      /\ k \in 1..N /\ stack[k].level < e.level
      /\ \A l \in (k + 1)..N : stack[l].level >= e.level
  BY DEF Stacked, IsBeneath
<1>5. \A l \in 1..N : stack[l].level \in Nat /\ stack[l].section \in Nat
  BY <1>4 DEF Frames
<1>6. /\ \A l \in 2..N : stack[l].section \in 1..n /\ stack[l].level = o[stack[l].section].level
      /\ \A l, q \in 1..N : l < q => /\ stack[l].level < stack[q].level
                                     /\ stack[l].section < stack[q].section
      /\ \A j \in 1..n : \E l \in 2..N : j <= stack[l].section /\ stack[l].level <= o[j].level
      /\ \A l \in 1..N : /\ stack[l].numbered = Cardinality(Beneaths(o, stack[l].section, FALSE))
                         /\ stack[l].appendices = Cardinality(Beneaths(o, stack[l].section, TRUE))
  BY DEF Stacked
<1>7. /\ e.level \in Nat \ {0} /\ \A i \in 1..n : o[i].level \in Nat
  <2>1. n + 1 \in 1..Len(longer)
    BY <1>1
  <2>2. longer[n + 1].level \in Nat \ {0}
    BY <2>1 DEF LongerOutline, IsOutline
  <2> QED BY <1>1, <2>2 DEF LongerOutline, IsOutline
<1>8. /\ counted.level = stack[k].level /\ counted.section = m
      /\ counted.numbered = IF e.appendix THEN stack[k].numbered ELSE stack[k].numbered + 1
      /\ counted.appendices = IF e.appendix THEN stack[k].appendices + 1 ELSE stack[k].appendices
  <2>1. stack[k] \in Frames
    BY <1>4
  <2> QED BY <2>1, CountedFields
<1>9. /\ frame.level = e.level /\ frame.section = n + 1
      /\ frame.numbered = 0 /\ frame.appendices = 0
  BY DEF Frame
<1>10. /\ grown \in Seq(Frames) /\ Len(grown) = k + 1
       /\ \A j \in 1..(k - 1) : grown[j] = stack[j]
       /\ grown[k] = counted /\ grown[k + 1] = frame
  BY DEF StackedOn
<1> HIDE DEF n, N, counted, frame
<1>11. /\ \A l \in 1..k : grown[l].level = stack[l].level /\ grown[l].section = stack[l].section
       /\ k \in Nat \ {0} /\ \A l \in 1..k : l \in 1..N /\ (l # k => l \in 1..(k - 1))
  BY <1>4, <1>8, <1>10
<1>12. /\ Len(grown) > 0 /\ grown[1].level = 0 /\ grown[1].section = 0
  BY <1>4, <1>10, <1>11
<1>13. ASSUME NEW l \in 2..(k + 1)
       PROVE  grown[l].section \in 1..(n + 1) /\ grown[l].level = longer[grown[l].section].level
  <2>1. CASE l = k + 1
    BY <1>1, <1>9, <1>10, <2>1
  <2>2. CASE l # k + 1
    <3>1. l \in 2..N /\ l \in 1..k
      BY <1>4, <1>11, <2>2
    <3>2. stack[l].section \in 1..n /\ stack[l].level = o[stack[l].section].level
      BY <1>6, <3>1
    <3>3. longer[stack[l].section] = o[stack[l].section]
      BY <1>1, <3>2
    <3>4. grown[l].section = stack[l].section /\ grown[l].level = stack[l].level
      BY <1>11, <3>1
    <3> QED BY <1>1, <3>2, <3>3, <3>4
  <2> QED BY <2>1, <2>2
<1>14. ASSUME NEW l \in 1..(k + 1), NEW q \in 1..(k + 1), l < q
       PROVE  grown[l].level < grown[q].level /\ grown[l].section < grown[q].section
  <2>1. l \in 1..k /\ l \in 1..N
    BY <1>11, <1>14
  <2>2. grown[l].level = stack[l].level /\ grown[l].section = stack[l].section
    BY <1>11, <2>1
  <2>3. CASE q = k + 1
    <3>1. stack[l].level <= stack[k].level /\ stack[l].section <= stack[k].section
      <4>1. CASE l = k
        BY <1>5, <2>1, <4>1
      <4>2. CASE l # k
        <5>1. l < k
          BY <1>11, <2>1, <4>2
        <5> QED BY <1>4, <1>5, <1>6, <2>1, <5>1
      <4> QED BY <4>1, <4>2
    <3>2. stack[l].section <= n
      BY <1>1, <1>2, <1>5, <2>1, <3>1
    <3>3. grown[q].level = e.level /\ grown[q].section = n + 1
      BY <1>9, <1>10, <2>3
    <3>4. stack[l].level < e.level
      BY <1>4, <1>5, <1>7, <2>1, <3>1
    <3> QED BY <1>1, <1>5, <2>1, <2>2, <3>2, <3>3, <3>4
  <2>4. CASE q # k + 1
    <3>1. q \in 1..k /\ q \in 1..N
      BY <1>11, <2>4
    <3>2. grown[q].level = stack[q].level /\ grown[q].section = stack[q].section
      BY <1>11, <3>1
    <3> QED BY <1>6, <1>14, <2>1, <2>2, <3>1, <3>2
  <2> QED BY <2>3, <2>4
<1>15. ASSUME NEW j \in 1..(n + 1)
       PROVE  \E l \in 2..(k + 1) : j <= grown[l].section /\ grown[l].level <= longer[j].level
  <2>0. k + 1 \in 2..(k + 1) /\ grown[k + 1].section = n + 1 /\ grown[k + 1].level = e.level
    BY <1>9, <1>10, <1>11
  <2>1. CASE longer[j].level >= e.level
    BY <1>1, <1>7, <2>0, <2>1
  <2>2. CASE ~(longer[j].level >= e.level)
    <3>1. j \in 1..n
      <4>1. j # n + 1
        BY <1>1, <1>7, <2>2
      <4> QED BY <1>1, <4>1
    <3>2. o[j].level < e.level /\ longer[j] = o[j]
      BY <1>1, <1>7, <2>2, <3>1
    <3>3. PICK l \in 2..N : j <= stack[l].section /\ stack[l].level <= o[j].level
      BY <1>6, <3>1
    <3>4. l \in 1..N /\ stack[l].level < e.level
      BY <1>5, <1>7, <3>1, <3>2, <3>3
    <3>5. l \in 1..k
      <4>1. ~(l > k)
        <5> SUFFICES ASSUME l > k PROVE FALSE
          OBVIOUS
        <5>1. l \in (k + 1)..N
          BY <1>4, <3>4
        <5>2. stack[l].level >= e.level
          BY <1>4, <5>1
        <5> QED BY <1>5, <1>7, <3>4, <5>2
      <4> QED BY <1>4, <3>4, <4>1
    <3>6. l \in 2..(k + 1) /\ grown[l].section = stack[l].section /\ grown[l].level = stack[l].level
      BY <1>11, <3>3, <3>5
    <3> QED BY <3>2, <3>3, <3>6
  <2> QED BY <2>1, <2>2
<1>16. ASSUME NEW l \in 1..(k + 1)
       PROVE  /\ grown[l].numbered = Cardinality(Beneaths(longer, grown[l].section, FALSE))
              /\ grown[l].appendices = Cardinality(Beneaths(longer, grown[l].section, TRUE))
  <2>1. CASE l = k + 1
    BY <1>3, <1>9, <1>10, <2>1
  <2>2. CASE l # k + 1
    <3>1. l \in 1..k /\ l \in 1..N /\ stack[l].section \in 0..n
      <4>1. l \in 1..k /\ l \in 1..N
        BY <1>11, <2>2
      <4>2. CASE l = 1
        BY <1>1, <1>4, <4>1, <4>2
      <4>3. CASE l # 1
        <5>1. l \in 2..N
          BY <1>4, <4>1, <4>3
        <5> QED BY <1>1, <1>6, <4>1, <5>1
      <4> QED BY <4>1, <4>2, <4>3
    <3>2. /\ stack[l].numbered = Cardinality(Beneaths(o, stack[l].section, FALSE))
          /\ stack[l].appendices = Cardinality(Beneaths(o, stack[l].section, TRUE))
      BY <1>6, <3>1
    <3>3. grown[l].section = stack[l].section
      BY <1>11, <3>1
    <3>4. /\ Cardinality(Beneaths(longer, stack[l].section, FALSE)) =
               stack[l].numbered + (IF stack[l].section = m /\ FALSE = e.appendix THEN 1 ELSE 0)
          /\ Cardinality(Beneaths(longer, stack[l].section, TRUE)) =
               stack[l].appendices + (IF stack[l].section = m /\ TRUE = e.appendix THEN 1 ELSE 0)
      BY <1>3, <3>1, <3>2
    <3>5. stack[l].numbered \in Nat /\ stack[l].appendices \in Nat
      BY <1>4, <3>1 DEF Frames
    <3> DEFINE numbered == Cardinality(Beneaths(longer, stack[l].section, FALSE))
               appendices == Cardinality(Beneaths(longer, stack[l].section, TRUE))
               mine == stack[l].section = m
    <3>6. /\ numbered = stack[l].numbered + (IF mine /\ FALSE = e.appendix THEN 1 ELSE 0)
          /\ appendices = stack[l].appendices + (IF mine /\ TRUE = e.appendix THEN 1 ELSE 0)
      BY <3>4
    <3>7. mine <=> l = k
      <4>1. l < k => stack[l].section < stack[k].section
        BY <1>4, <1>6, <3>1
      <4> QED BY <1>4, <1>5, <1>11, <3>1, <4>1
    <3> HIDE DEF numbered, appendices, mine
    <3>8. grown[l].numbered = numbered /\ grown[l].appendices = appendices
      <4>1. CASE l = k
        <5>1. grown[l].numbered = counted.numbered /\ grown[l].appendices = counted.appendices
          BY <1>10, <4>1
        <5>2. CASE e.appendix = TRUE
          BY <1>8, <3>5, <3>6, <3>7, <4>1, <5>1, <5>2
        <5>3. CASE e.appendix = FALSE
          BY <1>8, <3>5, <3>6, <3>7, <4>1, <5>1, <5>3
        <5> QED BY <5>2, <5>3
      <4>2. CASE l # k
        <5>1. grown[l] = stack[l]
          BY <1>10, <1>11, <3>1, <4>2
        <5>2. ~mine
          BY <3>7, <4>2
        <5> QED BY <3>5, <3>6, <5>1, <5>2
      <4> QED BY <4>1, <4>2
    <3> QED BY <3>3, <3>8 DEF numbered, appendices
  <2> QED BY <2>1, <2>2
<1> QED BY <1>1, <1>10, <1>12, <1>13, <1>14, <1>15, <1>16 DEF Stacked

\* Sections where the headings put them are counted apart.
LEMMA OutlinedApart ==
  ASSUME NEW o, IsOutline(o), NEW sections, Outlined(sections, o)
  PROVE  CountedApart(sections)
<1> DEFINE n == Len(o)
<1>1. /\ n \in Nat /\ Len(sections) = n
      /\ \A i \in 1..n : /\ o[i].level \in Nat \ {0} /\ o[i].appendix \in BOOLEAN
                         /\ o[i].appendix => o[i].level = 1
      /\ \A i \in 1..n : /\ sections[i].appendix = o[i].appendix
                         /\ sections[i].parent = Nearest(o, i)
                         /\ sections[i].ordinal = Cardinality(Kin(o, i))
  BY LongerIs DEF IsOutline, Outlined
<1> HIDE DEF n
<1>2. ASSUME NEW i \in 1..n
      PROVE  /\ Nearest(o, i) \in 0..(i - 1)
             /\ Nearest(o, i) # 0 => o[Nearest(o, i)].level < o[i].level
  <2>1. i \in Nat \ {0} /\ \A j \in 1..i : o[j].level \in Nat
    BY <1>1
  <2> QED BY <2>1, NearestBefore
<1>3. ParentsBefore(sections)
  BY <1>1, <1>2 DEF ParentsBefore
<1>4. ASSUME NEW i \in 1..n
      PROVE  IsFiniteSet(Kin(o, i)) /\ i \in Kin(o, i) /\ Kin(o, i) \subseteq 1..i
             /\ Cardinality(Kin(o, i)) \in Nat \ {0}
  <2>1. i \in Kin(o, i) /\ Kin(o, i) \in SUBSET (1..i)
    BY <1>1 DEF Kin
  <2>2. IsFiniteSet(1..i)
    <3>1. i \in Int
      BY <1>1
    <3> QED BY <3>1, FS_Interval
  <2>3. IsFiniteSet(Kin(o, i))
    BY <2>1, <2>2, FS_Subset
  <2>4. Cardinality(Kin(o, i)) \in Nat
    BY <2>3, FS_CardinalityType
  <2>5. Cardinality(Kin(o, i)) # 0
    BY <2>1, <2>3, FS_EmptySet
  <2> QED BY <2>1, <2>3, <2>4, <2>5
<1>5. ASSUME NEW i \in 1..n, o[i].appendix PROVE Nearest(o, i) = 0
  <2> SUFFICES ASSUME Nearest(o, i) # 0 PROVE FALSE
    OBVIOUS
  <2>1. Nearest(o, i) \in 1..n
    BY <1>1, <1>2
  <2>2. o[Nearest(o, i)].level \in Nat \ {0}
    BY <1>1, <2>1
  <2>3. o[i].level = 1
    BY <1>1, <1>5
  <2>4. o[Nearest(o, i)].level < o[i].level
    BY <1>2
  <2> QED BY <2>2, <2>3, <2>4
<1>6. ASSUME NEW i \in 1..n, NEW j \in 1..n, i < j,
             Nearest(o, i) = Nearest(o, j), o[i].appendix = o[j].appendix
      PROVE  Cardinality(Kin(o, i)) # Cardinality(Kin(o, j))
  <2>1. Kin(o, i) \in SUBSET Kin(o, j)
    <3>1. 1..i \subseteq 1..j
      BY <1>1, <1>6
    <3> QED BY <1>6, <3>1 DEF Kin
  <2>2. j \in Kin(o, j) /\ j \notin Kin(o, i)
    BY <1>1, <1>4, <1>6
  <2>3. IsFiniteSet(Kin(o, j))
    BY <1>4
  <2> QED BY <2>1, <2>2, <2>3, FS_Subset
<1>7. ASSUME NEW i \in 1..n, NEW j \in 1..n,
             sections[i].parent = sections[j].parent,
             sections[i].appendix = sections[j].appendix,
             sections[i].ordinal = sections[j].ordinal
      PROVE  i = j
  <2>1. /\ Nearest(o, i) = Nearest(o, j) /\ o[i].appendix = o[j].appendix
        /\ Cardinality(Kin(o, i)) = Cardinality(Kin(o, j))
    BY <1>1, <1>7
  <2>2. ~(i < j)
    BY <1>6, <2>1
  <2>3. ~(j < i)
    BY <1>6, <2>1
  <2> QED BY <1>1, <2>2, <2>3
<1>8. ASSUME NEW i \in 1..Len(sections)
      PROVE  /\ sections[i].ordinal \in Nat \ {0} /\ sections[i].appendix \in BOOLEAN
             /\ sections[i].appendix => sections[i].parent = 0
  BY <1>1, <1>4, <1>5
<1> QED BY <1>1, <1>3, <1>7, <1>8 DEF CountedApart

\* What is opened keeps the sections and the stack as the headings put them.
LEMMA OpenSectionOutlines ==
  ASSUME NEW w, IsWalk(w), NEW o, IsOutline(o), Outlined(w.sections, o), Stacked(w.stack, o),
         NEW p, HeadingLevel(p) \in Nat \ {0}
  PROVE  LET v == OpenSection(w, p)
             longer == Append(o, Opens(p))
         IN  /\ IsOutline(longer) /\ Outlined(v.sections, longer) /\ Stacked(v.stack, longer)
             /\ IsWalk(v)
             /\ v.items = w.items /\ v.pending = w.pending /\ v.boxed = w.boxed
             /\ v.sections = Append(w.sections, v.sections[Len(w.sections) + 1])
             /\ DOMAIN v.sections[Len(w.sections) + 1] =
                  {"heading", "appendix", "ordinal", "parent", "content"}
             /\ IsList(v.sections[Len(w.sections) + 1].content)
<1> DEFINE v == OpenSection(w, p)
           e == Opens(p)
           longer == Append(o, e)
<1>1. IsList(w.sections) /\ Len(w.sections) = Len(o)
  BY DEF Outlined
<1>2. PICK k : IsBeneath(w.stack, HeadingLevel(p), k) /\ Grown(w, p, v, k)
  BY <1>1, OpenSectionIs
<1>3. /\ e.level = HeadingLevel(p) /\ e.heading = p.heading /\ e.appendix = (p.kind = "appendix")
      /\ e.appendix \in BOOLEAN
  BY DEF Opens
<1>4. e.appendix => e.level = 1
  BY <1>3 DEF HeadingLevel
<1> DEFINE section == [heading  |-> p.heading, appendix |-> p.kind = "appendix",
                       ordinal  |-> Ordinal(w.stack[k], p.kind = "appendix"),
                       parent   |-> w.stack[k].section, content |-> <<>>]
<1>5. /\ v = [w EXCEPT !.sections = v.sections, !.stack = v.stack]
      /\ v.sections = Append(w.sections, section)
      /\ StackedOn(w.stack, k, Counted(w.stack[k], e.appendix), Frame(e.level, Len(o) + 1), v.stack)
  BY <1>1, <1>2, <1>3 DEF Grown
<1>6. /\ section.heading = e.heading /\ section.appendix = e.appendix
      /\ section.parent = w.stack[k].section /\ section.ordinal = Ordinal(w.stack[k], e.appendix)
      /\ DOMAIN section = {"heading", "appendix", "ordinal", "parent", "content"}
      /\ section.content = <<>>
  BY <1>3
<1> HIDE DEF e, v, section
<1>7. LongerOutline(o, e, longer)
  BY <1>3, <1>4, OutlineLonger
<1> HIDE DEF longer
<1>8. Outlined(Append(w.sections, section), longer)
  <2>1. IsBeneath(w.stack, e.level, k)
    BY <1>2, <1>3
  <2> DEFINE sections == w.sections
             stack == w.stack
  <2>2. Outlined(sections, o) /\ Stacked(stack, o) /\ IsBeneath(stack, e.level, k)
    BY <2>1
  <2>3. section.parent = stack[k].section /\ section.ordinal = Ordinal(stack[k], e.appendix)
    BY <1>6
  <2> HIDE DEF sections, stack
  <2>4. section.heading = e.heading /\ section.appendix = e.appendix
    BY <1>6
  <2>5. e.appendix \in BOOLEAN
    BY <1>3
  <2>6. Outlined(Append(sections, section), longer)
    BY <1>7, <2>2, <2>3, <2>4, <2>5, OutlinedLonger
  <2> QED BY <2>6 DEF sections
<1>9. Stacked(v.stack, longer)
  <2>1. IsBeneath(w.stack, e.level, k)
    BY <1>2, <1>3
  <2> QED BY <1>3, <1>5, <1>7, <2>1, StackedLonger
<1>10. /\ IsWalk(v) /\ v.items = w.items /\ v.pending = w.pending /\ v.boxed = w.boxed
  <2>1. DOMAIN v = DOMAIN w
    BY <1>5
  <2>2. /\ v.items = w.items /\ v.pending = w.pending /\ v.boxed = w.boxed
    <3> DEFINE s == v.sections
               t == v.stack
    <3>1. v = [w EXCEPT !.sections = s, !.stack = t]
      BY <1>5
    <3> HIDE DEF s, t
    <3> QED BY <3>1 DEF IsWalk, Parts
  <2> QED BY <2>1, <2>2 DEF IsWalk
<1>11. v.sections[Len(w.sections) + 1] = section
  BY <1>1, <1>5, LongerIs
<1>12. IsList(<<>>)
  <2>1. <<>> \in Seq({})
    OBVIOUS
  <2> QED BY <2>1, ListIs
<1>13. IsOutline(longer)
  BY <1>7 DEF LongerOutline
<1> QED BY <1>5, <1>6, <1>8, <1>9, <1>10, <1>11, <1>12, <1>13 DEF longer, e, v

-----------------------------------------------------------------------------
(* Folds over blocks, boxes, entries and lines                             *)

Filing     == [of |-> "block"]
BoxesAt(n) == [of |-> "box", n |-> n]
Printing   == [of |-> "entry"]
Viewing    == [of |-> "line"]

\* What is done with the next of some blocks, of the boxes the n-th element anchors,
\* of the entries of a run or of the lines a reader sees.
Taken(by, w, next) ==
  IF by.of = "block" THEN AppendBlock(w, next)
  ELSE IF by.of = "box" THEN TakeBox(CloseBox(w), Quote(Placed(by.n, next)))
  ELSE IF by.of = "entry" THEN TakeEntry(w, next)
  ELSE IF by.of = "part" THEN TakeOne(w, next)
  ELSE IF by.of = "cover" THEN TakeCover(w, next)
  ELSE ReadLine(w, next)

\* What it comes to after each set of positions of a list is taken, the newest last.
TakenEach(f, by, w, list) ==
  f = [s \in SUBSET (1..Len(list)) |->
         IF s = {} THEN w ELSE Taken(by, f[s \ {Max(s)}], list[Max(s)])]

\* There is such a thing: sets of positions are taken up to any number.
LEMMA TakenEachExists ==
  ASSUME NEW by, NEW w, NEW list, IsList(list)
  PROVE  \E f : TakenEach(f, by, w, list)
<1> DEFINE N == Len(list)
           Onto(f, s) == IF s = {} THEN w ELSE Taken(by, f[s \ {Max(s)}], list[Max(s)])
           Folds(f, k) == f = [s \in SUBSET (1..k) |-> Onto(f, s)]
           good == {k \in 0..N : \E f : Folds(f, k)}
<1>0. N \in Nat
  BY DEF IsList
<1> HIDE DEF N
<1>1. 0 \in good
  <2> DEFINE f == [s \in SUBSET (1..0) |-> w]
  <2>1. \A s \in SUBSET (1..0) : s = {}
    OBVIOUS
  <2>2. Folds(f, 0)
    BY <2>1
  <2> HIDE DEF f, Folds
  <2> QED BY <1>0, <2>2
<1>2. ASSUME NEW k \in 1..N, k - 1 \in good PROVE k \in good
  <2>1. PICK f : Folds(f, k - 1)
    BY <1>2
  <2>k. k \in Nat \ {0}
    BY <1>0
  <2> DEFINE g == [s \in SUBSET (1..k) |->
                     IF k \in s THEN Taken(by, f[s \ {k}], list[k]) ELSE f[s]]
  <2>2. \A s \in SUBSET (1..k) : s \ {k} \in SUBSET (1..(k - 1))
    BY <2>k
  <2>3. \A s \in SUBSET (1..(k - 1)) : f[s] = Onto(f, s)
    BY <2>1
  <2>4. ASSUME NEW s \in SUBSET (1..k) PROVE g[s] = Onto(g, s)
    <3>1. CASE k \in s
      <4>1. Max(s) = k /\ s \ {k} \in SUBSET (1..(k - 1))
        BY <2>k, <3>1, NewestIn
      <4>2. s \ {k} \in SUBSET (1..k) /\ k \notin s \ {k}
        OBVIOUS
      <4>3. g[s \ {k}] = f[s \ {k}]
        BY <4>2
      <4>4. g[s] = Taken(by, f[s \ {k}], list[k])
        BY <3>1
      <4>5. s # {}
        BY <3>1
      <4> HIDE DEF g
      <4> QED BY <4>1, <4>3, <4>4, <4>5
    <3>2. CASE k \notin s
      <4>1. s \in SUBSET (1..(k - 1))
        BY <2>2, <3>2
      <4>2. f[s] = Onto(f, s) /\ g[s] = f[s]
        BY <2>3, <3>2, <4>1
      <4>3. CASE s = {}
        <5> HIDE DEF g
        <5> QED BY <4>2, <4>3
      <4>4. CASE s # {}
        <5>1. s \ {Max(s)} \in SUBSET (1..k) /\ k \notin s \ {Max(s)}
          BY <3>2
        <5>2. g[s \ {Max(s)}] = f[s \ {Max(s)}]
          BY <5>1
        <5> HIDE DEF g
        <5> QED BY <4>2, <4>4, <5>2
      <4> QED BY <4>3, <4>4
    <3> QED BY <3>1, <3>2
  <2>5. g = [s \in SUBSET (1..k) |-> g[s]]
    OBVIOUS
  <2> HIDE DEF g, Onto
  <2>6. Folds(g, k)
    BY <2>4, <2>5
  <2>7. k \in 0..N
    BY <1>0
  <2> HIDE DEF Folds
  <2> QED BY <2>6, <2>7
<1>3. N \in good
  <2> HIDE DEF good
  <2>1. 0..N \subseteq good
    BY <1>0, <1>1, <1>2, StepByStep
  <2> QED BY <1>0, <2>1
<1>4. PICK f : Folds(f, N)
  BY <1>3
<1>5. TakenEach(f, by, w, list)
  BY <1>4 DEF TakenEach, N
<1> QED BY <1>5

\* Position by position.
LEMMA TakenSteps ==
  ASSUME NEW by, NEW w, NEW list, IsList(list), NEW f, TakenEach(f, by, w, list)
  PROVE  /\ f[1..0] = w
         /\ \A k \in 1..Len(list) : f[1..k] = Taken(by, f[1..(k - 1)], list[k])
<1> DEFINE N == Len(list)
<1>1. N \in Nat
  BY DEF IsList
<1>2. f = [s \in SUBSET (1..N) |-> IF s = {} THEN w ELSE Taken(by, f[s \ {Max(s)}], list[Max(s)])]
  BY DEF TakenEach
<1>3. \A s \in SUBSET (1..N) : f[s] = IF s = {} THEN w ELSE Taken(by, f[s \ {Max(s)}], list[Max(s)])
  <2> HIDE DEF N
  <2> DEFINE g == f
  <2>1. g = [s \in SUBSET (1..N) |-> IF s = {} THEN w ELSE Taken(by, f[s \ {Max(s)}], list[Max(s)])]
    BY <1>2
  <2> HIDE DEF g
  <2>2. \A s \in SUBSET (1..N) : g[s] = IF s = {} THEN w ELSE Taken(by, f[s \ {Max(s)}], list[Max(s)])
    BY <2>1
  <2> QED BY <2>2 DEF g
<1> HIDE DEF N
<1>4. f[1..0] = w
  <2>1. 1..0 = {} /\ {} \in SUBSET (1..N)
    OBVIOUS
  <2> QED BY <1>3, <2>1
<1>5. ASSUME NEW k \in 1..N PROVE f[1..k] = Taken(by, f[1..(k - 1)], list[k])
  <2>1. /\ 1..k \in SUBSET (1..N) /\ 1..k # {}
        /\ Max(1..k) = k /\ (1..k) \ {k} = 1..(k - 1)
    BY <1>1, Newest
  <2>2. f[1..k] = IF 1..k = {} THEN w ELSE Taken(by, f[(1..k) \ {Max(1..k)}], list[Max(1..k)])
    BY <1>3, <2>1
  <2> QED BY <2>1, <2>2
<1> QED BY <1>4, <1>5 DEF N

\* What folding the blocks of a list onto the walk comes to.
LEMMA AppendsAre ==
  ASSUME NEW w, NEW list, IsList(list)
  PROVE  \E f : TakenEach(f, Filing, w, list) /\ FoldLeft(AppendBlock, w, list) = f[1..Len(list)]
<1> DEFINE N == Len(list)
           Chain(f) == [s \in SUBSET (1..N) |->
                          IF s = {} THEN w ELSE AppendBlock(f[s \ {Max(s)}], list[Max(s)])]
           f == CHOOSE g : g = Chain(g)
<1>1. DOMAIN list = 1..N
  BY LongerIs DEF IsList
<1>2. FoldLeft(AppendBlock, w, list) = f[1..N]
  BY <1>1 DEF FoldLeft, MapThenFoldSet
<1>3. ASSUME NEW g PROVE TakenEach(g, Filing, w, list) <=> g = Chain(g)
  <2>1. \A v, next : Taken(Filing, v, next) = AppendBlock(v, next)
    BY DEF Taken, Filing
  <2> QED BY <2>1 DEF TakenEach
<1>4. \E g : g = Chain(g)
  <2> HIDE DEF Chain
  <2> QED BY <1>3, TakenEachExists
<1>5. f = Chain(f)
  <2> HIDE DEF Chain
  <2> QED BY <1>4
<1> HIDE DEF f
<1>6. TakenEach(f, Filing, w, list)
  <2> HIDE DEF Chain
  <2> QED BY <1>3, <1>5
<1> QED BY <1>2, <1>6

\* What taking the boxes a paragraph anchors comes to.
LEMMA BoxesAre ==
  ASSUME NEW p, NEW w, IsList(AnchoredIn(p))
  PROVE  \E f : TakenEach(f, BoxesAt(p.n), w, AnchoredIn(p)) /\ TakeAnchored(w, p) = f[1..Len(AnchoredIn(p))]
<1> DEFINE list == AnchoredIn(p)
           N == Len(list)
           n == p.n
           Chain(f) == [s \in SUBSET (1..N) |->
                          IF s = {} THEN w
                          ELSE TakeBox(CloseBox(f[s \ {Max(s)}]), Quote(Placed(n, list[Max(s)])))]
           f == CHOOSE g : g = Chain(g)
<1>1. DOMAIN list = 1..N
  BY LongerIs DEF IsList
<1>2. TakeAnchored(w, p) = f[1..N]
  <2>1. TakeAnchored(w, p) = FoldLeft(LAMBDA v, box : TakeBox(CloseBox(v), Quote(Placed(n, box))), w, list)
    BY DEF TakeAnchored
  <2> HIDE DEF list, n
  <2> QED BY <1>1, <2>1 DEF FoldLeft, MapThenFoldSet
<1>0. IsList(list)
  OBVIOUS
<1> HIDE DEF list, n
<1>3. ASSUME NEW g PROVE TakenEach(g, BoxesAt(n), w, list) <=> g = Chain(g)
  <2>1. \A v, next : Taken(BoxesAt(n), v, next) = TakeBox(CloseBox(v), Quote(Placed(n, next)))
    BY DEF Taken, BoxesAt
  <2> QED BY <2>1 DEF TakenEach
<1>4. \E g : g = Chain(g)
  <2> HIDE DEF Chain
  <2> QED BY <1>0, <1>3, TakenEachExists
<1>5. f = Chain(f)
  <2> HIDE DEF Chain
  <2> QED BY <1>4
<1> HIDE DEF f
<1>6. TakenEach(f, BoxesAt(n), w, list)
  <2> HIDE DEF Chain
  <2> QED BY <1>3, <1>5
<1> QED BY <1>2, <1>6 DEF list, n

-----------------------------------------------------------------------------
(* A depth opened or joined                                                *)

\* A marker takes some columns, whatever its number.
LEMMA WidthIs ==
  ASSUME NEW ordered, NEW n \in Nat
  PROVE  MarkerWidth(ordered, n) \in Nat \ {0}
<1> DEFINE from == [m \in Nat \ {0} |-> IF m < RADIX THEN 0 ELSE m \div RADIX]
           step == [m \in Nat \ {0} |-> [a \in Seq(Nat) |->
                      IF m < RADIX THEN <<m>> ELSE Append(a, m % RADIX)]]
           Chain(f) == [m \in Nat |-> IF m < RADIX THEN <<m>> ELSE Append(f[m \div RADIX], m % RADIX)]
<1>0. RADIX \in Nat /\ RADIX > 1
  BY NumeralsAssumption
<1>1. \A m \in Nat \ {0} : m >= RADIX => m \div RADIX \in Nat /\ m \div RADIX < m /\ m % RADIX \in Nat
  <2> SUFFICES ASSUME NEW m \in Nat \ {0}, m >= RADIX
               PROVE  m \div RADIX \in Nat /\ m \div RADIX < m /\ m % RADIX \in Nat
    OBVIOUS
  <2> DEFINE q == m \div RADIX
             r == m % RADIX
  <2>1. q \in Int /\ r \in Nat /\ m = RADIX * q + r /\ r < RADIX
    BY <1>0
  <2> HIDE DEF q, r
  <2>2. \A a \in Nat : \A p \in Int : a > 1 /\ p < 0 => a * p <= -a
    BY SMT
  <2>3. \A a \in Nat : \A p \in Nat : a > 1 => a * p >= 2 * p
    BY SMT
  <2>4. q \in Nat
    <3>1. q < 0 => RADIX * q <= -RADIX
      BY <1>0, <2>1, <2>2
    <3>2. RADIX * q \in Int
      BY <1>0, <2>1
    <3> QED BY <1>0, <2>1, <3>1, <3>2
  <2>5. q < m
    <3>1. RADIX * q >= 2 * q /\ RADIX * q \in Int
      BY <1>0, <2>3, <2>4
    <3> QED BY <2>1, <2>4, <3>1
  <2> QED BY <2>1, <2>4, <2>5 DEF q, r
<1>2. Descends(from)
  BY <1>0, <1>1 DEF Descends
<1>3. step \in [Nat \ {0} -> [Seq(Nat) -> Seq(Nat)]] /\ <<0>> \in Seq(Nat)
  <2>1. \A m \in Nat \ {0} : \A a \in Seq(Nat) :
          (IF m < RADIX THEN <<m>> ELSE Append(a, m % RADIX)) \in Seq(Nat)
    BY <1>0, <1>1
  <2> QED BY <2>1
<1>4. PICK f : Wholly(f, Seq(Nat), <<0>>, from, step)
  <2> HIDE DEF from, step
  <2> QED BY <1>2, <1>3, Recursion
<1>5. f = Chain(f)
  <2>1. f \in [Nat -> Seq(Nat)] /\ f[0] = <<0>>
    BY <1>4 DEF Wholly
  <2>2. ASSUME NEW m \in Nat
        PROVE  f[m] = IF m < RADIX THEN <<m>> ELSE Append(f[m \div RADIX], m % RADIX)
    <3>1. CASE m = 0
      <4>1. f[m] = <<m>> /\ m < RADIX
        BY <1>0, <2>1, <3>1
      <4> QED BY <4>1
    <3>2. CASE m # 0
      <4>1. f[m] = step[m][f[from[m]]] /\ f[from[m]] \in Seq(Nat)
        BY <1>2, <1>4, <3>2 DEF Wholly, Descends
      <4>2. m >= RADIX => from[m] = m \div RADIX
        BY <1>0, <3>2
      <4>3. \A a \in Seq(Nat) : step[m][a] = IF m < RADIX THEN <<m>> ELSE Append(a, m % RADIX)
        BY <3>2
      <4> HIDE DEF from, step
      <4> QED BY <1>0, <4>1, <4>2, <4>3
    <3> QED BY <3>1, <3>2
  <2> QED BY <2>1, <2>2
<1>6. Digits = Chain(Digits)
  <2>1. Digits = CHOOSE g : g = Chain(g)
    BY DEF Digits
  <2> HIDE DEF Chain
  <2> QED BY <1>5, <2>1
<1>7. \A m \in Nat : Digits[m] = IF m < RADIX THEN <<m>> ELSE Append(Digits[m \div RADIX], m % RADIX)
  <2> DEFINE D == Digits
  <2>1. D = Chain(D)
    BY <1>6
  <2> HIDE DEF D
  <2>2. \A m \in Nat : D[m] = IF m < RADIX THEN <<m>> ELSE Append(D[m \div RADIX], m % RADIX)
    BY <2>1
  <2> QED BY <2>2 DEF D
<1> DEFINE odd == {m \in Nat : Digits[m] \notin Seq(Nat)}
<1>8. odd = {}
  <2> SUFFICES ASSUME odd # {} PROVE FALSE
    OBVIOUS
  <2>1. PICK m \in odd : \A k \in odd : m <= k
    <3>1. odd \subseteq Nat
      OBVIOUS
    <3> HIDE DEF odd
    <3> QED BY <3>1, LeastElement
  <2>2. m \in Nat /\ Digits[m] \notin Seq(Nat)
    OBVIOUS
  <2>3. <<m>> \in Seq(Nat)
    BY <2>2
  <2>4. m >= RADIX /\ m \in Nat \ {0} /\ Digits[m] = Append(Digits[m \div RADIX], m % RADIX)
    <3>1. Digits[m] = IF m < RADIX THEN <<m>> ELSE Append(Digits[m \div RADIX], m % RADIX)
      BY <1>7, <2>2
    <3>2. ~(m < RADIX)
      BY <2>2, <2>3, <3>1
    <3>3. m >= RADIX /\ m # 0
      BY <1>0, <2>2, <3>2
    <3> QED BY <2>2, <3>1, <3>2, <3>3
  <2>5. m \div RADIX \in Nat /\ m \div RADIX < m /\ m % RADIX \in Nat
    BY <1>1, <2>4
  <2>6. Digits[m \div RADIX] \in Seq(Nat)
    BY <2>1, <2>2, <2>5
  <2>7. \A a \in Seq(Nat) : \A x \in Nat : Append(a, x) \in Seq(Nat)
    OBVIOUS
  <2> QED BY <2>2, <2>4, <2>5, <2>6, <2>7
<1>9. Len(Digits[n]) \in Nat
  <2>1. Digits[n] \in Seq(Nat)
    BY <1>8
  <2> QED BY <2>1
<1> QED BY <1>9 DEF MarkerWidth

\* What a depth open holds.
DepthParts == {"left", "ordered", "indent", "count", "content", "marker", "rank"}

\* A depth an item stands in: its text starts right of its marker.
IsDepth(depth) ==
  /\ DOMAIN depth = DepthParts
  /\ depth.left \in Int /\ depth.ordered \in BOOLEAN /\ depth.rank \in Int
  /\ depth.indent \in Nat /\ depth.count \in Nat /\ depth.content \in Nat
  /\ depth.content > depth.indent
  /\ depth.content = depth.indent + MarkerWidth(depth.ordered, depth.count)

\* The depths open: each has its markers where the text of the one it is in starts.
IsStack(stack) ==
  /\ IsList(stack)
  /\ \A i \in 1..Len(stack) :
       /\ IsDepth(stack[i])
       /\ stack[i].indent = IF i = 1 THEN 0 ELSE stack[i - 1].content

\* What a document says of an item.
IsMarked(item) == item.indent \in Int /\ item.ordered \in BOOLEAN /\ item.rank \in Int

\* The item is the last that stood in the depth.
Wears(depth, item) ==
  /\ depth.left = item.indent /\ depth.marker = item.marker
  /\ depth.rank = item.rank /\ depth.ordered = item.ordered

\* The item opens a depth in the m-th.
Begins(stack, m, item, next) ==
  /\ m \in 0..Len(stack) /\ Len(next) = m + 1
  /\ \A i \in 1..m : next[i] = stack[i]
  /\ Wears(next[m + 1], item) /\ next[m + 1].count = 1

\* The item joins the m-th depth.
Joined(stack, m, item, next) ==
  /\ m \in 1..Len(stack) /\ Len(next) = m
  /\ \A i \in 1..(m - 1) : next[i] = stack[i]
  /\ Wears(next[m], item)
  /\ next[m].count = IF stack[m].ordered = item.ordered THEN stack[m].count + 1 ELSE 1

\* The first of a list are a list.
LEMMA FirstOf ==
  ASSUME NEW list, IsList(list), NEW m \in 0..Len(list)
  PROVE  LET first == SubSeq(list, 1, m)
         IN  IsList(first) /\ Len(first) = m /\ \A i \in 1..m : first[i] = list[i]
<1> DEFINE A == Range(list)
           first == SubSeq(list, 1, m)
<1>1. list \in Seq(A)
  BY DEF IsList
<1> HIDE DEF A
<1>2. first \in Seq(A) /\ Len(first) = m /\ \A i \in 1..m : first[i] = list[i]
  BY <1>1
<1> QED BY <1>2, ListIs

\* The stack with its innermost depth changed, and numbered on.
LEMMA NextIs ==
  ASSUME NEW stack, IsList(stack), NEW depth, DOMAIN depth = DepthParts,
         depth.indent \in Nat, depth.count \in Nat
  PROVE  LET next == NextMarker(Append(stack, depth))
             N == Len(stack) + 1
         IN  /\ IsList(next) /\ Len(next) = N /\ N \in Nat \ {0}
             /\ \A i \in 1..(N - 1) : next[i] = stack[i]
             /\ DOMAIN next[N] = DepthParts
             /\ next[N].left = depth.left /\ next[N].marker = depth.marker
             /\ next[N].rank = depth.rank /\ next[N].ordered = depth.ordered
             /\ next[N].indent = depth.indent /\ next[N].count = depth.count + 1
             /\ next[N].content \in Nat /\ next[N].content > depth.indent
             /\ next[N].content = depth.indent + MarkerWidth(depth.ordered, depth.count + 1)
<1> DEFINE N == Len(stack) + 1
           longer == Append(stack, depth)
           count == depth.count + 1
           content == depth.indent + MarkerWidth(depth.ordered, count)
           last == [depth EXCEPT !.count = count, !.content = content]
           front == SubSeq(longer, 1, N - 1)
           next == NextMarker(longer)
<1>1. /\ IsList(longer) /\ Len(longer) = N /\ N \in Nat \ {0} /\ longer[N] = depth
      /\ \A i \in 1..(N - 1) : longer[i] = stack[i]
  BY LongerIs
<1> HIDE DEF N, longer
<1>2. IsList(front) /\ Len(front) = N - 1 /\ \A i \in 1..(N - 1) : front[i] = stack[i]
  <2>1. N - 1 \in 0..Len(longer)
    BY <1>1
  <2>2. IsList(front) /\ Len(front) = N - 1 /\ \A i \in 1..(N - 1) : front[i] = longer[i]
    BY <1>1, <2>1, FirstOf
  <2> HIDE DEF front
  <2> QED BY <1>1, <2>2
<1>3. next = Append(front, last)
  BY <1>1 DEF NextMarker, Front, Last
<1>4. /\ content \in Nat /\ content > depth.indent
      /\ content = depth.indent + MarkerWidth(depth.ordered, depth.count + 1)
  <2>1. MarkerWidth(depth.ordered, count) \in Nat \ {0}
    BY WidthIs
  <2> QED BY <2>1
<1> HIDE DEF front, next, content
<1>5. /\ DOMAIN last = DepthParts /\ last.left = depth.left /\ last.marker = depth.marker
      /\ last.rank = depth.rank /\ last.ordered = depth.ordered
      /\ last.indent = depth.indent /\ last.count = count /\ last.content = content
  BY DEF DepthParts
<1> HIDE DEF last
<1>6. /\ IsList(next) /\ Len(next) = N /\ next[N] = last
      /\ \A i \in 1..(N - 1) : next[i] = stack[i]
  <2>1. /\ IsList(next) /\ Len(next) = (N - 1) + 1 /\ next[(N - 1) + 1] = last
        /\ \A i \in 1..(N - 1) : next[i] = front[i]
    BY <1>2, <1>3, LongerIs
  <2>2. (N - 1) + 1 = N
    BY <1>1
  <2> QED BY <1>2, <2>1, <2>2
<1> QED BY <1>1, <1>4, <1>5, <1>6 DEF N, next, longer

\* A depth opened in the innermost.
LEMMA OpenIs ==
  ASSUME NEW stack, IsStack(stack), NEW item, IsMarked(item)
  PROVE  LET next == NextMarker(Open(stack, item))
         IN  IsStack(next) /\ Begins(stack, Len(stack), item, next)
<1> DEFINE M == Len(stack)
           next == NextMarker(Open(stack, item))
           indent == IF stack = <<>> THEN 0 ELSE Last(stack).content
           depth == [left |-> item.indent, ordered |-> item.ordered, indent |-> indent,
                     count |-> 0, content |-> 0, marker |-> item.marker, rank |-> item.rank]
<1>0. IsList(stack) /\ M \in Nat
  BY DEF IsStack, IsList
<1>1. next = NextMarker(Append(stack, depth))
  BY DEF Open
<1>2. indent \in Nat /\ indent = IF M = 0 THEN 0 ELSE stack[M].content
  <2>1. M = 0 <=> stack = <<>>
    BY <1>0 DEF IsList
  <2>2. CASE M = 0
    BY <2>1, <2>2
  <2>3. CASE M # 0
    <3>1. M \in 1..M
      BY <1>0, <2>3
    <3>2. stack[M].content \in Nat
      BY <3>1 DEF IsStack, IsDepth
    <3> QED BY <2>1, <2>3, <3>2 DEF Last
  <2> QED BY <2>2, <2>3
<1> HIDE DEF indent
<1>3. /\ DOMAIN depth = DepthParts /\ depth.left = item.indent /\ depth.ordered = item.ordered
      /\ depth.indent = indent /\ depth.count = 0 /\ depth.marker = item.marker /\ depth.rank = item.rank
  BY DEF DepthParts
<1> HIDE DEF depth, next
<1>4. /\ IsList(next) /\ Len(next) = M + 1
      /\ \A i \in 1..M : next[i] = stack[i]
      /\ DOMAIN next[M + 1] = DepthParts
      /\ next[M + 1].left = depth.left /\ next[M + 1].marker = depth.marker
      /\ next[M + 1].rank = depth.rank /\ next[M + 1].ordered = depth.ordered
      /\ next[M + 1].indent = depth.indent /\ next[M + 1].count = depth.count + 1
      /\ next[M + 1].content \in Nat /\ next[M + 1].content > depth.indent
      /\ next[M + 1].content = depth.indent + MarkerWidth(depth.ordered, depth.count + 1)
  <2>1. 0 \in Nat /\ (M + 1) - 1 = M
    BY <1>0
  <2> HIDE DEF M
  <2>2. depth.indent \in Nat /\ depth.count \in Nat
    BY <1>2, <1>3, <2>1
  <2> QED BY <1>0, <1>1, <1>3, <2>1, <2>2, NextIs DEF M
<1>5. IsDepth(next[M + 1]) /\ next[M + 1].count = 1 /\ Wears(next[M + 1], item)
  BY <1>2, <1>3, <1>4 DEF IsDepth, IsMarked, Wears
<1>6. IsStack(next)
  <2>1. ASSUME NEW i \in 1..Len(next)
        PROVE  IsDepth(next[i]) /\ next[i].indent = IF i = 1 THEN 0 ELSE next[i - 1].content
    <3>1. CASE i = M + 1
      <4>1. M # 0 => M \in 1..M /\ next[M] = stack[M]
        BY <1>0, <1>4
      <4>2. i = 1 <=> M = 0
        BY <1>0, <3>1
      <4>3. i - 1 = M
        BY <1>0, <3>1
      <4> HIDE DEF M
      <4> QED BY <1>2, <1>3, <1>4, <1>5, <3>1, <4>1, <4>2, <4>3
    <3>2. CASE i # M + 1
      <4>1. i \in 1..M /\ (i # 1 => i - 1 \in 1..M)
        BY <1>0, <1>4, <3>2
      <4> QED BY <1>4, <4>1 DEF IsStack
    <3> QED BY <3>1, <3>2
  <2> QED BY <1>4, <2>1 DEF IsStack
<1>7. Begins(stack, M, item, next)
  <2>1. M \in 0..Len(stack)
    BY <1>0
  <2> HIDE DEF M
  <2> QED BY <1>4, <1>5, <2>1 DEF Begins
<1> QED BY <1>6, <1>7 DEF next

\* A depth joined, the innermost.
LEMMA JoinIs ==
  ASSUME NEW stack, IsStack(stack), Len(stack) # 0, NEW item, IsMarked(item)
  PROVE  LET next == NextMarker(Join(stack, item))
         IN  IsStack(next) /\ Joined(stack, Len(stack), item, next)
<1> DEFINE M == Len(stack)
           next == NextMarker(Join(stack, item))
           was == stack[M]
           front == SubSeq(stack, 1, M - 1)
           count == IF was.ordered = item.ordered THEN was.count ELSE 0
           depth == [was EXCEPT !.left = item.indent, !.marker = item.marker, !.rank = item.rank,
                                !.ordered = item.ordered, !.count = count]
<1>0. IsList(stack) /\ M \in Nat \ {0} /\ IsDepth(was)
  <2>1. IsList(stack) /\ M \in Nat \ {0}
    BY DEF IsStack, IsList
  <2>2. M \in 1..Len(stack)
    BY <2>1
  <2> QED BY <2>1, <2>2 DEF IsStack
<1>1. next = NextMarker(Append(front, depth))
  BY DEF Join, Front, Last
<1>2. IsList(front) /\ Len(front) = M - 1 /\ \A i \in 1..(M - 1) : front[i] = stack[i]
  <2>1. M - 1 \in 0..Len(stack)
    BY <1>0
  <2> QED BY <1>0, <2>1, FirstOf
<1>3. /\ DOMAIN was = DepthParts /\ was.indent \in Nat /\ was.count \in Nat
      /\ was.indent = IF M = 1 THEN 0 ELSE stack[M - 1].content
  <2>1. M \in 1..Len(stack)
    BY <1>0
  <2> QED BY <2>1 DEF IsStack, IsDepth
<1> HIDE DEF front, next, was
<1>4. count \in Nat
  BY <1>3
<1> HIDE DEF count
<1>5. /\ DOMAIN depth = DepthParts /\ depth.left = item.indent /\ depth.ordered = item.ordered
      /\ depth.indent = was.indent /\ depth.count = count /\ depth.marker = item.marker /\ depth.rank = item.rank
  BY <1>3 DEF DepthParts
<1> HIDE DEF depth
<1>6. /\ IsList(next) /\ Len(next) = M
      /\ \A i \in 1..(M - 1) : next[i] = stack[i]
      /\ DOMAIN next[M] = DepthParts
      /\ next[M].left = depth.left /\ next[M].marker = depth.marker
      /\ next[M].rank = depth.rank /\ next[M].ordered = depth.ordered
      /\ next[M].indent = depth.indent /\ next[M].count = depth.count + 1
      /\ next[M].content \in Nat /\ next[M].content > depth.indent
      /\ next[M].content = depth.indent + MarkerWidth(depth.ordered, depth.count + 1)
  <2> DEFINE N == Len(front) + 1
  <2>1. N = M
    BY <1>0, <1>2
  <2>2. /\ IsList(next) /\ Len(next) = N
        /\ \A i \in 1..(N - 1) : next[i] = front[i]
        /\ DOMAIN next[N] = DepthParts
        /\ next[N].left = depth.left /\ next[N].marker = depth.marker
        /\ next[N].rank = depth.rank /\ next[N].ordered = depth.ordered
        /\ next[N].indent = depth.indent /\ next[N].count = depth.count + 1
        /\ next[N].content \in Nat /\ next[N].content > depth.indent
        /\ next[N].content = depth.indent + MarkerWidth(depth.ordered, depth.count + 1)
    <3>1. depth.indent \in Nat /\ depth.count \in Nat
      BY <1>3, <1>4, <1>5
    <3> QED BY <1>1, <1>2, <1>5, <3>1, NextIs, SMTT(30)
  <2> HIDE DEF N, M
  <2> QED BY <1>2, <2>1, <2>2
<1>7. /\ IsDepth(next[M]) /\ Wears(next[M], item)
      /\ next[M].count = IF was.ordered = item.ordered THEN was.count + 1 ELSE 1
  <2>1. next[M].count \in Nat /\ next[M].count = IF was.ordered = item.ordered THEN was.count + 1 ELSE 1
    BY <1>3, <1>4, <1>5, <1>6 DEF count
  <2> QED BY <1>3, <1>5, <1>6, <2>1 DEF IsDepth, IsMarked, Wears
<1>8. IsStack(next)
  <2>1. ASSUME NEW i \in 1..M
        PROVE  IsDepth(next[i]) /\ next[i].indent = IF i = 1 THEN 0 ELSE next[i - 1].content
    <3>1. CASE i = M
      <4>0. M \in Nat \ {0}
        BY <1>0
      <4> HIDE DEF M
      <4>1. M # 1 => M - 1 \in 1..(M - 1)
        BY <4>0
      <4> QED BY <1>3, <1>5, <1>6, <1>7, <3>1, <4>1
    <3>2. CASE i # M
      <4>1. i \in 1..(M - 1) /\ i \in 1..M /\ (i # 1 => i - 1 \in 1..(M - 1))
        BY <1>0, <3>2
      <4> QED BY <1>6, <4>1 DEF IsStack
    <3> QED BY <3>1, <3>2
  <2> QED BY <1>6, <2>1 DEF IsStack
<1>9. Joined(stack, M, item, next)
  <2>1. M \in 1..Len(stack)
    BY <1>0
  <2> HIDE DEF M
  <2> QED BY <1>6, <1>7, <2>1 DEF Joined, was
<1> QED BY <1>8, <1>9 DEF next

\* The first depths of a stack are a stack.
LEMMA FirstDepths ==
  ASSUME NEW stack, IsStack(stack), NEW m \in 0..Len(stack)
  PROVE  LET first == SubSeq(stack, 1, m)
         IN  IsStack(first) /\ Len(first) = m /\ \A i \in 1..m : first[i] = stack[i]
<1> DEFINE first == SubSeq(stack, 1, m)
<1>1. IsList(first) /\ Len(first) = m /\ \A i \in 1..m : first[i] = stack[i]
  BY FirstOf DEF IsStack
<1> HIDE DEF first
<1>2. \A i \in 1..m : i \in 1..Len(stack) /\ (i # 1 => i - 1 \in 1..m)
  OBVIOUS
<1>3. IsStack(first)
  BY <1>1, <1>2 DEF IsStack
<1> QED BY <1>1, <1>3 DEF first

\* The item opens a depth in the m-th of a stack, or joins it.
OpensIn(stack, m, item, next) == IsStack(next) /\ Begins(stack, m, item, next)
JoinsAt(stack, m, item, next) == IsStack(next) /\ Joined(stack, m, item, next)

\* The first depths, and one opened in the last of them.
LEMMA OpensFirst ==
  ASSUME NEW stack, IsStack(stack), NEW m \in 0..Len(stack), NEW item, IsMarked(item)
  PROVE  OpensIn(stack, m, item, NextMarker(Open(SubSeq(stack, 1, m), item)))
<1> DEFINE first == SubSeq(stack, 1, m)
           next == NextMarker(Open(first, item))
<1>1. IsStack(first) /\ Len(first) = m /\ \A i \in 1..m : first[i] = stack[i]
  BY FirstDepths
<1> HIDE DEF first
<1>2. IsStack(next) /\ Begins(first, m, item, next)
  BY <1>1, OpenIs
<1> HIDE DEF next
<1>3. Begins(stack, m, item, next)
  BY <1>1, <1>2 DEF Begins
<1> QED BY <1>2, <1>3 DEF next, first, OpensIn

\* The first depths, the last of them joined.
LEMMA JoinsFirst ==
  ASSUME NEW stack, IsStack(stack), NEW m \in 1..Len(stack), NEW item, IsMarked(item)
  PROVE  JoinsAt(stack, m, item, NextMarker(Join(SubSeq(stack, 1, m), item)))
<1> DEFINE first == SubSeq(stack, 1, m)
           next == NextMarker(Join(first, item))
<1>0. Len(stack) \in Nat
  BY DEF IsStack, IsList
<1>1. IsStack(first) /\ Len(first) = m /\ \A i \in 1..m : first[i] = stack[i]
  <2>1. m \in 0..Len(stack)
    BY <1>0
  <2> QED BY <2>1, FirstDepths
<1> HIDE DEF first
<1>2. IsStack(next) /\ Joined(first, m, item, next)
  <2>1. Len(first) # 0
    BY <1>0, <1>1
  <2> QED BY <1>1, <2>1, JoinIs
<1> HIDE DEF next
<1>3. Joined(stack, m, item, next)
  <2>1. m \in 1..m /\ \A i \in 1..(m - 1) : i \in 1..m
    BY <1>0
  <2> QED BY <1>1, <1>2, <2>1 DEF Joined
<1> QED BY <1>2, <1>3 DEF next, first, JoinsAt

\* The stack once an item is in it.
Taking(stack, item) == NextMarker(DepthFor(stack, item))

\* The depths that wear the item's marker in its column.
Worn(stack, item) == {i \in 1..Len(stack) : stack[i].marker = item.marker /\ InColumn(stack[i], item)}

\* The innermost of them takes the item.
LEMMA WornJoins ==
  ASSUME NEW stack, IsStack(stack), NEW item, IsMarked(item),
         NEW m \in Worn(stack, item), \A i \in Worn(stack, item) : i <= m
  PROVE  JoinsAt(stack, m, item, Taking(stack, item))
<1> DEFINE worn == {i \in DOMAIN stack : stack[i].marker = item.marker /\ InColumn(stack[i], item)}
           chosen == CHOOSE i \in worn : \A j \in worn : j <= i
<1>1. IsList(stack) /\ DOMAIN stack = 1..Len(stack) /\ Len(stack) \in Nat
  BY LongerIs DEF IsStack
<1>2. worn = Worn(stack, item)
  BY <1>1 DEF Worn
<1>3. Worn(stack, item) \subseteq 1..Len(stack)
  BY DEF Worn
<1>4. DepthFor(stack, item) = IF worn # {} THEN Join(SubSeq(stack, 1, chosen), item)
                              ELSE IF Demoted(stack, item) THEN Open(stack, item)
                              ELSE DepthByPosition(Standing(stack, item), item)
  BY DEF DepthFor
<1> HIDE DEF worn
<1>5. chosen = m
  <2>1. chosen \in worn /\ \A j \in worn : j <= chosen
    BY <1>2
  <2>2. chosen \in 1..Len(stack) /\ m \in 1..Len(stack) /\ chosen <= m /\ m <= chosen
    BY <1>2, <1>3, <2>1
  <2> HIDE DEF chosen
  <2> QED BY <1>1, <2>2
<1>6. Taking(stack, item) = NextMarker(Join(SubSeq(stack, 1, m), item))
  <2> HIDE DEF chosen
  <2> QED BY <1>2, <1>4, <1>5 DEF Taking
<1> QED BY <1>3, <1>6, JoinsFirst

\* No depth open is marked with a bullet that has a rank.
Unranked(stack) == \A i \in 1..Len(stack) : stack[i].rank = NoRank

\* Without ranks the item is drawn right of the depth it opens one in, and left of
\* those it closes; or in the column of the depth it joins.
DrawnRight(stack, m, item) ==
  Unranked(stack) => /\ m # 0 => item.indent - stack[m].left > SAME_COLUMN
                     /\ \A i \in (m + 1)..Len(stack) : stack[i].left - item.indent > SAME_COLUMN
DrawnIn(stack, m, item) == Unranked(stack) => InColumn(stack[m], item)

\* An item opens a depth or joins one.
Placing(stack, item, next) ==
  \/ \E m \in 0..Len(stack) : OpensIn(stack, m, item, next) /\ DrawnRight(stack, m, item)
  \/ \E m \in 1..Len(stack) : JoinsAt(stack, m, item, next) /\ DrawnIn(stack, m, item)

\* Whatever the item, that is what it does (lists._depth_for).
LEMMA PlacingIs ==
  ASSUME NEW stack, IsStack(stack), NEW item, IsMarked(item)
  PROVE  Placing(stack, item, Taking(stack, item))
<1> DEFINE N == Len(stack)
           next == Taking(stack, item)
           Plain == Unranked(stack)
<1>1. IsList(stack) /\ DOMAIN stack = 1..N /\ N \in Nat
  BY LongerIs DEF IsStack
<1>2. CASE Worn(stack, item) # {}
  <2> DEFINE worn == Worn(stack, item)
  <2>1. worn \in SUBSET (1..N)
    BY DEF Worn
  <2>2. PICK m \in worn : \A i \in worn : i <= m
    <3> HIDE DEF worn, N
    <3> QED BY <1>1, <1>2, <2>1, GreatestElement DEF worn
  <2>3. JoinsAt(stack, m, item, next)
    BY <2>2, WornJoins
  <2>4. m \in 1..N /\ InColumn(stack[m], item)
    BY DEF Worn
  <2>5. DrawnIn(stack, m, item) /\ m \in 1..Len(stack)
    BY <2>4 DEF DrawnIn
  <2> QED BY <2>3, <2>5 DEF Placing
<1>3. CASE Worn(stack, item) = {} /\ Demoted(stack, item)
  <2>1. next = NextMarker(Open(stack, item))
    <3>1. DepthFor(stack, item) = Open(stack, item)
      BY <1>1, <1>3 DEF DepthFor, Worn
    <3> QED BY <3>1 DEF Taking
  <2>2. IsStack(next) /\ Begins(stack, N, item, next)
    BY <2>1, OpenIs
  <2>3. N # 0 /\ stack[N].rank # NoRank
    BY <1>1, <1>3 DEF Demoted, Last, IsList
  <2>4. N \in 0..N /\ N \in 1..N
    BY <1>1, <2>3
  <2> HIDE DEF next
  <2>5. OpensIn(stack, N, item, next) /\ ~Plain
    BY <2>2, <2>3, <2>4 DEF OpensIn, Unranked
  <2>6. OpensIn(stack, N, item, next) /\ DrawnRight(stack, N, item) /\ N \in 0..Len(stack)
    BY <2>4, <2>5 DEF DrawnRight
  <2> HIDE DEF N, next
  <2>7. \E m \in 0..Len(stack) : OpensIn(stack, m, item, next) /\ DrawnRight(stack, m, item)
    BY <2>6
  <2> QED BY <2>7 DEF Placing, next
<1>4. CASE Worn(stack, item) = {} /\ ~Demoted(stack, item)
  <2> DEFINE standing == Standing(stack, item)
  <2>1. next = NextMarker(DepthByPosition(standing, item))
    <3>1. DepthFor(stack, item) = DepthByPosition(standing, item)
      BY <1>1, <1>4 DEF DepthFor, Worn
    <3> QED BY <3>1 DEF Taking
  <2> DEFINE keeps(i) == \/ stack[i].left - item.indent <= SAME_COLUMN
                         \/ Encloses(stack[i], item)
             kept == {i \in 1..N : keeps(i)}
  <2>2. PICK m \in 0..N : /\ standing = SubSeq(stack, 1, m)
                          /\ m # 0 => m \in kept
                          /\ \A i \in kept : i <= m
    <3> DEFINE last == IF kept = {} THEN 0 ELSE CHOOSE i \in kept : \A j \in kept : j <= i
    <3>1. standing = SubSeq(stack, 1, last)
      BY <1>1 DEF Standing
    <3>2. kept \in SUBSET (1..N)
      OBVIOUS
    <3> HIDE DEF kept, standing, N
    <3>3. kept # {} => \E i \in kept : \A j \in kept : j <= i
      BY <1>1, <3>2, GreatestElement
    <3>4. kept # {} => last \in kept /\ \A j \in kept : j <= last
      BY <3>3
    <3>5. kept = {} => last = 0
      OBVIOUS
    <3> HIDE DEF last
    <3>6. last \in 0..N
      <4>1. CASE kept = {}
        BY <1>1, <3>5, <4>1
      <4>2. CASE kept # {}
        <5>1. last \in 1..N
          BY <3>2, <3>4, <4>2
        <5> QED BY <1>1, <5>1
      <4> QED BY <4>1, <4>2
    <3> QED BY <3>1, <3>4, <3>5, <3>6
  <2>3. IsStack(standing) /\ Len(standing) = m /\ (m # 0 => Last(standing) = stack[m])
    <3>1. IsStack(standing) /\ Len(standing) = m /\ \A i \in 1..m : standing[i] = stack[i]
      BY <2>2, FirstDepths
    <3>2. m # 0 => m \in 1..m
      BY <1>1
    <3> QED BY <3>1, <3>2 DEF Last
  <2>4. standing = <<>> <=> m = 0
    BY <2>3 DEF IsStack, IsList
  <2>5. ASSUME Plain
        PROVE  \A i \in 1..N : ~Encloses(stack[i], item)
    BY <2>5 DEF Encloses, Unranked
  <2>6. ASSUME NEW i \in 1..N PROVE stack[i].left \in Int /\ item.indent \in Int
    BY DEF IsStack, IsDepth, IsMarked
  <2>7. Plain => \A i \in (m + 1)..N : stack[i].left - item.indent > SAME_COLUMN
    <3> SUFFICES ASSUME Plain, NEW i \in (m + 1)..N PROVE stack[i].left - item.indent > SAME_COLUMN
      OBVIOUS
    <3>1. i \in 1..N /\ ~(i <= m)
      BY <1>1
    <3>2. ~keeps(i)
      BY <2>2, <3>1
    <3> QED BY <2>6, <3>1, <3>2 DEF SAME_COLUMN
  <2> DEFINE beneath == \/ standing = <<>>
                        \/ item.indent - Last(standing).left > SAME_COLUMN
                        \/ Encloses(Last(standing), item)
  <2>8. CASE beneath
    <3>1. next = NextMarker(Open(standing, item))
      BY <2>1, <2>8 DEF DepthByPosition
    <3>2. OpensIn(stack, m, item, next)
      <4> HIDE DEF next
      <4> QED BY <2>2, <3>1, OpensFirst
    <3>3. Plain /\ m # 0 => item.indent - stack[m].left > SAME_COLUMN
      <4>1. m # 0 => m \in 1..N
        BY <1>1
      <4> HIDE DEF standing, Plain
      <4> QED BY <2>3, <2>4, <2>5, <2>8, <4>1
    <3>4. DrawnRight(stack, m, item) /\ m \in 0..Len(stack)
      <4> HIDE DEF standing, beneath, kept
      <4> QED BY <2>7, <3>3 DEF DrawnRight
    <3> QED BY <3>2, <3>4 DEF Placing
  <2>9. CASE ~beneath
    <3>1. next = NextMarker(Join(standing, item))
      BY <2>1, <2>9 DEF DepthByPosition
    <3>2. m \in 1..N
      BY <1>1, <2>4, <2>9
    <3>3. JoinsAt(stack, m, item, next)
      <4> HIDE DEF next
      <4> QED BY <2>2, <3>1, <3>2, JoinsFirst
    <3>4. Plain => InColumn(stack[m], item)
      <4>1. ~(item.indent - stack[m].left > SAME_COLUMN)
        BY <2>3, <2>9, <3>2
      <4>2. keeps(m)
        BY <2>2, <3>2
      <4>3. Plain => stack[m].left - item.indent <= SAME_COLUMN
        BY <2>5, <3>2, <4>2
      <4> QED BY <2>6, <3>2, <4>1, <4>3 DEF InColumn, SAME_COLUMN
    <3>5. DrawnIn(stack, m, item) /\ m \in 1..Len(stack)
      BY <3>2, <3>4 DEF DrawnIn
    <3> QED BY <3>3, <3>5 DEF Placing
  <2> QED BY <2>8, <2>9
<1> QED BY <1>2, <1>3, <1>4

\* The next stack is the depths up to one of the stack, and the item in that or in
\* one more; it is numbered on from there, or from one.
Lodges(stack, item, next) ==
  LET n == Len(next)
  IN  /\ IsStack(next) /\ n \in 1..(Len(stack) + 1)
      /\ \A i \in 1..(n - 1) : next[i] = stack[i]
      /\ Wears(next[n], item)
      /\ \/ next[n].count = 1
         \/ /\ n <= Len(stack) /\ stack[n].ordered = item.ordered
            /\ next[n].count = stack[n].count + 1

\* What opens a depth or joins one lodges in it.
LEMMA LodgesIs ==
  ASSUME NEW stack, IsStack(stack), NEW item, NEW next, Placing(stack, item, next)
  PROVE  Lodges(stack, item, next)
<1>0. Len(stack) \in Nat
  BY DEF IsStack, IsList
<1>1. ASSUME NEW m \in 0..Len(stack), OpensIn(stack, m, item, next) PROVE Lodges(stack, item, next)
  <2>1. /\ IsStack(next) /\ Len(next) = m + 1 /\ \A i \in 1..m : next[i] = stack[i]
        /\ Wears(next[m + 1], item) /\ next[m + 1].count = 1
    BY <1>1 DEF OpensIn, Begins
  <2>2. m + 1 \in 1..(Len(stack) + 1) /\ (m + 1) - 1 = m
    BY <1>0
  <2> QED BY <2>1, <2>2 DEF Lodges
<1>2. ASSUME NEW m \in 1..Len(stack), JoinsAt(stack, m, item, next) PROVE Lodges(stack, item, next)
  <2>1. /\ IsStack(next) /\ Len(next) = m /\ \A i \in 1..(m - 1) : next[i] = stack[i]
        /\ Wears(next[m], item)
        /\ next[m].count = IF stack[m].ordered = item.ordered THEN stack[m].count + 1 ELSE 1
    BY <1>2 DEF JoinsAt, Joined
  <2>2. m \in 1..(Len(stack) + 1) /\ m <= Len(stack)
    BY <1>0
  <2> QED BY <2>1, <2>2 DEF Lodges
<1> QED BY <1>1, <1>2 DEF Placing

\* Each depth starts its text right of those it is in.
LEMMA Rising ==
  ASSUME NEW stack, IsStack(stack), NEW i \in 1..Len(stack)
  PROVE  \A k \in i..Len(stack) : stack[i].content <= stack[k].content
<1> DEFINE N == Len(stack) - i
           good == {d \in 0..N : stack[i].content <= stack[i + d].content}
<1>1. N \in Nat /\ i \in Nat \ {0} /\ Len(stack) \in Nat
  BY DEF IsStack, IsList
<1>2. \A k \in 1..Len(stack) : /\ stack[k].content \in Nat /\ stack[k].indent < stack[k].content
                               /\ k # 1 => stack[k].indent = stack[k - 1].content
  BY DEF IsStack, IsDepth
<1>3. 0 \in good
  BY <1>1, <1>2
<1>4. ASSUME NEW d \in 1..N, d - 1 \in good PROVE d \in good
  <2>1. i + d \in 1..Len(stack) /\ i + d # 1 /\ (i + d) - 1 = i + (d - 1) /\ (i + d) - 1 \in 1..Len(stack)
    BY <1>1
  <2>2. stack[i].content <= stack[i + (d - 1)].content
    BY <1>4
  <2>3. stack[i + (d - 1)].content < stack[i + d].content
    BY <1>2, <2>1
  <2>4. /\ stack[i].content \in Nat /\ stack[i + (d - 1)].content \in Nat /\ stack[i + d].content \in Nat
    BY <1>2, <2>1
  <2>5. stack[i].content <= stack[i + d].content
    <3>1. \A x, y, z \in Nat : x <= y /\ y < z => x <= z
      OBVIOUS
    <3> HIDE DEF good, N
    <3> QED BY <2>2, <2>3, <2>4, <3>1
  <2> QED BY <1>1, <2>5
<1>5. 0..N \subseteq good
  <2> HIDE DEF good, N
  <2> QED BY <1>1, <1>3, <1>4, StepByStep
<1>6. ASSUME NEW k \in i..Len(stack) PROVE stack[i].content <= stack[k].content
  <2>1. k - i \in 0..N /\ i + (k - i) = k
    BY <1>1
  <2> HIDE DEF N
  <2> QED BY <1>5, <2>1
<1> QED BY <1>6

\* A line is inside so many of the open items where it is in those and not in the next.
LEMMA InsideIs ==
  ASSUME NEW open, Len(open) \in Nat, \A i \in 1..Len(open) : open[i].content \in Nat,
         NEW line, line.indent \in Nat, NEW n \in 0..Len(open),
         \A i \in 1..n : open[i].content <= line.indent,
         n < Len(open) => line.indent < open[n + 1].content
  PROVE  Inside(open, line) = n
<1> DEFINE In(m) == /\ \A i \in 1..m : open[i].content <= line.indent
                    /\ m < Len(open) => line.indent < open[m + 1].content
           x == CHOOSE m \in 0..Len(open) : In(m)
<1>1. Inside(open, line) = x
  BY DEF Inside
<1>2. x \in 0..Len(open) /\ In(x)
  <2>1. In(n)
    OBVIOUS
  <2> HIDE DEF In
  <2> QED BY <2>1
<1> HIDE DEF x
<1>3. ~(x < n)
  <2> SUFFICES ASSUME x < n PROVE FALSE
    OBVIOUS
  <2>1. x + 1 \in 1..n /\ x < Len(open) /\ x + 1 \in 1..Len(open)
    BY <1>2
  <2>2. open[x + 1].content <= line.indent /\ line.indent < open[x + 1].content /\ open[x + 1].content \in Nat
    BY <1>2, <2>1
  <2> QED BY <2>2
<1>4. ~(n < x)
  <2> SUFFICES ASSUME n < x PROVE FALSE
    OBVIOUS
  <2>1. n + 1 \in 1..x /\ n < Len(open) /\ n + 1 \in 1..Len(open)
    BY <1>2
  <2>2. open[n + 1].content <= line.indent /\ line.indent < open[n + 1].content /\ open[n + 1].content \in Nat
    BY <1>2, <2>1
  <2> QED BY <2>2
<1>5. x = n
  BY <1>2, <1>3, <1>4
<1> QED BY <1>1, <1>5

\* The items a reader has open are those of the depths.
Mirrors(open, stack) ==
  /\ IsList(open) /\ Len(open) = Len(stack)
  /\ \A i \in 1..Len(stack) : open[i].content = stack[i].content /\ open[i].ordered = stack[i].ordered

\* The line of the item that is last of a depth.
ItemLine(stack, text) == Line("item", Last(stack), Len(stack), text)

\* A reader who has open the items of the depths reads the line of an item so.
ReadsItem(reading, stack, item, next, text, read) ==
  LET n == Len(next)
  IN  /\ Mirrors(read.open, next)
      /\ \A i \in 1..(n - 1) : read.open[i] = reading.open[i]
      /\ \E shown : /\ read.open[n].shown = shown
                    /\ read.shows = Append(reading.shows, [depth |-> n, ordinal |-> shown])
                    /\ item.ordered => shown = IF n <= Len(stack) /\ stack[n].ordered
                                                 THEN reading.open[n].shown + 1 ELSE next[n].count

\* A marker starts where the text of the item above it does, so it is read in that
\* item, and after those of its depth.
LEMMA ItemIsRead ==
  ASSUME NEW stack, IsStack(stack), NEW item, IsMarked(item), NEW next, Lodges(stack, item, next),
         NEW reading, Mirrors(reading.open, stack), NEW text
  PROVE  ReadsItem(reading, stack, item, next, text, ReadLine(reading, ItemLine(next, text)))
<1> DEFINE n == Len(next)
           open == reading.open
           line == ItemLine(next, text)
           read == ReadLine(reading, line)
           inside == SubSeq(open, 1, n - 1)
           content == line.indent + MarkerWidth(line.ordered, line.ordinal)
<1>0. /\ n \in 1..(Len(stack) + 1) /\ IsStack(next) /\ Len(stack) \in Nat /\ n \in Nat \ {0} /\ n \in 1..n
      /\ \A i \in 1..(n - 1) : next[i] = stack[i] /\ i \in 1..Len(stack)
      /\ Wears(next[n], item)
  <2>1. Len(stack) \in Nat
    BY DEF IsStack, IsList
  <2> QED BY <2>1 DEF Lodges
<1>1. /\ line.is = "item" /\ line.indent = next[n].indent /\ line.ordered = next[n].ordered
      /\ line.ordinal = next[n].count
  BY DEF ItemLine, Line, Last
<1> HIDE DEF n
<1>2. IsDepth(next[n]) /\ next[n].indent = IF n = 1 THEN 0 ELSE next[n - 1].content
  BY <1>0 DEF IsStack, n
<1> HIDE DEF line
<1>3. line.indent \in Nat /\ line.ordinal \in Nat /\ line.ordered = item.ordered /\ line.ordered \in BOOLEAN
  BY <1>0, <1>1, <1>2 DEF IsDepth, Wears
<1>4. ASSUME NEW i \in 1..Len(stack)
      PROVE  /\ open[i].content = stack[i].content /\ stack[i].content \in Nat
             /\ stack[i].indent < stack[i].content
             /\ stack[i].indent = IF i = 1 THEN 0 ELSE stack[i - 1].content
  BY DEF Mirrors, IsStack, IsDepth
<1>5. Inside(open, line) = n - 1
  <2>1. Len(open) = Len(stack) /\ n - 1 \in 0..Len(open)
    BY <1>0 DEF Mirrors
  <2>2. ASSUME NEW i \in 1..(n - 1) PROVE open[i].content <= line.indent
    <3>1. n # 1 /\ i \in 1..Len(next) /\ n - 1 \in i..Len(next) /\ i \in 1..Len(stack)
      BY <1>0 DEF n
    <3>2. next[i].content <= next[n - 1].content
      BY <1>0, <3>1, Rising
    <3>3. next[i] = stack[i]
      BY <1>0
    <3> QED BY <1>1, <1>2, <1>4, <3>1, <3>2, <3>3
  <2>3. ASSUME n - 1 < Len(open) PROVE line.indent < open[(n - 1) + 1].content
    <3>1. (n - 1) + 1 = n /\ n \in 1..Len(stack)
      BY <1>0, <2>1, <2>3
    <3>2. n # 1 => next[n - 1] = stack[n - 1]
      BY <1>0
    <3>3. line.indent = stack[n].indent
      BY <1>1, <1>2, <1>4, <3>1, <3>2
    <3> QED BY <1>4, <3>1, <3>3
  <2>4. \A i \in 1..Len(open) : open[i].content \in Nat
    BY <1>4, <2>1
  <2> HIDE DEF open
  <2> QED BY <1>0, <1>3, <2>1, <2>2, <2>3, <2>4, InsideIs
<1>6. /\ IsList(inside) /\ Len(inside) = n - 1 /\ \A i \in 1..(n - 1) : inside[i] = open[i]
  <2>1. IsList(open) /\ n - 1 \in 0..Len(open)
    BY <1>0 DEF Mirrors
  <2> QED BY <2>1, FirstOf
<1> DEFINE same == Len(open) > n - 1 /\ open[(n - 1) + 1].ordered = line.ordered
           shown == IF ~line.ordered THEN 0
                    ELSE IF same THEN open[(n - 1) + 1].shown + 1 ELSE line.ordinal
           list == [content |-> content, ordered |-> line.ordered, shown |-> shown]
           longer == Append(inside, list)
           shows == Append(reading.shows, [depth |-> (n - 1) + 1, ordinal |-> shown])
<1>7. read = [open |-> longer, shows |-> shows]
  BY <1>1, <1>5 DEF ReadLine
<1>8. (n - 1) + 1 = n
  BY <1>0
<1>9. line.ordered => shown = IF n <= Len(stack) /\ stack[n].ordered
                                THEN open[n].shown + 1 ELSE next[n].count
  <2>1. Len(open) = Len(stack) /\ (n <= Len(stack) => open[n].ordered = stack[n].ordered)
    BY <1>0 DEF Mirrors
  <2>2. n <= Len(stack) => stack[n].ordered \in BOOLEAN
    BY <1>0 DEF IsStack, IsDepth
  <2>3. Len(open) > n - 1 <=> n <= Len(stack)
    BY <1>0, <2>1
  <2>4. line.ordered => (same <=> n <= Len(stack) /\ stack[n].ordered)
    BY <1>3, <1>8, <2>1, <2>2, <2>3
  <2> HIDE DEF same, open
  <2> QED BY <1>1, <1>8, <2>4
<1> HIDE DEF shown
<1>10. content = next[n].content
  BY <1>1, <1>2 DEF IsDepth
<1> HIDE DEF content
<1>11. /\ list.content = next[n].content /\ list.ordered = next[n].ordered /\ list.shown = shown
  BY <1>1, <1>10
<1> HIDE DEF list, inside
<1>12. /\ IsList(longer) /\ Len(longer) = n /\ longer[n] = list
       /\ \A i \in 1..(n - 1) : longer[i] = open[i]
  <2>1. /\ IsList(longer) /\ Len(longer) = (n - 1) + 1 /\ longer[(n - 1) + 1] = list
        /\ \A i \in 1..(n - 1) : longer[i] = inside[i]
    BY <1>6, LongerIs
  <2> HIDE DEF longer
  <2> QED BY <1>6, <1>8, <2>1
<1> HIDE DEF longer
<1>13. Mirrors(longer, next)
  <2>1. ASSUME NEW i \in 1..n
        PROVE  longer[i].content = next[i].content /\ longer[i].ordered = next[i].ordered
    <3>1. CASE i = n
      BY <1>11, <1>12, <3>1
    <3>2. CASE i # n
      <4>1. i \in 1..(n - 1)
        BY <1>0, <3>2
      <4>2. next[i] = stack[i] /\ i \in 1..Len(stack) /\ longer[i] = open[i]
        BY <1>0, <1>12, <4>1
      <4>3. open[i].content = stack[i].content /\ open[i].ordered = stack[i].ordered
        BY <4>2 DEF Mirrors
      <4> HIDE DEF open
      <4> QED BY <4>2, <4>3
    <3> QED BY <3>1, <3>2
  <2> QED BY <1>12, <2>1 DEF Mirrors, n
<1>14. read.open = longer /\ read.shows = Append(reading.shows, [depth |-> n, ordinal |-> shown])
  <2>1. read.open = longer /\ read.shows = shows
    BY <1>7
  <2> QED BY <1>8, <2>1
<1> HIDE DEF read
<1>15. ReadsItem(reading, stack, item, next, text, read)
  <2>1. /\ Mirrors(read.open, next)
        /\ \A i \in 1..(n - 1) : read.open[i] = reading.open[i]
    BY <1>12, <1>13, <1>14
  <2>2. read.open[n].shown = shown
    BY <1>11, <1>12, <1>14
  <2>3. item.ordered => shown = IF n <= Len(stack) /\ stack[n].ordered
                                 THEN reading.open[n].shown + 1 ELSE next[n].count
    BY <1>3, <1>9
  <2> QED BY <1>14, <2>1, <2>2, <2>3 DEF ReadsItem, n
<1> QED BY <1>15 DEF read, line

\* The line of a block of the item above it.
BlockLine(stack, text) == Line("block", Last(stack), Len(stack), text)

\* A reader reads that inside the items open, all of which stay open.
ReadsBlock(reading, stack, read) ==
  /\ Mirrors(read.open, stack)
  /\ \A i \in 1..Len(stack) : read.open[i] = reading.open[i]
  /\ read.shows = Append(reading.shows, [depth |-> Len(stack), ordinal |-> 0])

\* A block starts where the text of its item does, so it is read in it.
LEMMA BlockIsRead ==
  ASSUME NEW stack, IsStack(stack), Len(stack) # 0, NEW reading, Mirrors(reading.open, stack), NEW text
  PROVE  ReadsBlock(reading, stack, ReadLine(reading, BlockLine(stack, text)))
<1> DEFINE N == Len(stack)
           open == reading.open
           line == BlockLine(stack, text)
           read == ReadLine(reading, line)
           inside == SubSeq(open, 1, N)
<1>0. N \in Nat /\ N \in 1..N /\ Len(open) = N /\ N \in 0..Len(open) /\ IsList(open)
  BY DEF IsStack, IsList, Mirrors
<1>1. line.is = "block" /\ line.indent = stack[N].content
  BY DEF BlockLine, Line, Last
<1> HIDE DEF line
<1>2. ASSUME NEW i \in 1..N
      PROVE  /\ open[i].content = stack[i].content /\ stack[i].content \in Nat
             /\ stack[i].content <= stack[N].content
  <2>1. N \in i..N
    BY <1>0
  <2>2. stack[i].content <= stack[N].content
    BY <2>1, Rising
  <2> QED BY <2>2 DEF Mirrors, IsStack, IsDepth
<1>3. Inside(open, line) = N
  <2>1. line.indent \in Nat
    BY <1>0, <1>1, <1>2
  <2>2. /\ Len(open) \in Nat /\ ~(N < Len(open))
        /\ \A i \in 1..Len(open) : open[i].content \in Nat
        /\ \A i \in 1..N : open[i].content <= line.indent
    BY <1>0, <1>1, <1>2
  <2> HIDE DEF open, N
  <2> QED BY <1>0, <2>1, <2>2, InsideIs
<1>4. IsList(inside) /\ Len(inside) = N /\ \A i \in 1..N : inside[i] = open[i]
  BY <1>0, FirstOf
<1>5. read.open = inside /\ read.shows = Append(reading.shows, [depth |-> N, ordinal |-> 0])
  BY <1>1, <1>3 DEF ReadLine
<1> HIDE DEF read, inside
<1>6. Mirrors(read.open, stack)
  BY <1>4, <1>5 DEF Mirrors
<1>7. ReadsBlock(reading, stack, read)
  BY <1>4, <1>5, <1>6 DEF ReadsBlock
<1> QED BY <1>7 DEF read, line

-----------------------------------------------------------------------------
(* The lines of a run so far                                               *)

ItemAt(entries, i) == entries[i].item[1]
Listed(entries) == {i \in DOMAIN entries : entries[i].item # <<>>}

\* The lines of some entries: of an item, with its kind; or of a block.
LinesOf(entries, sheet) ==
  /\ IsList(entries) /\ IsList(sheet) /\ Len(sheet) = Len(entries)
  /\ \A k \in 1..Len(entries) :
       IF entries[k].item # <<>>
         THEN /\ sheet[k].is = "item" /\ sheet[k].depth \in Nat \ {0}
              /\ IsMarked(ItemAt(entries, k)) /\ sheet[k].ordered = ItemAt(entries, k).ordered
         ELSE sheet[k].is = "block" /\ sheet[k].ordered = FALSE

\* The j-th line is the last of an item at a depth; all items since are deeper.
Latest(entries, sheet, j, depth) ==
  /\ j \in 1..Len(entries) /\ entries[j].item # <<>> /\ sheet[j].depth = depth
  /\ \A m \in (j + 1)..Len(entries) : entries[m].item # <<>> => sheet[m].depth > depth

\* Each depth open is that of the last item at it, and the last item is in the innermost.
Stands(entries, sheet, stack) ==
  /\ \A i \in 1..Len(stack) :
       \E j \in 1..Len(entries) : /\ Latest(entries, sheet, j, i)
                                  /\ Wears(stack[i], ItemAt(entries, j))
                                  /\ sheet[j].ordinal = stack[i].count
  /\ Len(entries) # 0 =>
       \E j \in 1..Len(entries) : /\ entries[j].item # <<>> /\ sheet[j].depth = Len(stack)
                                  /\ \A m \in (j + 1)..Len(entries) : entries[m].item = <<>>

\* The depth of an item since which all are deeper is open, and it was the last there.
LEMMA LatestStands ==
  ASSUME NEW entries, NEW sheet, LinesOf(entries, sheet), NEW stack, Stands(entries, sheet, stack),
         NEW j, Latest(entries, sheet, j, sheet[j].depth)
  PROVE  LET d == sheet[j].depth
         IN  /\ d \in 1..Len(stack) /\ Wears(stack[d], ItemAt(entries, j))
             /\ sheet[j].ordinal = stack[d].count
<1> DEFINE K == Len(entries)
           d == sheet[j].depth
<1>0. K \in Nat /\ j \in 1..K /\ entries[j].item # <<>> /\ d \in Nat \ {0}
  BY DEF LinesOf, IsList, Latest
<1>1. PICK m \in 1..K : /\ entries[m].item # <<>> /\ sheet[m].depth = Len(stack)
                        /\ \A k \in (m + 1)..K : entries[k].item = <<>>
  BY <1>0 DEF Stands
<1>2. Len(stack) \in Nat
  BY <1>1 DEF LinesOf
<1>3. j <= m
  <2>1. j \in 1..K /\ ~(j \in (m + 1)..K)
    BY <1>0, <1>1
  <2> QED BY <1>0, <2>1
<1>4. d \in 1..Len(stack)
  <2>1. CASE j = m
    BY <1>0, <1>1, <1>2, <2>1
  <2>2. CASE j # m
    <3>1. m \in (j + 1)..K
      BY <1>0, <1>3, <2>2
    <3>2. sheet[m].depth > d
      BY <1>1, <3>1 DEF Latest
    <3> QED BY <1>0, <1>1, <1>2, <3>2
  <2> QED BY <2>1, <2>2
<1> HIDE DEF d
<1>5. PICK k \in 1..K : /\ Latest(entries, sheet, k, d) /\ Wears(stack[d], ItemAt(entries, k))
                        /\ sheet[k].ordinal = stack[d].count
  BY <1>4 DEF Stands
<1>6. k = j
  <2>1. ~(k < j)
    <3> SUFFICES ASSUME k < j PROVE FALSE
      OBVIOUS
    <3>1. j \in (k + 1)..K
      BY <1>0
    <3>2. sheet[j].depth > d
      BY <1>0, <1>5, <3>1 DEF Latest
    <3> QED BY <1>0, <3>2 DEF d
  <2>2. ~(j < k)
    <3> SUFFICES ASSUME j < k PROVE FALSE
      OBVIOUS
    <3>1. k \in (j + 1)..K /\ entries[k].item # <<>> /\ sheet[k].depth = d
      BY <1>0, <1>5 DEF Latest
    <3>2. sheet[k].depth > d
      BY <3>1 DEF Latest, d
    <3> QED BY <1>0, <3>1, <3>2
  <2> QED BY <1>0, <2>1, <2>2
<1> QED BY <1>4, <1>5, <1>6 DEF d

\* A list and one more thing at its end.
OneMore(list, entry, longer) ==
  /\ IsList(longer) /\ Len(longer) = Len(list) + 1 /\ Len(list) \in Nat
  /\ longer[Len(list) + 1] = entry
  /\ \A i \in 1..Len(list) : longer[i] = list[i]

\* A thing appended is such a thing.
LEMMA OneMoreIs ==
  ASSUME NEW list, IsList(list), NEW entry
  PROVE  OneMore(list, entry, Append(list, entry))
<1> DEFINE longer == Append(list, entry)
<1>1. /\ IsList(longer) /\ Len(longer) = Len(list) + 1 /\ Len(list) \in Nat
      /\ longer[Len(list) + 1] = entry
      /\ \A i \in 1..Len(list) : longer[i] = list[i]
  BY LongerIs
<1> HIDE DEF longer
<1>2. OneMore(list, entry, longer)
  BY <1>1 DEF OneMore
<1> QED BY <1>2 DEF longer

\* One entry more and its line.
Lengthens(entries, sheet, entry, line, es, ls) ==
  /\ LinesOf(entries, sheet) /\ LinesOf(es, ls)
  /\ OneMore(entries, entry, es) /\ OneMore(sheet, line, ls)

\* An entry and its line appended are one more of each.
LEMMA LineLonger ==
  ASSUME NEW entries, NEW sheet, LinesOf(entries, sheet), NEW entry, NEW line,
         IF entry.item # <<>>
           THEN /\ line.is = "item" /\ line.depth \in Nat \ {0}
                /\ IsMarked(entry.item[1]) /\ line.ordered = entry.item[1].ordered
           ELSE line.is = "block" /\ line.ordered = FALSE
  PROVE  Lengthens(entries, sheet, entry, line, Append(entries, entry), Append(sheet, line))
<1> DEFINE es == Append(entries, entry)
           ls == Append(sheet, line)
           K == Len(entries)
<1>1. OneMore(entries, entry, es) /\ OneMore(sheet, line, ls) /\ Len(sheet) = K
  BY OneMoreIs DEF LinesOf
<1> HIDE DEF es, ls
<1>2. LinesOf(es, ls)
  <2>1. /\ IsList(es) /\ IsList(ls) /\ Len(es) = K + 1 /\ Len(ls) = K + 1 /\ K \in Nat
        /\ es[K + 1] = entry /\ ls[K + 1] = line
        /\ \A i \in 1..K : es[i] = entries[i] /\ ls[i] = sheet[i]
    BY <1>1 DEF OneMore
  <2>2. ASSUME NEW k \in 1..(K + 1)
        PROVE  IF es[k].item # <<>>
                 THEN /\ ls[k].is = "item" /\ ls[k].depth \in Nat \ {0}
                      /\ IsMarked(es[k].item[1]) /\ ls[k].ordered = es[k].item[1].ordered
                 ELSE ls[k].is = "block" /\ ls[k].ordered = FALSE
    <3>1. CASE k = K + 1
      BY <2>1, <3>1
    <3>2. CASE k # K + 1
      <4>1. k \in 1..K
        BY <2>1, <3>2
      <4>2. es[k] = entries[k] /\ ls[k] = sheet[k]
        BY <2>1, <4>1
      <4> HIDE DEF K
      <4> QED BY <4>1, <4>2 DEF LinesOf, ItemAt, K
    <3> QED BY <3>1, <3>2
  <2> QED BY <2>1, <2>2 DEF LinesOf, ItemAt
<1> QED BY <1>1, <1>2 DEF Lengthens, es, ls

\* What is longer by one, position by position.
LEMMA LongerBy ==
  ASSUME NEW entries, NEW sheet, NEW entry, NEW line, NEW es, NEW ls,
         Lengthens(entries, sheet, entry, line, es, ls)
  PROVE  LET K == Len(entries)
         IN  /\ K \in Nat /\ Len(es) = K + 1 /\ Len(ls) = K + 1 /\ Len(sheet) = K
             /\ es[K + 1] = entry /\ ls[K + 1] = line
             /\ \A i \in 1..K : es[i] = entries[i] /\ ls[i] = sheet[i]
<1>1. Len(sheet) = Len(entries)
  BY DEF Lengthens, LinesOf
<1> QED BY <1>1 DEF Lengthens, OneMore

\* The latest item at its depth still is, unless the item more is as shallow.
LEMMA LatestLonger ==
  ASSUME NEW entries, NEW sheet, NEW entry, NEW line, NEW es, NEW ls,
         Lengthens(entries, sheet, entry, line, es, ls),
         NEW j, NEW depth, Latest(entries, sheet, j, depth),
         entry.item # <<>> => line.depth > depth
  PROVE  Latest(es, ls, j, depth)
<1> DEFINE K == Len(entries)
<1>1. /\ K \in Nat /\ Len(es) = K + 1 /\ es[K + 1] = entry /\ ls[K + 1] = line
      /\ \A i \in 1..K : es[i] = entries[i] /\ ls[i] = sheet[i]
  BY LongerBy
<1>2. /\ j \in 1..K /\ entries[j].item # <<>> /\ sheet[j].depth = depth
      /\ \A m \in (j + 1)..K : entries[m].item # <<>> => sheet[m].depth > depth
  BY DEF Latest
<1> HIDE DEF K
<1>3. j \in 1..(K + 1) /\ es[j].item # <<>> /\ ls[j].depth = depth
  BY <1>1, <1>2
<1>4. ASSUME NEW m \in (j + 1)..(K + 1), es[m].item # <<>> PROVE ls[m].depth > depth
  <2>1. CASE m = K + 1
    BY <1>1, <1>4, <2>1
  <2>2. CASE m # K + 1
    <3>1. m \in (j + 1)..K /\ m \in 1..K
      BY <1>1, <1>2, <2>2
    <3> QED BY <1>1, <1>2, <1>4, <3>1
  <2> QED BY <2>1, <2>2
<1> QED BY <1>1, <1>3, <1>4 DEF Latest

\* The latest of the longer run is the latest of the shorter.
LEMMA LatestShorter ==
  ASSUME NEW entries, NEW sheet, NEW entry, NEW line, NEW es, NEW ls,
         Lengthens(entries, sheet, entry, line, es, ls),
         NEW j \in 1..Len(entries), NEW depth, Latest(es, ls, j, depth)
  PROVE  Latest(entries, sheet, j, depth)
<1> DEFINE K == Len(entries)
<1>1. /\ K \in Nat /\ Len(es) = K + 1
      /\ \A i \in 1..K : es[i] = entries[i] /\ ls[i] = sheet[i]
  BY LongerBy
<1>2. /\ es[j].item # <<>> /\ ls[j].depth = depth
      /\ \A m \in (j + 1)..(K + 1) : es[m].item # <<>> => ls[m].depth > depth
  BY <1>1 DEF Latest
<1>3. j \in 1..K
  OBVIOUS
<1> HIDE DEF K
<1>4. ASSUME NEW m \in (j + 1)..K, entries[m].item # <<>> PROVE sheet[m].depth > depth
  <2>1. m \in (j + 1)..(K + 1) /\ m \in 1..K
    BY <1>1, <1>3
  <2> QED BY <1>1, <1>2, <1>4, <2>1
<1>5. j \in 1..K /\ entries[j].item # <<>> /\ sheet[j].depth = depth
  BY <1>1, <1>2, <1>3
<1> QED BY <1>4, <1>5 DEF Latest, K

\* An item taken stands in its depth, and the items before where they stood.
LEMMA ItemStands ==
  ASSUME NEW entries, NEW sheet, NEW entry, NEW line, NEW es, NEW ls,
         Lengthens(entries, sheet, entry, line, es, ls), entry.item # <<>>,
         NEW stack, IsStack(stack), Stands(entries, sheet, stack),
         NEW next, Lodges(stack, entry.item[1], next),
         line.depth = Len(next), line.ordinal = next[Len(next)].count
  PROVE  Stands(es, ls, next)
<1> DEFINE K == Len(entries)
           n == Len(next)
<1>1. /\ K \in Nat /\ Len(es) = K + 1 /\ es[K + 1] = entry /\ ls[K + 1] = line
      /\ \A i \in 1..K : es[i] = entries[i] /\ ls[i] = sheet[i]
  BY LongerBy
<1>2. /\ n \in 1..(Len(stack) + 1) /\ Len(stack) \in Nat
      /\ \A i \in 1..(n - 1) : next[i] = stack[i]
      /\ Wears(next[n], entry.item[1])
  <2>1. Len(stack) \in Nat
    BY DEF IsStack, IsList
  <2> QED BY <2>1 DEF Lodges
<1>3. line.depth = n /\ line.ordinal = next[n].count
  OBVIOUS
<1> HIDE DEF K, n
<1>4. Latest(es, ls, K + 1, n)
  <2>1. K + 1 \in 1..Len(es) /\ es[K + 1].item # <<>> /\ ls[K + 1].depth = n
    BY <1>1, <1>3
  <2>2. (K + 1 + 1)..Len(es) = {}
    BY <1>1
  <2> QED BY <2>1, <2>2 DEF Latest
<1>5. ASSUME NEW i \in 1..n
      PROVE  \E j \in 1..(K + 1) : /\ Latest(es, ls, j, i) /\ Wears(next[i], ItemAt(es, j))
                                   /\ ls[j].ordinal = next[i].count
  <2>1. CASE i = n
    <3>1. K + 1 \in 1..(K + 1)
      BY <1>1
    <3> QED BY <1>1, <1>2, <1>3, <1>4, <2>1, <3>1 DEF ItemAt
  <2>2. CASE i # n
    <3>1. i \in 1..(n - 1) /\ i \in 1..Len(stack) /\ n > i
      BY <1>2, <2>2
    <3>2. PICK j \in 1..K : /\ Latest(entries, sheet, j, i) /\ Wears(stack[i], ItemAt(entries, j))
                            /\ sheet[j].ordinal = stack[i].count
      BY <3>1 DEF Stands, K
    <3>3. Latest(es, ls, j, i)
      BY <1>3, <3>1, <3>2, LatestLonger
    <3>4. j \in 1..(K + 1) /\ es[j] = entries[j] /\ ls[j] = sheet[j] /\ next[i] = stack[i]
      BY <1>1, <1>2, <3>1, SMTT(30)
    <3> QED BY <3>2, <3>3, <3>4 DEF ItemAt
  <2> QED BY <2>1, <2>2
<1>6. \E j \in 1..(K + 1) : /\ es[j].item # <<>> /\ ls[j].depth = n
                            /\ \A m \in (j + 1)..(K + 1) : es[m].item = <<>>
  <2>1. K + 1 \in 1..(K + 1) /\ (K + 1 + 1)..(K + 1) = {}
    BY <1>1
  <2> QED BY <1>1, <1>3, <2>1
<1> QED BY <1>1, <1>5, <1>6 DEF Stands, n

\* A block taken leaves them there.
LEMMA BlockStands ==
  ASSUME NEW entries, NEW sheet, NEW entry, NEW line, NEW es, NEW ls,
         Lengthens(entries, sheet, entry, line, es, ls), entry.item = <<>>,
         NEW stack, Stands(entries, sheet, stack), Len(entries) # 0
  PROVE  Stands(es, ls, stack)
<1> DEFINE K == Len(entries)
<1>1. /\ K \in Nat /\ Len(es) = K + 1 /\ es[K + 1] = entry /\ ls[K + 1] = line
      /\ \A i \in 1..K : es[i] = entries[i] /\ ls[i] = sheet[i]
  BY LongerBy
<1>2. PICK j \in 1..K : /\ entries[j].item # <<>> /\ sheet[j].depth = Len(stack)
                        /\ \A m \in (j + 1)..K : entries[m].item = <<>>
  BY DEF Stands
<1>3. ASSUME NEW i \in 1..Len(stack)
      PROVE  \E k \in 1..(K + 1) : /\ Latest(es, ls, k, i) /\ Wears(stack[i], ItemAt(es, k))
                                   /\ ls[k].ordinal = stack[i].count
  <2>1. PICK k \in 1..K : /\ Latest(entries, sheet, k, i) /\ Wears(stack[i], ItemAt(entries, k))
                          /\ sheet[k].ordinal = stack[i].count
    BY DEF Stands
  <2>2. Latest(es, ls, k, i)
    BY <2>1, LatestLonger
  <2>3. k \in 1..(K + 1) /\ es[k] = entries[k] /\ ls[k] = sheet[k]
    BY <1>1
  <2> QED BY <2>1, <2>2, <2>3 DEF ItemAt
<1> HIDE DEF K
<1>4. /\ j \in 1..(K + 1) /\ es[j].item # <<>> /\ ls[j].depth = Len(stack)
      /\ \A m \in (j + 1)..(K + 1) : es[m].item = <<>>
  <2>1. ASSUME NEW m \in (j + 1)..(K + 1) PROVE es[m].item = <<>>
    <3>1. CASE m = K + 1
      BY <1>1, <3>1
    <3>2. CASE m # K + 1
      <4>1. m \in (j + 1)..K /\ m \in 1..K
        BY <1>1, <1>2, <3>2
      <4> QED BY <1>1, <1>2, <4>1
    <3> QED BY <3>1, <3>2
  <2> QED BY <1>1, <1>2, <2>1
<1> QED BY <1>1, <1>3, <1>4 DEF Stands

-----------------------------------------------------------------------------
(* What is shown of them                                                   *)

NoRestarts(sheet) == \A k \in 1..Len(sheet) : ~Restarts(sheet, k)

\* A reader sees the lines at their depths; and, where no list begins again, under
\* their numbers.
Seen(sheet, stack, reading) ==
  /\ Mirrors(reading.open, stack)
  /\ IsList(reading.shows) /\ Len(reading.shows) = Len(sheet)
  /\ \A k \in 1..Len(sheet) : reading.shows[k].depth = sheet[k].depth
  /\ NoRestarts(sheet) =>
       /\ \A k \in 1..Len(sheet) : sheet[k].ordered => reading.shows[k].ordinal = sheet[k].ordinal
       /\ \A i \in 1..Len(stack) : stack[i].ordered => reading.open[i].shown = stack[i].count

\* With a line left out, no list begins again that did not.
LEMMA FewerRestarts ==
  ASSUME NEW entries, NEW sheet, NEW entry, NEW line, NEW es, NEW ls,
         Lengthens(entries, sheet, entry, line, es, ls), NoRestarts(ls)
  PROVE  NoRestarts(sheet)
<1> DEFINE K == Len(entries)
<1>1. /\ K \in Nat /\ Len(ls) = K + 1 /\ Len(sheet) = K
      /\ \A i \in 1..K : ls[i] = sheet[i]
  BY LongerBy
<1> HIDE DEF K
<1>2. ASSUME NEW k \in 1..K, Restarts(sheet, k) PROVE FALSE
  <2>1. PICK j \in 1..(k - 1) :
          /\ sheet[j].ordered /\ sheet[j].depth = sheet[k].depth
          /\ \A i \in (j + 1)..(k - 1) : sheet[i].depth > sheet[k].depth \/ sheet[i].is = "block"
    BY <1>2 DEF Restarts
  <2>2. sheet[k].ordered /\ sheet[k].ordinal = 1
    BY <1>2 DEF Restarts
  <2>3. k \in 1..(K + 1) /\ j \in 1..K /\ \A i \in (j + 1)..(k - 1) : i \in 1..K
    BY <1>1
  <2>4. ls[k] = sheet[k] /\ ls[j] = sheet[j] /\ \A i \in (j + 1)..(k - 1) : ls[i] = sheet[i]
    BY <1>1, <2>3
  <2>5. Restarts(ls, k)
    BY <2>1, <2>2, <2>4 DEF Restarts
  <2> QED BY <1>1, <2>3, <2>5 DEF NoRestarts
<1> QED BY <1>1, <1>2 DEF NoRestarts

\* A list that goes on in a depth whose last item is numbered begins again only where
\* it is numbered one.
LEMMA BeginsAgain ==
  ASSUME NEW entries, NEW sheet, NEW entry, NEW line, NEW es, NEW ls,
         Lengthens(entries, sheet, entry, line, es, ls),
         NEW stack, Stands(entries, sheet, stack), NEW n \in 1..Len(stack), stack[n].ordered,
         line.depth = n, line.ordered, line.ordinal = 1
  PROVE  ~NoRestarts(ls)
<1> DEFINE K == Len(entries)
<1>1. /\ K \in Nat /\ Len(ls) = K + 1 /\ ls[K + 1] = line /\ Len(es) = K + 1
      /\ \A i \in 1..K : es[i] = entries[i] /\ ls[i] = sheet[i]
  BY LongerBy
<1>2. PICK j \in 1..K : Latest(entries, sheet, j, n) /\ Wears(stack[n], ItemAt(entries, j))
  BY DEF Stands
<1>3. /\ entries[j].item # <<>> /\ sheet[j].depth = n
      /\ \A m \in (j + 1)..K : entries[m].item # <<>> => sheet[m].depth > n
  BY <1>2 DEF Latest
<1>4. \A m \in 1..K : entries[m].item = <<>> => sheet[m].is = "block"
  BY DEF Lengthens, LinesOf
<1>5. sheet[j].ordered
  BY <1>2, <1>3 DEF Lengthens, LinesOf, Wears
<1> HIDE DEF K
<1>6. ASSUME NEW i \in (j + 1)..((K + 1) - 1)
      PROVE  ls[i].depth > ls[K + 1].depth \/ ls[i].is = "block"
  <2>1. i \in (j + 1)..K /\ i \in 1..K
    BY <1>1, <1>2
  <2> QED BY <1>1, <1>3, <1>4, <2>1
<1>7. j \in 1..((K + 1) - 1) /\ ls[j].ordered /\ ls[j].depth = ls[K + 1].depth
  BY <1>1, <1>2, <1>3, <1>5
<1>8. Restarts(ls, K + 1)
  BY <1>1, <1>6, <1>7 DEF Restarts
<1>9. K + 1 \in 1..Len(ls)
  BY <1>1
<1> QED BY <1>8, <1>9 DEF NoRestarts

\* An item more is seen at its depth and under its number, and the lines before as
\* they were.
LEMMA ItemSeen ==
  ASSUME NEW entries, NEW sheet, NEW entry, NEW line, NEW es, NEW ls,
         Lengthens(entries, sheet, entry, line, es, ls),
         NEW stack, IsStack(stack), Stands(entries, sheet, stack),
         NEW item, IsMarked(item), NEW next, Lodges(stack, item, next),
         line.depth = Len(next), line.ordered = item.ordered, line.ordinal = next[Len(next)].count,
         NEW reading, Seen(sheet, stack, reading), NEW text, NEW read,
         ReadsItem(reading, stack, item, next, text, read)
  PROVE  Seen(ls, next, read)
<1> DEFINE K == Len(entries)
           n == Len(next)
<1>1. /\ K \in Nat /\ Len(ls) = K + 1 /\ ls[K + 1] = line /\ Len(sheet) = K
      /\ \A i \in 1..K : ls[i] = sheet[i]
  BY LongerBy
<1>2. /\ n \in 1..(Len(stack) + 1) /\ Len(stack) \in Nat
      /\ \A i \in 1..(n - 1) : next[i] = stack[i] /\ i \in 1..Len(stack)
      /\ next[n].ordered = item.ordered
      /\ \/ next[n].count = 1
         \/ n <= Len(stack) /\ next[n].count = stack[n].count + 1
  <2>1. Len(stack) \in Nat
    BY DEF IsStack, IsList
  <2> QED BY <2>1 DEF Lodges, Wears
<1>3. line.depth = n /\ line.ordered = item.ordered /\ line.ordinal = next[n].count
  OBVIOUS
<1>4. PICK shown : /\ read.open[n].shown = shown
                   /\ read.shows = Append(reading.shows, [depth |-> n, ordinal |-> shown])
                   /\ item.ordered => shown = IF n <= Len(stack) /\ stack[n].ordered
                                                THEN reading.open[n].shown + 1 ELSE next[n].count
  BY DEF ReadsItem
<1>5. Mirrors(read.open, next) /\ \A i \in 1..(n - 1) : read.open[i] = reading.open[i]
  BY DEF ReadsItem
<1> DEFINE seen == [depth |-> n, ordinal |-> shown]
<1>6. OneMore(reading.shows, seen, read.shows) /\ Len(reading.shows) = K
  BY <1>1, <1>4, OneMoreIs DEF Seen
<1>7. /\ IsList(read.shows) /\ Len(read.shows) = K + 1
      /\ read.shows[K + 1].depth = n /\ read.shows[K + 1].ordinal = shown
      /\ \A i \in 1..K : read.shows[i] = reading.shows[i]
  BY <1>6 DEF OneMore
<1>8. ASSUME NEW k \in 1..(K + 1) PROVE read.shows[k].depth = ls[k].depth
  <2>1. CASE k = K + 1
    BY <1>1, <1>3, <1>7, <2>1
  <2>2. CASE k # K + 1
    <3>1. k \in 1..K
      BY <1>1, <2>2
    <3> QED BY <1>1, <1>7, <3>1 DEF Seen
  <2> QED BY <2>1, <2>2
<1>9. ASSUME NoRestarts(ls)
      PROVE  /\ \A k \in 1..(K + 1) : ls[k].ordered => read.shows[k].ordinal = ls[k].ordinal
             /\ \A i \in 1..n : next[i].ordered => read.open[i].shown = next[i].count
  <2>1. NoRestarts(sheet)
    BY <1>9, FewerRestarts
  <2>2. /\ \A k \in 1..K : sheet[k].ordered => reading.shows[k].ordinal = sheet[k].ordinal
        /\ \A i \in 1..Len(stack) : stack[i].ordered => reading.open[i].shown = stack[i].count
    BY <1>1, <2>1 DEF Seen
  <2>3. item.ordered => shown = next[n].count
    <3> SUFFICES ASSUME item.ordered PROVE shown = next[n].count
      OBVIOUS
    <3>1. CASE n <= Len(stack) /\ stack[n].ordered
      <4>1. n \in 1..Len(stack)
        BY <1>2, <3>1
      <4>2. shown = stack[n].count + 1
        BY <1>4, <2>2, <3>1, <4>1
      <4>3. next[n].count # 1
        BY <1>3, <1>9, <3>1, <4>1, BeginsAgain
      <4> QED BY <1>2, <4>2, <4>3
    <3>2. CASE ~(n <= Len(stack) /\ stack[n].ordered)
      BY <1>4, <3>2
    <3> QED BY <3>1, <3>2
  <2>4. ASSUME NEW k \in 1..(K + 1), ls[k].ordered PROVE read.shows[k].ordinal = ls[k].ordinal
    <3>1. CASE k = K + 1
      BY <1>1, <1>3, <1>7, <2>3, <2>4, <3>1
    <3>2. CASE k # K + 1
      <4>1. k \in 1..K
        BY <1>1, <3>2
      <4> QED BY <1>1, <1>7, <2>2, <2>4, <4>1
    <3> QED BY <3>1, <3>2
  <2>5. ASSUME NEW i \in 1..n, next[i].ordered PROVE read.open[i].shown = next[i].count
    <3>1. CASE i = n
      BY <1>2, <1>4, <2>3, <2>5, <3>1
    <3>2. CASE i # n
      <4>1. i \in 1..(n - 1)
        BY <1>2, <3>2
      <4> QED BY <1>2, <1>5, <2>2, <2>5, <4>1
    <3> QED BY <3>1, <3>2
  <2> QED BY <2>4, <2>5
<1> QED BY <1>1, <1>5, <1>7, <1>8, <1>9 DEF Seen

\* So is a block more.
LEMMA BlockSeen ==
  ASSUME NEW entries, NEW sheet, NEW entry, NEW line, NEW es, NEW ls,
         Lengthens(entries, sheet, entry, line, es, ls),
         NEW stack, line.depth = Len(stack), line.ordered = FALSE,
         NEW reading, Seen(sheet, stack, reading), NEW read, ReadsBlock(reading, stack, read)
  PROVE  Seen(ls, stack, read)
<1> DEFINE K == Len(entries)
           seen == [depth |-> Len(stack), ordinal |-> 0]
<1>1. /\ K \in Nat /\ Len(ls) = K + 1 /\ ls[K + 1] = line /\ Len(sheet) = K
      /\ \A i \in 1..K : ls[i] = sheet[i]
  BY LongerBy
<1>2. OneMore(reading.shows, seen, read.shows) /\ Len(reading.shows) = K
  BY <1>1, OneMoreIs DEF Seen, ReadsBlock
<1>3. /\ IsList(read.shows) /\ Len(read.shows) = K + 1 /\ read.shows[K + 1].depth = Len(stack)
      /\ \A i \in 1..K : read.shows[i] = reading.shows[i]
  BY <1>2 DEF OneMore
<1> HIDE DEF K
<1>4. ASSUME NEW k \in 1..(K + 1)
      PROVE  k \in 1..K \/ k = K + 1
  BY <1>1
<1>5. \A k \in 1..(K + 1) : read.shows[k].depth = ls[k].depth
  BY <1>1, <1>3, <1>4 DEF Seen
<1>6. ASSUME NoRestarts(ls)
      PROVE  /\ \A k \in 1..(K + 1) : ls[k].ordered => read.shows[k].ordinal = ls[k].ordinal
             /\ \A i \in 1..Len(stack) : stack[i].ordered => read.open[i].shown = stack[i].count
  <2>1. NoRestarts(sheet)
    BY <1>6, FewerRestarts
  <2>2. /\ \A k \in 1..K : sheet[k].ordered => reading.shows[k].ordinal = sheet[k].ordinal
        /\ \A i \in 1..Len(stack) : stack[i].ordered => reading.open[i].shown = stack[i].count
    BY <1>1, <2>1 DEF Seen
  <2>3. ASSUME NEW k \in 1..(K + 1), ls[k].ordered PROVE read.shows[k].ordinal = ls[k].ordinal
    <3>1. CASE k = K + 1
      BY <1>1, <2>3, <3>1
    <3>2. CASE k \in 1..K
      BY <1>1, <1>3, <2>2, <2>3, <3>2
    <3> QED BY <1>4, <3>1, <3>2
  <2>4. \A i \in 1..Len(stack) : read.open[i] = reading.open[i]
    BY DEF ReadsBlock
  <2> QED BY <2>2, <2>3, <2>4
<1>7. Mirrors(read.open, stack)
  BY DEF ReadsBlock
<1> QED BY <1>1, <1>3, <1>5, <1>6, <1>7 DEF Seen

-----------------------------------------------------------------------------
(* Markers in columns                                                      *)

ItemsOf(entries) == {ItemAt(entries, i) : i \in Listed(entries)}

\* The items before the last are items of the longer run.
LEMMA ItemsLonger ==
  ASSUME NEW entries, NEW sheet, NEW entry, NEW line, NEW es, NEW ls,
         Lengthens(entries, sheet, entry, line, es, ls)
  PROVE  /\ Columnar(ItemsOf(es)) => Columnar(ItemsOf(entries))
         /\ entry.item # <<>> => entry.item[1] \in ItemsOf(es)
         /\ \A i \in 1..Len(entries) : entries[i].item # <<>> => ItemAt(entries, i) \in ItemsOf(es)
<1> DEFINE K == Len(entries)
<1>1. /\ K \in Nat /\ Len(es) = K + 1 /\ es[K + 1] = entry
      /\ \A i \in 1..K : es[i] = entries[i]
  BY LongerBy
<1>2. DOMAIN es = 1..(K + 1) /\ DOMAIN entries = 1..K
  BY <1>1, LongerIs DEF Lengthens, LinesOf
<1> HIDE DEF K
<1>3. \A i \in 1..K : i \in 1..(K + 1) /\ es[i] = entries[i] /\ ItemAt(es, i) = ItemAt(entries, i)
  BY <1>1 DEF ItemAt
<1>4. \A i \in 1..K : entries[i].item # <<>> => ItemAt(entries, i) \in ItemsOf(es)
  BY <1>2, <1>3 DEF ItemsOf, Listed
<1>5. entry.item # <<>> => entry.item[1] \in ItemsOf(es)
  <2>1. K + 1 \in 1..(K + 1) /\ ItemAt(es, K + 1) = entry.item[1]
    BY <1>1 DEF ItemAt
  <2> QED BY <1>1, <1>2, <2>1 DEF ItemsOf, Listed
<1>6. ItemsOf(entries) \subseteq ItemsOf(es)
  BY <1>2, <1>4 DEF ItemsOf, Listed
<1>7. Columnar(ItemsOf(es)) => Columnar(ItemsOf(entries))
  BY <1>6 DEF Columnar
<1> QED BY <1>4, <1>5, <1>7 DEF K

\* Depths apart in column, each right of those it is in.
Spread(stack) ==
  /\ Unranked(stack)
  /\ \A a, b \in 1..Len(stack) : a < b => stack[b].left - stack[a].left > SAME_COLUMN

\* What is drawn deeper than an item, with only deeper items between, is deeper.
Nests(entries, sheet) ==
  \A i \in 1..Len(entries) : \A j \in 1..(i - 1) :
    /\ entries[i].item # <<>> /\ entries[j].item # <<>>
    /\ \A m \in (j + 1)..(i - 1) : entries[m].item # <<>> => sheet[m].depth > sheet[j].depth
    /\ IsDeeper(ItemAt(entries, i), ItemAt(entries, j))
    => sheet[i].depth > sheet[j].depth

Columned(entries, sheet, stack) == Columnar(ItemsOf(entries)) => Spread(stack) /\ Nests(entries, sheet)

\* Where markers stand in columns, an item more leaves the depths apart.
LEMMA ItemSpreads ==
  ASSUME NEW items, Columnar(items), NEW stack, IsStack(stack), Spread(stack),
         \A i \in 1..Len(stack) : \E other \in items : Wears(stack[i], other),
         NEW item \in items, IsMarked(item), NEW next, Placing(stack, item, next)
  PROVE  Spread(next)
<1>0. Len(stack) \in Nat
  BY DEF IsStack, IsList
<1>1. ASSUME NEW i \in 1..Len(stack) PROVE stack[i].left \in Int
  BY DEF IsStack, IsDepth
<1>2. item.indent \in Int /\ item.rank = NoRank
  BY DEF IsMarked, Columnar
<1>3. Unranked(stack) /\ \A a, b \in 1..Len(stack) : a < b => stack[b].left - stack[a].left > 180
  BY DEF Spread, SAME_COLUMN
\* The innermost is marked apart from the others, which are as they were.
<1>4. ASSUME NEW n \in 1..(Len(stack) + 1), Len(next) = n, \A i \in 1..(n - 1) : next[i] = stack[i],
             Wears(next[n], item), \A a \in 1..(n - 1) : item.indent - stack[a].left > 180
      PROVE  Spread(next)
  <2>1. next[n].left = item.indent /\ next[n].rank = NoRank
    BY <1>2, <1>4 DEF Wears
  <2>2. \A i \in 1..n : i = n \/ (i \in 1..(n - 1) /\ i \in 1..Len(stack) /\ next[i] = stack[i])
    BY <1>0, <1>4
  <2>3. Unranked(next)
    BY <1>3, <1>4, <2>1, <2>2 DEF Unranked
  <2>4. ASSUME NEW a \in 1..n, NEW b \in 1..n, a < b PROVE next[b].left - next[a].left > 180
    <3>1. a \in 1..(n - 1) /\ a \in 1..Len(stack) /\ next[a] = stack[a]
      BY <2>2, <2>4
    <3>2. CASE b = n
      BY <1>4, <2>1, <3>1, <3>2
    <3>3. CASE b # n
      BY <1>3, <2>2, <2>4, <3>1, <3>3
    <3> QED BY <3>2, <3>3
  <2> QED BY <1>4, <2>3, <2>4 DEF Spread, SAME_COLUMN
<1>5. ASSUME NEW m \in 0..Len(stack), OpensIn(stack, m, item, next), DrawnRight(stack, m, item)
      PROVE  Spread(next)
  <2>1. /\ Len(next) = m + 1 /\ \A i \in 1..m : next[i] = stack[i]
        /\ Wears(next[m + 1], item)
    BY <1>5 DEF OpensIn, Begins
  <2>2. m # 0 => item.indent - stack[m].left > 180
    BY <1>3, <1>5 DEF DrawnRight, SAME_COLUMN
  <2>3. ASSUME NEW a \in 1..m PROVE item.indent - stack[a].left > 180
    <3>1. m # 0 /\ m \in 1..Len(stack) /\ a \in 1..Len(stack)
      BY <1>0
    <3>2. a = m \/ stack[m].left - stack[a].left > 180
      BY <1>3, <3>1
    <3> QED BY <1>1, <1>2, <2>2, <3>1, <3>2, SMTT(30)
  <2>4. m + 1 \in 1..(Len(stack) + 1) /\ (m + 1) - 1 = m
    BY <1>0
  <2> QED BY <1>4, <2>1, <2>3, <2>4
<1>6. ASSUME NEW m \in 1..Len(stack), JoinsAt(stack, m, item, next), DrawnIn(stack, m, item)
      PROVE  Spread(next)
  <2>1. /\ Len(next) = m /\ \A i \in 1..(m - 1) : next[i] = stack[i]
        /\ Wears(next[m], item)
    BY <1>6 DEF JoinsAt, Joined
  <2>2. stack[m].left - item.indent <= 180 /\ item.indent - stack[m].left <= 180
    BY <1>3, <1>6 DEF DrawnIn, InColumn, SAME_COLUMN
  <2>3. ASSUME NEW a \in 1..(m - 1) PROVE item.indent - stack[a].left > 180
    <3>1. a \in 1..Len(stack) /\ stack[m].left - stack[a].left > 180
      BY <1>0, <1>3
    <3>2. PICK other \in items : Wears(stack[m], other)
      OBVIOUS
    <3>3. PICK third \in items : Wears(stack[a], third)
      BY <3>1
    <3>4. other.indent = stack[m].left /\ third.indent = stack[a].left
      BY <3>2, <3>3 DEF Wears
    <3>5. SameColumn(other, item) /\ SameColumn(third, item) => SameColumn(other, third)
      BY <3>2, <3>3 DEF Columnar
    <3>6. SameColumn(other, item) /\ ~SameColumn(other, third)
      BY <1>1, <1>2, <2>2, <3>1, <3>4, SMTT(30) DEF SameColumn, IsDeeper, SAME_COLUMN
    <3>7. ~SameColumn(third, item)
      BY <3>5, <3>6
    <3> QED BY <1>1, <1>2, <2>2, <3>1, <3>4, <3>7, SMTT(30) DEF SameColumn, IsDeeper, SAME_COLUMN
  <2>4. m \in 1..(Len(stack) + 1)
    BY <1>0
  <2> QED BY <1>4, <2>1, <2>3, <2>4
<1> QED BY <1>5, <1>6 DEF Placing

\* An item drawn deeper than the one that stands in a depth goes beneath it.
LEMMA DeeperGoesBeneath ==
  ASSUME NEW stack, IsStack(stack), Spread(stack), NEW item, IsMarked(item),
         NEW next, Placing(stack, item, next), NEW d \in 1..Len(stack),
         item.indent - stack[d].left > SAME_COLUMN
  PROVE  Len(next) > d
<1>0. Len(stack) \in Nat
  BY DEF IsStack, IsList
<1>1. ASSUME NEW i \in 1..Len(stack) PROVE stack[i].left \in Int
  BY DEF IsStack, IsDepth
<1>2. item.indent \in Int
  BY DEF IsMarked
<1>3. Unranked(stack) /\ \A a, b \in 1..Len(stack) : a < b => stack[b].left - stack[a].left > 180
  BY DEF Spread, SAME_COLUMN
<1>4. item.indent - stack[d].left > 180
  BY DEF SAME_COLUMN
<1>5. ASSUME NEW m \in 0..Len(stack), OpensIn(stack, m, item, next), DrawnRight(stack, m, item)
      PROVE  Len(next) > d
  <2>1. Len(next) = m + 1
    BY <1>5 DEF OpensIn, Begins
  <2>2. \A i \in (m + 1)..Len(stack) : stack[i].left - item.indent > 180
    BY <1>3, <1>5 DEF DrawnRight, SAME_COLUMN
  <2>3. ~(d \in (m + 1)..Len(stack))
    BY <1>1, <1>2, <1>4, <2>2
  <2> QED BY <1>0, <2>1, <2>3
<1>6. ASSUME NEW m \in 1..Len(stack), JoinsAt(stack, m, item, next), DrawnIn(stack, m, item)
      PROVE  Len(next) > d
  <2>1. Len(next) = m
    BY <1>6 DEF JoinsAt, Joined
  <2>2. stack[m].left - item.indent <= 180 /\ item.indent - stack[m].left <= 180
    BY <1>3, <1>6 DEF DrawnIn, InColumn, SAME_COLUMN
  <2>3. m # d
    BY <1>1, <1>2, <1>4, <2>2
  <2>4. ~(m < d)
    <3>1. m < d => stack[d].left - stack[m].left > 180
      BY <1>3
    <3> QED BY <1>1, <1>2, <1>4, <2>2, <3>1
  <2> QED BY <1>0, <2>1, <2>3, <2>4
<1> QED BY <1>5, <1>6 DEF Placing

\* Where markers stand in columns, they do with an item more.
LEMMA ItemColumned ==
  ASSUME NEW entries, NEW sheet, NEW entry, NEW line, NEW es, NEW ls,
         Lengthens(entries, sheet, entry, line, es, ls), entry.item # <<>>, IsMarked(entry.item[1]),
         NEW stack, IsStack(stack), Stands(entries, sheet, stack), Columned(entries, sheet, stack),
         NEW next, Placing(stack, entry.item[1], next), line.depth = Len(next)
  PROVE  Columned(es, ls, next)
<1> SUFFICES ASSUME Columnar(ItemsOf(es)) PROVE Spread(next) /\ Nests(es, ls)
  BY DEF Columned
<1> DEFINE K == Len(entries)
           item == entry.item[1]
<1>1. /\ K \in Nat /\ Len(es) = K + 1 /\ es[K + 1] = entry /\ ls[K + 1] = line
      /\ \A i \in 1..K : es[i] = entries[i] /\ ls[i] = sheet[i]
  BY LongerBy
<1>2. /\ Columnar(ItemsOf(entries)) /\ item \in ItemsOf(es)
      /\ \A i \in 1..K : entries[i].item # <<>> => ItemAt(entries, i) \in ItemsOf(es)
  BY ItemsLonger
<1>3. Spread(stack) /\ Nests(entries, sheet)
  BY <1>2 DEF Columned
<1>4. Spread(next)
  <2>1. ASSUME NEW i \in 1..Len(stack) PROVE \E other \in ItemsOf(es) : Wears(stack[i], other)
    <3>1. PICK j \in 1..K : Latest(entries, sheet, j, i) /\ Wears(stack[i], ItemAt(entries, j))
      BY DEF Stands
    <3>2. entries[j].item # <<>>
      BY <3>1 DEF Latest
    <3> QED BY <1>2, <3>1, <3>2
  <2> DEFINE items == ItemsOf(es)
  <2> HIDE DEF items
  <2>2. Columnar(items) /\ item \in items
    BY <1>2 DEF items
  <2>3. \A i \in 1..Len(stack) : \E other \in items : Wears(stack[i], other)
    BY <2>1 DEF items
  <2> QED BY <1>3, <2>2, <2>3, ItemSpreads
<1> HIDE DEF K
<1>5. ASSUME NEW i \in 1..(K + 1), NEW j \in 1..(i - 1), es[i].item # <<>>, es[j].item # <<>>,
             \A m \in (j + 1)..(i - 1) : es[m].item # <<>> => ls[m].depth > ls[j].depth,
             IsDeeper(ItemAt(es, i), ItemAt(es, j))
      PROVE  ls[i].depth > ls[j].depth
  <2>1. /\ j \in 1..K /\ es[j] = entries[j] /\ ls[j] = sheet[j]
        /\ \A m \in (j + 1)..(i - 1) : m \in 1..K /\ es[m] = entries[m] /\ ls[m] = sheet[m]
    BY <1>1
  <2>2. \A m \in (j + 1)..(i - 1) : entries[m].item # <<>> => sheet[m].depth > sheet[j].depth
    BY <1>5, <2>1
  <2>3. CASE i # K + 1
    <3>1. i \in 1..K /\ es[i] = entries[i] /\ ls[i] = sheet[i]
      BY <1>1, <2>3
    <3>2. IsDeeper(ItemAt(entries, i), ItemAt(entries, j)) /\ entries[i].item # <<>> /\ entries[j].item # <<>>
      BY <1>5, <2>1, <3>1 DEF ItemAt
    <3>3. sheet[i].depth > sheet[j].depth
      BY <1>3, <2>2, <3>1, <3>2 DEF Nests, K
    <3> QED BY <2>1, <3>1, <3>3
  <2>4. CASE i = K + 1
    <3> DEFINE d == sheet[j].depth
    <3>1. Latest(entries, sheet, j, d)
      <4>1. \A m \in (j + 1)..K : entries[m].item # <<>> => sheet[m].depth > sheet[j].depth
        <5>1. (K + 1) - 1 = K
          BY <1>1
        <5> QED BY <2>2, <2>4, <5>1
      <4> QED BY <1>5, <2>1, <4>1 DEF Latest, K
    <3>2. d \in 1..Len(stack) /\ Wears(stack[d], ItemAt(entries, j))
      BY <3>1, LatestStands DEF Lengthens
    <3>3. ItemAt(es, i) = item /\ ItemAt(es, j) = ItemAt(entries, j) /\ ls[i] = line
      BY <1>1, <2>1, <2>4 DEF ItemAt
    <3>4. item.indent > stack[d].left + 180
      BY <1>5, <3>2, <3>3 DEF IsDeeper, Wears, SAME_COLUMN
    <3>5. item.indent - stack[d].left > SAME_COLUMN
      <4>1. item.indent \in Int /\ stack[d].left \in Int
        BY <3>2 DEF IsMarked, IsStack, IsDepth
      <4> QED BY <3>4, <4>1 DEF SAME_COLUMN
    <3>6. Len(next) > d
      <4> HIDE DEF d
      <4> QED BY <1>3, <3>2, <3>5, DeeperGoesBeneath
    <3> QED BY <2>1, <3>3, <3>6
  <2> QED BY <2>3, <2>4
<1>6. Nests(es, ls)
  BY <1>1, <1>5 DEF Nests
<1> QED BY <1>4, <1>6

\* And with a block more.
LEMMA BlockColumned ==
  ASSUME NEW entries, NEW sheet, NEW entry, NEW line, NEW es, NEW ls,
         Lengthens(entries, sheet, entry, line, es, ls), entry.item = <<>>,
         NEW stack, Columned(entries, sheet, stack)
  PROVE  Columned(es, ls, stack)
<1> SUFFICES ASSUME Columnar(ItemsOf(es)) PROVE Spread(stack) /\ Nests(es, ls)
  BY DEF Columned
<1> DEFINE K == Len(entries)
<1>1. /\ K \in Nat /\ Len(es) = K + 1 /\ es[K + 1] = entry /\ ls[K + 1] = line
      /\ \A i \in 1..K : es[i] = entries[i] /\ ls[i] = sheet[i]
  BY LongerBy
<1>3. Spread(stack) /\ Nests(entries, sheet)
  BY ItemsLonger DEF Columned
<1> HIDE DEF K
<1>5. ASSUME NEW i \in 1..(K + 1), NEW j \in 1..(i - 1), es[i].item # <<>>, es[j].item # <<>>,
             \A m \in (j + 1)..(i - 1) : es[m].item # <<>> => ls[m].depth > ls[j].depth,
             IsDeeper(ItemAt(es, i), ItemAt(es, j))
      PROVE  ls[i].depth > ls[j].depth
  <2>0. i # K + 1
    BY <1>1, <1>5
  <2>1. /\ j \in 1..K /\ es[j] = entries[j] /\ ls[j] = sheet[j] /\ i \in 1..K
        /\ es[i] = entries[i] /\ ls[i] = sheet[i]
        /\ \A m \in (j + 1)..(i - 1) : m \in 1..K /\ es[m] = entries[m] /\ ls[m] = sheet[m]
    BY <1>1, <2>0
  <2>2. \A m \in (j + 1)..(i - 1) : entries[m].item # <<>> => sheet[m].depth > sheet[j].depth
    BY <1>5, <2>1
  <2>3. IsDeeper(ItemAt(entries, i), ItemAt(entries, j)) /\ entries[i].item # <<>> /\ entries[j].item # <<>>
    BY <1>5, <2>1 DEF ItemAt
  <2>4. sheet[i].depth > sheet[j].depth
    BY <1>3, <2>1, <2>2, <2>3 DEF Nests, K
  <2> QED BY <2>1, <2>4
<1>6. Nests(es, ls)
  BY <1>1, <1>5 DEF Nests
<1> QED BY <1>3, <1>6

-----------------------------------------------------------------------------
(* Lists taken up                                                          *)

\* What takes up a list is numbered on from it.
NumberedOn(sheet, j, k) == sheet[k].depth = sheet[j].depth /\ sheet[k].ordinal = sheet[j].ordinal + 1
Carries(entries, sheet) ==
  \A k \in 1..Len(entries) : \A j \in 1..(k - 1) :
    TakesUp(entries, sheet, j, k) => NumberedOn(sheet, j, k)

\* What is between a list and what takes it up.
Between(entries, sheet, j, k) ==
  \A i \in Listed(entries) : j < i /\ i < k =>
    /\ \/ sheet[i].depth > sheet[j].depth
       \/ Columnar(ItemsOf(entries)) /\ IsDeeper(ItemAt(entries, i), ItemAt(entries, j))
    /\ ItemAt(entries, i).marker # ItemAt(entries, k).marker

\* Taking up a list, in the parts the proofs look at.
LEMMA TakesUpIs ==
  ASSUME NEW entries, NEW sheet, NEW j, NEW k
  PROVE  TakesUp(entries, sheet, j, k) <=>
           /\ {j, k} \subseteq Listed(entries)
           /\ ItemAt(entries, j).marker = ItemAt(entries, k).marker
           /\ ItemAt(entries, j).ordered /\ ItemAt(entries, k).ordered
           /\ SameColumn(ItemAt(entries, j), ItemAt(entries, k))
           /\ Between(entries, sheet, j, k)
BY DEF TakesUp, Between, Listed, ItemAt, ItemsOf

\* Lists taken up in the longer run are taken up in the shorter.
LEMMA TakesUpBefore ==
  ASSUME NEW entries, NEW sheet, NEW entry, NEW line, NEW es, NEW ls,
         Lengthens(entries, sheet, entry, line, es, ls),
         NEW k \in 1..Len(entries), NEW j \in 1..(k - 1), TakesUp(es, ls, j, k)
  PROVE  TakesUp(entries, sheet, j, k)
<1> DEFINE K == Len(entries)
<1>1. /\ K \in Nat /\ Len(es) = K + 1
      /\ \A i \in 1..K : es[i] = entries[i] /\ ls[i] = sheet[i]
  BY LongerBy
<1>2. DOMAIN es = 1..(K + 1) /\ DOMAIN entries = 1..K
  BY <1>1, LongerIs DEF Lengthens, LinesOf
<1>3. Columnar(ItemsOf(es)) => Columnar(ItemsOf(entries))
  BY ItemsLonger
<1>4. k \in 1..K /\ j \in 1..K
  BY <1>1
<1> HIDE DEF K
<1>5. ASSUME NEW i \in 1..K
      PROVE  /\ ItemAt(es, i) = ItemAt(entries, i) /\ ls[i] = sheet[i]
             /\ i \in Listed(es) <=> i \in Listed(entries)
  BY <1>1, <1>2 DEF ItemAt, Listed
<1>6. /\ {j, k} \subseteq Listed(es)
      /\ ItemAt(es, j).marker = ItemAt(es, k).marker
      /\ ItemAt(es, j).ordered /\ ItemAt(es, k).ordered
      /\ SameColumn(ItemAt(es, j), ItemAt(es, k))
      /\ Between(es, ls, j, k)
  BY TakesUpIs
<1>7. Between(entries, sheet, j, k)
  <2>1. \A i \in Listed(entries) : i \in 1..K
    BY <1>2 DEF Listed
  <2> QED BY <1>3, <1>4, <1>5, <1>6, <2>1 DEF Between
<1>8. /\ {j, k} \subseteq Listed(entries)
      /\ ItemAt(entries, j).marker = ItemAt(entries, k).marker
      /\ ItemAt(entries, j).ordered /\ ItemAt(entries, k).ordered
      /\ SameColumn(ItemAt(entries, j), ItemAt(entries, k))
  BY <1>4, <1>5, <1>6
<1> QED BY <1>7, <1>8, TakesUpIs

\* With a line more, the lists taken up before are still numbered on.
LEMMA StillCarries ==
  ASSUME NEW entries, NEW sheet, NEW entry, NEW line, NEW es, NEW ls,
         Lengthens(entries, sheet, entry, line, es, ls), Carries(entries, sheet),
         NEW k \in 1..Len(entries), NEW j \in 1..(k - 1), TakesUp(es, ls, j, k)
  PROVE  NumberedOn(ls, j, k)
<1>1. /\ Len(entries) \in Nat
      /\ \A i \in 1..Len(entries) : ls[i] = sheet[i]
  BY LongerBy
<1>2. TakesUp(entries, sheet, j, k)
  BY TakesUpBefore
<1>3. NumberedOn(sheet, j, k)
  BY <1>2 DEF Carries
<1>4. j \in 1..Len(entries)
  BY <1>1
<1> QED BY <1>1, <1>3, <1>4 DEF NumberedOn

\* All between a list and what takes it up is printed deeper: the list's last item is
\* the latest at its depth.
LEMMA TakenUpIsLatest ==
  ASSUME NEW entries, NEW sheet, NEW entry, NEW line, NEW es, NEW ls,
         Lengthens(entries, sheet, entry, line, es, ls),
         NEW stack, Columned(entries, sheet, stack),
         NEW j \in 1..Len(entries), j \in Listed(es), Between(es, ls, j, Len(entries) + 1)
  PROVE  Latest(entries, sheet, j, sheet[j].depth)
<1> DEFINE K == Len(entries)
           bad == {i \in (j + 1)..K : entries[i].item # <<>> /\ ~(sheet[i].depth > sheet[j].depth)}
<1>1. /\ K \in Nat /\ Len(es) = K + 1
      /\ \A i \in 1..K : es[i] = entries[i] /\ ls[i] = sheet[i]
  BY LongerBy
<1>2. DOMAIN es = 1..(K + 1)
  BY <1>1, LongerIs DEF Lengthens, LinesOf
<1>3. Columnar(ItemsOf(es)) => Nests(entries, sheet)
  <2>1. Columnar(ItemsOf(es)) => Columnar(ItemsOf(entries))
    BY ItemsLonger
  <2> QED BY <2>1 DEF Columned
<1>4. j \in 1..K /\ entries[j].item # <<>>
  BY <1>1 DEF Listed
<1>5. bad = {}
  <2> SUFFICES ASSUME bad # {} PROVE FALSE
    OBVIOUS
  <2>1. PICK i \in bad : \A m \in bad : i <= m
    <3>1. bad \subseteq Nat
      BY <1>1, <1>4
    <3> HIDE DEF bad
    <3> QED BY <3>1, LeastElement
  <2>2. i \in (j + 1)..K /\ i \in 1..K /\ j \in 1..(i - 1) /\ entries[i].item # <<>>
    BY <1>1, <1>4
  <2>3. ~(sheet[i].depth > sheet[j].depth)
    OBVIOUS
  <2>4. \A m \in (j + 1)..(i - 1) : entries[m].item # <<>> => sheet[m].depth > sheet[j].depth
    <3> SUFFICES ASSUME NEW m \in (j + 1)..(i - 1), entries[m].item # <<>>,
                        ~(sheet[m].depth > sheet[j].depth)
                 PROVE  FALSE
      OBVIOUS
    <3>1. m \in (j + 1)..K /\ ~(i <= m)
      BY <1>1, <1>4, <2>2
    <3>2. m \in bad
      BY <3>1
    <3> HIDE DEF bad
    <3> QED BY <2>1, <3>1, <3>2
  <2> HIDE DEF bad
  <2>5. /\ es[i] = entries[i] /\ ls[i] = sheet[i] /\ es[j] = entries[j] /\ ls[j] = sheet[j]
        /\ i \in Listed(es) /\ j < i /\ i < K + 1
    BY <1>1, <1>2, <1>4, <2>2 DEF Listed
  <2>6. Columnar(ItemsOf(es)) /\ IsDeeper(ItemAt(entries, i), ItemAt(entries, j))
    <3>1. \/ ls[i].depth > ls[j].depth
          \/ Columnar(ItemsOf(es)) /\ IsDeeper(ItemAt(es, i), ItemAt(es, j))
      BY <2>5 DEF Between
    <3> QED BY <2>3, <2>5, <3>1 DEF ItemAt
  <2>7. sheet[i].depth > sheet[j].depth
    BY <1>3, <1>4, <2>2, <2>4, <2>6 DEF Nests
  <2> QED BY <2>3, <2>7
<1>6. \A m \in (j + 1)..K : entries[m].item # <<>> => sheet[m].depth > sheet[j].depth
  BY <1>5
<1> QED BY <1>4, <1>6 DEF Latest

\* An item that takes up a list is numbered on from it: the depth the list is in is the
\* innermost that wears the item's marker in its column.
LEMMA ItemCarries ==
  ASSUME NEW entries, NEW sheet, NEW entry, NEW line, NEW es, NEW ls,
         Lengthens(entries, sheet, entry, line, es, ls), entry.item # <<>>, IsMarked(entry.item[1]),
         NEW stack, IsStack(stack), Stands(entries, sheet, stack), Columned(entries, sheet, stack),
         NEW next, next = Taking(stack, entry.item[1]),
         line.depth = Len(next), line.ordinal = next[Len(next)].count,
         Carries(entries, sheet)
  PROVE  Carries(es, ls)
<1> DEFINE K == Len(entries)
           item == entry.item[1]
<1>1. /\ K \in Nat /\ Len(es) = K + 1 /\ es[K + 1] = entry /\ ls[K + 1] = line
      /\ \A i \in 1..K : es[i] = entries[i] /\ ls[i] = sheet[i]
  BY LongerBy
<1>2. DOMAIN es = 1..(K + 1)
  BY <1>1, LongerIs DEF Lengthens, LinesOf
<1>3. ASSUME NEW j \in 1..K, TakesUp(es, ls, j, K + 1) PROVE NumberedOn(ls, j, K + 1)
  <2> DEFINE other == ItemAt(entries, j)
             d == sheet[j].depth
  <2>1. /\ j \in Listed(es) /\ other.marker = item.marker /\ other.ordered /\ item.ordered
        /\ SameColumn(other, item) /\ Between(es, ls, j, K + 1)
    <3>1. ItemAt(es, j) = other /\ ItemAt(es, K + 1) = item
      BY <1>1 DEF ItemAt
    <3> HIDE DEF other, item
    <3> QED BY <1>3, <3>1, TakesUpIs
  <2>2. Latest(entries, sheet, j, d)
    BY <2>1, TakenUpIsLatest
  <2>3. d \in 1..Len(stack) /\ Wears(stack[d], other) /\ sheet[j].ordinal = stack[d].count
    BY <2>2, LatestStands DEF Lengthens
  <2> HIDE DEF d, other, K
  <2>4. d \in Worn(stack, item)
    <3>1. stack[d].left = other.indent /\ stack[d].marker = item.marker
      BY <2>1, <2>3 DEF Wears
    <3>2. stack[d].left \in Int /\ item.indent \in Int
      BY <2>3 DEF IsStack, IsDepth, IsMarked
    <3>3. InColumn(stack[d], item)
      BY <2>1, <3>1, <3>2 DEF InColumn, SameColumn, IsDeeper, SAME_COLUMN
    <3> HIDE DEF item
    <3> QED BY <2>3, <3>1, <3>3 DEF Worn
  <2>5. ASSUME NEW i \in Worn(stack, item) PROVE i <= d
    <3> SUFFICES ASSUME ~(i <= d) PROVE FALSE
      OBVIOUS
    <3>0. i \in 1..Len(stack) /\ stack[i].marker = item.marker /\ i > d
      <4>1. i \in 1..Len(stack) /\ stack[i].marker = item.marker
        BY DEF Worn
      <4> QED BY <2>3, <4>1
    <3>1. PICK k \in 1..K : Latest(entries, sheet, k, i) /\ Wears(stack[i], ItemAt(entries, k))
      BY <3>0 DEF Stands, K
    <3>2. entries[k].item # <<>> /\ sheet[k].depth = i
      BY <3>1 DEF Latest
    <3>3. k # j
      BY <2>3, <3>0, <3>2 DEF d
    <3>4. ~(k < j)
      <4> SUFFICES ASSUME k < j PROVE FALSE
        OBVIOUS
      <4>1. j \in (k + 1)..K
        BY <1>1
      <4>2. entries[j].item # <<>> /\ sheet[j].depth = d
        BY <2>2 DEF Latest
      <4>3. sheet[j].depth > i
        BY <3>1, <4>1, <4>2 DEF Latest, K
      <4> QED BY <2>3, <3>0, <4>2, <4>3
    <3>5. k \in Listed(es) /\ j < k /\ k < K + 1
      BY <1>1, <1>2, <3>2, <3>3, <3>4 DEF Listed
    <3>6. ItemAt(es, k).marker # ItemAt(es, K + 1).marker
      BY <2>1, <3>5 DEF Between
    <3>7. ItemAt(es, k) = ItemAt(entries, k) /\ ItemAt(es, K + 1) = item
      BY <1>1 DEF ItemAt
    <3> QED BY <3>0, <3>1, <3>6, <3>7 DEF Wears
  <2>6. JoinsAt(stack, d, item, next)
    <3> HIDE DEF item
    <3>1. next = Taking(stack, item) /\ IsMarked(item)
      BY DEF item
    <3> QED BY <2>4, <2>5, <3>1, WornJoins
  <2>7. /\ Len(next) = d
        /\ next[d].count = IF stack[d].ordered = item.ordered THEN stack[d].count + 1 ELSE 1
    BY <2>6 DEF JoinsAt, Joined
  <2>8. stack[d].ordered = item.ordered
    <3>1. stack[d].ordered = other.ordered /\ stack[d].ordered \in BOOLEAN
      BY <2>3 DEF Wears, IsStack, IsDepth
    <3>2. item.ordered \in BOOLEAN
      BY DEF IsMarked
    <3> QED BY <2>1, <3>1, <3>2
  <2>9. ls[K + 1].depth = d /\ ls[K + 1].ordinal = stack[d].count + 1
    BY <1>1, <2>7, <2>8
  <2>10. ls[j].depth = d /\ ls[j].ordinal = stack[d].count
    BY <1>1, <2>3 DEF d
  <2> QED BY <2>9, <2>10 DEF NumberedOn
<1>4. ASSUME NEW k \in 1..(K + 1), NEW j \in 1..(k - 1), TakesUp(es, ls, j, k) PROVE NumberedOn(ls, j, k)
  <2>1. CASE k = K + 1
    <3>1. j \in 1..K
      BY <1>1, <2>1
    <3> QED BY <1>3, <1>4, <2>1, <3>1
  <2>2. CASE k # K + 1
    <3>1. k \in 1..K
      BY <1>1, <2>2
    <3> QED BY <1>4, <3>1, StillCarries
  <2> QED BY <2>1, <2>2
<1> QED BY <1>1, <1>4 DEF Carries

\* A block takes up none.
LEMMA BlockCarries ==
  ASSUME NEW entries, NEW sheet, NEW entry, NEW line, NEW es, NEW ls,
         Lengthens(entries, sheet, entry, line, es, ls), entry.item = <<>>,
         Carries(entries, sheet)
  PROVE  Carries(es, ls)
<1> DEFINE K == Len(entries)
<1>1. K \in Nat /\ Len(es) = K + 1 /\ es[K + 1] = entry
  BY LongerBy
<1>2. ASSUME NEW k \in 1..(K + 1), NEW j \in 1..(k - 1), TakesUp(es, ls, j, k) PROVE NumberedOn(ls, j, k)
  <2>1. k \in Listed(es)
    BY <1>2, TakesUpIs
  <2>2. k # K + 1
    BY <1>1, <2>1 DEF Listed
  <2>3. k \in 1..K
    BY <1>1, <2>2
  <2> QED BY <1>2, <2>3, StillCarries
<1> QED BY <1>1, <1>2 DEF Carries

-----------------------------------------------------------------------------
(* The lines of a run, as they are printed                                 *)

\* What a reader holds after each of some lines.
Reading(g, sheet) ==
  /\ g[0] = [open |-> <<>>, shows |-> <<>>]
  /\ \A k \in 1..Len(sheet) : g[k] = ReadLine(g[k - 1], sheet[k])

\* Whoever reads the lines sees them as they are printed.
SeenByAll(sheet, stack) == \A g : Reading(g, sheet) => Seen(sheet, stack, g[Len(sheet)])

\* Some entries, the lines they print and the depths they leave open.
Traced(entries, sheet, stack) ==
  /\ LinesOf(entries, sheet) /\ IsStack(stack)
  /\ Stands(entries, sheet, stack) /\ Columned(entries, sheet, stack)
  /\ Carries(entries, sheet) /\ SeenByAll(sheet, stack)
  /\ Len(entries) = 0 <=> Len(stack) = 0

\* The lines before the last are read before it.
LEMMA ReadingBefore ==
  ASSUME NEW entries, NEW sheet, NEW entry, NEW line, NEW es, NEW ls,
         Lengthens(entries, sheet, entry, line, es, ls), NEW g, Reading(g, ls)
  PROVE  Reading(g, sheet) /\ g[Len(ls)] = ReadLine(g[Len(sheet)], line)
<1> DEFINE K == Len(entries)
<1>1. /\ K \in Nat /\ Len(ls) = K + 1 /\ Len(sheet) = K /\ ls[K + 1] = line
      /\ \A i \in 1..K : ls[i] = sheet[i]
  BY LongerBy
<1> HIDE DEF K
<1>2. g[0] = [open |-> <<>>, shows |-> <<>>] /\ \A k \in 1..(K + 1) : g[k] = ReadLine(g[k - 1], ls[k])
  BY <1>1 DEF Reading
<1>3. ASSUME NEW k \in 1..K PROVE g[k] = ReadLine(g[k - 1], sheet[k])
  <2>1. k \in 1..(K + 1)
    BY <1>1
  <2> QED BY <1>1, <1>2, <2>1
<1>4. g[K + 1] = ReadLine(g[K], line)
  <2>1. K + 1 \in 1..(K + 1) /\ (K + 1) - 1 = K
    BY <1>1
  <2> QED BY <1>1, <1>2, <2>1
<1> QED BY <1>1, <1>2, <1>3, <1>4 DEF Reading

\* Nothing is traced to nothing.
LEMMA NothingTraced == Traced(<<>>, <<>>, <<>>)
<1>1. IsList(<<>>)
  <2>1. <<>> \in Seq({})
    OBVIOUS
  <2> QED BY <2>1, ListIs
<1>2. Len(<<>>) = 0 /\ 1..0 = {}
  OBVIOUS
<1>3. LinesOf(<<>>, <<>>) /\ IsStack(<<>>)
  BY <1>1, <1>2 DEF LinesOf, IsStack
<1>4. Stands(<<>>, <<>>, <<>>)
  BY <1>2 DEF Stands
<1>5. Columned(<<>>, <<>>, <<>>)
  BY <1>2 DEF Columned, Spread, Unranked, Nests
<1>6. Carries(<<>>, <<>>)
  BY <1>2 DEF Carries
<1>7. ASSUME NEW g, Reading(g, <<>>) PROVE Seen(<<>>, <<>>, g[Len(<<>>)])
  <2>1. g[Len(<<>>)].open = <<>> /\ g[Len(<<>>)].shows = <<>>
    BY <1>2, <1>7 DEF Reading
  <2> QED BY <1>1, <1>2, <2>1 DEF Seen, Mirrors
<1>8. SeenByAll(<<>>, <<>>)
  BY <1>7 DEF SeenByAll
<1> QED BY <1>3, <1>4, <1>5, <1>6, <1>8 DEF Traced

\* An item more, in the depth it takes.
LEMMA ItemTraced ==
  ASSUME NEW entries, NEW sheet, NEW stack, Traced(entries, sheet, stack),
         NEW entry, entry.item # <<>>, IsMarked(entry.item[1]), NEW text
  PROVE  LET next == Taking(stack, entry.item[1])
         IN  Traced(Append(entries, entry), Append(sheet, ItemLine(next, text)), next)
<1> DEFINE item == entry.item[1]
           next == Taking(stack, item)
           n == Len(next)
           line == ItemLine(next, text)
           es == Append(entries, entry)
           ls == Append(sheet, line)
<1>1. /\ LinesOf(entries, sheet) /\ IsStack(stack)
      /\ Stands(entries, sheet, stack) /\ Columned(entries, sheet, stack)
      /\ Carries(entries, sheet) /\ SeenByAll(sheet, stack)
      /\ IsMarked(item)
  BY DEF Traced
<1>2. Placing(stack, item, next)
  BY <1>1, PlacingIs
<1>n. next = Taking(stack, item)
  OBVIOUS
<1> HIDE DEF next
<1>3. Lodges(stack, item, next)
  BY <1>1, <1>2, LodgesIs
<1>4. IsStack(next) /\ n \in Nat \ {0} /\ next[n].ordered = item.ordered
  <2>1. Len(stack) \in Nat
    BY <1>1 DEF IsStack, IsList
  <2>2. IsStack(next) /\ n \in 1..(Len(stack) + 1) /\ Wears(next[n], item)
    BY <1>3 DEF Lodges
  <2> QED BY <2>1, <2>2 DEF Wears
<1>5. /\ line.is = "item" /\ line.depth = n /\ line.ordered = next[n].ordered
      /\ line.ordinal = next[n].count
  BY DEF ItemLine, Line, Last
<1> HIDE DEF line, n
<1>6. Lengthens(entries, sheet, entry, line, es, ls)
  <2>1. IF entry.item # <<>>
          THEN /\ line.is = "item" /\ line.depth \in Nat \ {0}
               /\ IsMarked(entry.item[1]) /\ line.ordered = entry.item[1].ordered
          ELSE line.is = "block" /\ line.ordered = FALSE
    BY <1>4, <1>5
  <2> QED BY <1>1, <2>1, LineLonger
<1> HIDE DEF es, ls
<1>7. LinesOf(es, ls) /\ Len(es) = Len(entries) + 1 /\ Len(entries) \in Nat
  BY <1>6, LongerBy DEF Lengthens
<1>8. line.depth = Len(next) /\ line.ordinal = next[Len(next)].count /\ line.ordered = item.ordered
  BY <1>4, <1>5 DEF n
<1>9. Stands(es, ls, next)
  BY <1>1, <1>3, <1>6, <1>8, ItemStands
<1>10. Columned(es, ls, next)
  BY <1>1, <1>2, <1>6, <1>8, ItemColumned
<1>11. Carries(es, ls)
  <2> HIDE DEF item
  <2>1. item = entry.item[1]
    BY DEF item
  <2> QED BY <1>1, <1>6, <1>8, <1>n, <2>1, ItemCarries
<1>12. ASSUME NEW g, Reading(g, ls) PROVE Seen(ls, next, g[Len(ls)])
  <2> DEFINE reading == g[Len(sheet)]
             read == g[Len(ls)]
  <2>1. Reading(g, sheet) /\ read = ReadLine(reading, line)
    BY <1>6, <1>12, ReadingBefore
  <2>2. Seen(sheet, stack, reading)
    BY <1>1, <2>1 DEF SeenByAll
  <2> HIDE DEF reading, read
  <2>3. Mirrors(reading.open, stack)
    BY <2>2 DEF Seen
  <2>4. read = ReadLine(reading, ItemLine(next, text))
    BY <2>1 DEF line
  <2> HIDE DEF item
  <2>5. ReadsItem(reading, stack, item, next, text, ReadLine(reading, ItemLine(next, text)))
    BY <1>1, <1>3, <2>3, ItemIsRead
  <2>6. ReadsItem(reading, stack, item, next, text, read)
    BY <2>4, <2>5
  <2>7. Seen(ls, next, read)
    BY <1>1, <1>3, <1>6, <1>8, <2>2, <2>6, ItemSeen
  <2> QED BY <2>7 DEF read
<1>13. SeenByAll(ls, next)
  BY <1>12 DEF SeenByAll
<1>14. Len(es) # 0 /\ Len(next) # 0
  BY <1>4, <1>7 DEF n
<1>15. Traced(es, ls, next)
  BY <1>4, <1>7, <1>9, <1>10, <1>11, <1>13, <1>14 DEF Traced
<1> QED BY <1>15 DEF es, ls, line, next

\* A block more, of the item above it.
LEMMA BlockTraced ==
  ASSUME NEW entries, NEW sheet, NEW stack, Traced(entries, sheet, stack), Len(stack) # 0,
         NEW entry, entry.item = <<>>, NEW text
  PROVE  Traced(Append(entries, entry), Append(sheet, BlockLine(stack, text)), stack)
<1> DEFINE line == BlockLine(stack, text)
           es == Append(entries, entry)
           ls == Append(sheet, line)
<1>1. /\ LinesOf(entries, sheet) /\ IsStack(stack)
      /\ Stands(entries, sheet, stack) /\ Columned(entries, sheet, stack)
      /\ Carries(entries, sheet) /\ SeenByAll(sheet, stack) /\ Len(entries) # 0
  BY DEF Traced
<1>2. line.is = "block" /\ line.depth = Len(stack) /\ line.ordered = FALSE
  BY DEF BlockLine, Line
<1> HIDE DEF line
<1>3. Lengthens(entries, sheet, entry, line, es, ls)
  <2>1. IF entry.item # <<>>
          THEN /\ line.is = "item" /\ line.depth \in Nat \ {0}
               /\ IsMarked(entry.item[1]) /\ line.ordered = entry.item[1].ordered
          ELSE line.is = "block" /\ line.ordered = FALSE
    BY <1>2
  <2> QED BY <1>1, <2>1, LineLonger
<1> HIDE DEF es, ls
<1>4. LinesOf(es, ls) /\ Len(es) = Len(entries) + 1 /\ Len(entries) \in Nat
  BY <1>3, LongerBy DEF Lengthens
<1>5. Stands(es, ls, stack)
  BY <1>1, <1>3, BlockStands
<1>6. Columned(es, ls, stack)
  BY <1>1, <1>3, BlockColumned
<1>7. Carries(es, ls)
  BY <1>1, <1>3, BlockCarries
<1>8. ASSUME NEW g, Reading(g, ls) PROVE Seen(ls, stack, g[Len(ls)])
  <2> DEFINE reading == g[Len(sheet)]
             read == g[Len(ls)]
  <2>1. Reading(g, sheet) /\ read = ReadLine(reading, line)
    BY <1>3, <1>8, ReadingBefore
  <2>2. Seen(sheet, stack, reading)
    BY <1>1, <2>1 DEF SeenByAll
  <2> HIDE DEF reading, read
  <2>3. Mirrors(reading.open, stack)
    BY <2>2 DEF Seen
  <2>4. ReadsBlock(reading, stack, ReadLine(reading, BlockLine(stack, text)))
    BY <1>1, <2>3, BlockIsRead
  <2>5. ReadsBlock(reading, stack, read)
    BY <2>1, <2>4 DEF line
  <2>6. Seen(ls, stack, read)
    BY <1>2, <1>3, <2>2, <2>5, BlockSeen
  <2> QED BY <2>6 DEF read
<1>9. SeenByAll(ls, stack)
  BY <1>8 DEF SeenByAll
<1>10. Len(es) # 0
  BY <1>4
<1>11. Traced(es, ls, stack)
  BY <1>1, <1>4, <1>5, <1>6, <1>7, <1>9, <1>10 DEF Traced
<1> QED BY <1>11 DEF es, ls, line

\* The page a run is printed on, after each of its entries.
OnPages(pages, items) ==
  /\ pages[0] = [lines |-> <<>>, stack |-> <<>>]
  /\ \A n \in 1..Len(items) : pages[n] = TakeEntry(pages[n - 1], items[n])

\* A run is printed entry by entry.
LEMMA RenderIs ==
  ASSUME NEW items, IsList(items)
  PROVE  \E pages : OnPages(pages, items) /\ Render(items) = pages[Len(items)].lines
<1> DEFINE N == Len(items)
           w == [lines |-> <<>>, stack |-> <<>>]
           Chain(f) == [s \in SUBSET (1..N) |->
                          IF s = {} THEN w ELSE TakeEntry(f[s \ {Max(s)}], items[Max(s)])]
           f == CHOOSE g : g = Chain(g)
           pages == [n \in 0..N |-> f[1..n]]
<1>1. DOMAIN items = 1..N /\ N \in Nat
  BY LongerIs DEF IsList
<1>w. Render(items) = FoldLeft(TakeEntry, w, items).lines
  BY DEF Render
<1> HIDE DEF w
<1>2. Render(items) = f[1..N].lines
  BY <1>1, <1>w DEF FoldLeft, MapThenFoldSet
<1>3. ASSUME NEW g PROVE TakenEach(g, Printing, w, items) <=> g = Chain(g)
  <2>1. \A v, next : Taken(Printing, v, next) = TakeEntry(v, next)
    BY DEF Taken, Printing
  <2> QED BY <2>1 DEF TakenEach
<1>4. \E g : g = Chain(g)
  <2> HIDE DEF Chain
  <2> QED BY <1>3, TakenEachExists
<1>5. f = Chain(f)
  <2> HIDE DEF Chain
  <2> QED BY <1>4
<1> HIDE DEF f
<1>6. TakenEach(f, Printing, w, items)
  <2> HIDE DEF Chain
  <2> QED BY <1>3, <1>5
<1>7. f[1..0] = w /\ \A n \in 1..N : f[1..n] = Taken(Printing, f[1..(n - 1)], items[n])
  BY <1>6, TakenSteps
<1> HIDE DEF N
<1>8. pages[0] = w /\ pages[N] = f[1..N]
  BY <1>1, <1>7
<1>9. ASSUME NEW n \in 1..N PROVE pages[n] = TakeEntry(pages[n - 1], items[n])
  <2>1. pages[n] = f[1..n] /\ pages[n - 1] = f[1..(n - 1)]
    BY <1>1
  <2> HIDE DEF pages
  <2> QED BY <1>7, <2>1 DEF Taken, Printing
<1> HIDE DEF pages
<1>10. OnPages(pages, items)
  BY <1>8, <1>9 DEF OnPages, w, N
<1>11. Render(items) = pages[Len(items)].lines
  BY <1>2, <1>8 DEF N
<1> QED BY <1>10, <1>11

\* Lines are read one by one.
LEMMA ShowsAre ==
  ASSUME NEW sheet, IsList(sheet)
  PROVE  \E g : Reading(g, sheet) /\ Shows(sheet) = g[Len(sheet)].shows
<1> DEFINE N == Len(sheet)
           w == [open |-> <<>>, shows |-> <<>>]
           Chain(f) == [s \in SUBSET (1..N) |->
                          IF s = {} THEN w ELSE ReadLine(f[s \ {Max(s)}], sheet[Max(s)])]
           f == CHOOSE g : g = Chain(g)
           r == [n \in 0..N |-> f[1..n]]
<1>1. DOMAIN sheet = 1..N /\ N \in Nat
  BY LongerIs DEF IsList
<1>w. Shows(sheet) = FoldLeft(ReadLine, w, sheet).shows
  BY DEF Shows
<1> HIDE DEF w
<1>2. Shows(sheet) = f[1..N].shows
  BY <1>1, <1>w DEF FoldLeft, MapThenFoldSet
<1>3. ASSUME NEW g PROVE TakenEach(g, Viewing, w, sheet) <=> g = Chain(g)
  <2>1. \A v, next : Taken(Viewing, v, next) = ReadLine(v, next)
    BY DEF Taken, Viewing
  <2> QED BY <2>1 DEF TakenEach
<1>4. \E g : g = Chain(g)
  <2> HIDE DEF Chain
  <2> QED BY <1>3, TakenEachExists
<1>5. f = Chain(f)
  <2> HIDE DEF Chain
  <2> QED BY <1>4
<1> HIDE DEF f
<1>6. TakenEach(f, Viewing, w, sheet)
  <2> HIDE DEF Chain
  <2> QED BY <1>3, <1>5
<1>7. f[1..0] = w /\ \A n \in 1..N : f[1..n] = Taken(Viewing, f[1..(n - 1)], sheet[n])
  BY <1>6, TakenSteps
<1> HIDE DEF N
<1>8. r[0] = w /\ r[N] = f[1..N]
  BY <1>1, <1>7
<1>9. ASSUME NEW n \in 1..N PROVE r[n] = ReadLine(r[n - 1], sheet[n])
  <2>1. r[n] = f[1..n] /\ r[n - 1] = f[1..(n - 1)]
    BY <1>1
  <2> HIDE DEF r
  <2> QED BY <1>7, <2>1 DEF Taken, Viewing
<1> HIDE DEF r
<1>10. Reading(r, sheet)
  BY <1>8, <1>9 DEF Reading, w, N
<1>11. Shows(sheet) = r[Len(sheet)].shows
  BY <1>2, <1>8 DEF N
<1> QED BY <1>10, <1>11

\* The entries of a run that says something, from its first item on.
FromItem(saying) == PrintingOf(saying, {i \in DOMAIN saying : saying[i].item # <<>>})

\* With an entry more there is one more of them, once there is an item.
LEMMA FromItemLonger ==
  ASSUME NEW A, NEW saying \in Seq(A), NEW entry \in A
  PROVE  LET es == FromItem(saying)
         IN  FromItem(Append(saying, entry)) =
               IF es = <<>> /\ entry.item = <<>> THEN es ELSE Append(es, entry)
<1> DEFINE longer == Append(saying, entry)
           K == Len(saying)
           items == {i \in 1..K : saying[i].item # <<>>}
           after == {i \in 1..(K + 1) : longer[i].item # <<>>}
           first == CHOOSE i \in items : \A j \in items : i <= j
           start == CHOOSE i \in after : \A j \in after : i <= j
           es == FromItem(saying)
<1>1. /\ K \in Nat /\ DOMAIN saying = 1..K /\ DOMAIN longer = 1..(K + 1) /\ Len(longer) = K + 1
      /\ longer \in Seq(A) /\ longer[K + 1] = entry /\ \A i \in 1..K : longer[i] = saying[i]
  OBVIOUS
<1>2. es = IF items = {} THEN <<>> ELSE SubSeq(saying, first, K)
  BY <1>1 DEF FromItem, PrintingOf
<1>3. FromItem(longer) = IF after = {} THEN <<>> ELSE SubSeq(longer, start, K + 1)
  <2> HIDE DEF longer
  <2> QED BY <1>1 DEF FromItem, PrintingOf
<1>s. SubSeq(longer, K + 1, K + 1) = <<entry>>
  <2> DEFINE one == SubSeq(longer, K + 1, K + 1)
  <2> HIDE DEF longer, K
  <2>1. one \in Seq(A) /\ Len(one) = 1 /\ one[1] = entry
    BY <1>1
  <2> HIDE DEF one
  <2>2. one = <<entry>>
    BY <2>1
  <2> QED BY <2>2 DEF one
<1>t. ASSUME NEW m \in 1..K
      PROVE  SubSeq(longer, m, K + 1) = Append(SubSeq(saying, m, K), entry) /\ SubSeq(saying, m, K) # <<>>
  <2> DEFINE part == SubSeq(saying, m, K)
             more == SubSeq(longer, m, K + 1)
             M == (K - m) + 1
  <2>1. /\ part \in Seq(A) /\ Len(part) = M
        /\ \A i \in 1..M : part[i] = saying[m + i - 1]
    BY <1>1
  <2> HIDE DEF longer, K
  <2>2. /\ more \in Seq(A) /\ Len(more) = M + 1
        /\ \A i \in 1..(M + 1) : more[i] = longer[m + i - 1]
    BY <1>1
  <2>3. M \in Nat /\ M # 0
    BY <1>1
  <2> HIDE DEF part, more
  <2>4. /\ Append(part, entry) \in Seq(A) /\ Len(Append(part, entry)) = M + 1
        /\ Append(part, entry)[M + 1] = entry
        /\ \A i \in 1..M : Append(part, entry)[i] = part[i]
    BY <2>1
  <2>5. ASSUME NEW i \in 1..(M + 1) PROVE more[i] = Append(part, entry)[i]
    <3>1. CASE i = M + 1
      <4>1. m + i - 1 = K + 1
        BY <1>1, <3>1
      <4> QED BY <1>1, <2>2, <2>4, <3>1, <4>1
    <3>2. CASE i # M + 1
      <4>1. i \in 1..M /\ m + i - 1 \in 1..K
        BY <1>1, <3>2
      <4> QED BY <1>1, <2>1, <2>2, <2>4, <4>1
    <3> QED BY <3>1, <3>2
  <2>6. more = Append(part, entry)
    BY <2>2, <2>4, <2>5
  <2>7. part # <<>>
    BY <2>1, <2>3
  <2> QED BY <2>6, <2>7 DEF part, more
<1> HIDE DEF longer
<1>4. CASE items = {} /\ entry.item = <<>>
  <2>1. after = {}
    <3> SUFFICES ASSUME NEW i \in after PROVE FALSE
      OBVIOUS
    <3>1. i = K + 1 \/ i \in 1..K
      BY <1>1
    <3> QED BY <1>1, <1>4, <3>1
  <2> HIDE DEF after, items, K
  <2> QED BY <1>2, <1>3, <1>4, <2>1 DEF longer
<1>5. CASE items = {} /\ entry.item # <<>>
  <2>1. after = {K + 1}
    <3>1. K + 1 \in after
      BY <1>1, <1>5
    <3>2. ASSUME NEW i \in after PROVE i = K + 1
      <4>1. i = K + 1 \/ i \in 1..K
        BY <1>1
      <4> QED BY <1>1, <1>5, <4>1
    <3> HIDE DEF after
    <3> QED BY <3>1, <3>2
  <2> HIDE DEF after
  <2>2. start = K + 1
    BY <1>1, <2>1
  <2>3. es = <<>>
    BY <1>2, <1>5
  <2>4. Append(<<>>, entry) = <<entry>>
    OBVIOUS
  <2> HIDE DEF start, es, items
  <2> QED BY <1>3, <1>5, <1>s, <2>1, <2>2, <2>3, <2>4 DEF longer, es
<1>6. CASE items # {}
  <2>1. PICK m \in items : \A j \in items : m <= j
    <3>1. items \subseteq Nat
      BY <1>1
    <3> HIDE DEF items
    <3> QED BY <1>6, <3>1, LeastElement
  <2>2. m \in 1..K
    OBVIOUS
  <2>3. m \in after /\ \A j \in after : m <= j
    <3>1. m \in after
      BY <1>1, <2>1
    <3>2. ASSUME NEW j \in after PROVE m <= j
      <4>1. CASE j = K + 1
        BY <1>1, <2>2, <4>1
      <4>2. CASE j # K + 1
        <5>1. j \in items
          BY <1>1, <4>2
        <5> HIDE DEF items
        <5> QED BY <2>1, <5>1
      <4> QED BY <4>1, <4>2
    <3> QED BY <3>1, <3>2
  <2>4. \A i \in items : i \in Nat
    BY <1>1
  <2>5. \A i \in after : i \in Nat
    BY <1>1
  <2> HIDE DEF items, after
  <2>6. first = m
    <3>1. first \in items /\ \A j \in items : first <= j
      BY <2>1
    <3> HIDE DEF first
    <3> QED BY <2>1, <2>4, <3>1
  <2>7. start = m
    <3>1. start \in after /\ \A j \in after : start <= j
      BY <2>3
    <3> HIDE DEF start
    <3> QED BY <2>3, <2>5, <3>1
  <2> HIDE DEF first, start
  <2>8. es = SubSeq(saying, m, K) /\ FromItem(longer) = SubSeq(longer, m, K + 1)
    <3> HIDE DEF es, K
    <3> QED BY <1>2, <1>3, <1>6, <2>3, <2>6, <2>7
  <2>9. FromItem(longer) = Append(es, entry) /\ es # <<>>
    <3> HIDE DEF K, es
    <3> QED BY <1>t, <2>2, <2>8
  <2> HIDE DEF es
  <2> QED BY <2>9 DEF longer, es
<1> QED BY <1>4, <1>5, <1>6

\* The entries of a run, each a block or an item.
IsEntry(entry) == entry.item # <<>> => IsMarked(entry.item[1])
IsRun(items) == IsList(items) /\ \A i \in 1..Len(items) : IsEntry(items[i])

\* The page has the lines of the entries that say something.
Follows(page, saying) ==
  /\ DOMAIN page = {"lines", "stack"}
  /\ Traced(FromItem(saying), page.lines, page.stack)

\* It does with an entry more.
LEMMA EntryFollows ==
  ASSUME NEW A, NEW saying \in Seq(A), NEW entry \in A, IsEntry(entry),
         NEW page, Follows(page, saying)
  PROVE  Follows(TakeEntry(page, entry), IF entry.text # <<>> THEN Append(saying, entry) ELSE saying)
<1> DEFINE es == FromItem(saying)
           after == FromItem(Append(saying, entry))
           sheet == page.lines
           stack == page.stack
           next == TakeEntry(page, entry)
<1>1. Traced(es, sheet, stack) /\ DOMAIN page = {"lines", "stack"}
  BY DEF Follows
<1>2. after = IF es = <<>> /\ entry.item = <<>> THEN es ELSE Append(es, entry)
  BY FromItemLonger
<1>3. (es = <<>> <=> stack = <<>>) /\ (stack # <<>> => Len(stack) # 0)
  <2>1. IsList(es) /\ IsList(stack) /\ (Len(es) = 0 <=> Len(stack) = 0)
    BY <1>1 DEF Traced, LinesOf, IsStack
  <2> HIDE DEF es, stack
  <2>2. (Len(es) = 0 <=> es = <<>>) /\ (Len(stack) = 0 <=> stack = <<>>)
    BY <2>1 DEF IsList
  <2> QED BY <2>1, <2>2
<1>t. CASE entry.text = <<>>
  <2>1. next = page
    BY <1>t DEF TakeEntry
  <2> QED BY <1>t, <2>1
<1>4. CASE entry.text # <<>> /\ entry.item = <<>> /\ stack = <<>>
  <2>1. next = page
    BY <1>4 DEF TakeEntry
  <2>2. after = es
    BY <1>2, <1>3, <1>4
  <2>3. Follows(next, Append(saying, entry))
    BY <1>1, <2>1, <2>2 DEF Follows
  <2> QED BY <1>4, <2>3
<1>5. CASE entry.text # <<>> /\ entry.item = <<>> /\ stack # <<>>
  <2> DEFINE line == BlockLine(stack, entry.text)
             ls == Append(sheet, line)
  <2>1. next = [page EXCEPT !.lines = ls]
    BY <1>5 DEF TakeEntry, BlockLine
  <2>2. Traced(Append(es, entry), ls, stack)
    <3> HIDE DEF es, sheet, stack
    <3> QED BY <1>1, <1>3, <1>5, BlockTraced
  <2>3. after = Append(es, entry)
    BY <1>2, <1>3, <1>5
  <2> HIDE DEF ls, next
  <2>4. DOMAIN next = {"lines", "stack"} /\ next.lines = ls /\ next.stack = stack
    BY <1>1, <2>1
  <2>5. Follows(next, Append(saying, entry))
    BY <2>2, <2>3, <2>4 DEF Follows
  <2> QED BY <1>5, <2>5 DEF next
<1>6. CASE entry.text # <<>> /\ entry.item # <<>>
  <2> DEFINE taking == Taking(stack, entry.item[1])
             line == ItemLine(taking, entry.text)
             ls == Append(sheet, line)
  <2>1. next = [stack |-> taking, lines |-> ls]
    BY <1>6 DEF TakeEntry, AddItem, Taking, ItemLine
  <2>2. Traced(Append(es, entry), ls, taking)
    <3>1. IsMarked(entry.item[1])
      BY <1>6 DEF IsEntry
    <3> HIDE DEF es, sheet, stack
    <3> QED BY <1>1, <1>6, <3>1, ItemTraced
  <2>3. after = Append(es, entry)
    BY <1>2, <1>6
  <2> HIDE DEF ls, taking, next
  <2>4. DOMAIN next = {"lines", "stack"} /\ next.lines = ls /\ next.stack = taking
    BY <2>1
  <2>5. Follows(next, Append(saying, entry))
    BY <2>2, <2>3, <2>4 DEF Follows
  <2> QED BY <1>6, <2>5 DEF next
<1> QED BY <1>t, <1>4, <1>5, <1>6

\* The entries that say something.
Saying(items) == Only(items, {entry \in Range(items) : entry.text # <<>>})

\* A run is traced to the lines it is printed on.
LEMMA RunTraced ==
  ASSUME NEW items, IsRun(items)
  PROVE  \E stack : Traced(FromItem(Saying(items)), Render(items), stack)
<1> DEFINE N == Len(items)
           A == Range(items)
           some == {entry \in A : entry.text # <<>>}
<1>1. items \in Seq(A) /\ IsList(items) /\ N \in Nat
  BY DEF IsRun, IsList
<1>2. \A n \in 1..N : items[n] \in A /\ IsEntry(items[n])
  <2>1. DOMAIN items = 1..N
    BY <1>1, LongerIs
  <2> QED BY <2>1 DEF IsRun, Range
<1>3. PICK pages : OnPages(pages, items) /\ Render(items) = pages[N].lines
  BY <1>1, RenderIs
<1> HIDE DEF A, some
<1>4. PICK kept : Keeping(kept, A, items, some)
  BY <1>1, OnlySteps
<1>5. /\ kept \in [0..N -> Seq(A)] /\ kept[0] = <<>>
      /\ \A n \in 1..N :
           kept[n] = IF items[n] \in some THEN Append(kept[n - 1], items[n]) ELSE kept[n - 1]
      /\ Only(items, some) = kept[N]
  BY <1>4 DEF Keeping
<1>6. pages[0] = [lines |-> <<>>, stack |-> <<>>] /\ \A n \in 1..N : pages[n] = TakeEntry(pages[n - 1], items[n])
  BY <1>3 DEF OnPages
<1> HIDE DEF N
<1> DEFINE good == {n \in 0..N : Follows(pages[n], kept[n])}
<1>7. 0 \in good
  <2>1. FromItem(<<>>) = <<>>
    <3>1. {i \in DOMAIN <<>> : <<>>[i].item # <<>>} = {}
      OBVIOUS
    <3> QED BY <3>1 DEF FromItem, PrintingOf
  <2>2. DOMAIN pages[0] = {"lines", "stack"} /\ pages[0].lines = <<>> /\ pages[0].stack = <<>>
    BY <1>6
  <2>3. Follows(pages[0], kept[0])
    BY <1>5, <2>1, <2>2, NothingTraced DEF Follows
  <2> QED BY <1>1, <2>3
<1>8. ASSUME NEW n \in 1..N, n - 1 \in good PROVE n \in good
  <2> DEFINE page == pages[n - 1]
             saying == kept[n - 1]
             entry == items[n]
  <2>1. Follows(page, saying)
    BY <1>8
  <2>2. n - 1 \in 0..N /\ n \in 0..N
    BY <1>1
  <2>3. saying \in Seq(A) /\ entry \in A /\ IsEntry(entry)
    BY <1>2, <1>5, <2>2
  <2>4. /\ pages[n] = TakeEntry(page, entry)
        /\ kept[n] = IF entry.text # <<>> THEN Append(saying, entry) ELSE saying
    <3>1. entry \in some <=> entry.text # <<>>
      BY <2>3 DEF some
    <3> QED BY <1>5, <1>6, <3>1
  <2> HIDE DEF page, saying, entry
  <2>5. Follows(pages[n], kept[n])
    BY <2>1, <2>3, <2>4, EntryFollows
  <2> QED BY <2>2, <2>5
<1>9. N \in good
  <2> HIDE DEF good
  <2>1. 0..N \subseteq good
    BY <1>1, <1>7, <1>8, StepByStep
  <2> QED BY <1>1, <2>1
<1>10. Follows(pages[N], Only(items, some))
  BY <1>5, <1>9
<1>11. Saying(items) = Only(items, some)
  BY DEF Saying, some, A
<1> QED BY <1>3, <1>10, <1>11 DEF Follows, N

\* What is traced is read as it is printed.
LEMMA TracedReads ==
  ASSUME NEW entries, NEW sheet, NEW stack, Traced(entries, sheet, stack)
  PROVE  ReadsAsPrinted(entries, sheet, Shows(sheet))
<1>1. LinesOf(entries, sheet) /\ Carries(entries, sheet) /\ SeenByAll(sheet, stack)
  BY DEF Traced
<1>2. IsList(entries) /\ IsList(sheet) /\ Len(sheet) = Len(entries)
  BY <1>1 DEF LinesOf
<1>3. PICK g : Reading(g, sheet) /\ Shows(sheet) = g[Len(sheet)].shows
  BY <1>2, ShowsAre
<1>4. Seen(sheet, stack, g[Len(sheet)])
  BY <1>1, <1>3 DEF SeenByAll
<1> DEFINE shown == Shows(sheet)
<1>5. /\ \A k \in 1..Len(sheet) : shown[k].depth = sheet[k].depth
      /\ NoRestarts(sheet) =>
           \A k \in 1..Len(sheet) : sheet[k].ordered => shown[k].ordinal = sheet[k].ordinal
  BY <1>3, <1>4 DEF Seen
<1>6. DOMAIN sheet = 1..Len(sheet) /\ DOMAIN entries = 1..Len(entries)
  BY <1>2, LongerIs
<1> HIDE DEF shown
<1>7. \A k \in DOMAIN sheet : shown[k].depth = sheet[k].depth
  BY <1>5, <1>6
<1>8. (\A k \in DOMAIN sheet : ~Restarts(sheet, k)) =>
        \A k \in DOMAIN sheet : sheet[k].ordered => shown[k].ordinal = sheet[k].ordinal
  BY <1>5, <1>6 DEF NoRestarts
<1>9. \A k \in DOMAIN entries : \A j \in 1..(k - 1) :
        TakesUp(entries, sheet, j, k) => /\ sheet[k].depth = sheet[j].depth
                                         /\ sheet[k].ordinal = sheet[j].ordinal + 1
  BY <1>1, <1>6 DEF Carries, NumberedOn
<1>10. ReadsAsPrinted(entries, sheet, shown)
  BY <1>2, <1>7, <1>8, <1>9 DEF ReadsAsPrinted
<1> QED BY <1>10 DEF shown

\* The run that is open is read as it is printed.
LEMMA RunsRead ==
  ASSUME IsRun(walk.items)
  PROVE  ListReadsAsShown
<1>1. Entries = FromItem(Saying(walk.items))
  BY DEF Entries, FromItem, Saying
<1>2. PICK stack : Traced(FromItem(Saying(walk.items)), Render(walk.items), stack)
  BY RunTraced
<1> QED BY <1>1, <1>2, TracedReads DEF ListReadsAsShown

-----------------------------------------------------------------------------
(* What files only                                                         *)

\* What a section holds.
SectionParts == {"heading", "appendix", "ordinal", "parent", "content"}

\* The sections and what is held for them are lists, of sections and of entries.
HasShape(w) ==
  /\ IsWalk(w) /\ IsList(w.sections) /\ IsList(w.pending) /\ IsRun(w.items)
  /\ \A i \in 1..Len(w.sections) : DOMAIN w.sections[i] = SectionParts

\* The same section, whatever is filed in it.
SameBones(section, other) ==
  /\ section.heading = other.heading /\ section.appendix = other.appendix
  /\ section.ordinal = other.ordinal /\ section.parent = other.parent

\* The walk goes on with the sections and the stack it has.
Keeps(w, v) ==
  /\ HasShape(v) /\ v.stack = w.stack /\ Len(v.sections) = Len(w.sections)
  /\ \A i \in 1..Len(w.sections) : SameBones(v.sections[i], w.sections[i])

\* What keeps twice keeps.
LEMMA KeepsOn ==
  ASSUME NEW w, NEW v, Keeps(w, v), NEW x, Keeps(v, x)
  PROVE  Keeps(w, x)
<1>1. /\ HasShape(x) /\ x.stack = w.stack /\ Len(x.sections) = Len(w.sections)
      /\ Len(v.sections) = Len(w.sections)
  BY DEF Keeps
<1>2. \A i \in 1..Len(w.sections) : SameBones(x.sections[i], v.sections[i]) /\ SameBones(v.sections[i], w.sections[i])
  BY <1>1 DEF Keeps
<1>3. \A i \in 1..Len(w.sections) : SameBones(x.sections[i], w.sections[i])
  BY <1>2 DEF SameBones
<1> QED BY <1>1, <1>3 DEF Keeps

\* A run is a run with an entry more, and with what was held since its last item.
LEMMA RunLonger ==
  ASSUME NEW items, IsRun(items), NEW entry, IsEntry(entry)
  PROVE  IsRun(Append(items, entry))
<1> DEFINE longer == Append(items, entry)
           N == Len(items)
<1>1. /\ IsList(longer) /\ Len(longer) = N + 1 /\ N \in Nat
      /\ longer[N + 1] = entry /\ \A i \in 1..N : longer[i] = items[i]
  BY LongerIs DEF IsRun
<1> HIDE DEF longer, N
<1>2. ASSUME NEW i \in 1..(N + 1) PROVE IsEntry(longer[i])
  <2>1. CASE i = N + 1
    BY <1>1, <2>1
  <2>2. CASE i # N + 1
    <3>1. i \in 1..N
      BY <1>1, <2>2
    <3>2. IsEntry(items[i])
      BY <3>1 DEF IsRun, N
    <3> QED BY <1>1, <3>1, <3>2
  <2> QED BY <2>1, <2>2
<1>3. IsRun(longer)
  BY <1>1, <1>2 DEF IsRun
<1> QED BY <1>3 DEF longer

\* A block that continues an item is an entry.
LEMMA ContinuationIs ==
  ASSUME NEW block
  PROVE  IsEntry(Continuation(block))
BY DEF IsEntry, Continuation

\* What is held goes on with the run.
LEMMA HeldIsRun ==
  ASSUME NEW items, IsRun(items), NEW pending, IsList(pending)
  PROVE  IsRun(items \o [i \in DOMAIN pending |-> Continuation(pending[i])])
<1> DEFINE held == [i \in DOMAIN pending |-> Continuation(pending[i])]
           all == items \o held
           A == Range(items) \cup Range(held)
           N == Len(items)
           M == Len(pending)
<1>1. M \in Nat /\ DOMAIN pending = 1..M /\ N \in Nat /\ DOMAIN items = 1..N /\ items \in Seq(Range(items))
  BY LongerIs DEF IsRun, IsList
<1>2. held \in Seq(Range(held)) /\ Len(held) = M /\ \A i \in 1..M : IsEntry(held[i])
  <2>1. \A i \in 1..M : held[i] = Continuation(pending[i]) /\ held[i] \in Range(held)
    BY <1>1 DEF Range
  <2>2. held = [i \in 1..M |-> held[i]]
    BY <1>1
  <2> HIDE DEF held
  <2>3. held \in Seq(Range(held)) /\ Len(held) = M
    BY <1>1, <2>1, <2>2
  <2> QED BY <2>1, <2>3, ContinuationIs
<1> HIDE DEF held, N, M
<1>3. items \in Seq(A) /\ held \in Seq(A) /\ Len(items) = N
  BY <1>1, <1>2 DEF N
<1> HIDE DEF A
<1>4. /\ all \in Seq(A) /\ Len(all) = N + M
      /\ \A i \in 1..N : all[i] = items[i]
      /\ \A i \in (N + 1)..(N + M) : all[i] = held[i - N]
  BY <1>1, <1>2, <1>3
<1> HIDE DEF all
<1>5. ASSUME NEW i \in 1..(N + M) PROVE IsEntry(all[i])
  <2>1. CASE i <= N
    <3>1. i \in 1..N
      BY <1>1, <2>1
    <3>2. IsEntry(items[i])
      BY <3>1 DEF IsRun, N
    <3> QED BY <1>4, <3>1, <3>2
  <2>2. CASE ~(i <= N)
    <3>1. i \in (N + 1)..(N + M) /\ i - N \in 1..M
      BY <1>1, <2>2
    <3> QED BY <1>2, <1>4, <3>1
  <2> QED BY <2>1, <2>2
<1>6. IsRun(all)
  BY <1>4, <1>5, ListIs DEF IsRun
<1> QED BY <1>6 DEF all, held

\* Nothing is a run.
LEMMA NoRun == IsRun(<<>>)
<1>1. <<>> \in Seq({}) /\ 1..Len(<<>>) = {}
  OBVIOUS
<1>2. IsList(<<>>)
  BY <1>1, ListIs
<1> QED BY <1>1, <1>2 DEF IsRun

\* A walk that differs elsewhere keeps.
LEMMA KeepsSame ==
  ASSUME NEW w, HasShape(w), NEW v, DOMAIN v = Parts,
         v.sections = w.sections, v.stack = w.stack, IsList(v.pending),
         IsRun(v.items)
  PROVE  Keeps(w, v)
BY DEF Keeps, HasShape, IsWalk, SameBones

\* A block is filed in the last section, and opens none.
LEMMA AppendBlockKeeps ==
  ASSUME NEW w, HasShape(w), NEW block
  PROVE  Keeps(w, AppendBlock(w, block))
<1>1. CASE w.sections = <<>> \/ block = NoBlock
  <2>1. AppendBlock(w, block) = w
    BY <1>1 DEF AppendBlock
  <2> QED BY <2>1, KeepsSame DEF HasShape, IsWalk
<1>2. CASE ~(w.sections = <<>> \/ block = NoBlock)
  <2> DEFINE N == Len(w.sections)
             old == w.sections
             content == Append(old[N].content, block)
             sections == [old EXCEPT ![N] = [old[N] EXCEPT !.content = content]]
             v == AppendBlock(w, block)
  <2>1. v = [w EXCEPT !.sections = sections]
    BY <1>2 DEF AppendBlock
  <2>2. /\ IsList(old) /\ N \in Nat /\ DOMAIN old = 1..N /\ N \in 1..N
        /\ \A i \in 1..N : DOMAIN old[i] = SectionParts
    <3>1. IsList(old) /\ N \in Nat /\ DOMAIN old = 1..N
      BY LongerIs DEF HasShape
    <3>2. N # 0
      BY <1>2 DEF HasShape, IsList
    <3> QED BY <3>1, <3>2 DEF HasShape
  <2> HIDE DEF content, N, old
  <2> DEFINE last == [old[N] EXCEPT !.content = content]
  <2>3. DOMAIN last = SectionParts /\ SameBones(last, old[N])
    <3>1. DOMAIN old[N] = SectionParts
      BY <2>2
    <3> DEFINE section == old[N]
    <3> HIDE DEF section
    <3>2. DOMAIN section = SectionParts => /\ DOMAIN [section EXCEPT !.content = content] = SectionParts
                                           /\ SameBones([section EXCEPT !.content = content], section)
      BY DEF SectionParts, SameBones
    <3> QED BY <3>1, <3>2 DEF section
  <2> HIDE DEF last
  <2>4. /\ sections = [i \in 1..N |-> IF i = N THEN last ELSE old[i]]
    BY <2>2 DEF last
  <2>5. /\ IsList(sections) /\ Len(sections) = N
        /\ \A i \in 1..N : sections[i] = IF i = N THEN last ELSE old[i]
    <3> DEFINE A == Range(old) \cup {last}
    <3>1. \A i \in 1..N : (IF i = N THEN last ELSE old[i]) \in A
      BY <2>2 DEF Range
    <3> HIDE DEF A, sections
    <3>2. sections \in Seq(A) /\ Len(sections) = N
      BY <2>2, <2>4, <3>1
    <3> QED BY <2>4, <3>2, ListIs
  <2> HIDE DEF sections
  <2>6. /\ DOMAIN v = Parts /\ v.sections = sections /\ v.stack = w.stack
        /\ v.pending = w.pending /\ v.items = w.items
    <3>1. DOMAIN w = Parts
      BY DEF HasShape, IsWalk
    <3> HIDE DEF v
    <3> QED BY <2>1, <3>1 DEF Parts
  <2> HIDE DEF v
  <2>7. ASSUME NEW i \in 1..N
        PROVE  SameBones(sections[i], old[i]) /\ DOMAIN sections[i] = SectionParts
    <3>1. CASE i = N
      BY <2>3, <2>5, <3>1
    <3>2. CASE i # N
      BY <2>2, <2>5, <3>2 DEF SameBones
    <3> QED BY <3>1, <3>2
  <2>8. IsList(v.pending) /\ IsRun(v.items)
    BY <2>6 DEF HasShape
  <2>9. Keeps(w, v)
    BY <2>5, <2>6, <2>7, <2>8 DEF Keeps, HasShape, IsWalk, N, old
  <2> QED BY <2>9 DEF v
<1> QED BY <1>1, <1>2

\* So are blocks, one after the other.
LEMMA AppendsKeep ==
  ASSUME NEW w, HasShape(w), NEW list, IsList(list)
  PROVE  Keeps(w, FoldLeft(AppendBlock, w, list))
<1> DEFINE N == Len(list)
<1>1. PICK f : TakenEach(f, Filing, w, list) /\ FoldLeft(AppendBlock, w, list) = f[1..N]
  BY AppendsAre
<1>2. f[1..0] = w /\ \A k \in 1..N : f[1..k] = AppendBlock(f[1..(k - 1)], list[k])
  <2>1. f[1..0] = w /\ \A k \in 1..N : f[1..k] = Taken(Filing, f[1..(k - 1)], list[k])
    BY <1>1, TakenSteps
  <2> QED BY <2>1 DEF Taken, Filing
<1>3. N \in Nat
  BY DEF IsList
<1> HIDE DEF N
<1> DEFINE good == {k \in 0..N : Keeps(w, f[1..k])}
<1>4. 0 \in good
  <2>1. Keeps(w, w)
    BY KeepsSame DEF HasShape, IsWalk
  <2> QED BY <1>2, <1>3, <2>1
<1>5. ASSUME NEW k \in 1..N, k - 1 \in good PROVE k \in good
  <2> DEFINE v == f[1..(k - 1)]
  <2>1. Keeps(w, v)
    BY <1>5
  <2>2. HasShape(v)
    BY <2>1 DEF Keeps
  <2>3. f[1..k] = AppendBlock(v, list[k])
    BY <1>2
  <2> HIDE DEF v
  <2>4. Keeps(v, AppendBlock(v, list[k]))
    BY <2>2, AppendBlockKeeps
  <2>5. Keeps(w, f[1..k])
    BY <2>1, <2>3, <2>4, KeepsOn
  <2> QED BY <1>3, <2>5
<1>6. N \in good
  <2> HIDE DEF good
  <2>1. 0..N \subseteq good
    BY <1>3, <1>4, <1>5, StepByStep
  <2> QED BY <1>3, <2>1
<1> QED BY <1>1, <1>6

\* A list ended is filed.
LEMMA CloseListKeeps ==
  ASSUME NEW w, HasShape(w)
  PROVE  Keeps(w, CloseList(w))
<1> DEFINE listed == IF w.items = <<>> THEN w ELSE AppendBlock(w, ListBlock(w.items))
           filed == FoldLeft(AppendBlock, listed, w.pending)
           v == CloseList(w)
<1>1. v = [filed EXCEPT !.items = <<>>, !.pending = <<>>]
  BY DEF CloseList
<1>2. Keeps(w, listed)
  <2>1. Keeps(w, w)
    BY KeepsSame DEF HasShape, IsWalk
  <2> QED BY <2>1, AppendBlockKeeps
<1> HIDE DEF listed
<1>3. Keeps(listed, filed)
  <2>1. HasShape(listed) /\ IsList(w.pending)
    BY <1>2 DEF Keeps, HasShape
  <2> QED BY <2>1, AppendsKeep
<1> HIDE DEF filed
<1>4. HasShape(filed)
  BY <1>3 DEF Keeps
<1> HIDE DEF v
<1>5. /\ DOMAIN v = Parts /\ v.sections = filed.sections /\ v.stack = filed.stack
      /\ v.pending = <<>> /\ v.items = <<>>
  <2>1. DOMAIN filed = Parts
    BY <1>4 DEF HasShape, IsWalk
  <2> QED BY <1>1, <2>1 DEF Parts
<1>6. IsList(v.pending) /\ IsRun(v.items)
  <2>1. <<>> \in Seq({})
    OBVIOUS
  <2> QED BY <1>5, <2>1, ListIs, NoRun
<1>7. Keeps(filed, v)
  BY <1>4, <1>5, <1>6, KeepsSame
<1>8. Keeps(w, filed)
  BY <1>2, <1>3, KeepsOn
<1>9. Keeps(w, v)
  BY <1>7, <1>8, KeepsOn
<1> QED BY <1>9 DEF v

\* A box is filed, or held for the next item.
LEMMA TakeBoxKeeps ==
  ASSUME NEW w, HasShape(w), NEW block
  PROVE  Keeps(w, TakeBox(w, block))
<1>0. DOMAIN w = Parts /\ IsList(w.pending) /\ IsRun(w.items)
  BY DEF HasShape, IsWalk
<1>1. CASE w.items = <<>>
  <2>1. TakeBox(w, block) = AppendBlock(CloseList(w), block)
    BY <1>1 DEF TakeBox
  <2>2. Keeps(w, CloseList(w))
    BY CloseListKeeps
  <2>3. Keeps(CloseList(w), AppendBlock(CloseList(w), block))
    BY <2>2, AppendBlockKeeps DEF Keeps
  <2> QED BY <2>1, <2>2, <2>3, KeepsOn
<1>2. CASE w.items # <<>> /\ w.pending # <<>>
  <2> DEFINE v == TakeBox(w, block)
             pending == Append(w.pending, block)
  <2>1. v = [w EXCEPT !.pending = pending]
    BY <1>2 DEF TakeBox
  <2>2. IsList(pending)
    BY <1>0, LongerIs
  <2> HIDE DEF v, pending
  <2>3. /\ DOMAIN v = Parts /\ v.sections = w.sections /\ v.stack = w.stack
        /\ v.pending = pending /\ v.items = w.items
    BY <1>0, <2>1 DEF Parts
  <2>4. Keeps(w, v)
    BY <1>0, <2>2, <2>3, KeepsSame
  <2> QED BY <2>4 DEF v
<1>3. CASE w.items # <<>> /\ w.pending = <<>>
  <2> DEFINE v == TakeBox(w, block)
             items == Append(w.items, Continuation(block))
  <2>1. v = [w EXCEPT !.items = items]
    BY <1>3 DEF TakeBox
  <2>r. IsRun(items)
    BY <1>0, ContinuationIs, RunLonger
  <2> HIDE DEF v, items
  <2>2. /\ DOMAIN v = Parts /\ v.sections = w.sections /\ v.stack = w.stack
        /\ v.pending = w.pending /\ v.items = items
    BY <1>0, <2>1 DEF Parts
  <2>3. Keeps(w, v)
    BY <1>0, <2>2, <2>r, KeepsSame
  <2> QED BY <2>3 DEF v
<1> QED BY <1>1, <1>2, <1>3

\* A run of bordered paragraphs ended is filed, or held.
LEMMA CloseBoxKeeps ==
  ASSUME NEW w, HasShape(w)
  PROVE  Keeps(w, CloseBox(w))
<1>1. CASE w.boxed = <<>>
  <2>1. CloseBox(w) = w
    BY <1>1 DEF CloseBox
  <2> QED BY <2>1, KeepsSame DEF HasShape, IsWalk
<1>2. CASE w.boxed # <<>>
  <2> DEFINE v == [w EXCEPT !.boxed = <<>>]
  <2>1. CloseBox(w) = TakeBox(v, Quote(w.boxed))
    BY <1>2 DEF CloseBox
  <2>2. /\ DOMAIN v = Parts /\ v.sections = w.sections /\ v.stack = w.stack
        /\ IsList(v.pending) /\ IsRun(v.items)
    <3>1. DOMAIN w = Parts /\ IsList(w.pending) /\ IsRun(w.items)
      BY DEF HasShape, IsWalk
    <3>2. v.pending = w.pending /\ v.items = w.items
      BY <3>1 DEF Parts
    <3>3. DOMAIN v = Parts /\ v.sections = w.sections /\ v.stack = w.stack
      BY <3>1 DEF Parts
    <3> HIDE DEF v
    <3> QED BY <3>1, <3>2, <3>3
  <2> HIDE DEF v
  <2>3. Keeps(w, v)
    BY <2>2, KeepsSame
  <2>4. Keeps(v, TakeBox(v, Quote(w.boxed)))
    BY <2>3, TakeBoxKeeps DEF Keeps
  <2> QED BY <2>1, <2>3, <2>4, KeepsOn
<1> QED BY <1>1, <1>2

\* A step that leaves sections, stack, the run and what is held alone.
Untouched(v, w) ==
  /\ DOMAIN v = Parts /\ v.sections = w.sections /\ v.stack = w.stack
  /\ v.pending = w.pending /\ v.items = w.items

\* Such a step keeps.
LEMMA UntouchedKeeps ==
  ASSUME NEW w, NEW x, Keeps(w, x), NEW v, Untouched(v, x)
  PROVE  Keeps(w, v)
<1>1. HasShape(x)
  BY DEF Keeps
<1>2. Keeps(x, v)
  BY <1>1, KeepsSame DEF Untouched, HasShape
<1> QED BY <1>2, KeepsOn

\* No step at all keeps.
LEMMA SelfKeeps ==
  ASSUME NEW w, HasShape(w)
  PROVE  Keeps(w, w)
BY KeepsSame DEF HasShape, IsWalk

\* A bordered paragraph is held in its run.
LEMMA TakeBorderedKeeps ==
  ASSUME NEW w, HasShape(w), NEW p
  PROVE  Keeps(w, [TakeBordered(w, p) EXCEPT !.opened = <<>>])
<1> DEFINE apart == w.boxed # <<>> /\ Signature(p) # Signature(Last(w.boxed))
           x == IF apart THEN CloseBox(w) ELSE w
           boxed == Append(x.boxed, p)
           y == [x EXCEPT !.boxed = boxed]
           v == [y EXCEPT !.opened = <<>>]
<1>1. TakeBordered(w, p) = y
  BY DEF TakeBordered
<1>2. Keeps(w, x)
  BY SelfKeeps, CloseBoxKeeps
<1> HIDE DEF x, boxed
<1>3. Untouched(v, x)
  <2>1. DOMAIN x = Parts
    BY <1>2 DEF Keeps, HasShape, IsWalk
  <2>2. /\ DOMAIN y = Parts /\ y.sections = x.sections /\ y.stack = x.stack
        /\ y.pending = x.pending /\ y.items = x.items
    BY <2>1 DEF Parts
  <2> HIDE DEF y
  <2>3. /\ DOMAIN v = Parts /\ v.sections = y.sections /\ v.stack = y.stack
        /\ v.pending = y.pending /\ v.items = y.items
    BY <2>2 DEF Parts
  <2> HIDE DEF v
  <2> QED BY <2>2, <2>3 DEF Untouched
<1> HIDE DEF v
<1>4. Keeps(w, v)
  BY <1>2, <1>3, UntouchedKeeps
<1> QED BY <1>1, <1>4 DEF v

\* What is held for an item is handed to it.
LEMMA TakePendingKeeps ==
  ASSUME NEW w, HasShape(w), NEW item
  PROVE  Keeps(w, TakePending(w, item))
<1>1. CASE w.pending = <<>>
  BY <1>1, SelfKeeps DEF TakePending
<1>2. CASE w.pending # <<>> /\ IsDeeper(item, Floor(w))
  <2> DEFINE items == w.items \o [i \in DOMAIN w.pending |-> Continuation(w.pending[i])]
             v == [w EXCEPT !.items = items, !.pending = <<>>]
  <2>1. TakePending(w, item) = v
    BY <1>2 DEF TakePending
  <2>r. IsRun(items)
    BY HeldIsRun DEF HasShape
  <2> HIDE DEF items
  <2>2. DOMAIN w = Parts
    BY DEF HasShape, IsWalk
  <2>3. /\ DOMAIN v = Parts /\ v.sections = w.sections /\ v.stack = w.stack
        /\ v.pending = <<>> /\ v.items = items
    BY <2>2 DEF Parts
  <2> HIDE DEF v
  <2>4. IsList(v.pending)
    <3>1. <<>> \in Seq({})
      OBVIOUS
    <3> QED BY <2>3, <3>1, ListIs
  <2>5. Keeps(w, v)
    BY <2>3, <2>4, <2>r, KeepsSame
  <2> QED BY <2>1, <2>5
<1>3. CASE w.pending # <<>> /\ ~IsDeeper(item, Floor(w))
  <2>1. TakePending(w, item) = CloseList(w)
    BY <1>3 DEF TakePending
  <2> QED BY <2>1, CloseListKeeps
<1> QED BY <1>1, <1>2, <1>3

\* What a document says of an item, where a paragraph is one: its indent is a number,
\* the paragraph's own or what its list declares.
LEMMA ItemIsMarked ==
  ASSUME NEW p, IsPart(p)
  PROVE  ListItem(p) # <<>> => IsMarked(ListItem(p)[1])
<1> DEFINE numId == Effective(p.own.numId, p.style.numId)
           level == Head(Effective(p.own.ilvl, p.style.ilvl) \o <<0>>)
           number == numId[1]
           declared == DeclaredAt(number, level)
           marker == Marker(number, level)
           ordered == IsOrdered(number, level)
           indent == Indent(p, number, level)
           item == [indent |-> indent, ordered |-> ordered,
                    marker |-> marker.marker, rank |-> marker.rank]
<1>1. ListItem(p) = IF numId \in {<<>>, <<NUMBERING_REMOVED>>} THEN <<>> ELSE << item >>
  BY DEF ListItem
<1> HIDE DEF numId, level
<1>2. declared = <<>> \/ declared[1].indent \in Seq(Int)
  <2> DEFINE declares == DeclaredLevels(number)
             some == {entry \in Range(declares) : entry.ilvl = level}
  <2>1. /\ declares \in Seq(Range(declares))
        /\ \A entry \in Range(declares) : entry.indent \in Seq(Int)
    <3> HIDE DEF number
    <3>1. CASE number \in DOMAIN Declared
      <4>1. declares = Declared[number]
        BY <3>1 DEF DeclaredLevels
      <4> QED BY <3>1, <4>1, DeclaredAssumption
    <3>2. CASE number \notin DOMAIN Declared
      <4>1. declares = <<>>
        BY <3>2 DEF DeclaredLevels
      <4>2. <<>> \in Seq({}) /\ Range(<<>>) = {}
        BY DEF Range
      <4>3. <<>> \in Seq(Range(<<>>))
        BY <4>2
      <4> QED BY <4>1, <4>2, <4>3
    <3> QED BY <3>1, <3>2
  <2>2. declared = Only(declares, some)
    BY DEF DeclaredAt
  <2> HIDE DEF declares, some, declared
  <2>3. declared \in Seq(Range(declares)) /\ Range(declared) = Range(declares) \cap some
    BY <2>1, <2>2, OnlyKeeps
  <2>4. declared # <<>> => declared[1] \in Range(declares)
    BY <2>3
  <2> QED BY <2>1, <2>4
<1> DEFINE lists == IF declared = <<>> THEN <<>> ELSE declared[1].indent
           indents == p.own.indent \o lists \o <<0>>
<1>3. indent \in Int
  <2>1. indent = Head(indents)
    BY DEF Indent
  <2>2. p.own.indent \in Seq(Int)
    BY DEF IsPart
  <2>3. lists \in Seq(Int)
    BY <1>2
  <2> DEFINE own == p.own.indent
  <2> HIDE DEF lists, own, indent
  <2>4. own \o lists \in Seq(Int) /\ <<0>> \in Seq(Int) /\ Len(<<0>>) = 1
    BY <2>2, <2>3 DEF own
  <2> DEFINE both == own \o lists
  <2> HIDE DEF both
  <2>5. both \o <<0>> \in Seq(Int) /\ Len(both \o <<0>>) = Len(both) + 1 /\ Len(both) \in Nat
    BY <2>4 DEF both
  <2>6. Head(both \o <<0>>) = (both \o <<0>>)[1] /\ 1 \in 1..Len(both \o <<0>>)
    BY <2>5
  <2>7. Head(both \o <<0>>) \in Int
    BY <2>5, <2>6
  <2> QED BY <2>1, <2>7 DEF own, both
<1>4. ordered \in BOOLEAN
  BY DEF IsOrdered
<1>5. marker.rank \in Int
  <2> DEFINE glyph == declared[1].glyph
             rank == IF glyph \in DOMAIN BULLET_RANKS THEN BULLET_RANKS[glyph] ELSE NoRank
  <2>1. rank \in Int
    BY DEF BULLET_RANKS, NoRank
  <2>2. \/ marker = [marker |-> "bullet", rank |-> NoRank]
        \/ marker = [marker |-> declared[1].format, rank |-> NoRank]
        \/ marker = [marker |-> glyph, rank |-> rank]
    BY DEF Marker
  <2> HIDE DEF rank, glyph, declared, marker
  <2> QED BY <2>1, <2>2 DEF NoRank
<1>6. IsMarked(item)
  <2> HIDE DEF marker, indent, ordered
  <2> QED BY <1>3, <1>4, <1>5 DEF IsMarked
<1>7. ListItem(p) # <<>> => ListItem(p)[1] = item
  <2> HIDE DEF item
  <2> QED BY <1>1 DEF item
<1> HIDE DEF item
<1> QED BY <1>6, <1>7

\* Prose and items are filed, or held.
LEMMA CollectBodyKeeps ==
  ASSUME NEW w, HasShape(w), NEW p, IsParagraph(p)
  PROVE  Keeps(w, CollectBody(w, p))
<1> DEFINE item  == ListItem(p)
           block == Block("prose", Text(p))
           v == CollectBody(w, p)
<1>0. DOMAIN w = Parts /\ IsList(w.pending) /\ IsRun(w.items)
  BY DEF HasShape, IsWalk
<1>1. CASE p.kind = "toc"
  <2>1. v = CloseList(w)
    BY <1>1 DEF CollectBody
  <2> QED BY <2>1, CloseListKeeps
<1>2. CASE p.kind # "toc" /\ item # <<>>
  <2> DEFINE x == TakePending(w, item[1])
             entry == [item |-> item, text |-> Text(p)]
             items == Append(x.items, entry)
             y == [x EXCEPT !.items = items]
  <2>1. v = y
    BY <1>2 DEF CollectBody
  <2>2. Keeps(w, x)
    BY TakePendingKeeps
  <2> HIDE DEF x
  <2>3. DOMAIN x = Parts /\ HasShape(x) /\ IsList(x.pending) /\ IsRun(x.items)
    BY <2>2 DEF Keeps, HasShape, IsWalk
  <2>r. IsRun(items)
    <3>1. IsEntry(entry)
      BY ItemIsMarked DEF IsEntry, IsParagraph
    <3> HIDE DEF entry
    <3> QED BY <2>3, <3>1, RunLonger
  <2> HIDE DEF items
  <2>4. /\ DOMAIN y = Parts /\ y.sections = x.sections /\ y.stack = x.stack
        /\ y.pending = x.pending /\ y.items = items
    BY <2>3 DEF Parts
  <2> HIDE DEF y
  <2>5. Keeps(x, y)
    BY <2>3, <2>4, <2>r, KeepsSame
  <2>6. Keeps(w, y)
    BY <2>2, <2>5, KeepsOn
  <2> QED BY <2>1, <2>6
<1>3. CASE p.kind # "toc" /\ item = <<>> /\ block = NoBlock
  <2>1. v = w
    BY <1>3 DEF CollectBody
  <2> QED BY <2>1, SelfKeeps
<1>4. CASE p.kind # "toc" /\ item = <<>> /\ block # NoBlock /\ w.items # <<>>
  <2> DEFINE pending == Append(w.pending, block)
             y == [w EXCEPT !.pending = pending]
  <2>1. v = y
    BY <1>4 DEF CollectBody
  <2>2. IsList(pending)
    <3> HIDE DEF block
    <3> QED BY <1>0, LongerIs
  <2> HIDE DEF pending
  <2>3. /\ DOMAIN y = Parts /\ y.sections = w.sections /\ y.stack = w.stack
        /\ y.pending = pending /\ y.items = w.items
    BY <1>0 DEF Parts
  <2> HIDE DEF y
  <2>4. Keeps(w, y)
    BY <1>0, <2>2, <2>3, KeepsSame
  <2> QED BY <2>1, <2>4
<1>5. CASE p.kind # "toc" /\ item = <<>> /\ block # NoBlock /\ w.items = <<>>
  <2>1. v = AppendBlock(w, block)
    BY <1>5 DEF CollectBody
  <2> QED BY <2>1, AppendBlockKeeps
<1> QED BY <1>1, <1>2, <1>3, <1>4, <1>5

\* The boxes a paragraph anchors are a list.
LEMMA AnchoredIsList ==
  ASSUME NEW p, IsParagraph(p)
  PROVE  IsList(AnchoredIn(p)) /\ AreBoxes(AnchoredIn(p))
<1> DEFINE N == Len(p.shapes)
           boxes(i) == IF p.shapes[i].choices # <<>> THEN p.shapes[i].choices[1] ELSE p.shapes[i].fallback
           seqs == [i \in 1..N |-> boxes(i)]
           A == UNION {Range(boxes(i)) : i \in 1..N}
<1>1. N \in Nat /\ DOMAIN p.shapes = 1..N /\ \A i \in 1..N : IsShape(p.shapes[i])
  <2>1. IsList(p.shapes) /\ \A shape \in Range(p.shapes) : IsShape(shape)
    BY DEF IsParagraph, IsList
  <2>2. N \in Nat /\ DOMAIN p.shapes = 1..N
    BY <2>1, LongerIs
  <2>3. \A i \in 1..N : p.shapes[i] \in Range(p.shapes)
    BY <2>2 DEF Range
  <2> QED BY <2>1, <2>2, <2>3
<1>2. AnchoredIn(p) = FlattenSeq(seqs)
  BY <1>1 DEF AnchoredIn
<1> HIDE DEF N
<1>3. ASSUME NEW i \in 1..N PROVE AreBoxes(boxes(i))
  <2> DEFINE shape == p.shapes[i]
             choices == shape.choices
             fallback == shape.fallback
  <2>1. IsList(choices) /\ AreBoxes(fallback) /\ \A choice \in Range(choices) : AreBoxes(choice)
    BY <1>1 DEF IsShape, IsList
  <2>2. boxes(i) = IF choices # <<>> THEN choices[1] ELSE fallback
    OBVIOUS
  <2> HIDE DEF choices, fallback, boxes
  <2>3. CASE choices # <<>>
    <3>1. 1 \in DOMAIN choices
      <4>1. Len(choices) \in Nat /\ DOMAIN choices = 1..Len(choices) /\ Len(choices) # 0
        BY <2>1, <2>3 DEF IsList
      <4> QED BY <4>1
    <3>2. choices[1] \in Range(choices)
      BY <3>1 DEF Range
    <3> QED BY <2>1, <2>2, <2>3, <3>2
  <2>4. CASE choices = <<>>
    BY <2>1, <2>2, <2>4
  <2> QED BY <2>3, <2>4
<1>4. \A i \in 1..N : boxes(i) \in Seq(A)
  <2> SUFFICES ASSUME NEW i \in 1..N PROVE boxes(i) \in Seq(A)
    OBVIOUS
  <2> DEFINE b == boxes(i)
  <2>1. IsList(b) /\ Range(b) \subseteq A
    BY <1>3 DEF AreBoxes, IsList
  <2> HIDE DEF b, A
  <2>2. b \in Seq(A)
    BY <2>1 DEF IsList
  <2> QED BY <2>2 DEF b
<1>5. \A box \in A : ArePartsIn(box)
  BY <1>3 DEF AreBoxes
<1> HIDE DEF A, boxes
<1>6. seqs \in Seq(Seq(A))
  BY <1>1, <1>4
<1> DEFINE all == FlattenSeq(seqs)
<1>7. all \in Seq(A)
  BY <1>6, FlattenIs
<1>8. AnchoredIn(p) = all
  BY <1>2
<1> HIDE DEF all
<1>9. IsList(all)
  BY <1>7, ListIs
<1>10. \A box \in Range(all) : ArePartsIn(box)
  BY <1>5, <1>7 DEF Range
<1>11. AreBoxes(all)
  BY <1>9, <1>10 DEF AreBoxes, IsList
<1> QED BY <1>8, <1>9, <1>11

\* The boxes a paragraph anchors are filed, or held, one after the other.
LEMMA TakeAnchoredKeeps ==
  ASSUME NEW w, HasShape(w), NEW p, IsParagraph(p)
  PROVE  Keeps(w, TakeAnchored(w, p))
<1> DEFINE list == AnchoredIn(p)
           N == Len(list)
           n == p.n
<1>0. IsList(list)
  BY AnchoredIsList
<1>1. PICK f : TakenEach(f, BoxesAt(n), w, list) /\ TakeAnchored(w, p) = f[1..N]
  BY <1>0, BoxesAre
<1> HIDE DEF list, n
<1>2. /\ f[1..0] = w
      /\ \A k \in 1..N : f[1..k] = TakeBox(CloseBox(f[1..(k - 1)]), Quote(Placed(n, list[k])))
  <2>1. f[1..0] = w /\ \A k \in 1..N : f[1..k] = Taken(BoxesAt(n), f[1..(k - 1)], list[k])
    BY <1>0, <1>1, TakenSteps
  <2> QED BY <2>1 DEF Taken, BoxesAt
<1>3. N \in Nat
  BY <1>0 DEF IsList
<1> HIDE DEF N
<1> DEFINE good == {k \in 0..N : Keeps(w, f[1..k])}
<1>4. 0 \in good
  BY <1>2, <1>3, SelfKeeps
<1>5. ASSUME NEW k \in 1..N, k - 1 \in good PROVE k \in good
  <2> DEFINE v == f[1..(k - 1)]
             block == Quote(Placed(n, list[k]))
  <2>1. Keeps(w, v)
    BY <1>5
  <2>2. f[1..k] = TakeBox(CloseBox(v), block)
    BY <1>2
  <2> HIDE DEF v, block
  <2>3. HasShape(v)
    BY <2>1 DEF Keeps
  <2>4. Keeps(v, CloseBox(v))
    BY <2>3, CloseBoxKeeps
  <2>5. HasShape(CloseBox(v))
    BY <2>4 DEF Keeps
  <2>6. Keeps(CloseBox(v), TakeBox(CloseBox(v), block))
    BY <2>5, TakeBoxKeeps
  <2>7. Keeps(w, f[1..k])
    <3>1. Keeps(w, CloseBox(v))
      BY <2>1, <2>4, KeepsOn
    <3> QED BY <2>2, <2>6, <3>1, KeepsOn
  <2> QED BY <1>3, <2>7
<1>6. N \in good
  <2> HIDE DEF good
  <2>1. 0..N \subseteq good
    BY <1>3, <1>4, <1>5, StepByStep
  <2> QED BY <1>3, <2>1
<1> QED BY <1>1, <1>6

\* Sections kept are where the headings put them.
LEMMA KeepsOutlined ==
  ASSUME NEW w, NEW v, Keeps(w, v), NEW o, Outlined(w.sections, o), Stacked(w.stack, o)
  PROVE  Outlined(v.sections, o) /\ Stacked(v.stack, o)
<1>1. /\ IsList(v.sections) /\ Len(v.sections) = Len(o) /\ v.stack = w.stack
      /\ \A i \in 1..Len(o) : SameBones(v.sections[i], w.sections[i])
  BY DEF Keeps, HasShape, Outlined
<1>2. Outlined(v.sections, o)
  BY <1>1 DEF Outlined, SameBones
<1> QED BY <1>1, <1>2

-----------------------------------------------------------------------------
(* The headings of a body                                                  *)

\* The headings among the elements, and what each says of its section.
HeadingAt(elements, n) == elements[n].is = "paragraph" /\ HeadingLevel(elements[n]) > 0
HeadingsIn(elements) ==
  Only([n \in DOMAIN elements |-> n], {n \in DOMAIN elements : HeadingAt(elements, n)})
OpeningOf(elements) == [i \in DOMAIN HeadingsIn(elements) |-> Opens(elements[HeadingsIn(elements)[i]])]

\* They are elements of the body, each a heading.
LEMMA HeadingsAre ==
  ASSUME NEW elements, IsList(elements)
  PROVE  /\ HeadingsIn(elements) \in Seq(Nat)
         /\ Len(HeadingsIn(elements)) \in Nat /\ DOMAIN HeadingsIn(elements) = 1..Len(HeadingsIn(elements))
         /\ \A i \in DOMAIN HeadingsIn(elements) :
              HeadingsIn(elements)[i] \in 1..Len(elements) /\ HeadingAt(elements, HeadingsIn(elements)[i])
<1> DEFINE N == Len(elements)
           list == [n \in DOMAIN elements |-> n]
           some == {n \in DOMAIN elements : HeadingAt(elements, n)}
           found == HeadingsIn(elements)
<1>1. N \in Nat /\ DOMAIN elements = 1..N
  BY LongerIs
<1>2. list \in Seq(Nat)
  BY <1>1
<1>3. found = Only(list, some)
  BY DEF HeadingsIn
<1> HIDE DEF list, some, found
<1>4. found \in Seq(Nat) /\ Range(found) = Range(list) \cap some
  BY <1>2, <1>3, OnlyKeeps
<1>5. Len(found) \in Nat /\ DOMAIN found = 1..Len(found)
  BY <1>4
<1>6. \A i \in DOMAIN found : found[i] \in some
  BY <1>4 DEF Range
<1> QED BY <1>1, <1>4, <1>5, <1>6 DEF some, found

\* An element more is a heading more at the end, or none.
LEMMA HeadingsLonger ==
  ASSUME NEW elements, IsList(elements), NEW e
  PROVE  HeadingsIn(Append(elements, e)) =
           IF e.is = "paragraph" /\ HeadingLevel(e) > 0
             THEN Append(HeadingsIn(elements), Len(elements) + 1) ELSE HeadingsIn(elements)
<1> DEFINE N == Len(elements)
           longer == Append(elements, e)
           list == [n \in 1..N |-> n]
           more == [n \in 1..(N + 1) |-> n]
           some == {n \in 1..N : HeadingAt(elements, n)}
           others == {n \in 1..(N + 1) : HeadingAt(longer, n)}
           opens == e.is = "paragraph" /\ HeadingLevel(e) > 0
<1>1. /\ N \in Nat /\ DOMAIN elements = 1..N /\ DOMAIN longer = 1..(N + 1)
      /\ \A n \in 1..N : longer[n] = elements[n]
      /\ longer[N + 1] = e
  BY LongerIs
<1>2. HeadingsIn(elements) = Only(list, some) /\ HeadingsIn(longer) = Only(more, others)
  BY <1>1 DEF HeadingsIn
<1>3. /\ \A n \in 1..N : n \in others <=> n \in some
      /\ N + 1 \in others <=> opens
  BY <1>1 DEF HeadingAt
<1> HIDE DEF N, longer, some, others, opens
<1>4. list \in Seq(Nat) /\ N + 1 \in Nat /\ Range(list) = 1..N
  <2>1. \A n \in 1..N : n \in Nat
    BY <1>1
  <2> QED BY <1>1, <2>1 DEF Range
<1>5. more = Append(list, N + 1)
  <2>1. Append(list, N + 1) \in Seq(Nat) /\ Len(Append(list, N + 1)) = N + 1
    BY <1>1, <1>4
  <2>2. \A n \in 1..(N + 1) : Append(list, N + 1)[n] = n
    BY <1>1
  <2> DEFINE one == Append(list, N + 1)
  <2>3. one \in Seq(Nat) /\ Len(one) = N + 1 /\ \A n \in 1..(N + 1) : one[n] = n
    BY <2>1, <2>2
  <2> HIDE DEF one
  <2>4. one = [n \in 1..(N + 1) |-> n]
    BY <2>3
  <2> QED BY <2>4 DEF one
<1> HIDE DEF more, list
<1>6. Only(list, others) = Only(list, some)
  <2>1. Range(list) \cap others = Range(list) \cap some
    BY <1>3, <1>4
  <2> QED BY <1>4, <2>1, OnlySame
<1>7. Only(more, others) = IF N + 1 \in others THEN Append(Only(list, others), N + 1) ELSE Only(list, others)
  <2> DEFINE next == N + 1
  <2>1. list \in Seq(Nat) /\ next \in Nat
    BY <1>4
  <2>2. more = Append(list, next)
    BY <1>5
  <2> HIDE DEF next
  <2>3. Only(Append(list, next), others) =
          IF next \in others THEN Append(Only(list, others), next) ELSE Only(list, others)
    BY <2>1, OnlyLonger
  <2>4. Only(more, others) = IF next \in others THEN Append(Only(list, others), next) ELSE Only(list, others)
    BY <2>2, <2>3
  <2> QED BY <2>4 DEF next
<1>8. HeadingsIn(longer) = IF opens THEN Append(HeadingsIn(elements), N + 1) ELSE HeadingsIn(elements)
  <2>1. CASE opens
    BY <1>2, <1>3, <1>6, <1>7, <2>1
  <2>2. CASE ~opens
    BY <1>2, <1>3, <1>6, <1>7, <2>2
  <2> QED BY <2>1, <2>2
<1> QED BY <1>8 DEF longer, opens, N

\* What they say is an outline.
LEMMA OpeningIs ==
  ASSUME NEW elements, IsList(elements)
  PROVE  /\ Len(OpeningOf(elements)) = Len(HeadingsIn(elements))
         /\ Len(HeadingsIn(elements)) \in Nat
         /\ DOMAIN HeadingsIn(elements) = 1..Len(HeadingsIn(elements))
         /\ \A i \in 1..Len(HeadingsIn(elements)) :
              OpeningOf(elements)[i] = Opens(elements[HeadingsIn(elements)[i]])
<1> DEFINE found == HeadingsIn(elements)
           opening == OpeningOf(elements)
<1>1. Len(found) \in Nat /\ DOMAIN found = 1..Len(found)
  BY HeadingsAre
<1>2. opening = [i \in DOMAIN found |-> Opens(elements[found[i]])]
  BY DEF OpeningOf
<1> HIDE DEF found, opening
<1>3. opening = [i \in 1..Len(found) |-> Opens(elements[found[i]])]
  BY <1>1, <1>2
<1>4. Len(opening) = Len(found) /\ \A i \in 1..Len(found) : opening[i] = Opens(elements[found[i]])
  <2> DEFINE N == Len(found)
  <2>1. N \in Nat
    BY <1>1
  <2> HIDE DEF N
  <2>2. opening = [i \in 1..N |-> Opens(elements[found[i]])]
    BY <1>3 DEF N
  <2>3. Len(opening) = N
    BY <2>1, <2>2
  <2>4. \A i \in 1..N : opening[i] = Opens(elements[found[i]])
    BY <2>2
  <2> QED BY <2>3, <2>4 DEF N
<1> QED BY <1>1, <1>4 DEF found, opening

\* One more element: one more heading where it is one, else the same.
LEMMA OpeningLonger ==
  ASSUME NEW elements, IsList(elements), NEW e, IsOutline(OpeningOf(elements))
  PROVE  OpeningOf(Append(elements, e)) =
           IF e.is = "paragraph" /\ HeadingLevel(e) > 0
             THEN Append(OpeningOf(elements), Opens(e)) ELSE OpeningOf(elements)
<1> DEFINE N == Len(elements)
           longer == Append(elements, e)
           found == HeadingsIn(elements)
           refound == HeadingsIn(longer)
           opening == OpeningOf(elements)
           reopening == OpeningOf(longer)
           K == Len(found)
<1>1. /\ N \in Nat /\ \A n \in 1..N : longer[n] = elements[n]
      /\ longer[N + 1] = e /\ IsList(longer)
  BY LongerIs
<1>2. /\ found \in Seq(Nat) /\ K \in Nat /\ DOMAIN found = 1..K
      /\ \A i \in 1..K : found[i] \in 1..N
  BY HeadingsAre
<1>3. refound = IF e.is = "paragraph" /\ HeadingLevel(e) > 0 THEN Append(found, N + 1) ELSE found
  BY HeadingsLonger
<1>4. /\ opening = [i \in DOMAIN found |-> Opens(elements[found[i]])]
      /\ reopening = [i \in DOMAIN refound |-> Opens(longer[refound[i]])]
  BY DEF OpeningOf
<1>5. IsList(opening)
  BY DEF IsOutline
<1>6. Len(opening) = K
  BY OpeningIs
<1>x. \A i \in 1..K : opening[i] = Opens(elements[found[i]])
  BY OpeningIs
<1> HIDE DEF longer, found, refound, opening, reopening, N, K
<1>7. CASE e.is = "paragraph" /\ HeadingLevel(e) > 0
  <2> DEFINE grown == Append(opening, Opens(e))
  <2>1. /\ DOMAIN grown = 1..(K + 1) /\ IsList(grown)
        /\ \A i \in 1..K : grown[i] = opening[i]
        /\ grown[K + 1] = Opens(e)
    BY <1>5, <1>6, LongerIs
  <2>2. /\ DOMAIN refound = 1..(K + 1)
        /\ \A i \in 1..K : refound[i] = found[i]
        /\ refound[K + 1] = N + 1
    <3>1. refound = Append(found, N + 1)
      BY <1>3, <1>7
    <3>2. K = Len(found)
      BY DEF K
    <3> QED BY <1>1, <1>2, <3>1, <3>2
  <2> HIDE DEF grown
  <2>3. ASSUME NEW i \in 1..(K + 1) PROVE grown[i] = Opens(longer[refound[i]])
    <3>1. CASE i = K + 1
      BY <1>1, <2>1, <2>2, <3>1
    <3>2. CASE i # K + 1
      <4>1. i \in 1..K
        BY <1>2, <3>2
      <4>2. opening[i] = Opens(elements[found[i]]) /\ longer[found[i]] = elements[found[i]]
        BY <1>1, <1>2, <1>x, <4>1
      <4> QED BY <2>1, <2>2, <4>1, <4>2
    <3> QED BY <3>1, <3>2
  <2>4. grown = [i \in 1..(K + 1) |-> grown[i]]
    <3>1. grown \in Seq(Range(grown)) /\ DOMAIN grown = 1..(K + 1)
      BY <2>1 DEF IsList
    <3> QED BY <3>1
  <2>5. reopening = [i \in 1..(K + 1) |-> Opens(longer[refound[i]])]
    BY <1>4, <2>2
  <2>6. reopening = grown
    <3> DEFINE g(i) == grown[i]
               h(i) == Opens(longer[refound[i]])
    <3>1. \A i \in 1..(K + 1) : g(i) = h(i)
      BY <2>3
    <3>2. grown = [i \in 1..(K + 1) |-> g(i)]
      BY <2>4
    <3>3. reopening = [i \in 1..(K + 1) |-> h(i)]
      BY <2>5
    <3> HIDE DEF g, h
    <3>4. [i \in 1..(K + 1) |-> g(i)] = [i \in 1..(K + 1) |-> h(i)]
      BY <3>1
    <3> QED BY <3>2, <3>3, <3>4
  <2> QED BY <1>7, <2>6 DEF grown, reopening, longer, opening
<1>8. CASE ~(e.is = "paragraph" /\ HeadingLevel(e) > 0)
  <2>1. refound = found
    BY <1>3, <1>8
  <2>2. \A i \in 1..K : longer[found[i]] = elements[found[i]]
    BY <1>1, <1>2
  <2>3. reopening = opening
    BY <1>2, <1>4, <2>1, <2>2
  <2> QED BY <1>8, <2>3 DEF reopening, longer, opening
<1> QED BY <1>7, <1>8

-----------------------------------------------------------------------------
(* The walk over a body                                                    *)

\* Elements that a body of this kind may have, each under its number.
BodyIs(elements) ==
  IsList(elements) /\ \A i \in 1..Len(elements) : elements[i].is = "paragraph" => IsParagraph(elements[i])

\* The walk holds what the headings of the elements make of it.
WalkedOver(w, elements) ==
  /\ HasShape(w) /\ IsOutline(OpeningOf(elements))
  /\ Outlined(w.sections, OpeningOf(elements)) /\ Stacked(w.stack, OpeningOf(elements))

\* The walk has taken the body, whatever it holds besides.
IInv == kind \in DOMAIN Bodies /\ BodyIs(body) /\ WalkedOver(walk, body)

\* No element, no section.
LEMMA InitWalked == Init => IInv
<1> SUFFICES ASSUME Init PROVE IInv
  OBVIOUS
<1> USE DEF Init, WalkInit
<1>0. IsList(<<>>) /\ Len(<<>>) = 0 /\ <<>> \in Seq(Nat)
  <2>1. <<>> \in Seq({}) /\ Len(<<>>) = 0 /\ <<>> \in Seq(Nat)
    OBVIOUS
  <2>2. IsList(<<>>)
    BY <2>1, ListIs
  <2> QED BY <2>1, <2>2
<1>1. kind \in DOMAIN Bodies /\ BodyIs(body)
  BY <1>0 DEF BodyIs
<1> DEFINE o == OpeningOf(<<>>)
<1>2. Len(o) = 0 /\ IsList(o) /\ IsOutline(o)
  <2>1. Len(HeadingsIn(<<>>)) = 0
    <3>1. HeadingsIn(<<>>) \in Seq(Nat)
          /\ \A i \in DOMAIN HeadingsIn(<<>>) : HeadingsIn(<<>>)[i] \in 1..Len(<<>>)
      BY <1>0, HeadingsAre
    <3> QED BY <1>0, <3>1
  <2>2. Len(o) = 0 /\ DOMAIN HeadingsIn(<<>>) = 1..0
    BY <1>0, <2>1, OpeningIs
  <2>3. o = <<>>
    <3>1. o = [i \in 1..0 |-> Opens(<<>>[HeadingsIn(<<>>)[i]])]
      BY <2>2 DEF OpeningOf
    <3> QED BY <3>1
  <2> QED BY <1>0, <2>2, <2>3 DEF IsOutline
<1> DEFINE top == Frame(0, 0)
           stack == <<top>>
<1>3. /\ DOMAIN walk = Parts /\ walk.sections = <<>> /\ walk.stack = stack
      /\ walk.pending = <<>> /\ walk.items = <<>>
  BY DEF Parts
<1>4. HasShape(walk)
  BY <1>0, <1>3, NoRun DEF HasShape, IsWalk
<1> HIDE DEF o
<1>5. Outlined(walk.sections, o)
  BY <1>0, <1>2, <1>3 DEF Outlined
<1>6. /\ top \in Frames /\ top.level = 0 /\ top.section = 0 /\ top.numbered = 0 /\ top.appendices = 0
  BY DEF Frame, Frames
<1> HIDE DEF top
<1>7. stack \in Seq(Frames) /\ Len(stack) = 1 /\ stack[1] = top
  BY <1>6
<1> HIDE DEF stack
<1>8. \A a : Cardinality(Beneaths(o, 0, a)) = 0
  <2>1. \A a : Beneaths(o, 0, a) = {}
    BY <1>2 DEF Beneaths
  <2> QED BY <2>1, FS_EmptySet
<1>9. Stacked(stack, o)
  <2>1. /\ 1..Len(stack) = {1} /\ 2..Len(stack) = {} /\ 1..Len(o) = {} /\ Len(stack) > 0
        /\ stack[1].level = 0 /\ stack[1].section = 0
    BY <1>2, <1>6, <1>7
  <2>2. ASSUME NEW k \in 1..Len(stack)
        PROVE  /\ stack[k].numbered = Cardinality(Beneaths(o, stack[k].section, FALSE))
               /\ stack[k].appendices = Cardinality(Beneaths(o, stack[k].section, TRUE))
    <3>1. k = 1
      BY <2>1
    <3> QED BY <1>6, <1>7, <1>8, <3>1
  <2>3. \A k, l \in 1..Len(stack) : ~(k < l)
    BY <2>1
  <2> QED BY <1>7, <2>1, <2>2, <2>3 DEF Stacked
<1>10. WalkedOver(walk, body)
  BY <1>2, <1>3, <1>4, <1>5, <1>9 DEF WalkedOver, o
<1> QED BY <1>1, <1>10 DEF IInv

\* What is read is of the body's kind.
LEMMA ReadIs ==
  ASSUME IInv, NEW e, Read(e)
  PROVE  /\ e.is = "paragraph" => IsParagraph(e)
         /\ BodyIs(body') /\ Len(body) \in Nat /\ body' = Append(body, e)
<1>1. e \in Bodies[kind].first \cup Bodies[kind].elements
  BY DEF Read
<1>2. e.is = "paragraph" => IsParagraph(e)
  BY <1>1, BodiesAssumption DEF IInv
<1> DEFINE longer == Append(body, e)
<1>3. /\ IsList(longer) /\ Len(longer) = Len(body) + 1 /\ Len(body) \in Nat
      /\ \A i \in 1..Len(body) : longer[i] = body[i]
      /\ longer[Len(body) + 1] = e
  BY LongerIs DEF IInv, BodyIs
<1> HIDE DEF longer
<1>4. ASSUME NEW i \in 1..Len(longer), longer[i].is = "paragraph" PROVE IsParagraph(longer[i])
  <2>1. CASE i = Len(body) + 1
    BY <1>2, <1>3, <1>4, <2>1
  <2>2. CASE i # Len(body) + 1
    <3>1. i \in 1..Len(body)
      BY <1>3, <2>2
    <3>2. longer[i] = body[i]
      BY <1>3, <3>1
    <3>3. body[i].is = "paragraph" => IsParagraph(body[i])
      BY <3>1 DEF IInv, BodyIs
    <3> QED BY <1>4, <3>2, <3>3
  <2> QED BY <2>1, <2>2
<1>5. BodyIs(longer)
  BY <1>3, <1>4 DEF BodyIs
<1>6. body' = longer
  BY DEF Read, longer
<1> QED BY <1>2, <1>3, <1>5, <1>6 DEF longer

\* An element that is no heading keeps the sections and the stack.
LEMMA KeepsWalked ==
  ASSUME NEW w, NEW elements, BodyIs(elements), WalkedOver(w, elements), NEW e,
         ~(e.is = "paragraph" /\ HeadingLevel(e) > 0), NEW v, Keeps(w, v)
  PROVE  WalkedOver(v, Append(elements, e))
<1>1. OpeningOf(Append(elements, e)) = OpeningOf(elements)
  BY OpeningLonger DEF BodyIs, WalkedOver
<1>2. Outlined(v.sections, OpeningOf(elements)) /\ Stacked(v.stack, OpeningOf(elements))
  BY KeepsOutlined DEF WalkedOver
<1> QED BY <1>1, <1>2 DEF WalkedOver, Keeps

\* The level of a heading is a number.
LEMMA LevelIs ==
  ASSUME NEW e, IsParagraph(e)
  PROVE  HeadingLevel(e) \in Nat
BY DEF IsParagraph, HeadingLevel

\* A paragraph numbered is the paragraph.
LEMMA NumberedIs ==
  ASSUME NEW e, IsParagraph(e), NEW n
  PROVE  LET p == [e EXCEPT !.n = n]
         IN  /\ p.n = n /\ IsParagraph(p) /\ HeadingLevel(p) = HeadingLevel(e) /\ Opens(p) = Opens(e)
<1> DEFINE p == [e EXCEPT !.n = n]
<1>1. {"n", "k", "kind", "level", "heading", "says", "own", "shapes"} \subseteq DOMAIN e
  BY DEF IsParagraph, IsPart
<1>2. /\ DOMAIN p = DOMAIN e /\ p.n = n /\ p.kind = e.kind /\ p.level = e.level
      /\ p.heading = e.heading /\ p.says = e.says /\ p.own = e.own /\ p.shapes = e.shapes
  BY <1>1
<1> HIDE DEF p
<1>3. IsParagraph(p)
  BY <1>1, <1>2 DEF IsParagraph, IsPart
<1>4. HeadingLevel(p) = HeadingLevel(e)
  BY <1>2 DEF HeadingLevel
<1>5. Opens(p) = Opens(e)
  BY <1>2, <1>4 DEF Opens
<1> QED BY <1>2, <1>3, <1>4, <1>5 DEF p

\* A heading opens the section it opens, and no other.
LEMMA OpensWalked ==
  ASSUME NEW w, NEW elements, BodyIs(elements), WalkedOver(w, elements),
         NEW e, e.is = "paragraph", IsParagraph(e), HeadingLevel(e) > 0,
         NEW n \in Nat \ {0}, NEW bookmarks
  PROVE  LET p == [e EXCEPT !.n = n]
             opened == OpenSection(CloseList(CloseBox(w)), p)
         IN  WalkedOver(TakeAnchored([opened EXCEPT !.bookmarks = bookmarks, !.opened = <<>>], p),
                        Append(elements, e))
<1> DEFINE p == [e EXCEPT !.n = n]
           x == CloseList(CloseBox(w))
           o == OpeningOf(elements)
           v == OpenSection(x, p)
           y == [v EXCEPT !.bookmarks = bookmarks, !.opened = <<>>]
           longer == Append(o, Opens(e))
<1>1. p.n = n /\ IsParagraph(p) /\ HeadingLevel(p) = HeadingLevel(e) /\ Opens(p) = Opens(e)
  BY NumberedIs
<1>2. HeadingLevel(p) \in Nat \ {0}
  BY <1>1, LevelIs
<1>3. Keeps(w, x)
  <2>1. Keeps(w, CloseBox(w))
    BY CloseBoxKeeps DEF WalkedOver
  <2>2. Keeps(CloseBox(w), x)
    BY <2>1, CloseListKeeps DEF Keeps
  <2> QED BY <2>1, <2>2, KeepsOn
<1>4. Outlined(x.sections, o) /\ Stacked(x.stack, o) /\ IsOutline(o) /\ HasShape(x)
  BY <1>3, KeepsOutlined DEF WalkedOver, Keeps
<1> HIDE DEF p, x, o
<1>5. /\ IsOutline(longer) /\ Outlined(v.sections, longer) /\ Stacked(v.stack, longer)
      /\ IsWalk(v) /\ v.pending = x.pending /\ v.items = x.items
      /\ v.sections = Append(x.sections, v.sections[Len(x.sections) + 1])
      /\ DOMAIN v.sections[Len(x.sections) + 1] = SectionParts
  <2>1. IsWalk(x)
    BY <1>4 DEF HasShape
  <2> QED BY <1>1, <1>2, <1>4, <2>1, OpenSectionOutlines DEF SectionParts
<1> HIDE DEF v, longer
<1>6. HasShape(v)
  <2> DEFINE section == v.sections[Len(x.sections) + 1]
             sections == Append(x.sections, section)
  <2>1. IsList(x.sections)
    BY <1>4 DEF HasShape
  <2>2. /\ IsList(sections) /\ Len(sections) = Len(x.sections) + 1 /\ Len(x.sections) \in Nat
        /\ \A i \in 1..Len(x.sections) : sections[i] = x.sections[i]
        /\ sections[Len(x.sections) + 1] = section
    <3> HIDE DEF section
    <3> QED BY <2>1, LongerIs
  <2>3. v.sections = sections /\ DOMAIN section = SectionParts
    BY <1>5
  <2> HIDE DEF sections, section
  <2>4. ASSUME NEW i \in 1..Len(sections) PROVE DOMAIN sections[i] = SectionParts
    <3>1. CASE i = Len(x.sections) + 1
      BY <2>2, <2>3, <3>1
    <3>2. CASE i # Len(x.sections) + 1
      <4>1. i \in 1..Len(x.sections)
        BY <2>2, <3>2
      <4>2. DOMAIN x.sections[i] = SectionParts
        BY <1>4, <4>1 DEF HasShape
      <4> QED BY <2>2, <4>1, <4>2
    <3> QED BY <3>1, <3>2
  <2> QED BY <1>4, <1>5, <2>2, <2>3, <2>4 DEF HasShape
<1>7. Keeps(v, y)
  <2>1. DOMAIN v = Parts
    BY <1>5 DEF IsWalk
  <2>2. Untouched(y, v)
    BY <2>1 DEF Untouched, Parts
  <2>3. Keeps(v, v)
    BY <1>6, SelfKeeps
  <2> HIDE DEF y
  <2> QED BY <2>2, <2>3, UntouchedKeeps
<1> HIDE DEF y
<1>8. Keeps(v, TakeAnchored(y, p))
  <2>1. HasShape(y) /\ p.n # 0
    BY <1>1, <1>7 DEF Keeps
  <2>2. Keeps(y, TakeAnchored(y, p))
    BY <1>1, <2>1, TakeAnchoredKeeps
  <2> QED BY <1>7, <2>2, KeepsOn
<1>9. OpeningOf(Append(elements, e)) = longer
  BY OpeningLonger DEF BodyIs, WalkedOver, longer, o
<1> DEFINE z == TakeAnchored(y, p)
<1> HIDE DEF z
<1>10. Outlined(z.sections, longer) /\ Stacked(z.stack, longer) /\ HasShape(z)
  <2>1. Keeps(v, z)
    BY <1>8 DEF z
  <2> QED BY <1>5, <2>1, KeepsOutlined DEF Keeps
<1>11. WalkedOver(z, Append(elements, e))
  BY <1>5, <1>9, <1>10 DEF WalkedOver
<1> QED BY <1>11 DEF z, y, v, x, p

\* A bookmark is kept for the heading after it.
LEMMA BookmarkWalked ==
  ASSUME IInv, NEW e, TakeBookmark(e)
  PROVE  IInv'
<1> DEFINE opened == Append(walk.opened, e.name)
           v == [walk EXCEPT !.opened = opened]
<1>1. Read(e) /\ e.is = "bookmark" /\ walk' = v /\ kind' = kind
  BY DEF TakeBookmark
<1>2. BodyIs(body') /\ body' = Append(body, e)
  BY <1>1, ReadIs
<1>3. Keeps(walk, v)
  <2>1. HasShape(walk) /\ DOMAIN walk = Parts
    BY DEF IInv, WalkedOver, HasShape, IsWalk
  <2> HIDE DEF opened
  <2>2. Untouched(v, walk)
    BY <2>1 DEF Untouched, Parts
  <2> HIDE DEF v
  <2> QED BY <2>1, <2>2, SelfKeeps, UntouchedKeeps
<1> HIDE DEF v
<1>4. WalkedOver(v, Append(body, e))
  BY <1>1, <1>3, KeepsWalked DEF IInv
<1> QED BY <1>1, <1>2, <1>4 DEF IInv

\* A table is filed.
LEMMA TableWalked ==
  ASSUME IInv, NEW e, TakeTable(e)
  PROVE  IInv'
<1> DEFINE block == TableMarkdown(Len(body) + 1, e)
           boxless == CloseBox(walk)
           x == CloseList(boxless)
           y == AppendBlock(x, block)
           v == [y EXCEPT !.opened = <<>>]
<1>1. Read(e) /\ e.is = "table" /\ walk' = v /\ kind' = kind
  BY DEF TakeTable
<1>2. BodyIs(body') /\ body' = Append(body, e)
  BY <1>1, ReadIs
<1> HIDE DEF block
<1>3. HasShape(walk)
  BY DEF IInv, WalkedOver
<1>4. Keeps(walk, boxless)
  BY <1>3, CloseBoxKeeps
<1> HIDE DEF boxless
<1>5. Keeps(boxless, x)
  BY <1>4, CloseListKeeps DEF Keeps
<1> HIDE DEF x
<1>6. Keeps(x, y)
  BY <1>5, AppendBlockKeeps DEF Keeps
<1> HIDE DEF y
<1>7. Keeps(walk, y)
  BY <1>4, <1>5, <1>6, KeepsOn
<1>8. Untouched(v, y)
  <2>1. DOMAIN y = Parts
    BY <1>6 DEF Keeps, HasShape, IsWalk
  <2> QED BY <2>1 DEF Untouched, Parts
<1> HIDE DEF v
<1>9. Keeps(walk, v)
  BY <1>7, <1>8, UntouchedKeeps
<1>10. WalkedOver(v, Append(body, e))
  BY <1>1, <1>9, KeepsWalked DEF IInv
<1> QED BY <1>1, <1>2, <1>10 DEF IInv

\* A heading opens its section, once what came before is filed.
LEMMA HeadingWalked ==
  ASSUME IInv, NEW e, TakeHeading(e)
  PROVE  IInv'
<1> DEFINE n == Len(body) + 1
           p == [e EXCEPT !.n = n]
           opened == OpenSection(CloseList(CloseBox(walk)), p)
           claim(bookmarks, name) == Claim(bookmarks, name, Len(opened.sections))
           bookmarks == FoldLeft(claim, opened.bookmarks, walk.opened \o p.names)
           v == TakeAnchored([opened EXCEPT !.bookmarks = bookmarks, !.opened = <<>>], p)
<1>1. Read(e) /\ e.is = "paragraph" /\ HeadingLevel(e) > 0 /\ walk' = v /\ kind' = kind
  BY DEF TakeHeading
<1>2. BodyIs(body') /\ body' = Append(body, e) /\ IsParagraph(e) /\ n \in Nat \ {0}
  BY <1>1, ReadIs
<1> HIDE DEF n, bookmarks
<1>3. WalkedOver(v, Append(body, e))
  BY <1>1, <1>2, OpensWalked DEF IInv
<1> HIDE DEF v
<1> QED BY <1>1, <1>2, <1>3 DEF IInv

\* A paragraph with a border joins its run.
LEMMA BoxedWalked ==
  ASSUME IInv, NEW e, TakeBoxed(e)
  PROVE  IInv'
<1> DEFINE n == Len(body) + 1
           p == [e EXCEPT !.n = n]
           x == [TakeBordered(walk, p) EXCEPT !.opened = <<>>]
           v == TakeAnchored(x, p)
<1>1. Read(e) /\ e.is = "paragraph" /\ HeadingLevel(e) = 0 /\ walk' = v /\ kind' = kind
  BY DEF TakeBoxed
<1>2. BodyIs(body') /\ body' = Append(body, e) /\ IsParagraph(e) /\ n \in Nat \ {0}
  BY <1>1, ReadIs
<1> HIDE DEF n
<1>3. IsParagraph(p) /\ p.n # 0
  BY <1>2, NumberedIs
<1> HIDE DEF p
<1>4. Keeps(walk, x)
  BY TakeBorderedKeeps DEF IInv, WalkedOver
<1> HIDE DEF x
<1>5. Keeps(x, v)
  BY <1>3, <1>4, TakeAnchoredKeeps DEF Keeps
<1> HIDE DEF v
<1>6. Keeps(walk, v)
  BY <1>4, <1>5, KeepsOn
<1>7. WalkedOver(v, Append(body, e))
  BY <1>1, <1>6, KeepsWalked DEF IInv
<1> QED BY <1>1, <1>2, <1>7 DEF IInv

\* Any other paragraph is filed.
LEMMA BodyWalked ==
  ASSUME IInv, NEW e, TakeBody(e)
  PROVE  IInv'
<1> DEFINE n == Len(body) + 1
           p == [e EXCEPT !.n = n]
           boxless == CloseBox(walk)
           y == CollectBody(boxless, p)
           x == [y EXCEPT !.opened = <<>>]
           v == TakeAnchored(x, p)
<1>1. Read(e) /\ e.is = "paragraph" /\ HeadingLevel(e) = 0 /\ walk' = v /\ kind' = kind
  BY DEF TakeBody
<1>2. BodyIs(body') /\ body' = Append(body, e) /\ IsParagraph(e) /\ n \in Nat \ {0}
  BY <1>1, ReadIs
<1> HIDE DEF n
<1>3. IsParagraph(p) /\ p.n # 0
  BY <1>2, NumberedIs
<1> HIDE DEF p
<1>4. Keeps(walk, boxless)
  BY CloseBoxKeeps DEF IInv, WalkedOver
<1> HIDE DEF boxless
<1>5. Keeps(boxless, y)
  BY <1>3, <1>4, CollectBodyKeeps DEF Keeps
<1> HIDE DEF y
<1>6. Untouched(x, y)
  <2>1. DOMAIN y = Parts
    BY <1>5 DEF Keeps, HasShape, IsWalk
  <2> QED BY <2>1 DEF Untouched, Parts
<1> HIDE DEF x
<1>7. Keeps(walk, x)
  <2>1. Keeps(walk, y)
    BY <1>4, <1>5, KeepsOn
  <2> QED BY <1>6, <2>1, UntouchedKeeps
<1>8. Keeps(x, v)
  BY <1>3, <1>7, TakeAnchoredKeeps DEF Keeps
<1> HIDE DEF v
<1>9. Keeps(walk, v)
  BY <1>7, <1>8, KeepsOn
<1>10. WalkedOver(v, Append(body, e))
  BY <1>1, <1>9, KeepsWalked DEF IInv
<1> QED BY <1>1, <1>2, <1>10 DEF IInv

\* At the end what is held is filed.
LEMMA EndWalked ==
  ASSUME IInv, End
  PROVE  IInv'
<1> DEFINE boxless == CloseBox(walk)
           v == CloseList(boxless)
<1>1. walk' = v /\ kind' = kind /\ body' = body
  BY DEF End
<1>2. Keeps(walk, boxless)
  BY CloseBoxKeeps DEF IInv, WalkedOver
<1> HIDE DEF boxless
<1>3. Keeps(boxless, v)
  BY <1>2, CloseListKeeps DEF Keeps
<1> HIDE DEF v
<1>4. Keeps(walk, v)
  BY <1>2, <1>3, KeepsOn
<1>5. WalkedOver(v, body)
  BY <1>4, KeepsOutlined DEF IInv, WalkedOver, Keeps
<1> QED BY <1>1, <1>5 DEF IInv

\* The invariant is inductive.
LEMMA StepWalked == IInv /\ [Next]_vars => IInv'
<1> SUFFICES ASSUME IInv, [Next]_vars PROVE IInv'
  OBVIOUS
<1>1. ASSUME NEW child, ReadChild(child) PROVE IInv'
  BY <1>1 DEF ReadChild, walkVars, IInv
<1>2. ASSUME NEW e, TakeElement(e) PROVE IInv'
  <2>1. TakeNext(e)
    BY <1>2 DEF TakeElement
  <2> QED BY <2>1, BookmarkWalked, TableWalked, HeadingWalked, BoxedWalked, BodyWalked DEF TakeNext
<1>3. CASE EndDocument
  BY <1>3, EndWalked DEF EndDocument
<1>4. CASE UNCHANGED vars
  BY <1>4 DEF vars, walkVars, IInv
<1> QED BY <1>1, <1>2, <1>3, <1>4 DEF Next

-----------------------------------------------------------------------------
(* The numbers                                                             *)

\* Where the headings put the sections, their numbers are of the outline.
LEMMA WalkedNumbers == IInv => NumbersAreOfTheOutline
<1> SUFFICES ASSUME IInv PROVE NumbersAreOfTheOutline
  OBVIOUS
<1> DEFINE found == HeadingsIn(body)
           o == OpeningOf(body)
           K == Len(found)
<1>1. Headings = found
  BY DEF Headings, HeadingsIn, Elements, IsHeading, HeadingAt
<1>2. IsList(body)
  BY DEF IInv, BodyIs
<1>3. /\ Len(o) = K /\ K \in Nat /\ DOMAIN found = 1..K
      /\ \A i \in 1..K : o[i] = Opens(body[found[i]])
  BY <1>2, OpeningIs
<1>4. IsOutline(o) /\ Outlined(walk.sections, o)
  BY DEF IInv, WalkedOver
<1> HIDE DEF found, o, K
<1>5. /\ IsList(walk.sections) /\ Len(walk.sections) = K
      /\ \A i \in 1..K : /\ walk.sections[i].heading = o[i].heading
                         /\ walk.sections[i].appendix = o[i].appendix
                         /\ walk.sections[i].parent = Nearest(o, i)
                         /\ walk.sections[i].ordinal = Cardinality(Kin(o, i))
  BY <1>3, <1>4 DEF Outlined
<1>6. DOMAIN walk.sections = 1..K
  BY <1>5, LongerIs
<1>7. \A i \in 1..K : /\ o[i].level = LevelOf(i) /\ o[i].heading = body[Headings[i]].heading
                      /\ o[i].appendix = (body[Headings[i]].kind = "appendix")
  BY <1>1, <1>3 DEF Opens, LevelOf
<1>8. ASSUME NEW i \in 1..K PROVE ParentOf(i) = Nearest(o, i)
  <2> DEFINE above == {j \in 1..(i - 1) : LevelOf(j) < LevelOf(i)}
             higher == {j \in 1..(i - 1) : o[j].level < o[i].level}
  <2>1. above = higher
    <3>1. \A j \in 1..(i - 1) : LevelOf(j) = o[j].level /\ LevelOf(i) = o[i].level
      BY <1>3, <1>7
    <3> QED BY <3>1
  <2>2. /\ ParentOf(i) = IF above = {} THEN 0 ELSE CHOOSE j \in above : \A m \in above : m <= j
        /\ Nearest(o, i) = IF higher = {} THEN 0 ELSE CHOOSE j \in higher : \A m \in higher : m <= j
    BY DEF ParentOf, Nearest
  <2> HIDE DEF above, higher
  <2> QED BY <2>1, <2>2
<1>9. ASSUME NEW i \in 1..K
      PROVE  LET section == walk.sections[i]
             IN  /\ section.heading = body[Headings[i]].heading
                 /\ section.appendix = (body[Headings[i]].kind = "appendix")
                 /\ section.parent = ParentOf(i)
                 /\ section.ordinal = Cardinality({j \in 1..i :
                      /\ ParentOf(j) = ParentOf(i)
                      /\ walk.sections[j].appendix = section.appendix})
  <2> DEFINE kin == {j \in 1..i : /\ ParentOf(j) = ParentOf(i)
                                  /\ walk.sections[j].appendix = walk.sections[i].appendix}
  <2>1. kin = Kin(o, i)
    <3>1. \A j \in 1..i : /\ ParentOf(j) = Nearest(o, j) /\ ParentOf(i) = Nearest(o, i)
                          /\ walk.sections[j].appendix = o[j].appendix
                          /\ walk.sections[i].appendix = o[i].appendix
      BY <1>3, <1>5, <1>8
    <3> QED BY <3>1 DEF Kin
  <2>2. walk.sections[i].ordinal = Cardinality(kin)
    <3> HIDE DEF kin
    <3> QED BY <1>5, <2>1
  <2> QED BY <1>5, <1>7, <1>8, <2>2
<1>10. CountedApart(walk.sections)
  BY <1>4, OutlinedApart
<1>11. \A i, j \in DOMAIN walk.sections : Number(walk.sections, i) = Number(walk.sections, j) => i = j
  BY <1>5, <1>6, <1>10, NumbersApart
<1>12. Len(walk.sections) = Len(Headings) /\ DOMAIN Headings = 1..K
  BY <1>1, <1>3, <1>5 DEF K
<1> QED BY <1>9, <1>11, <1>12 DEF NumbersAreOfTheOutline

\* In any document, of any length, no two sections bear one number, and each section
\* is the child of the nearest heading above it of a lower level.
THEOREM NumbersOfTheOutline == Spec => []NumbersAreOfTheOutline
<1>1. Init => IInv
  BY InitWalked
<1>2. IInv /\ [Next]_vars => IInv'
  BY StepWalked
<1>3. IInv => NumbersAreOfTheOutline
  BY WalkedNumbers
<1> QED BY <1>1, <1>2, <1>3, PTL DEF Spec

-----------------------------------------------------------------------------
(* The lists                                                               *)

\* What the walk holds is a run, and a run is read as it is printed.
LEMMA WalkedLists == IInv => ListReadsAsShown
<1> SUFFICES ASSUME IInv PROVE ListReadsAsShown
  OBVIOUS
<1>1. HasShape(walk)
  BY DEF IInv, WalkedOver
<1>2. IsRun(walk.items)
  BY <1>1 DEF HasShape
<1> QED BY <1>2, RunsRead

\* In any document, a reader sees every line of a list at the depth its indents and
\* bullets mean and under the number printed for it, and an item that takes up a list
\* is numbered on from it, however long the list and whatever stands between.
THEOREM ListsReadAsShown == Spec => []ListReadsAsShown
<1>1. Init => IInv
  BY InitWalked
<1>2. IInv /\ [Next]_vars => IInv'
  BY StepWalked
<1>3. IInv => ListReadsAsShown
  BY WalkedLists
<1> QED BY <1>1, <1>2, <1>3, PTL DEF Spec

================================================================================
