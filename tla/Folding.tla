------------------------------ MODULE Folding ------------------------------
(***************************************************************************)
(* Proofs along the positions of a sequence.  A fold of the community      *)
(* modules recurses over the sets of its positions, so what holds at a     *)
(* position of what holds at the one before is brought to all of them by   *)
(* the least position at which it fails.                                   *)
(***************************************************************************)
EXTENDS Filtering, Integers, FiniteSetsExt, FiniteSetTheorems, SequenceTheorems, TLAPS

\* What fails somewhere fails first somewhere: induction over the naturals.
LEMMA LeastElement ==
  ASSUME NEW S, S \subseteq Nat, S # {}
  PROVE  \E n \in S : \A m \in S : n <= m
<1>1. IsWellFoundedOn(OpToRel(<, Nat), Nat)
  BY NatLessThanWellFounded
<1>2. PICK n \in S : \A m \in S : ~ <<m, n>> \in OpToRel(<, Nat)
  BY <1>1, WFMin
<1>3. \A m \in S : ~(m < n)
  BY <1>2 DEF OpToRel
<1> QED BY <1>3

\* What holds at the start and passes from each position to the next holds at all.
LEMMA StepByStep ==
  ASSUME NEW N \in Nat, NEW good, 0 \in good,
         \A n \in 1..N : n - 1 \in good => n \in good
  PROVE  0..N \subseteq good
<1> DEFINE bad == {n \in 0..N : n \notin good}
<1> SUFFICES ASSUME bad # {} PROVE FALSE
  OBVIOUS
<1>1. PICK n \in bad : \A m \in bad : n <= m
  <2>1. bad \subseteq Nat
    OBVIOUS
  <2> HIDE DEF bad
  <2> QED BY <2>1, LeastElement
<1>2. n \in 1..N /\ n - 1 \in 0..N /\ n - 1 \notin bad
  BY <1>1
<1> QED BY <1>2

\* A set of positions up to one, and that one in it.
LEMMA NewestIn ==
  ASSUME NEW n \in Nat \ {0}, NEW s \in SUBSET (1..n), n \in s
  PROVE  Max(s) = n /\ s \ {n} \in SUBSET (1..(n - 1))
<1>1. \A y \in s : n >= y
  OBVIOUS
<1>2. \A x \in s : (\A y \in s : x >= y) => x = n
  OBVIOUS
<1>3. Max(s) = n
  BY <1>1, <1>2 DEF Max
<1> QED BY <1>3

\* Any set of positions has a newest.
LEMMA NewestPosition ==
  ASSUME NEW N \in Nat, NEW s \in SUBSET (1..N), s # {}
  PROVE  Max(s) \in s
<1>1. PICK n \in {N - m : m \in s} : \A k \in {N - m : m \in s} : n <= k
  <2> DEFINE under == {N - m : m \in s}
  <2>1. \A m \in s : N - m \in Nat
    OBVIOUS
  <2>2. under \subseteq Nat /\ under # {}
    BY <2>1
  <2> HIDE DEF under
  <2>3. \E n \in under : \A k \in under : n <= k
    BY <2>2, LeastElement
  <2> QED BY <2>3 DEF under
<1>2. PICK m \in s : n = N - m
  OBVIOUS
<1>3. \A k \in s : N - m <= N - k
  BY <1>1, <1>2
<1>4. \A k \in s : m >= k
  BY <1>3
<1> QED BY <1>4 DEF Max

\* The positions up to one, and the newest of them.
LEMMA Newest ==
  ASSUME NEW N \in Nat, NEW n \in 1..N
  PROVE  /\ 1..n \in SUBSET (1..N) /\ 1..n # {}
         /\ Max(1..n) = n /\ (1..n) \ {n} = 1..(n - 1)
<1>1. 1..n \in SUBSET (1..N) /\ n \in 1..n /\ n \in Nat \ {0} /\ 1..n \in SUBSET (1..n)
  OBVIOUS
<1>2. Max(1..n) = n
  BY <1>1, NewestIn
<1>3. (1..n) \ {n} = 1..(n - 1)
  BY <1>1
<1> QED BY <1>1, <1>2, <1>3

\* What each of N positions does to the value folded so far.
Steps(A, N) == [1..N -> [A -> A]]

\* A function on the sets of positions that folds them, newest last.
IsFold(f, A, base, N, step) ==
  /\ f \in [SUBSET (1..N) -> A]
  /\ \A s \in SUBSET (1..N) :
       f[s] = IF s = {} THEN base ELSE step[Max(s)][f[s \ {Max(s)}]]

\* A fold over the positions of a sequence is well defined.
LEMMA FoldExists ==
  ASSUME NEW A, NEW base \in A, NEW N \in Nat, NEW step \in Steps(A, N)
  PROVE  \E f : IsFold(f, A, base, N, step)
<1> USE DEF Steps
<1> DEFINE Onto(f, s) == IF s = {} THEN base ELSE step[Max(s)][f[s \ {Max(s)}]]
           Folds(f, n) == \A s \in SUBSET (1..n) : f[s] = Onto(f, s)
           good == {n \in 0..N : \E f \in [SUBSET (1..n) -> A] : Folds(f, n)}
<1>1. 0 \in good
  <2> DEFINE f == [s \in SUBSET (1..0) |-> base]
  <2>1. f \in [SUBSET (1..0) -> A] /\ Folds(f, 0)
    OBVIOUS
  <2>2. 0 \in 0..N
    OBVIOUS
  <2> HIDE DEF f, Folds
  <2> QED BY <2>1, <2>2
<1>2. ASSUME NEW n \in 1..N, n - 1 \in good PROVE n \in good
  <2>1. PICK f \in [SUBSET (1..(n - 1)) -> A] : Folds(f, n - 1)
    BY <1>2
  <2> DEFINE g == [s \in SUBSET (1..n) |->
                     IF n \in s THEN step[n][f[s \ {n}]] ELSE f[s]]
  <2>2. \A s \in SUBSET (1..n) : s \ {n} \in SUBSET (1..(n - 1))
    OBVIOUS
  <2>3. g \in [SUBSET (1..n) -> A]
    <3> SUFFICES ASSUME NEW s \in SUBSET (1..n)
                 PROVE  (IF n \in s THEN step[n][f[s \ {n}]] ELSE f[s]) \in A
      OBVIOUS
    <3>1. s \ {n} \in SUBSET (1..(n - 1)) /\ (n \notin s => s \in SUBSET (1..(n - 1)))
      BY <2>2
    <3>2. f[s \ {n}] \in A
      BY <3>1
    <3>3. step[n] \in [A -> A]
      OBVIOUS
    <3> QED BY <3>1, <3>2, <3>3
  <2>4. ASSUME NEW s \in SUBSET (1..n) PROVE g[s] = Onto(g, s)
    <3>1. CASE n \in s
      <4>1. Max(s) = n /\ s \ {n} \in SUBSET (1..(n - 1))
        BY <3>1, NewestIn
      <4>2. s \ {n} \in SUBSET (1..n) /\ n \notin s \ {n}
        OBVIOUS
      <4>3. g[s \ {n}] = f[s \ {n}]
        BY <4>2
      <4> QED BY <3>1, <4>1, <4>3
    <3>2. CASE n \notin s
      <4>1. s \in SUBSET (1..(n - 1))
        BY <3>2
      <4>2. f[s] = Onto(f, s) /\ g[s] = f[s]
        BY <2>1, <3>2, <4>1
      <4>3. CASE s = {}
        BY <4>2, <4>3
      <4>4. CASE s # {}
        <5>1. s \ {Max(s)} \in SUBSET (1..n) /\ n \notin s \ {Max(s)}
          BY <3>2, <4>1
        <5>2. g[s \ {Max(s)}] = f[s \ {Max(s)}]
          BY <5>1
        <5> QED BY <4>2, <4>4, <5>2
      <4> QED BY <4>3, <4>4
    <3> QED BY <3>1, <3>2
  <2> HIDE DEF g, Onto
  <2>5. Folds(g, n)
    BY <2>4
  <2>6. n \in 0..N
    OBVIOUS
  <2> HIDE DEF Folds
  <2> QED BY <2>3, <2>5, <2>6
<1>3. N \in good
  <2> HIDE DEF good
  <2>1. 0..N \subseteq good
    BY <1>1, <1>2, StepByStep
  <2> QED BY <2>1
<1> QED BY <1>3 DEF IsFold

-----------------------------------------------------------------------------
(* A list of which some is kept                                            *)

\* What is at the end of a list is on it beside the rest.
LEMMA RangeAppend ==
  ASSUME NEW A, NEW list \in Seq(A), NEW entry \in A
  PROVE  Range(Append(list, entry)) = Range(list) \cup {entry}
<1> DEFINE longer == Append(list, entry)
<1>1. /\ longer \in Seq(A) /\ DOMAIN longer = 1..(Len(list) + 1) /\ DOMAIN list = 1..Len(list)
      /\ \A i \in 1..Len(list) : longer[i] = list[i]
      /\ longer[Len(list) + 1] = entry /\ Len(list) \in Nat
  OBVIOUS
<1> HIDE DEF longer
<1>2. DOMAIN longer = DOMAIN list \cup {Len(list) + 1}
  BY <1>1
<1>3. Range(longer) = Range(list) \cup {entry}
  BY <1>1, <1>2 DEF Range
<1> QED BY <1>3 DEF longer

\* A list is gone through entry by entry, keeping some.
Keeping(kept, A, list, some) ==
  /\ kept \in [0..Len(list) -> Seq(A)]
  /\ kept[0] = <<>>
  /\ \A n \in 1..Len(list) :
       kept[n] = IF list[n] \in some THEN Append(kept[n - 1], list[n]) ELSE kept[n - 1]
  /\ Only(list, some) = kept[Len(list)]

LEMMA OnlySteps ==
  ASSUME NEW A, NEW list \in Seq(A), NEW some
  PROVE  \E kept : Keeping(kept, A, list, some)
<1> DEFINE Keep(kept, entry) == IF entry \in some THEN Append(kept, entry) ELSE kept
           N == Len(list)
           base == <<>>
           Chain(f) == [s \in SUBSET (1..N) |->
                          IF s = {} THEN base ELSE Keep(f[s \ {Max(s)}], list[Max(s)])]
           iter == CHOOSE f : f = Chain(f)
           kept == [n \in 0..N |-> iter[1..n]]
<1>1. /\ N \in Nat /\ DOMAIN list = 1..N
      /\ \A n \in 1..N : list[n] \in A
  OBVIOUS
<1>0. ASSUME NEW a \in Seq(A), NEW entry \in A PROVE Keep(a, entry) \in Seq(A)
  BY AppendProperties
<1>2. base \in Seq(A)
  OBVIOUS
<1>3. Only(list, some) = iter[1..N]
  BY <1>1 DEF Only, FoldLeft, MapThenFoldSet
<1>4. \E f : f = Chain(f)
  <2> DEFINE step == [n \in 1..N |-> [a \in Seq(A) |-> Keep(a, list[n])]]
  <2>1. step \in Steps(Seq(A), N)
    BY <1>1, <1>0 DEF Steps
  <2>2. \A n \in 1..N : \A a \in Seq(A) : step[n][a] = Keep(a, list[n])
    OBVIOUS
  <2> HIDE DEF N, base, step, Keep
  <2>0. N \in Nat
    BY <1>1
  <2>3. PICK f : IsFold(f, Seq(A), base, N, step)
    BY <1>2, <2>0, <2>1, FoldExists
  <2>4. ASSUME NEW s \in SUBSET (1..N)
        PROVE  f[s] = IF s = {} THEN base ELSE Keep(f[s \ {Max(s)}], list[Max(s)])
    <3>1. CASE s = {}
      BY <2>3, <3>1 DEF IsFold
    <3>2. CASE s # {}
      <4>1. Max(s) \in 1..N /\ s \ {Max(s)} \in SUBSET (1..N)
        BY <1>1, <3>2, NewestPosition
      <4>2. f[s \ {Max(s)}] \in Seq(A)
        BY <2>3, <4>1 DEF IsFold
      <4> QED BY <2>2, <2>3, <3>2, <4>1, <4>2 DEF IsFold
    <3> QED BY <3>1, <3>2
  <2>5. f = Chain(f)
    BY <2>3, <2>4 DEF IsFold
  <2> QED BY <2>5
<1>5. iter = Chain(iter)
  <2> HIDE DEF Chain
  <2> QED BY <1>4
<1> HIDE DEF iter
<1>6. iter[1..0] = base
  <2>1. 1..0 = {} /\ {} \in SUBSET (1..N)
    OBVIOUS
  <2>2. iter[{}] = base
    BY <1>5, <2>1
  <2> QED BY <2>1, <2>2
<1>7. ASSUME NEW n \in 1..N
      PROVE  iter[1..n] = Keep(iter[1..(n - 1)], list[n])
  <2>1. /\ 1..n \in SUBSET (1..N) /\ 1..n # {}
        /\ Max(1..n) = n /\ (1..n) \ {n} = 1..(n - 1)
    BY <1>1, Newest
  <2>2. iter[1..n] = IF 1..n = {} THEN base
                     ELSE Keep(iter[(1..n) \ {Max(1..n)}], list[Max(1..n)])
    <3> HIDE DEF base, N
    <3> QED BY <1>5, <2>1
  <2> QED BY <2>1, <2>2
<1> DEFINE good == {n \in 0..N : iter[1..n] \in Seq(A)}
<1> HIDE DEF N, base, Keep
<1>8. 0 \in good
  BY <1>1, <1>2, <1>6
<1>9. ASSUME NEW n \in 1..N, n - 1 \in good PROVE n \in good
  <2>1. iter[1..(n - 1)] \in Seq(A)
    BY <1>9
  <2>2. list[n] \in A /\ n \in 0..N
    BY <1>1
  <2>3. iter[1..n] \in Seq(A)
    BY <1>0, <1>7, <2>1, <2>2
  <2> QED BY <2>2, <2>3
<1>10. 0..N \subseteq good
  <2> HIDE DEF good
  <2> QED BY <1>1, <1>8, <1>9, StepByStep
<1>11. kept \in [0..N -> Seq(A)]
  BY <1>10
<1>12. /\ kept[0] = base
       /\ \A n \in 1..N : kept[n] = Keep(kept[n - 1], list[n])
       /\ kept[N] = iter[1..N]
  BY <1>1, <1>6, <1>7
<1> HIDE DEF kept
<1>13. Keeping(kept, A, list, some)
  BY <1>3, <1>11, <1>12 DEF N, base, Keep, Keeping
<1> QED BY <1>13

\* What is kept of a list: what is on it and in the set.
LEMMA OnlyKeeps ==
  ASSUME NEW A, NEW list \in Seq(A), NEW some
  PROVE  Only(list, some) \in Seq(A) /\ Range(Only(list, some)) = Range(list) \cap some
<1> DEFINE N == Len(list)
<1>k. PICK kept : Keeping(kept, A, list, some)
  BY OnlySteps
<1>1. /\ kept \in [0..N -> Seq(A)]
      /\ kept[0] = <<>>
      /\ \A n \in 1..N :
           kept[n] = IF list[n] \in some THEN Append(kept[n - 1], list[n]) ELSE kept[n - 1]
      /\ Only(list, some) = kept[N]
  BY <1>k DEF Keeping
<1>2. N \in Nat /\ DOMAIN list = 1..N /\ \A n \in 1..N : list[n] \in A
  OBVIOUS
<1> DEFINE good == {n \in 0..N : Range(kept[n]) = {list[i] : i \in 1..n} \cap some}
<1> HIDE DEF N
<1>3. 0 \in good
  <2>1. Range(<<>>) = {} /\ {list[i] : i \in 1..0} = {}
    BY DEF Range
  <2> QED BY <1>1, <1>2, <2>1
<1>4. ASSUME NEW n \in 1..N, n - 1 \in good PROVE n \in good
  <2>1. Range(kept[n - 1]) = {list[i] : i \in 1..(n - 1)} \cap some
    BY <1>4
  <2>2. {list[i] : i \in 1..n} = {list[i] : i \in 1..(n - 1)} \cup {list[n]}
    <3>1. 1..n = (1..(n - 1)) \cup {n}
      BY <1>2
    <3> QED BY <3>1
  <2>3. kept[n - 1] \in Seq(A) /\ list[n] \in A
    BY <1>1, <1>2
  <2>4. CASE list[n] \notin some
    <3>1. kept[n] = kept[n - 1]
      BY <1>1, <2>4
    <3>2. Range(kept[n]) = {list[i] : i \in 1..n} \cap some
      BY <2>1, <2>2, <2>4, <3>1
    <3> QED BY <1>2, <3>2
  <2>5. CASE list[n] \in some
    <3>1. kept[n] = Append(kept[n - 1], list[n])
      BY <1>1, <2>5
    <3>2. Range(kept[n]) = Range(kept[n - 1]) \cup {list[n]}
      BY <2>3, <3>1, RangeAppend
    <3>3. Range(kept[n]) = {list[i] : i \in 1..n} \cap some
      BY <2>1, <2>2, <2>5, <3>2
    <3> QED BY <1>2, <3>3
  <2> QED BY <2>4, <2>5
<1>5. N \in good
  <2> HIDE DEF good
  <2>1. 0..N \subseteq good
    BY <1>2, <1>3, <1>4, StepByStep
  <2> QED BY <1>2, <2>1
<1>6. Range(list) = {list[i] : i \in 1..N}
  BY <1>2 DEF Range
<1>7. kept[N] \in Seq(A)
  BY <1>1, <1>2
<1> QED BY <1>1, <1>5, <1>6, <1>7

\* Only what is on the list matters to what is kept of it.
LEMMA OnlySame ==
  ASSUME NEW A, NEW list \in Seq(A), NEW some, NEW others,
         Range(list) \cap some = Range(list) \cap others
  PROVE  Only(list, some) = Only(list, others)
<1> DEFINE N == Len(list)
<1>k. PICK kept : Keeping(kept, A, list, some)
  BY OnlySteps
<1>1. /\ kept \in [0..N -> Seq(A)]
      /\ kept[0] = <<>>
      /\ \A n \in 1..N :
           kept[n] = IF list[n] \in some THEN Append(kept[n - 1], list[n]) ELSE kept[n - 1]
      /\ Only(list, some) = kept[N]
  BY <1>k DEF Keeping
<1>l. PICK left : Keeping(left, A, list, others)
  BY OnlySteps
<1>2. /\ left \in [0..N -> Seq(A)]
      /\ left[0] = <<>>
      /\ \A n \in 1..N :
           left[n] = IF list[n] \in others THEN Append(left[n - 1], list[n]) ELSE left[n - 1]
      /\ Only(list, others) = left[N]
  BY <1>l DEF Keeping
<1>3. N \in Nat /\ \A n \in 1..N : list[n] \in some <=> list[n] \in others
  BY DEF Range
<1> DEFINE good == {n \in 0..N : kept[n] = left[n]}
<1> HIDE DEF N
<1>4. 0 \in good
  BY <1>1, <1>2, <1>3
<1>5. ASSUME NEW n \in 1..N, n - 1 \in good PROVE n \in good
  <2>1. kept[n - 1] = left[n - 1]
    BY <1>5
  <2>2. kept[n] = left[n]
    BY <1>1, <1>2, <1>3, <2>1
  <2> QED BY <1>3, <2>2
<1>6. N \in good
  <2> HIDE DEF good
  <2>1. 0..N \subseteq good
    BY <1>3, <1>4, <1>5, StepByStep
  <2> QED BY <1>3, <2>1
<1> QED BY <1>1, <1>2, <1>6

\* Each thing kept comes from a position that is the i-th of those it is kept at.
StoodAt(list, some) ==
  \A i \in DOMAIN Only(list, some) :
    \E p \in DOMAIN list :
      /\ list[p] = Only(list, some)[i]
      /\ Cardinality({q \in 1..p : list[q] \in some}) = i

\* Where a thing kept stood: the last of as many as there are up to it.
LEMMA OnlyPlaces ==
  ASSUME NEW A, NEW list \in Seq(A), NEW some
  PROVE  StoodAt(list, some)
<1> DEFINE N == Len(list)
           upTo(n) == {q \in 1..n : list[q] \in some}
<1>k. PICK kept : Keeping(kept, A, list, some)
  BY OnlySteps
<1>1. /\ kept \in [0..N -> Seq(A)]
      /\ kept[0] = <<>>
      /\ \A n \in 1..N :
           kept[n] = IF list[n] \in some THEN Append(kept[n - 1], list[n]) ELSE kept[n - 1]
      /\ Only(list, some) = kept[N]
  BY <1>k DEF Keeping
<1>2. N \in Nat /\ DOMAIN list = 1..N /\ \A n \in 1..N : list[n] \in A
  OBVIOUS
<1> DEFINE places(n) == \A i \in DOMAIN kept[n] :
                          \E p \in 1..n : list[p] = kept[n][i] /\ Cardinality(upTo(p)) = i
           good == {n \in 0..N : Len(kept[n]) = Cardinality(upTo(n)) /\ places(n)}
<1> HIDE DEF N
<1>3. 0 \in good
  <2>1. upTo(0) = {} /\ Cardinality({}) = 0
    BY FS_EmptySet
  <2>2. Len(kept[0]) = Cardinality(upTo(0))
    BY <1>1, <2>1
  <2>3. places(0)
    BY <1>1
  <2> QED BY <1>2, <2>2, <2>3
<1>4. ASSUME NEW n \in 1..N, n - 1 \in good PROVE n \in good
  <2>1. Len(kept[n - 1]) = Cardinality(upTo(n - 1)) /\ places(n - 1)
    BY <1>4
  <2>2. kept[n - 1] \in Seq(A) /\ list[n] \in A /\ n \in 0..N
    BY <1>1, <1>2
  <2>3. CASE list[n] \notin some
    <3>1. kept[n] = kept[n - 1]
      BY <1>1, <2>3
    <3>2. upTo(n) = upTo(n - 1)
      BY <1>2, <2>3
    <3>3. places(n)
      <4> SUFFICES ASSUME NEW i \in DOMAIN kept[n]
                   PROVE  \E p \in 1..n : list[p] = kept[n][i] /\ Cardinality(upTo(p)) = i
        OBVIOUS
      <4>1. PICK p \in 1..(n - 1) : list[p] = kept[n][i] /\ Cardinality(upTo(p)) = i
        BY <2>1, <3>1
      <4>2. p \in 1..n
        OBVIOUS
      <4> QED BY <4>1, <4>2
    <3> HIDE DEF places, upTo
    <3> QED BY <2>1, <2>2, <3>1, <3>2, <3>3
  <2>4. CASE list[n] \in some
    <3>1. kept[n] = Append(kept[n - 1], list[n])
      BY <1>1, <2>4
    <3>2. upTo(n) = upTo(n - 1) \cup {n} /\ n \notin upTo(n - 1)
      BY <1>2, <2>4
    <3>3. IsFiniteSet(upTo(n - 1))
      <4>1. IsFiniteSet(1..(n - 1))
        BY FS_Interval
      <4>2. upTo(n - 1) \in SUBSET (1..(n - 1))
        OBVIOUS
      <4> HIDE DEF upTo
      <4> QED BY <4>1, <4>2, FS_Subset
    <3>4. Cardinality(upTo(n)) = Cardinality(upTo(n - 1)) + 1
      <4> HIDE DEF upTo
      <4> QED BY <3>2, <3>3, FS_AddElement
    <3>5. /\ Len(kept[n]) = Len(kept[n - 1]) + 1
          /\ DOMAIN kept[n] = DOMAIN kept[n - 1] \cup {Len(kept[n - 1]) + 1}
          /\ \A i \in DOMAIN kept[n - 1] : kept[n][i] = kept[n - 1][i]
          /\ kept[n][Len(kept[n - 1]) + 1] = list[n]
      BY <2>2, <3>1
    <3>6. places(n)
      <4> SUFFICES ASSUME NEW i \in DOMAIN kept[n]
                   PROVE  \E p \in 1..n : list[p] = kept[n][i] /\ Cardinality(upTo(p)) = i
        OBVIOUS
      <4>1. CASE i \in DOMAIN kept[n - 1]
        <5>1. PICK p \in 1..(n - 1) : list[p] = kept[n - 1][i] /\ Cardinality(upTo(p)) = i
          BY <2>1, <4>1
        <5>2. p \in 1..n
          OBVIOUS
        <5> HIDE DEF upTo
        <5> QED BY <3>5, <4>1, <5>1, <5>2
      <4>2. CASE i = Len(kept[n - 1]) + 1
        <5>1. list[n] = kept[n][i] /\ Cardinality(upTo(n)) = i /\ n \in 1..n
          <6> HIDE DEF upTo
          <6> QED BY <2>1, <3>4, <3>5, <4>2
        <5> HIDE DEF upTo
        <5> QED BY <5>1
      <4> QED BY <3>5, <4>1, <4>2
    <3> HIDE DEF places, upTo
    <3> QED BY <2>1, <2>2, <3>4, <3>5, <3>6
  <2> QED BY <2>3, <2>4
<1>5. N \in good
  <2> HIDE DEF good
  <2>1. 0..N \subseteq good
    BY <1>2, <1>3, <1>4, StepByStep
  <2> QED BY <1>2, <2>1
<1>6. places(N)
  BY <1>5
<1> QED BY <1>1, <1>2, <1>6 DEF StoodAt

-----------------------------------------------------------------------------
(* Recursion over numbers, each from a lower one                           *)

\* Values up to a number, each got from that of a lower number.
Partly(g, n, A, base, from, step) ==
  /\ g \in [0..n -> A]
  /\ g[0] = base
  /\ \A m \in 1..n : g[m] = step[m][g[from[m]]]

\* A lower number for each but zero.
Descends(from) == from \in [Nat \ {0} -> Nat] /\ \A n \in Nat \ {0} : from[n] < n

\* The values up to a number are the values up to any higher one.
LEMMA PartlyAgree ==
  ASSUME NEW A, NEW base \in A, NEW from, Descends(from), NEW step \in [Nat \ {0} -> [A -> A]],
         NEW n \in Nat, NEW m \in Nat, NEW g, NEW h,
         Partly(g, n, A, base, from, step), Partly(h, m, A, base, from, step), n <= m
  PROVE  \A k \in 0..n : g[k] = h[k]
<1> DEFINE apart == {k \in 0..n : g[k] # h[k]}
<1> SUFFICES ASSUME apart # {} PROVE FALSE
  OBVIOUS
<1>1. PICK k \in apart : \A l \in apart : k <= l
  <2>1. apart \subseteq Nat
    OBVIOUS
  <2> HIDE DEF apart
  <2> QED BY <2>1, LeastElement
<1>2. k # 0 /\ k \in Nat \ {0} /\ k \in 1..n /\ k \in 1..m
  BY DEF Partly
<1>3. from[k] \in 0..n /\ from[k] < k
  BY <1>2 DEF Descends
<1>4. g[from[k]] = h[from[k]]
  BY <1>1, <1>2, <1>3
<1>5. g[k] = step[k][g[from[k]]] /\ h[k] = step[k][h[from[k]]]
  BY <1>2 DEF Partly
<1> QED BY <1>4, <1>5

\* There are values up to every number.
LEMMA PartlyExists ==
  ASSUME NEW A, NEW base \in A, NEW from, Descends(from), NEW step \in [Nat \ {0} -> [A -> A]],
         NEW N \in Nat
  PROVE  \E g : Partly(g, N, A, base, from, step)
<1> DEFINE Up(g, n) == Partly(g, n, A, base, from, step)
           good == {n \in 0..N : \E g : Up(g, n)}
<1>1. 0 \in good
  <2> DEFINE g == [n \in 0..0 |-> base]
  <2>1. Up(g, 0)
    BY DEF Partly
  <2> HIDE DEF g, Up
  <2> QED BY <2>1
<1>2. ASSUME NEW n \in 1..N, n - 1 \in good PROVE n \in good
  <2>1. PICK g : Up(g, n - 1)
    BY <1>2
  <2> DEFINE h == [m \in 0..n |-> IF m = n THEN step[n][g[from[n]]] ELSE g[m]]
  <2>2. /\ g \in [0..(n - 1) -> A] /\ g[0] = base
        /\ \A m \in 1..(n - 1) : g[m] = step[m][g[from[m]]]
    BY <2>1 DEF Partly
  <2>3. \A m \in 1..n : from[m] \in 0..(n - 1) /\ from[m] \in Nat /\ from[m] < m
    BY DEF Descends
  <2>4. step[n][g[from[n]]] \in A
    <3>1. step[n] \in [A -> A] /\ g[from[n]] \in A
      BY <2>2, <2>3
    <3> QED BY <3>1
  <2>5. h \in [0..n -> A] /\ h[0] = base
    BY <2>2, <2>4
  <2>6. ASSUME NEW m \in 1..n PROVE h[m] = step[m][h[from[m]]]
    <3>1. h[from[m]] = g[from[m]]
      BY <2>3
    <3>2. CASE m = n
      <4>1. h[n] = step[n][g[from[n]]]
        OBVIOUS
      <4> HIDE DEF h
      <4> QED BY <3>1, <3>2, <4>1
    <3>3. CASE m # n
      BY <2>2, <3>1, <3>3
    <3> QED BY <3>2, <3>3
  <2>7. Up(h, n)
    BY <2>5, <2>6 DEF Partly
  <2> HIDE DEF h, Up
  <2> QED BY <2>7
<1>3. 0..N \subseteq good
  <2> HIDE DEF good
  <2> QED BY <1>1, <1>2, StepByStep
<1>4. N \in good
  BY <1>3
<1> QED BY <1>4

\* Values of all numbers, each got from that of a lower number.
Wholly(f, A, base, from, step) ==
  /\ f \in [Nat -> A]
  /\ f[0] = base
  /\ \A m \in Nat \ {0} : f[m] = step[m][f[from[m]]]

\* What is defined for each number by a lower one is defined.
LEMMA Recursion ==
  ASSUME NEW A, NEW base \in A, NEW from, Descends(from), NEW step \in [Nat \ {0} -> [A -> A]]
  PROVE  \E f : Wholly(f, A, base, from, step)
<1> DEFINE Up(g, n) == Partly(g, n, A, base, from, step)
           upTo(n) == CHOOSE g : Up(g, n)
           f == [n \in Nat |-> upTo(n)[n]]
<1>1. ASSUME NEW n \in Nat PROVE Up(upTo(n), n)
  <2>1. \E g : Up(g, n)
    BY PartlyExists
  <2> HIDE DEF Up
  <2> QED BY <2>1
<1>2. ASSUME NEW n \in Nat, NEW m \in Nat, n <= m PROVE upTo(m)[n] = f[n]
  <2>1. Up(upTo(n), n) /\ Up(upTo(m), m)
    BY <1>1
  <2> HIDE DEF upTo
  <2>2. \A k \in 0..n : upTo(n)[k] = upTo(m)[k]
    BY <1>2, <2>1, PartlyAgree
  <2>3. f[n] = upTo(n)[n]
    OBVIOUS
  <2> QED BY <2>2, <2>3
<1> HIDE DEF upTo
<1>3. f \in [Nat -> A]
  BY <1>1 DEF Partly
<1>4. f[0] = base
  BY <1>1 DEF Partly
<1>5. ASSUME NEW m \in Nat \ {0} PROVE f[m] = step[m][f[from[m]]]
  <2>1. from[m] \in Nat /\ from[m] < m
    BY DEF Descends
  <2>2. upTo(m)[from[m]] = f[from[m]] /\ upTo(m)[m] = f[m]
    BY <1>2, <2>1
  <2>3. upTo(m)[m] = step[m][upTo(m)[from[m]]]
    BY <1>1 DEF Partly
  <2> QED BY <2>2, <2>3
<1>6. Wholly(f, A, base, from, step)
  BY <1>3, <1>4, <1>5 DEF Wholly
<1> QED BY <1>6

-----------------------------------------------------------------------------
(* Lists of whatever is on them                                            *)

\* A list of anything.
IsList(list) == list \in Seq(Range(list))

\* A sequence is such a list.
LEMMA ListIs ==
  ASSUME NEW A, NEW list \in Seq(A)
  PROVE  IsList(list)
<1>1. \A i \in 1..Len(list) : list[i] \in Range(list)
  BY DEF Range
<1>2. list = [i \in 1..Len(list) |-> list[i]] /\ Len(list) \in Nat
  OBVIOUS
<1> QED BY <1>1, <1>2 DEF IsList

\* So is a list with one more thing at its end.
LEMMA LongerIs ==
  ASSUME NEW list, IsList(list), NEW entry
  PROVE  /\ IsList(Append(list, entry)) /\ Len(Append(list, entry)) = Len(list) + 1
         /\ Len(list) \in Nat /\ DOMAIN list = 1..Len(list)
         /\ DOMAIN Append(list, entry) = 1..(Len(list) + 1)
         /\ \A i \in 1..Len(list) : Append(list, entry)[i] = list[i]
         /\ Append(list, entry)[Len(list) + 1] = entry
<1> DEFINE A == Range(list) \cup {entry}
<1>1. list \in Seq(A) /\ entry \in A
  BY DEF IsList
<1> HIDE DEF A
<1>2. Append(list, entry) \in Seq(A)
  BY <1>1
<1>3. IsList(Append(list, entry))
  BY <1>2, ListIs
<1> QED BY <1>1, <1>3

\* One more thing on a list is kept after the others, or left out.
LEMMA OnlyLonger ==
  ASSUME NEW A, NEW list \in Seq(A), NEW entry \in A, NEW some
  PROVE  Only(Append(list, entry), some) =
           IF entry \in some THEN Append(Only(list, some), entry) ELSE Only(list, some)
<1> DEFINE longer == Append(list, entry)
           N == Len(list)
<1>1. /\ longer \in Seq(A) /\ Len(longer) = N + 1 /\ N \in Nat
      /\ \A i \in 1..N : longer[i] = list[i]
      /\ longer[N + 1] = entry
  OBVIOUS
<1> HIDE DEF longer
<1>2. PICK kept : Keeping(kept, A, list, some)
  BY OnlySteps
<1>3. PICK left : Keeping(left, A, longer, some)
  BY <1>1, OnlySteps
<1>4. /\ kept[0] = <<>> /\ left[0] = <<>>
      /\ \A n \in 1..N :
           kept[n] = IF list[n] \in some THEN Append(kept[n - 1], list[n]) ELSE kept[n - 1]
      /\ \A n \in 1..(N + 1) :
           left[n] = IF longer[n] \in some THEN Append(left[n - 1], longer[n]) ELSE left[n - 1]
      /\ Only(list, some) = kept[N] /\ Only(longer, some) = left[N + 1]
  BY <1>1, <1>2, <1>3 DEF Keeping
<1> HIDE DEF N
<1> DEFINE good == {n \in 0..N : kept[n] = left[n]}
<1>5. 0 \in good
  BY <1>1, <1>4
<1>6. ASSUME NEW n \in 1..N, n - 1 \in good PROVE n \in good
  <2>1. kept[n - 1] = left[n - 1] /\ longer[n] = list[n]
    BY <1>1, <1>6
  <2>2. kept[n] = IF list[n] \in some THEN Append(kept[n - 1], list[n]) ELSE kept[n - 1]
    BY <1>4
  <2>3. left[n] = IF longer[n] \in some THEN Append(left[n - 1], longer[n]) ELSE left[n - 1]
    BY <1>1, <1>4
  <2> QED BY <1>1, <2>1, <2>2, <2>3
<1>7. kept[N] = left[N]
  <2>1. 0..N \subseteq good
    <3> HIDE DEF good
    <3> QED BY <1>1, <1>5, <1>6, StepByStep
  <2> QED BY <1>1, <2>1
<1>8. left[N + 1] = IF longer[N + 1] \in some THEN Append(left[N], longer[N + 1]) ELSE left[N]
  BY <1>1, <1>4
<1> QED BY <1>1, <1>4, <1>7, <1>8 DEF longer

\* What concatenating the first sequences of a list comes to, one after the other.
Flattening(flat, A, seqs) ==
  /\ flat \in [0..Len(seqs) -> Seq(A)]
  /\ flat[0] = <<>>
  /\ \A n \in 1..Len(seqs) : flat[n] = flat[n - 1] \o seqs[n]
  /\ FlattenSeq(seqs) = flat[Len(seqs)]

\* A list of sequences is concatenated one by one.
LEMMA FlattenSteps ==
  ASSUME NEW A, NEW seqs \in Seq(Seq(A))
  PROVE  \E flat : Flattening(flat, A, seqs)
<1> DEFINE N == Len(seqs)
           Chain(f) == [i \in 1..N |-> IF i = 1 THEN seqs[i] ELSE f[i - 1] \o seqs[i]]
           flatten == CHOOSE f : f = Chain(f)
           from == [n \in Nat \ {0} |-> n - 1]
           step == [n \in Nat \ {0} |-> [a \in Seq(A) |-> IF n \in 1..N THEN a \o seqs[n] ELSE a]]
<1>1. N \in Nat /\ \A n \in 1..N : seqs[n] \in Seq(A)
  OBVIOUS
<1>2. Descends(from) /\ <<>> \in Seq(A)
  BY DEF Descends
<1>3. step \in [Nat \ {0} -> [Seq(A) -> Seq(A)]]
  <2>1. \A n \in Nat \ {0} : \A a \in Seq(A) :
          (IF n \in 1..N THEN a \o seqs[n] ELSE a) \in Seq(A)
    BY <1>1
  <2> HIDE DEF N
  <2> QED BY <2>1
<1>4. PICK f : Wholly(f, Seq(A), <<>>, from, step)
  <2> HIDE DEF from, step
  <2> QED BY <1>2, <1>3, Recursion
<1>5. /\ \A n \in Nat : f[n] \in Seq(A)
      /\ f[0] = <<>>
      /\ \A n \in 1..N : f[n] = f[n - 1] \o seqs[n]
  <2>1. \A n \in Nat \ {0} : f[n] = step[n][f[from[n]]] /\ f[n] \in Seq(A) /\ f[from[n]] \in Seq(A)
    BY <1>2, <1>4 DEF Wholly, Descends
  <2>2. ASSUME NEW n \in 1..N PROVE step[n][f[n - 1]] = f[n - 1] \o seqs[n]
    <3>1. f[n - 1] \in Seq(A) /\ n \in Nat \ {0}
      <4>1. n - 1 \in Nat
        BY <1>1
      <4> HIDE DEF step, from, N
      <4> QED BY <1>4, <4>1 DEF Wholly
    <3>2. step[n] = [a \in Seq(A) |-> IF n \in 1..N THEN a \o seqs[n] ELSE a]
      BY <3>1
    <3> HIDE DEF step, from, N
    <3> QED BY <3>1, <3>2
  <2>3. \A n \in 1..N : n \in Nat \ {0} /\ from[n] = n - 1
    OBVIOUS
  <2> HIDE DEF step, from, N
  <2> QED BY <1>4, <2>1, <2>2, <2>3 DEF Wholly
<1> HIDE DEF from, step
<1> DEFINE g == [n \in 1..N |-> f[n]]
<1>6. g = Chain(g)
  <2> HIDE DEF N
  <2>1. ASSUME NEW i \in 1..N
        PROVE  f[i] = IF i = 1 THEN seqs[i] ELSE g[i - 1] \o seqs[i]
    <3>1. CASE i = 1
      <4>1. f[1] = f[1 - 1] \o seqs[1] /\ seqs[1] \in Seq(A)
        BY <1>1, <1>5, <3>1
      <4>2. f[1 - 1] = <<>>
        BY <1>5
      <4>3. <<>> \o seqs[1] = seqs[1]
        BY <4>1
      <4> QED BY <3>1, <4>1, <4>2, <4>3
    <3>2. CASE i # 1
      <4>1. i - 1 \in 1..N
        BY <1>1, <3>2
      <4>2. g[i - 1] = f[i - 1]
        BY <4>1
      <4> HIDE DEF g
      <4> QED BY <1>5, <3>2, <4>2
    <3> QED BY <3>1, <3>2
  <2> QED BY <2>1
<1>7. flatten = Chain(flatten)
  <2> HIDE DEF Chain, g
  <2> QED BY <1>6
<1>8. FlattenSeq(seqs) = IF N = 0 THEN seqs ELSE flatten[N]
  BY DEF FlattenSeq
<1> HIDE DEF flatten
<1> HIDE DEF N
<1>a. \A n \in 0..N : f[n] \in Seq(A)
  BY <1>1, <1>5
<1> DEFINE good == {n \in 0..N : n = 0 \/ flatten[n] = f[n]}
<1>9. 0 \in good
  BY <1>1
<1>10. ASSUME NEW n \in 1..N, n - 1 \in good PROVE n \in good
  <2>1. flatten[n] = IF n = 1 THEN seqs[n] ELSE flatten[n - 1] \o seqs[n]
    BY <1>7
  <2>2. f[n] = f[n - 1] \o seqs[n] /\ seqs[n] \in Seq(A)
    BY <1>1, <1>5
  <2>3. CASE n = 1
    <3>1. f[n - 1] = <<>>
      BY <1>5, <2>3
    <3>2. <<>> \o seqs[n] = seqs[n]
      BY <2>2
    <3>3. flatten[n] = f[n]
      BY <2>1, <2>2, <2>3, <3>1, <3>2
    <3> QED BY <1>1, <3>3
  <2>4. CASE n # 1
    <3>1. flatten[n - 1] = f[n - 1]
      BY <1>10, <2>4
    <3>2. flatten[n] = f[n]
      BY <2>1, <2>2, <2>4, <3>1
    <3> QED BY <1>1, <3>2
  <2> QED BY <2>3, <2>4
<1>11. N \in good
  <2>1. 0..N \subseteq good
    <3> HIDE DEF good
    <3> QED BY <1>1, <1>9, <1>10, StepByStep
  <2> QED BY <1>1, <2>1
<1>12. N = 0 => seqs = <<>>
  BY DEF N
<1>13. FlattenSeq(seqs) = f[N]
  BY <1>5, <1>8, <1>11, <1>12
<1> DEFINE flat == [n \in 0..N |-> f[n]]
<1>14. \A n \in 0..N : flat[n] = f[n]
  OBVIOUS
<1>15. flat \in [0..N -> Seq(A)]
  BY <1>a
<1> HIDE DEF flat
<1>16. /\ flat[0] = <<>> /\ FlattenSeq(seqs) = flat[N]
       /\ \A n \in 1..N : flat[n] = flat[n - 1] \o seqs[n]
  <2>1. 0 \in 0..N /\ N \in 0..N /\ \A n \in 1..N : n \in 0..N /\ n - 1 \in 0..N
    BY <1>1
  <2> QED BY <1>5, <1>13, <1>14, <2>1
<1>17. Flattening(flat, A, seqs)
  BY <1>15, <1>16 DEF Flattening, N
<1> QED BY <1>17

\* Sequences concatenated are a sequence.
LEMMA FlattenIs ==
  ASSUME NEW A, NEW seqs \in Seq(Seq(A))
  PROVE  FlattenSeq(seqs) \in Seq(A)
<1>1. PICK flat : Flattening(flat, A, seqs)
  BY FlattenSteps
<1>2. Len(seqs) \in 0..Len(seqs)
  OBVIOUS
<1> QED BY <1>1, <1>2 DEF Flattening

-----------------------------------------------------------------------------
(* Lists, whatever is on them, and lists concatenated                     *)

\* A sequence of some things is one of any more.
LEMMA ListOf ==
  ASSUME NEW list, IsList(list), NEW A, Range(list) \subseteq A
  PROVE  list \in Seq(A)
<1>1. list \in Seq(Range(list))
  BY DEF IsList
<1> DEFINE B == Range(list)
<1> HIDE DEF B
<1>2. list \in Seq(B) /\ B \subseteq A
  BY <1>1 DEF B
<1> QED BY <1>2

\* Nothing is a list, and so is one thing.
LEMMA EmptyList == IsList(<<>>) /\ Len(<<>>) = 0 /\ Range(<<>>) = {} /\ DOMAIN <<>> = 1..0
<1>1. <<>> \in Seq({}) /\ Len(<<>>) = 0 /\ Range(<<>>) = {} /\ DOMAIN <<>> = 1..0
  BY DEF Range
<1> QED BY <1>1, ListIs

\* Two lists joined are a list of what is in both.
LEMMA JoinedIs ==
  ASSUME NEW s, IsList(s), NEW t, IsList(t)
  PROVE  /\ IsList(s \o t) /\ Len(s \o t) = Len(s) + Len(t) /\ Len(s) \in Nat /\ Len(t) \in Nat
         /\ DOMAIN s = 1..Len(s) /\ DOMAIN t = 1..Len(t)
         /\ \A i \in 1..Len(s) : (s \o t)[i] = s[i]
         /\ \A i \in 1..Len(t) : (s \o t)[Len(s) + i] = t[i]
         /\ s \o <<>> = s /\ <<>> \o s = s
         /\ Range(s \o t) = Range(s) \cup Range(t)
<1> DEFINE A == Range(s) \cup Range(t)
<1>1. s \in Seq(A) /\ t \in Seq(A)
  BY ListOf
<1> HIDE DEF A
<1>2. /\ s \o t \in Seq(A) /\ Len(s \o t) = Len(s) + Len(t) /\ Len(s) \in Nat /\ Len(t) \in Nat
      /\ DOMAIN s = 1..Len(s) /\ DOMAIN t = 1..Len(t) /\ DOMAIN (s \o t) = 1..(Len(s) + Len(t))
      /\ \A i \in 1..Len(s) : (s \o t)[i] = s[i]
      /\ \A i \in 1..Len(t) : (s \o t)[Len(s) + i] = t[i]
  BY <1>1
<1>3. s \o <<>> = s /\ <<>> \o s = s
  BY <1>1
<1>4. IsList(s \o t)
  BY <1>2, ListIs
<1> DEFINE u == s \o t
           N == Len(s)
           M == Len(t)
<1>5. Range(u) = Range(s) \cup Range(t)
  <2>1. /\ DOMAIN u = 1..(N + M) /\ DOMAIN s = 1..N /\ DOMAIN t = 1..M /\ N \in Nat /\ M \in Nat
        /\ \A i \in 1..N : u[i] = s[i]
        /\ \A i \in 1..M : u[N + i] = t[i]
    BY <1>2
  <2> HIDE DEF u, N, M
  <2>2. ASSUME NEW i \in DOMAIN u PROVE u[i] \in Range(s) \cup Range(t)
    <3>1. CASE i <= N
      <4>1. i \in 1..N
        BY <2>1, <3>1
      <4> QED BY <2>1, <4>1 DEF Range
    <3>2. CASE ~(i <= N)
      <4>1. i - N \in 1..M /\ N + (i - N) = i
        BY <2>1, <3>2
      <4>2. u[N + (i - N)] = t[i - N]
        BY <2>1, <4>1
      <4> QED BY <2>1, <4>1, <4>2 DEF Range
    <3> QED BY <3>1, <3>2
  <2>3. ASSUME NEW i \in 1..N PROVE s[i] \in Range(u)
    <3>1. i \in DOMAIN u
      BY <2>1
    <3> QED BY <2>1, <3>1 DEF Range
  <2>4. ASSUME NEW i \in 1..M PROVE t[i] \in Range(u)
    <3>1. N + i \in DOMAIN u
      BY <2>1
    <3> QED BY <2>1, <3>1 DEF Range
  <2>5. Range(u) \subseteq Range(s) \cup Range(t)
    BY <2>2 DEF Range
  <2>6. Range(s) \subseteq Range(u) /\ Range(t) \subseteq Range(u)
    BY <2>1, <2>3, <2>4 DEF Range
  <2> QED BY <2>5, <2>6
<1> QED BY <1>2, <1>3, <1>4, <1>5 DEF u

\* Joining is associative.
LEMMA JoinedThrice ==
  ASSUME NEW s, IsList(s), NEW t, IsList(t), NEW u, IsList(u)
  PROVE  (s \o t) \o u = s \o (t \o u)
<1> DEFINE A == Range(s) \cup Range(t) \cup Range(u)
<1>1. s \in Seq(A) /\ t \in Seq(A) /\ u \in Seq(A)
  BY ListOf
<1> HIDE DEF A
<1> QED BY <1>1, ConcatAssociative

\* One thing more is a list of it joined on.
LEMMA AppendedIs ==
  ASSUME NEW s, IsList(s), NEW x
  PROVE  Append(s, x) = s \o <<x>> /\ IsList(<<x>>)
<1> DEFINE A == Range(s) \cup {x}
<1>1. s \in Seq(A) /\ x \in A
  BY ListOf
<1> HIDE DEF A
<1>2. Append(s, x) = s \o <<x>> /\ <<x>> \in Seq(A)
  BY <1>1
<1> QED BY <1>2, ListIs

\* Lists of the same length and the same things are the same.
LEMMA SameList ==
  ASSUME NEW s, IsList(s), NEW t, IsList(t), Len(s) = Len(t), \A i \in 1..Len(s) : s[i] = t[i]
  PROVE  s = t
<1> DEFINE A == Range(s) \cup Range(t)
<1>1. s \in Seq(A) /\ t \in Seq(A)
  BY ListOf
<1> HIDE DEF A
<1> QED BY <1>1

\* What has a value at each position up to a number is a list.
LEMMA FunctionList ==
  ASSUME NEW N \in Nat, NEW f, f = [i \in 1..N |-> f[i]]
  PROVE  IsList(f) /\ Len(f) = N
<1> DEFINE A == {f[i] : i \in 1..N}
<1>1. \A i \in 1..N : f[i] \in A
  OBVIOUS
<1> HIDE DEF A
<1>2. DOMAIN f = 1..N
  OBVIOUS
<1>3. f \in [1..N -> A]
  BY <1>1
<1>4. f \in Seq(A) /\ Len(f) = N
  BY <1>3
<1> QED BY <1>4, ListIs

\* What is kept of two lists joined.
KeptOfBoth(s, t, some) ==
  /\ Only(s \o t, some) = Only(s, some) \o Only(t, some)
  /\ IsList(Only(s, some)) /\ Range(Only(s, some)) = Range(s) \cap some
  /\ IsList(Only(t, some)) /\ Range(Only(t, some)) = Range(t) \cap some

\* It is what is kept of each, joined.
LEMMA OnlyJoined ==
  ASSUME NEW s, IsList(s), NEW t, IsList(t), NEW some
  PROVE  KeptOfBoth(s, t, some)
<1> DEFINE A == Range(s) \cup Range(t)
           N == Len(t)
           first(n) == SubSeq(t, 1, n)
           good == {n \in 0..N : Only(s \o first(n), some) = Only(s, some) \o Only(first(n), some)}
<1>1. s \in Seq(A) /\ t \in Seq(A)
  BY ListOf
<1>2. N \in Nat /\ DOMAIN t = 1..N /\ \A n \in 1..N : t[n] \in A
  BY <1>1
<1>l. /\ IsList(Only(s, some)) /\ Range(Only(s, some)) = Range(s) \cap some
      /\ IsList(Only(t, some)) /\ Range(Only(t, some)) = Range(t) \cap some
  BY <1>1, OnlyKeeps, ListIs
<1> HIDE DEF A
<1>3. /\ first(0) = <<>> /\ first(N) = t
      /\ \A n \in 0..N : first(n) \in Seq(A) /\ Len(first(n)) = n
      /\ \A n \in 1..N : first(n) = Append(first(n - 1), t[n])
  <2>1. \A n \in 0..N : first(n) \in Seq(A) /\ Len(first(n)) = n
    BY <1>1, <1>2
  <2>2. first(0) = <<>> /\ first(N) = t
    BY <1>1, <1>2
  <2>3. ASSUME NEW n \in 1..N PROVE first(n) = Append(first(n - 1), t[n])
    BY <1>1, <1>2
  <2> QED BY <2>1, <2>2, <2>3
<1> HIDE DEF N, first
<1>4. 0 \in good
  <2>1. s \o <<>> = s /\ Only(s, some) \o <<>> = Only(s, some)
    BY <1>l, EmptyList, JoinedIs
  <2>2. Only(<<>>, some) = <<>>
    <3> DEFINE empty == <<>>
               none == Only(empty, some)
    <3>1. empty \in Seq(A) /\ Range(empty) = {}
      BY EmptyList
    <3> HIDE DEF empty, none
    <3>3. none \in Seq(A) /\ Range(none) = {}
      BY <3>1, OnlyKeeps DEF none
    <3>4. none = <<>>
      <4>1. ASSUME Len(none) # 0 PROVE FALSE
        <5>1. 1 \in DOMAIN none
          BY <3>3, <4>1
        <5> QED BY <3>3, <5>1 DEF Range
      <4> QED BY <3>3, <4>1
    <3> QED BY <3>4 DEF none, empty
  <2>3. Only(s \o <<>>, some) = Only(s, some) \o Only(<<>>, some)
    BY <2>1, <2>2
  <2> DEFINE zero == first(0)
  <2>4. zero = <<>>
    BY <1>3
  <2> HIDE DEF zero
  <2>5. Only(s \o zero, some) = Only(s, some) \o Only(zero, some)
    BY <2>3, <2>4
  <2> QED BY <1>2, <2>5 DEF zero
<1>5. ASSUME NEW n \in 1..N, n - 1 \in good PROVE n \in good
  <2> DEFINE before == first(n - 1)
             x == t[n]
  <2>1. before \in Seq(A) /\ x \in A /\ first(n) = Append(before, x)
    <3>1. n - 1 \in 0..N
      BY <1>2
    <3> QED BY <1>2, <1>3, <3>1
  <2>2. Only(s \o before, some) = Only(s, some) \o Only(before, some)
    BY <1>5
  <2> HIDE DEF before, x
  <2>3. s \o Append(before, x) = Append(s \o before, x) /\ s \o before \in Seq(A)
    BY <1>1, <2>1
  <2> DEFINE S == Only(s, some)
             B == Only(before, some)
  <2>4. S \in Seq(A) /\ B \in Seq(A)
    BY <1>1, <2>1, OnlyKeeps
  <2> DEFINE long == s \o before
  <2>h. long \in Seq(A)
    BY <2>3
  <2> HIDE DEF long
  <2>5. /\ Only(Append(long, x), some) = IF x \in some THEN Append(Only(long, some), x) ELSE Only(long, some)
        /\ Only(Append(before, x), some) = IF x \in some THEN Append(B, x) ELSE B
    BY <2>1, <2>h, OnlyLonger
  <2> HIDE DEF S, B
  <2>6. Only(long, some) = S \o B
    BY <2>2 DEF S, B, long
  <2>7. S \o Append(B, x) = Append(S \o B, x)
    BY <2>1, <2>4
  <2>8. Only(s \o first(n), some) = S \o Only(first(n), some)
    BY <2>1, <2>3, <2>5, <2>6, <2>7 DEF long
  <2> QED BY <1>2, <2>8 DEF S
<1>6. N \in good
  <2> HIDE DEF good
  <2>1. 0..N \subseteq good
    BY <1>2, <1>4, <1>5, StepByStep
  <2> QED BY <1>2, <2>1
<1> QED BY <1>3, <1>6, <1>l DEF KeptOfBoth

\* The first things of a list, as many as each number says.
Growing(first, list) ==
  /\ first[0] = <<>> /\ first[Len(list)] = list
  /\ \A n \in 0..Len(list) : /\ IsList(first[n]) /\ Len(first[n]) = n
                              /\ \A i \in 1..n : first[n][i] = list[i]
  /\ \A n \in 1..Len(list) : first[n] = Append(first[n - 1], list[n])

\* A list grows thing by thing.
LEMMA GrowsByOne ==
  ASSUME NEW list, IsList(list)
  PROVE  \E grown : Growing(grown, list)
<1> DEFINE N == Len(list)
           A == Range(list)
           upTo == [n \in 0..N |-> SubSeq(list, 1, n)]
<1>1. list \in Seq(A)
  BY DEF IsList
<1> HIDE DEF A
<1>2. N \in Nat /\ \A n \in 1..N : list[n] \in A
  BY <1>1
<1>3. \A n \in 0..N : upTo[n] \in Seq(A) /\ Len(upTo[n]) = n /\ \A i \in 1..n : upTo[n][i] = list[i]
  BY <1>1, <1>2
<1>4. upTo[0] = <<>> /\ upTo[N] = list
  BY <1>1, <1>2
<1>5. \A n \in 1..N : upTo[n] = Append(upTo[n - 1], list[n])
  BY <1>1, <1>2
<1>6. \A n \in 0..N : IsList(upTo[n])
  BY <1>3, ListIs
<1> HIDE DEF N, upTo
<1>7. Growing(upTo, list)
  BY <1>3, <1>4, <1>5, <1>6 DEF Growing, N
<1> QED BY <1>7

\* Lists of lists.
AreLists(seqs) == IsList(seqs) /\ \A i \in 1..Len(seqs) : IsList(seqs[i])

\* All of them are of some things.
LEMMA ListsOf ==
  ASSUME NEW seqs, AreLists(seqs), NEW B
  PROVE  \E A : B \subseteq A /\ seqs \in Seq(Seq(A))
<1> DEFINE N == Len(seqs)
           A == B \cup UNION {Range(seqs[i]) : i \in 1..N}
<1>1. N \in Nat /\ DOMAIN seqs = 1..N /\ seqs = [i \in 1..N |-> seqs[i]]
  BY DEF AreLists, IsList
<1>2. ASSUME NEW i \in 1..N PROVE seqs[i] \in Seq(A)
  <2>1. IsList(seqs[i]) /\ Range(seqs[i]) \subseteq A
    BY DEF AreLists
  <2> HIDE DEF A
  <2> QED BY <2>1, ListOf
<1> HIDE DEF N, A
<1>3. seqs \in Seq(Seq(A))
  <2> DEFINE f == seqs
  <2>1. f = [i \in 1..N |-> f[i]] /\ \A i \in 1..N : f[i] \in Seq(A)
    BY <1>1, <1>2
  <2> HIDE DEF f
  <2>2. f \in [1..N -> Seq(A)]
    BY <2>1
  <2>3. f \in Seq(Seq(A))
    BY <1>1, <2>2
  <2> QED BY <2>3 DEF f
<1> QED BY <1>3 DEF A

\* Lists concatenated: none are nothing, and one more is joined on.
LEMMA FlattenLonger ==
  ASSUME NEW seqs, AreLists(seqs), NEW s, IsList(s)
  PROVE  /\ AreLists(Append(seqs, s)) /\ IsList(FlattenSeq(seqs))
         /\ FlattenSeq(Append(seqs, s)) = FlattenSeq(seqs) \o s
<1> DEFINE longer == Append(seqs, s)
           N == Len(seqs)
<1>1. /\ IsList(longer) /\ Len(longer) = N + 1 /\ N \in Nat
      /\ longer[N + 1] = s /\ \A i \in 1..N : longer[i] = seqs[i]
  BY LongerIs DEF AreLists
<1>2. AreLists(longer)
  <2> SUFFICES ASSUME NEW i \in 1..(N + 1) PROVE IsList(longer[i])
    BY <1>1 DEF AreLists
  <2>1. CASE i = N + 1
    BY <1>1, <2>1
  <2>2. CASE i # N + 1
    <3>1. i \in 1..N
      BY <1>1, <2>2
    <3> HIDE DEF longer
    <3> QED BY <1>1, <3>1 DEF AreLists
  <2> QED BY <2>1, <2>2
<1> HIDE DEF longer, N
<1>3. PICK A : longer \in Seq(Seq(A))
  BY <1>2, ListsOf
<1>4. seqs \in Seq(Seq(A))
  <2>1. \A i \in 1..N : longer[i] \in Seq(A)
    BY <1>1, <1>3
  <2>2. seqs \in [1..N -> Seq(A)]
    <3>1. \A i \in 1..N : seqs[i] \in Seq(A)
      BY <1>1, <2>1
    <3>2. seqs \in Seq(Range(seqs)) /\ DOMAIN seqs = 1..N
      BY DEF AreLists, IsList, N
    <3> QED BY <3>1, <3>2
  <2> QED BY <1>1, <2>2
<1>5. PICK more : Flattening(more, A, longer)
  BY <1>3, FlattenSteps
<1>6. PICK flat : Flattening(flat, A, seqs)
  BY <1>4, FlattenSteps
<1>7. /\ flat[0] = <<>> /\ FlattenSeq(seqs) = flat[N]
      /\ \A n \in 1..N : flat[n] = flat[n - 1] \o seqs[n]
      /\ flat \in [0..N -> Seq(A)]
  BY <1>6 DEF Flattening, N
<1>8. /\ more[0] = <<>> /\ FlattenSeq(longer) = more[N + 1]
      /\ \A n \in 1..(N + 1) : more[n] = more[n - 1] \o longer[n]
  BY <1>1, <1>5 DEF Flattening
<1> DEFINE good == {n \in 0..N : more[n] = flat[n]}
<1>9. 0 \in good
  BY <1>1, <1>7, <1>8
<1>10. ASSUME NEW n \in 1..N, n - 1 \in good PROVE n \in good
  <2>1. n \in 1..(N + 1) /\ n \in 0..N
    BY <1>1
  <2>2. more[n] = more[n - 1] \o longer[n] /\ longer[n] = seqs[n]
    BY <1>1, <1>8, <2>1
  <2>3. flat[n] = flat[n - 1] \o seqs[n]
    BY <1>7
  <2> QED BY <1>10, <2>1, <2>2, <2>3
<1>11. N \in good
  <2> HIDE DEF good
  <2>1. 0..N \subseteq good
    BY <1>1, <1>9, <1>10, StepByStep
  <2> QED BY <1>1, <2>1
<1>12. more[N + 1] = more[N] \o s
  <2>1. N + 1 \in 1..(N + 1) /\ (N + 1) - 1 = N
    BY <1>1
  <2> QED BY <1>1, <1>8, <2>1
<1>13. FlattenSeq(longer) = FlattenSeq(seqs) \o s
  BY <1>7, <1>8, <1>11, <1>12
<1>14. IsList(FlattenSeq(seqs))
  BY <1>4, FlattenIs, ListIs
<1> QED BY <1>2, <1>13, <1>14 DEF longer

\* No lists concatenated are nothing.
LEMMA FlattenNone == AreLists(<<>>) /\ FlattenSeq(<<>>) = <<>>
<1>1. AreLists(<<>>)
  BY EmptyList DEF AreLists
<1>2. FlattenSeq(<<>>) = <<>>
  BY EmptyList DEF FlattenSeq
<1> QED BY <1>1, <1>2


\* A list that is not empty is its last joined to those before it.
LEMMA FrontOf ==
  ASSUME NEW list, IsList(list), list # <<>>
  PROVE  \E front : /\ IsList(front) /\ Len(list) = Len(front) + 1 /\ list = Append(front, list[Len(list)])
                    /\ Len(list) \in Nat \ {0} /\ \A i \in 1..Len(front) : front[i] = list[i]
<1> DEFINE N == Len(list)
           last == list[N]
           front == [i \in 1..(N - 1) |-> list[i]]
           M == Len(front)
           again == Append(front, last)
<1>1. N \in Nat \ {0} /\ \A i \in 1..N : i # N => i \in 1..(N - 1)
  BY DEF IsList
<1> HIDE DEF N
<1>2. IsList(front) /\ M = N - 1 /\ \A i \in 1..(N - 1) : front[i] = list[i]
  <2>1. \A i \in 1..(N - 1) : front[i] = list[i]
    OBVIOUS
  <2>2. front = [i \in 1..(N - 1) |-> front[i]] /\ N - 1 \in Nat
    BY <1>1
  <2> HIDE DEF front
  <2> QED BY <2>1, <2>2, FunctionList
<1> HIDE DEF front, last, M
<1>3. /\ IsList(again) /\ Len(again) = M + 1 /\ again[M + 1] = last
      /\ \A i \in 1..M : again[i] = front[i]
  BY <1>2, LongerIs DEF M
<1> HIDE DEF again
<1>4. Len(again) = N /\ \A i \in 1..N : again[i] = list[i]
  <2>1. Len(again) = N /\ again[N] = last /\ \A i \in 1..(N - 1) : again[i] = list[i]
    BY <1>1, <1>2, <1>3
  <2> QED BY <1>1, <2>1 DEF last
<1>5. list = again
  BY <1>3, <1>4, SameList DEF N
<1>6. /\ IsList(front) /\ N = Len(front) + 1 /\ list = Append(front, last)
      /\ N \in Nat \ {0} /\ \A i \in 1..Len(front) : front[i] = list[i]
  BY <1>1, <1>2, <1>5 DEF M, again
<1> QED BY <1>6 DEF N, last

\* What is joined to the last of some lists is joined to all of them concatenated.
LEMMA FlattenLast ==
  ASSUME NEW seqs, AreLists(seqs), seqs # <<>>, NEW x, IsList(x),
         NEW longer, IsList(longer), Len(longer) = Len(seqs),
         \A i \in 1..Len(seqs) : longer[i] = IF i = Len(seqs) THEN seqs[i] \o x ELSE seqs[i]
  PROVE  AreLists(longer) /\ FlattenSeq(longer) = FlattenSeq(seqs) \o x
<1> DEFINE N == Len(seqs)
           last == seqs[N]
<1>1. PICK front : /\ IsList(front) /\ N = Len(front) + 1 /\ seqs = Append(front, seqs[N])
                   /\ N \in Nat \ {0} /\ \A i \in 1..Len(front) : front[i] = seqs[i]
  BY FrontOf DEF AreLists
<1>2. IsList(last) /\ AreLists(front)
  <2>1. \A i \in 1..N : IsList(seqs[i])
    BY DEF AreLists
  <2>2. N \in 1..N /\ \A i \in 1..Len(front) : i \in 1..N
    BY <1>1
  <2> HIDE DEF N
  <2> QED BY <1>1, <2>1, <2>2 DEF AreLists
<1>3. seqs = Append(front, last)
  BY <1>1
<1>4. longer = Append(front, last \o x)
  <2> DEFINE other == Append(front, last \o x)
  <2>1. /\ IsList(other) /\ Len(other) = N /\ other[N] = last \o x
        /\ \A i \in 1..Len(front) : other[i] = front[i]
    BY <1>1, LongerIs
  <2> HIDE DEF other
  <2>2. ASSUME NEW i \in 1..N PROVE longer[i] = other[i]
    <3>1. CASE i = N
      BY <2>1, <3>1
    <3>2. CASE i # N
      <4>1. i \in 1..Len(front)
        BY <1>1, <3>2
      <4>2. longer[i] = seqs[i]
        BY <3>2
      <4> HIDE DEF N
      <4> QED BY <1>1, <2>1, <4>1, <4>2
    <3> QED BY <3>1, <3>2
  <2>3. longer = other
    BY <2>1, <2>2, SameList
  <2> QED BY <2>3 DEF other
<1> HIDE DEF last, N
<1>5. IsList(last \o x) /\ IsList(FlattenSeq(front))
  BY <1>2, JoinedIs, FlattenLonger
<1>6. /\ FlattenSeq(seqs) = FlattenSeq(front) \o last
      /\ FlattenSeq(longer) = FlattenSeq(front) \o (last \o x)
      /\ AreLists(longer)
  <2> DEFINE end == last \o x
  <2> HIDE DEF end
  <2>1. FlattenSeq(Append(front, end)) = FlattenSeq(front) \o end /\ AreLists(Append(front, end))
    BY <1>2, <1>5, FlattenLonger DEF end
  <2>2. FlattenSeq(Append(front, last)) = FlattenSeq(front) \o last
    BY <1>2, FlattenLonger
  <2> QED BY <1>3, <1>4, <2>1, <2>2 DEF end
<1>7. (FlattenSeq(front) \o last) \o x = FlattenSeq(front) \o (last \o x)
  BY <1>2, <1>5, JoinedThrice
<1> QED BY <1>6, <1>7

-----------------------------------------------------------------------------
(* What is left of a list                                                  *)

\* No thing stands twice in the list.
Apart(list) == \A i, j \in 1..Len(list) : list[i] = list[j] => i = j

\* The second list is the first with nothing added or moved, and nothing taken out
\* that is to be kept.
Shed(list, left, kept) ==
  /\ IsList(list) /\ IsList(left)
  /\ Only(list, kept) = Only(left, kept) /\ Range(left) \subseteq Range(list)
  /\ Apart(list) => Apart(left)

\* Lists that share nothing, each of different things, are together of different things.
LEMMA ApartJoined ==
  ASSUME NEW s, IsList(s), NEW t, IsList(t)
  PROVE  Apart(s \o t) <=> Apart(s) /\ Apart(t) /\ Range(s) \cap Range(t) = {}
<1> DEFINE u == s \o t
           N == Len(s)
           M == Len(t)
<1>1. /\ Len(u) = N + M /\ N \in Nat /\ M \in Nat /\ DOMAIN s = 1..N /\ DOMAIN t = 1..M
      /\ \A i \in 1..N : u[i] = s[i]
      /\ \A i \in 1..M : u[N + i] = t[i]
  BY JoinedIs
<1> HIDE DEF u, N, M
<1>2. ASSUME Apart(u) PROVE Apart(s) /\ Apart(t) /\ Range(s) \cap Range(t) = {}
  <2>1. \A i, j \in 1..(N + M) : u[i] = u[j] => i = j
    BY <1>1, <1>2 DEF Apart
  <2>2. Apart(s)
    <3>1. \A i, j \in 1..N : s[i] = s[j] => i = j
      BY <1>1, <2>1
    <3> QED BY <3>1 DEF Apart, N
  <2>3. Apart(t)
    <3>1. ASSUME NEW i \in 1..M, NEW j \in 1..M, t[i] = t[j] PROVE i = j
      <4>1. N + i \in 1..(N + M) /\ N + j \in 1..(N + M) /\ u[N + i] = u[N + j]
        BY <1>1, <3>1
      <4>2. N + i = N + j
        BY <2>1, <4>1
      <4> QED BY <1>1, <4>2
    <3> QED BY <3>1 DEF Apart, M
  <2>4. ASSUME NEW i \in 1..N, NEW j \in 1..M PROVE s[i] # t[j]
    <3>1. i \in 1..(N + M) /\ N + j \in 1..(N + M) /\ i # N + j
      BY <1>1
    <3>2. u[i] # u[N + j]
      BY <2>1, <3>1
    <3> QED BY <1>1, <3>2
  <2>5. Range(s) \cap Range(t) = {}
    BY <1>1, <2>4 DEF Range
  <2> QED BY <2>2, <2>3, <2>5
<1>3. ASSUME Apart(s), Apart(t), Range(s) \cap Range(t) = {} PROVE Apart(u)
  <2>1. \A i, j \in 1..N : s[i] = s[j] => i = j
    BY <1>3 DEF Apart, N
  <2>2. \A i, j \in 1..M : t[i] = t[j] => i = j
    BY <1>3 DEF Apart, M
  <2>3. \A i \in 1..N : \A j \in 1..M : s[i] # t[j]
    BY <1>1, <1>3 DEF Range
  <2>4. ASSUME NEW i \in 1..(N + M), NEW j \in 1..(N + M), u[i] = u[j] PROVE i = j
    <3>1. CASE i <= N /\ j <= N
      BY <1>1, <2>1, <2>4, <3>1
    <3>2. CASE i <= N /\ ~(j <= N)
      <4>1. i \in 1..N /\ j - N \in 1..M /\ N + (j - N) = j
        BY <1>1, <3>2
      <4>2. u[i] = s[i] /\ u[N + (j - N)] = t[j - N]
        BY <1>1, <4>1
      <4> QED BY <2>3, <2>4, <4>1, <4>2
    <3>3. CASE ~(i <= N) /\ j <= N
      <4>1. j \in 1..N /\ i - N \in 1..M /\ N + (i - N) = i
        BY <1>1, <3>3
      <4>2. u[j] = s[j] /\ u[N + (i - N)] = t[i - N]
        BY <1>1, <4>1
      <4> QED BY <2>3, <2>4, <4>1, <4>2
    <3>4. CASE ~(i <= N) /\ ~(j <= N)
      <4>1. j - N \in 1..M /\ i - N \in 1..M /\ N + (i - N) = i /\ N + (j - N) = j
        BY <1>1, <3>4
      <4>2. u[N + (i - N)] = t[i - N] /\ u[N + (j - N)] = t[j - N]
        BY <1>1, <4>1
      <4>3. i - N = j - N
        BY <2>2, <2>4, <4>1, <4>2
      <4> QED BY <4>1, <4>3
    <3> QED BY <3>1, <3>2, <3>3, <3>4
  <2>5. Len(u) = N + M
    BY <1>1
  <2> QED BY <2>4, <2>5 DEF Apart
<1> QED BY <1>2, <1>3 DEF u

\* Nothing need be shed.
LEMMA ShedNothing ==
  ASSUME NEW list, IsList(list), NEW kept
  PROVE  Shed(list, list, kept)
BY DEF Shed

\* What is left of what is left is left.
LEMMA ShedTwice ==
  ASSUME NEW list, NEW left, NEW kept, Shed(list, left, kept), NEW less, Shed(left, less, kept)
  PROVE  Shed(list, less, kept)
BY DEF Shed

\* What follows a list follows what is left of it.
LEMMA ShedBefore ==
  ASSUME NEW list, NEW left, NEW kept, Shed(list, left, kept), NEW more, IsList(more)
  PROVE  Shed(list \o more, left \o more, kept)
<1>1. /\ IsList(list) /\ IsList(left)
      /\ Only(list, kept) = Only(left, kept) /\ Range(left) \subseteq Range(list)
      /\ Apart(list) => Apart(left)
  BY DEF Shed
<1>2. /\ IsList(list \o more) /\ Range(list \o more) = Range(list) \cup Range(more)
      /\ IsList(left \o more) /\ Range(left \o more) = Range(left) \cup Range(more)
  BY <1>1, JoinedIs
<1>3. /\ Only(list \o more, kept) = Only(list, kept) \o Only(more, kept)
      /\ Only(left \o more, kept) = Only(left, kept) \o Only(more, kept)
  <2>1. KeptOfBoth(list, more, kept) /\ KeptOfBoth(left, more, kept)
    BY <1>1, OnlyJoined
  <2> QED BY <2>1 DEF KeptOfBoth
<1>4. Apart(list \o more) => Apart(left \o more)
  BY <1>1, ApartJoined
<1> QED BY <1>1, <1>2, <1>3, <1>4 DEF Shed

\* What is not to be kept is shed.
LEMMA ShedLast ==
  ASSUME NEW list, IsList(list), NEW more, IsList(more), NEW kept, Range(more) \cap kept = {}
  PROVE  Shed(list \o more, list, kept)
<1>1. IsList(list \o more) /\ Range(list \o more) = Range(list) \cup Range(more)
  BY JoinedIs
<1>2. /\ Only(list \o more, kept) = Only(list, kept) \o Only(more, kept)
      /\ IsList(Only(list, kept)) /\ IsList(Only(more, kept)) /\ Range(Only(more, kept)) = {}
  <2>1. KeptOfBoth(list, more, kept)
    BY OnlyJoined
  <2> QED BY <2>1 DEF KeptOfBoth
<1>3. Only(more, kept) = <<>>
  <2> DEFINE none == Only(more, kept)
  <2>1. IsList(none) /\ Range(none) = {}
    BY <1>2
  <2> HIDE DEF none
  <2>2. ~(1 \in DOMAIN none)
    BY <2>1 DEF Range
  <2>3. none = <<>>
    BY <2>1, <2>2 DEF IsList
  <2> QED BY <2>3 DEF none
<1>4. Only(list, kept) \o <<>> = Only(list, kept)
  BY <1>2, EmptyList, JoinedIs
<1>5. Apart(list \o more) => Apart(list)
  BY ApartJoined
<1> QED BY <1>1, <1>2, <1>3, <1>4, <1>5 DEF Shed

\* What is to be kept is so of what is there.
LEMMA ShedOf ==
  ASSUME NEW list, NEW left, NEW kept, Shed(list, left, kept), NEW others,
         Range(list) \cap kept = Range(list) \cap others
  PROVE  Shed(list, left, others)
<1>1. /\ IsList(list) /\ IsList(left)
      /\ Only(list, kept) = Only(left, kept) /\ Range(left) \subseteq Range(list)
      /\ Apart(list) => Apart(left)
  BY DEF Shed
<1>2. Only(list, kept) = Only(list, others)
  <2>1. list \in Seq(Range(list))
    BY <1>1 DEF IsList
  <2> DEFINE A == Range(list)
  <2> HIDE DEF A
  <2>2. list \in Seq(A)
    BY <2>1 DEF A
  <2> QED BY <2>2, OnlySame
<1>3. Only(left, kept) = Only(left, others)
  <2>1. left \in Seq(Range(left)) /\ Range(left) \cap kept = Range(left) \cap others
    BY <1>1 DEF IsList
  <2> DEFINE A == Range(left)
  <2> HIDE DEF A
  <2>2. left \in Seq(A)
    BY <2>1 DEF A
  <2> QED BY <2>1, <2>2, OnlySame
<1> QED BY <1>1, <1>2, <1>3 DEF Shed

=============================================================================
