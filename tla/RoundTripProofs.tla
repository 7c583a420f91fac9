--------------------------- MODULE RoundTripProofs ---------------------------
(***************************************************************************)
(* The two readers that keep a stack of what is open, the parser of posted *)
(* instances and the importer of survey sheets, and the whole way of a     *)
(* form, where the one's form is what the other's instance is made of.     *)
(*                                                                         *)
(* First each reader by itself.  Whatever they are given, for any tags,    *)
(* texts, limits, rows and choices, what they build is what the input says *)
(* when it is read without a stack.  That does not say enough to be kept   *)
(* while the reader is at work.  The argument is the same twice: at every  *)
(* step the stack lists the openings around what is read next, and         *)
(* everything on it and below it holds what has been read so far of what   *)
(* belongs there.                                                          *)
(*                                                                         *)
(* Then the way.  What a client has still to write is made of what may be  *)
(* written, wherever it stands and however deep, so that the parser reads  *)
(* nothing it is not said to be given, and all that was shown of the       *)
(* readers alone holds of them here.                                       *)
(***************************************************************************)
EXTENDS RoundTrip, FiniteSetTheorems, SequenceTheorems, TLAPS

-----------------------------------------------------------------------------
(* What Nesting says of a sequence that grows by one mark at a time.       *)

\* A set of numbers that is not empty has a smallest.
LEMMA Smallest ==
  ASSUME NEW numbers \in SUBSET Nat, numbers # {}
  PROVE  \E m \in numbers : \A k \in numbers : m <= k
<1> DEFINE R == OpToRel(<, Nat)
<1>1. IsWellFoundedOn(R, Nat)
    BY NatLessThanWellFounded
<1>2. \A a, b \in Nat : <<a, b>> \in R <=> a < b
    BY DEF OpToRel
<1> HIDE DEF R
<1>3. PICK m \in numbers : \A k \in numbers : ~ (<<k, m>> \in R)
    BY <1>1, WFMin
<1>4. ASSUME NEW k \in numbers PROVE m <= k
    <2>1. m \in Nat /\ k \in Nat /\ ~ (<<k, m>> \in R)
        BY <1>3
    <2>2. ~ k < m
        BY <1>2, <2>1
    <2> QED BY <2>1, <2>2
<1> QED BY <1>4

LEMMA MaxIs ==
  ASSUME NEW numbers \in SUBSET Int, NEW m \in numbers, \A k \in numbers : k <= m
  PROVE  Max(numbers) = m
<1>1. \E x \in numbers : \A y \in numbers : x >= y
    OBVIOUS
<1>2. Max(numbers) \in numbers /\ \A y \in numbers : Max(numbers) >= y
    BY <1>1 DEF Max
<1>3. Max(numbers) \in Int /\ m \in Int /\ Max(numbers) >= m /\ Max(numbers) <= m
    BY <1>2
<1> QED BY <1>3

\* The largest of a set of numbers that has one.
LEMMA MaxOf ==
  ASSUME NEW n \in Nat, NEW numbers \in SUBSET (0 .. n), 0 \in numbers
  PROVE  Max(numbers) \in numbers /\ \A k \in numbers : k <= Max(numbers)
<1> DEFINE left == {n - j : j \in numbers}
<1>1. left \in SUBSET Nat /\ left # {}
    OBVIOUS
<1>2. PICK m \in left : \A k \in left : m <= k
    <2> HIDE DEF left
    <2> QED BY <1>1, Smallest
<1>3. PICK j \in numbers : m = n - j
    OBVIOUS
<1>4. ASSUME NEW k \in numbers PROVE k <= j
    <2>1. k \in Int /\ j \in Int
        <3>1. numbers \subseteq Int
            OBVIOUS
        <3> HIDE DEF left
        <3> QED BY <3>1
    <2>2. n - j <= n - k
        BY <1>2, <1>3
    <2> QED BY <2>1, <2>2
<1>5. Max(numbers) = j
    <2>1. numbers \in SUBSET Int
        OBVIOUS
    <2> QED BY <1>4, <2>1, MaxIs
<1> QED BY <1>4, <1>5

-----------------------------------------------------------------------------
(* Numbers in their order. *)

Rank(numbers, i) == Cardinality({j \in numbers : j <= i})

Ranked(numbers) == \A k \in 1 .. Cardinality(numbers) : \E i \in numbers : Rank(numbers, i) = k

LEMMA Few ==
  ASSUME NEW n \in Nat, NEW numbers \in SUBSET (1 .. n)
  PROVE  IsFiniteSet(numbers) /\ Cardinality(numbers) \in Nat
<1>1. IsFiniteSet(1 .. n)
    BY FS_Interval
<1>2. IsFiniteSet(numbers)
    BY <1>1, FS_Subset
<1> QED BY <1>2, FS_CardinalityType

\* One more, larger than the others.
LEMMA RankGrows ==
  ASSUME NEW n \in Nat, NEW numbers \in SUBSET (1 .. n), NEW m \in Nat, m > n
  PROVE  LET more == numbers \cup {m}
         IN /\ Cardinality(more) = Cardinality(numbers) + 1
            /\ Rank(more, m) = Cardinality(numbers) + 1
            /\ \A i \in numbers : Rank(more, i) = Rank(numbers, i)
<1> DEFINE more == numbers \cup {m}
<1>1. Cardinality(more) = Cardinality(numbers) + 1
    <2>1. IsFiniteSet(numbers) /\ m \notin numbers
        BY Few
    <2> QED BY <2>1, FS_AddElement
<1>2. {j \in more : j <= m} = more
    <2>1. \A j \in numbers : j \in Nat /\ j <= n
        OBVIOUS
    <2>2. \A j \in more : j <= m
        BY <2>1
    <2> HIDE DEF more
    <2> QED BY <2>2
<1>3. \A i \in numbers : {j \in more : j <= i} = {j \in numbers : j <= i}
    OBVIOUS
<1> QED BY <1>1, <1>2, <1>3 DEF Rank

LEMMA RankIs ==
  ASSUME NEW n \in Nat, NEW numbers \in SUBSET (1 .. n), NEW i \in numbers
  PROVE  Rank(numbers, i) \in 1 .. Cardinality(numbers)
<1> DEFINE upto == {j \in numbers : j <= i}
<1>1. IsFiniteSet(numbers) /\ Cardinality(numbers) \in Nat
    BY Few
<1>2. upto \in SUBSET numbers /\ i \in upto
    OBVIOUS
<1>3. IsFiniteSet(upto) /\ Cardinality(upto) \in Nat /\ Cardinality(upto) <= Cardinality(numbers)
    BY <1>1, <1>2, FS_Subset, FS_CardinalityType
<1>4. Cardinality(upto) # 0
    BY <1>2, <1>3, FS_EmptySet
<1> QED BY <1>1, <1>3, <1>4 DEF Rank

\* Ranks keep the order.
LEMMA RankRises ==
  ASSUME NEW n \in Nat, NEW numbers \in SUBSET (1 .. n), NEW i \in numbers, NEW j \in numbers, i < j
  PROVE  Rank(numbers, i) < Rank(numbers, j)
<1> DEFINE upto(k) == {l \in numbers : l <= k}
<1>1. upto(i) \in SUBSET upto(j) /\ upto(j) \in SUBSET (1 .. n) /\ upto(i) # upto(j)
    <2>1. numbers \subseteq Nat /\ i \in Nat /\ j \in Nat
        OBVIOUS
    <2>2. \A k \in numbers : k <= i => k <= j
        BY <2>1
    <2>3. j \in upto(j) /\ j \notin upto(i)
        BY <2>1
    <2>4. upto(j) \in SUBSET (1 .. n)
        OBVIOUS
    <2> QED BY <2>2, <2>3, <2>4
<1>2. IsFiniteSet(upto(j)) /\ Cardinality(upto(j)) \in Nat
    BY <1>1, Few
<1> HIDE DEF upto
<1>3. Cardinality(upto(i)) <= Cardinality(upto(j)) /\ Cardinality(upto(i)) # Cardinality(upto(j))
    BY <1>1, <1>2, FS_Subset
<1>4. Cardinality(upto(i)) \in Nat
    BY <1>1, <1>2, FS_Subset, FS_CardinalityType
<1> QED BY <1>2, <1>3, <1>4 DEF Rank, upto

\* Every rank is taken: otherwise there is a least n with a set that lacks
\* one, and its numbers but n lack one too.
LEMMA AllRanked ==
  ASSUME NEW n \in Nat, NEW numbers \in SUBSET (1 .. n)
  PROVE  Ranked(numbers)
<1> DEFINE Bad == {l \in Nat : \E s \in SUBSET (1 .. l) : ~ Ranked(s)}
<1> SUFFICES Bad = {}
    OBVIOUS
<1> SUFFICES ASSUME Bad # {} PROVE FALSE
    OBVIOUS
<1>1. Bad \in SUBSET Nat
    OBVIOUS
<1>2. PICK l \in Bad : \A k \in Bad : l <= k
    <2> HIDE DEF Bad
    <2> QED BY <1>1, Smallest
<1>3. PICK s \in SUBSET (1 .. l) : ~ Ranked(s)
    OBVIOUS
<1>4. CASE l = 0
    <2>1. s = {}
        BY <1>4
    <2>2. Cardinality(s) = 0
        BY <2>1, FS_EmptySet
    <2> QED BY <1>3, <2>2 DEF Ranked
<1>5. CASE l # 0
    <2> DEFINE rest == s \ {l}
    <2>1. l - 1 \in Nat /\ rest \in SUBSET (1 .. l - 1)
        BY <1>5
    <2>2. Ranked(rest)
        <3> SUFFICES ASSUME ~ Ranked(rest) PROVE FALSE
            OBVIOUS
        <3>1. l - 1 \in Bad
            BY <2>1
        <3>2. l \in Nat /\ l <= l - 1
            BY <1>2, <3>1
        <3> QED BY <3>2
    <2>3. CASE l \notin s
        BY <1>3, <2>2, <2>3
    <2>4. CASE l \in s
        <3>1. s = rest \cup {l}
            BY <2>4
        <3> HIDE DEF rest
        <3>2. /\ Cardinality(s) = Cardinality(rest) + 1
              /\ Rank(s, l) = Cardinality(rest) + 1
              /\ \A i \in rest : Rank(s, i) = Rank(rest, i)
            <4>1. l \in Nat /\ l > l - 1
                OBVIOUS
            <4> HIDE DEF Bad
            <4> QED BY <2>1, <3>1, <4>1, RankGrows, ZenonT(30)
        <3>3. Cardinality(rest) \in Nat
            BY <2>1, Few
        <3>4. ASSUME NEW k \in 1 .. Cardinality(s) PROVE \E i \in s : Rank(s, i) = k
            <4>1. CASE k = Cardinality(rest) + 1
                BY <2>4, <3>2, <4>1
            <4>2. CASE k \in 1 .. Cardinality(rest)
                <5>1. PICK i \in rest : Rank(rest, i) = k
                    BY <2>2, <4>2 DEF Ranked
                <5> QED BY <3>1, <3>2, <5>1
            <4> QED BY <3>2, <3>3, <4>1, <4>2
        <3> QED BY <1>3, <3>4 DEF Ranked
    <2> QED BY <2>3, <2>4
<1> QED BY <1>4, <1>5

\* InOrder lists the numbers of a set, each at its rank.
LEMMA InOrderIs ==
  ASSUME NEW n \in Nat, NEW numbers \in SUBSET (1 .. n)
  PROVE  /\ InOrder(numbers) \in Seq(numbers)
         /\ Len(InOrder(numbers)) = Cardinality(numbers)
         /\ \A k \in 1 .. Cardinality(numbers) : Rank(numbers, InOrder(numbers)[k]) = k
         /\ \A i \in numbers : InOrder(numbers)[Rank(numbers, i)] = i
<1>1. Cardinality(numbers) \in Nat
    BY Few
<1>2. ASSUME NEW k \in 1 .. Cardinality(numbers)
      PROVE  InOrder(numbers)[k] \in numbers /\ Rank(numbers, InOrder(numbers)[k]) = k
    <2>1. \E i \in numbers : Rank(numbers, i) = k
        BY AllRanked DEF Ranked
    <2>2. InOrder(numbers)[k] = CHOOSE i \in numbers : Rank(numbers, i) = k
        BY DEF InOrder, Rank
    <2> QED BY <2>1, <2>2
<1>3. InOrder(numbers) \in Seq(numbers) /\ Len(InOrder(numbers)) = Cardinality(numbers)
    <2>1. PICK c \in Nat : c = Cardinality(numbers)
        BY <1>1
    <2>2. InOrder(numbers) = [k \in 1 .. c |-> InOrder(numbers)[k]]
        BY <2>1 DEF InOrder
    <2>3. InOrder(numbers) \in [1 .. c -> numbers]
        BY <1>2, <2>1, <2>2
    <2>4. Len(InOrder(numbers)) = c
        BY <2>3
    <2> QED BY <2>1, <2>3, <2>4
<1>4. ASSUME NEW i \in numbers PROVE InOrder(numbers)[Rank(numbers, i)] = i
    <2>1. PICK k \in 1 .. Cardinality(numbers) : k = Rank(numbers, i)
        BY RankIs
    <2>2. PICK j \in numbers : j = InOrder(numbers)[k] /\ Rank(numbers, j) = k
        BY <1>2
    <2>3. i \in Nat /\ j \in Nat /\ k \in Nat
        BY <1>1
    <2>4. ~ i < j
        <3> SUFFICES ASSUME i < j PROVE FALSE
            OBVIOUS
        <3>1. Rank(numbers, i) < Rank(numbers, j)
            BY RankRises
        <3> QED BY <2>1, <2>2, <2>3, <3>1
    <2>5. ~ j < i
        <3> SUFFICES ASSUME j < i PROVE FALSE
            OBVIOUS
        <3>1. Rank(numbers, j) < Rank(numbers, i)
            BY RankRises
        <3> QED BY <2>1, <2>2, <2>3, <3>1
    <2> QED BY <2>1, <2>2, <2>3, <2>4, <2>5
<1> QED BY <1>2, <1>3, <1>4

\* A larger number comes last.
LEMMA InOrderGrows ==
  ASSUME NEW n \in Nat, NEW numbers \in SUBSET (1 .. n), NEW m \in Nat, m > n
  PROVE  InOrder(numbers \cup {m}) = Append(InOrder(numbers), m)
<1> DEFINE more == numbers \cup {m}
<1>0. Cardinality(numbers) \in Nat
    BY Few
<1>1. more \in SUBSET (1 .. m) /\ Cardinality(numbers) \in Nat
    BY <1>0
<1>2. /\ Cardinality(more) = Cardinality(numbers) + 1
      /\ Rank(more, m) = Cardinality(numbers) + 1
      /\ \A i \in numbers : Rank(more, i) = Rank(numbers, i)
    BY RankGrows
<1>3. m \in more /\ numbers \subseteq more
    OBVIOUS
<1> HIDE DEF more
<1>4. /\ InOrder(more) \in Seq(more)
      /\ Len(InOrder(more)) = Cardinality(more)
      /\ \A i \in more : InOrder(more)[Rank(more, i)] = i
    BY <1>1, InOrderIs
<1>5. /\ InOrder(numbers) \in Seq(numbers)
      /\ Len(InOrder(numbers)) = Cardinality(numbers)
      /\ \A k \in 1 .. Cardinality(numbers) : Rank(numbers, InOrder(numbers)[k]) = k
    BY InOrderIs
<1>6. InOrder(more)[Cardinality(numbers) + 1] = m
    BY <1>2, <1>3, <1>4
<1>7. ASSUME NEW k \in 1 .. Cardinality(numbers) PROVE InOrder(more)[k] = InOrder(numbers)[k]
    <2>1. InOrder(numbers)[k] \in numbers
        BY <1>0, <1>5
    <2>2. PICK i \in numbers : i = InOrder(numbers)[k] /\ Rank(numbers, i) = k
        BY <1>5, <2>1
    <2> QED BY <1>2, <1>3, <1>4, <2>2
<1>8. /\ InOrder(more) \in Seq(Nat)
      /\ InOrder(numbers) \in Seq(Nat)
    <2>1. more \subseteq Nat /\ numbers \subseteq Nat
        BY <1>1
    <2> QED BY <1>4, <1>5, <2>1, SeqMonotonic
<1>9. InOrder(more) = Append(InOrder(numbers), m)
    <2> DEFINE s == InOrder(more)
               t == InOrder(numbers)
    <2>1. s \in Seq(Nat) /\ t \in Seq(Nat) /\ Len(s) = Len(t) + 1
        BY <1>2, <1>4, <1>5, <1>8
    <2>2. s[Len(t) + 1] = m /\ \A k \in 1 .. Len(t) : s[k] = t[k]
        BY <1>5, <1>6, <1>7
    <2> HIDE DEF s, t
    <2>3. s = Append(t, m)
        BY <2>1, <2>2
    <2> QED BY <2>3 DEF s, t
<1> QED BY <1>9 DEF more

LEMMA DisjointCardinality ==
  ASSUME NEW S, NEW T, IsFiniteSet(S), IsFiniteSet(T), S \cap T = {}
  PROVE  Cardinality(S \cup T) = Cardinality(S) + Cardinality(T)
<1>1. Cardinality(S \cup T) = Cardinality(S) + Cardinality(T) - Cardinality(S \cap T)
    BY FS_Union
<1>2. Cardinality(S \cap T) = 0 /\ Cardinality(S) \in Nat /\ Cardinality(T) \in Nat
    BY FS_EmptySet, FS_CardinalityType
<1> QED BY <1>1, <1>2

\* The numbers of one set come before those of another.
Consecutive(low, high) == InOrder(low \cup high) = InOrder(low) \o InOrder(high)

LEMMA InOrderConcat ==
  ASSUME NEW n \in Nat, NEW m \in Nat, NEW low \in SUBSET (1 .. n), NEW high \in SUBSET (n + 1 .. m)
  PROVE  Consecutive(low, high)
<1> high \in SUBSET (1 .. m) /\ \A j \in high : j > n
    OBVIOUS
<1> DEFINE all == low \cup high
<1>1. PICK o \in Nat : o >= n /\ o >= m
    OBVIOUS
<1>2. all \in SUBSET (1 .. o) /\ low \cap high = {} /\ low \subseteq Nat /\ high \subseteq Nat
    BY <1>1
<1>3. /\ IsFiniteSet(low) /\ IsFiniteSet(high)
      /\ Cardinality(low) \in Nat /\ Cardinality(high) \in Nat
    BY Few
<1>4. Cardinality(all) = Cardinality(low) + Cardinality(high)
    BY <1>2, <1>3, DisjointCardinality
<1>5. ASSUME NEW i \in low PROVE Rank(all, i) = Rank(low, i)
    <2>1. {j \in all : j <= i} = {j \in low : j <= i}
        <3>1. i \in Nat /\ i <= n
            OBVIOUS
        <3>2. \A j \in high : ~ j <= i
            BY <1>2, <3>1
        <3> QED BY <3>2
    <2> QED BY <2>1 DEF Rank
<1>6. ASSUME NEW i \in high PROVE Rank(all, i) = Cardinality(low) + Rank(high, i)
    <2> DEFINE upto == {j \in high : j <= i}
    <2>1. {j \in all : j <= i} = low \cup upto
        <3>1. i \in Nat /\ i > n
            OBVIOUS
        <3>2. \A j \in low : j <= i
            BY <1>2, <3>1
        <3> QED BY <3>2
    <2>2. low \cap upto = {} /\ upto \in SUBSET (1 .. m)
        BY <1>2
    <2>3. IsFiniteSet(upto) /\ Cardinality(upto) \in Nat
        <3> HIDE DEF upto
        <3> QED BY <2>2, Few
    <2>4. Cardinality(low \cup upto) = Cardinality(low) + Cardinality(upto)
        <3> HIDE DEF upto
        <3> QED BY <1>3, <2>2, <2>3, DisjointCardinality
    <2> QED BY <2>1, <2>4 DEF Rank
<1> HIDE DEF all
<1>7. /\ InOrder(all) \in Seq(Nat) /\ Len(InOrder(all)) = Cardinality(all)
      /\ InOrder(low) \in Seq(Nat) /\ Len(InOrder(low)) = Cardinality(low)
      /\ InOrder(high) \in Seq(Nat) /\ Len(InOrder(high)) = Cardinality(high)
    <2>2. all \subseteq Nat
        BY <1>2 DEF all
    <2>3. InOrder(all) \in Seq(all) /\ Len(InOrder(all)) = Cardinality(all)
        BY <1>2, InOrderIs
    <2>4. InOrder(low) \in Seq(low) /\ Len(InOrder(low)) = Cardinality(low)
        BY InOrderIs
    <2>5. InOrder(high) \in Seq(high) /\ Len(InOrder(high)) = Cardinality(high)
        BY InOrderIs
    <2> QED BY <1>2, <2>2, <2>3, <2>4, <2>5, SeqMonotonic
<1>8. ASSUME NEW k \in 1 .. Cardinality(low) PROVE InOrder(all)[k] = InOrder(low)[k]
    <2>1. InOrder(low) \in Seq(low) /\ Len(InOrder(low)) = Cardinality(low) /\ Rank(low, InOrder(low)[k]) = k
        BY InOrderIs
    <2>2. PICK i \in low : i = InOrder(low)[k]
        BY <1>3, <2>1, ElementOfSeq
    <2>3. Rank(all, i) = k /\ i \in all
        BY <1>5, <2>1, <2>2 DEF all
    <2> QED BY <1>2, <2>2, <2>3, InOrderIs
<1>9. ASSUME NEW k \in 1 .. Cardinality(high) PROVE InOrder(all)[Cardinality(low) + k] = InOrder(high)[k]
    <2>1. InOrder(high) \in Seq(high) /\ Len(InOrder(high)) = Cardinality(high) /\ Rank(high, InOrder(high)[k]) = k
        BY InOrderIs
    <2>2. PICK i \in high : i = InOrder(high)[k]
        BY <1>3, <2>1, ElementOfSeq
    <2>3. Rank(all, i) = Cardinality(low) + k /\ i \in all
        BY <1>6, <2>1, <2>2 DEF all
    <2> QED BY <1>2, <2>2, <2>3, InOrderIs
<1>10. InOrder(all) = InOrder(low) \o InOrder(high)
    <2> DEFINE s == InOrder(all)
               t == InOrder(low)
               u == InOrder(high)
    <2>1. s \in Seq(Nat) /\ t \in Seq(Nat) /\ u \in Seq(Nat) /\ Len(s) = Len(t) + Len(u)
        BY <1>4, <1>7
    <2>2. \A k \in 1 .. Len(t) : s[k] = t[k]
        BY <1>7, <1>8
    <2>3. \A k \in 1 .. Len(u) : s[Len(t) + k] = u[k]
        BY <1>7, <1>9
    <2> HIDE DEF s, t, u
    <2>4. t \o u \in Seq(Nat) /\ Len(t \o u) = Len(s) /\ Len(t) \in Nat /\ Len(u) \in Nat
        BY <2>1
    <2>5. ASSUME NEW k \in 1 .. Len(s) PROVE s[k] = (t \o u)[k]
        <3>1. CASE k <= Len(t)
            BY <2>1, <2>2, <3>1
        <3>2. CASE k > Len(t)
            <4>1. k - Len(t) \in 1 .. Len(u) /\ Len(t) + (k - Len(t)) = k
                BY <2>1, <3>2
            <4>2. s[k] = u[k - Len(t)]
                BY <2>3, <4>1
            <4> QED BY <2>1, <3>2, <4>2
        <3> QED BY <2>1, <3>1, <3>2
    <2>6. s = t \o u
        BY <2>1, <2>4, <2>5, SeqEqual
    <2> QED BY <2>6 DEF s, t, u
<1> QED BY <1>10 DEF all, Consecutive

-----------------------------------------------------------------------------
(* Depths. *)

Mark == {-1, 0, 1}

Opening(marks, i) == {k \in 1 .. i : marks[k] = 1}
Closing(marks, i) == {k \in 1 .. i : marks[k] = -1}

LEMMA DepthType ==
  ASSUME NEW marks, NEW i \in Nat
  PROVE  Depth(marks, i) \in Int
<1>1. Opening(marks, i) \in SUBSET (1 .. i) /\ Closing(marks, i) \in SUBSET (1 .. i)
    BY DEF Opening, Closing
<1>2. Cardinality(Opening(marks, i)) \in Nat /\ Cardinality(Closing(marks, i)) \in Nat
    BY <1>1, Few
<1> QED BY <1>2 DEF Depth, Opening, Closing

LEMMA DepthZero ==
  ASSUME NEW marks
  PROVE  Depth(marks, 0) = 0
<1>1. Opening(marks, 0) = {} /\ Closing(marks, 0) = {}
    BY DEF Opening, Closing
<1>2. Cardinality(Opening(marks, 0)) = 0 /\ Cardinality(Closing(marks, 0)) = 0
    BY <1>1, FS_EmptySet
<1> QED BY <1>2 DEF Depth, Opening, Closing

LEMMA DepthStep ==
  ASSUME NEW marks \in Seq(Mark), NEW i \in 1 .. Len(marks)
  PROVE  Depth(marks, i) = Depth(marks, i - 1) + marks[i]
<1>1. i - 1 \in Nat /\ i \in Nat /\ marks[i] \in Mark
    BY ElementOfSeq
<1>2. /\ Opening(marks, i - 1) \in SUBSET (1 .. i - 1) /\ Closing(marks, i - 1) \in SUBSET (1 .. i - 1)
    BY DEF Opening, Closing
<1>3. /\ IsFiniteSet(Opening(marks, i - 1)) /\ Cardinality(Opening(marks, i - 1)) \in Nat
      /\ IsFiniteSet(Closing(marks, i - 1)) /\ Cardinality(Closing(marks, i - 1)) \in Nat
    BY <1>1, <1>2, Few
<1>4. i \notin Opening(marks, i - 1) /\ i \notin Closing(marks, i - 1)
    BY <1>1, <1>2
<1>5. Opening(marks, i) = IF marks[i] = 1 THEN Opening(marks, i - 1) \cup {i} ELSE Opening(marks, i - 1)
    BY <1>1 DEF Opening
<1>6. Closing(marks, i) = IF marks[i] = -1 THEN Closing(marks, i - 1) \cup {i} ELSE Closing(marks, i - 1)
    BY <1>1 DEF Closing
<1>7. Cardinality(Opening(marks, i)) = Cardinality(Opening(marks, i - 1)) + IF marks[i] = 1 THEN 1 ELSE 0
    <2>1. CASE marks[i] = 1
        BY <1>3, <1>4, <1>5, <2>1, FS_AddElement
    <2>2. CASE marks[i] # 1
        BY <1>3, <1>5, <2>2
    <2> QED BY <2>1, <2>2
<1>8. Cardinality(Closing(marks, i)) = Cardinality(Closing(marks, i - 1)) + IF marks[i] = -1 THEN 1 ELSE 0
    <2>1. CASE marks[i] = -1
        BY <1>3, <1>4, <1>6, <2>1, FS_AddElement
    <2>2. CASE marks[i] # -1
        BY <1>3, <1>6, <2>2
    <2> QED BY <2>1, <2>2
<1>9. /\ Depth(marks, i) = Cardinality(Opening(marks, i)) - Cardinality(Closing(marks, i))
      /\ Depth(marks, i - 1) = Cardinality(Opening(marks, i - 1)) - Cardinality(Closing(marks, i - 1))
    BY DEF Depth, Opening, Closing
<1> QED BY <1>1, <1>3, <1>7, <1>8, <1>9 DEF Mark

\* What a position is in does not depend on what follows.
LEMMA Prefix ==
  ASSUME NEW marks, NEW more, NEW n \in Nat, \A k \in 1 .. n : more[k] = marks[k]
  PROVE  /\ \A i \in 0 .. n : Depth(more, i) = Depth(marks, i)
         /\ \A i \in 1 .. n + 1 : Around(more, i) = Around(marks, i)
         /\ \A i \in 1 .. n + 1 : Encloser(more, i) = Encloser(marks, i)
<1>1. ASSUME NEW i \in 0 .. n PROVE Depth(more, i) = Depth(marks, i)
    <2>1. Opening(more, i) = Opening(marks, i)
        BY DEF Opening
    <2>2. Closing(more, i) = Closing(marks, i)
        BY DEF Closing
    <2> QED BY <2>1, <2>2 DEF Depth, Opening, Closing
<1>2. ASSUME NEW i \in 1 .. n + 1 PROVE Around(more, i) = Around(marks, i)
    <2>1. \A j \in 1 .. i - 1 : more[j] = marks[j] /\ Depth(more, j) = Depth(marks, j)
        BY <1>1
    <2>2. \A j \in 1 .. i - 1 : \A k \in j .. i - 1 : Depth(more, k) = Depth(marks, k)
        BY <1>1
    <2> QED BY <2>1, <2>2 DEF Around
<1> QED BY <1>1, <1>2 DEF Encloser

\* The innermost bracket around a position is the last that opened.
LEMMA EncloserIs ==
  ASSUME NEW marks, NEW i \in Nat \ {0}
  PROVE  /\ Encloser(marks, i) \in 0 .. i - 1
         /\ Encloser(marks, i) \in {0} \cup Around(marks, i)
         /\ \A j \in Around(marks, i) : j <= Encloser(marks, i)
<1> DEFINE all == {0} \cup Around(marks, i)
<1>1. i - 1 \in Nat /\ all \in SUBSET (0 .. i - 1) /\ 0 \in all
    BY DEF Around
<1>2. Encloser(marks, i) = Max(all)
    BY DEF Encloser
<1> HIDE DEF all
<1>3. Max(all) \in all /\ \A k \in all : k <= Max(all)
    BY <1>1, MaxOf
<1> QED BY <1>1, <1>2, <1>3 DEF all

\* A bracket around a position is around all that lies between the two.
LEMMA AroundEarlier ==
  ASSUME NEW marks, NEW i \in Nat, NEW p \in 1 .. i, NEW j \in Around(marks, i), j < p
  PROVE  j \in Around(marks, p)
BY DEF Around

\* What is around a bracket is around all that the bracket is around.
LEMMA AroundWithin ==
  ASSUME NEW marks \in Seq(Mark), NEW i \in 1 .. Len(marks) + 1,
         NEW p \in Around(marks, i), NEW j \in Around(marks, p)
  PROVE  j \in Around(marks, i)
<1>1. p \in 1 .. i - 1 /\ j \in 1 .. p - 1 /\ marks[j] = 1 /\ marks[p] = 1
    BY DEF Around
<1>2. \A k \in p .. i - 1 : Depth(marks, k) >= Depth(marks, p)
    BY DEF Around
<1>3. \A k \in j .. p - 1 : Depth(marks, k) >= Depth(marks, j)
    BY DEF Around
<1>4. Depth(marks, p) >= Depth(marks, j)
    <2>1. p \in 1 .. Len(marks) /\ p - 1 \in j .. p - 1
        BY <1>1
    <2>2. Depth(marks, p) = Depth(marks, p - 1) + 1
        BY <1>1, <2>1, DepthStep
    <2>3. Depth(marks, p - 1) \in Int /\ Depth(marks, j) \in Int
        BY <1>1, DepthType
    <2> QED BY <1>3, <2>1, <2>2, <2>3
<1>5. ASSUME NEW k \in j .. i - 1 PROVE Depth(marks, k) >= Depth(marks, j)
    <2>1. CASE k < p
        BY <1>1, <1>3, <2>1
    <2>2. CASE k >= p
        <3>1. Depth(marks, k) >= Depth(marks, p)
            BY <1>1, <1>2, <2>2
        <3>2. Depth(marks, k) \in Int /\ Depth(marks, p) \in Int /\ Depth(marks, j) \in Int
            BY <1>1, DepthType
        <3> QED BY <1>4, <3>1, <3>2
    <2> QED BY <1>1, <2>1, <2>2
<1>6. j \in 1 .. i - 1
    BY <1>1
<1> QED BY <1>1, <1>5, <1>6 DEF Around

-----------------------------------------------------------------------------
(* The stack. *)

\* The brackets on this stack are those that are open at the end.
Stacked(marks, chain) ==
  /\ marks \in Seq(Mark)
  /\ chain \in Seq(Nat)
  /\ Depth(marks, Len(marks)) = Len(chain)
  /\ \A i \in 0 .. Len(marks) : Depth(marks, i) >= 0
  /\ \A k \in DOMAIN chain :
       /\ chain[k] \in 1 .. Len(marks)
       /\ marks[chain[k]] = 1
       /\ Depth(marks, chain[k]) = k
       /\ \A i \in chain[k] .. Len(marks) : Depth(marks, i) >= k

TopOf(chain) == IF chain = <<>> THEN 0 ELSE chain[Len(chain)]

LEMMA StackedFirst == Stacked(<<>>, <<>>)
<1>1. Depth(<<>>, 0) = 0
    BY DepthZero
<1> QED BY <1>1 DEF Stacked

\* The stack rises.
LEMMA StackRises ==
  ASSUME NEW marks, NEW chain, Stacked(marks, chain),
         NEW k \in DOMAIN chain, NEW l \in DOMAIN chain, k < l
  PROVE  chain[k] < chain[l]
<1>1. chain[k] \in Nat /\ chain[l] \in Nat /\ Len(marks) \in Nat /\ k \in Nat /\ l \in Nat
    BY DEF Stacked
<1> SUFFICES ASSUME chain[l] <= chain[k] PROVE FALSE
    BY <1>1
<1>2. chain[k] \in chain[l] .. Len(marks)
    BY <1>1 DEF Stacked
<1>3. Depth(marks, chain[k]) = k /\ Depth(marks, chain[k]) >= l
    BY <1>2 DEF Stacked
<1> QED BY <1>1, <1>3

\* The brackets around what comes next are those on the stack.
LEMMA AroundNext ==
  ASSUME NEW marks, NEW chain, Stacked(marks, chain)
  PROVE  Around(marks, Len(marks) + 1) = {chain[k] : k \in DOMAIN chain}
<1> DEFINE n == Len(marks)
           opened == {chain[k] : k \in DOMAIN chain}
<1>1. /\ marks \in Seq(Mark) /\ chain \in Seq(Nat) /\ n \in Nat /\ Len(chain) \in Nat
      /\ Depth(marks, n) = Len(chain)
    BY DEF Stacked
<1>2. ASSUME NEW k \in DOMAIN chain PROVE chain[k] \in Around(marks, n + 1)
    <2>1. chain[k] \in 1 .. n /\ marks[chain[k]] = 1 /\ Depth(marks, chain[k]) = k
        BY DEF Stacked
    <2>2. \A i \in chain[k] .. n : Depth(marks, i) >= Depth(marks, chain[k])
        BY <2>1 DEF Stacked
    <2>3. n + 1 - 1 = n
        BY <1>1
    <2> QED BY <2>1, <2>2, <2>3 DEF Around
<1>3. ASSUME NEW j \in Around(marks, n + 1) PROVE j \in opened
    <2>1. j \in 1 .. n /\ marks[j] = 1 /\ \A k \in j .. n : Depth(marks, k) >= Depth(marks, j)
        BY <1>1 DEF Around
    <2>2. PICK d \in Int : d = Depth(marks, j)
        BY <2>1, DepthType
    <2>3. j - 1 \in 0 .. n /\ Depth(marks, j - 1) \in Int /\ Depth(marks, j - 1) = d - 1
        BY <2>1, <2>2, <1>1, DepthStep, DepthType
    <2>4. Depth(marks, j - 1) >= 0 /\ Depth(marks, n) >= d
        BY <2>1, <2>2, <2>3, <1>1 DEF Stacked
    <2>5. d \in DOMAIN chain
        BY <1>1, <2>3, <2>4
    <2>6. /\ chain[d] \in 1 .. n /\ marks[chain[d]] = 1 /\ Depth(marks, chain[d]) = d
          /\ \A i \in chain[d] .. n : Depth(marks, i) >= d
        BY <2>5 DEF Stacked
    <2>7. /\ chain[d] - 1 \in Nat /\ Depth(marks, chain[d] - 1) \in Int
          /\ Depth(marks, chain[d] - 1) = d - 1
        <3>1. PICK p \in 1 .. n : p = chain[d]
            BY <2>6
        <3>2. p - 1 \in Nat /\ Depth(marks, p - 1) \in Int
            BY <3>1, DepthType
        <3>3. marks[p] = 1 /\ Depth(marks, p) = d
            BY <2>6, <3>1
        <3>4. Depth(marks, p) = Depth(marks, p - 1) + marks[p]
            BY <1>1, DepthStep
        <3> QED BY <3>1, <3>2, <3>3, <3>4
    <2>8. CASE j < chain[d]
        <3>1. chain[d] - 1 \in j .. n
            BY <2>1, <2>6, <2>8
        <3>2. Depth(marks, chain[d] - 1) >= d
            BY <2>1, <2>2, <3>1
        <3> QED BY <2>7, <3>2
    <2>9. CASE chain[d] < j
        <3>1. j - 1 \in chain[d] .. n
            BY <2>1, <2>6, <2>9
        <3>2. Depth(marks, j - 1) >= d
            BY <2>6, <3>1
        <3> QED BY <2>3, <3>2
    <2>10. CASE j = chain[d]
        BY <2>5, <2>10
    <2> QED BY <2>1, <2>6, <2>8, <2>9, <2>10
<1> QED BY <1>2, <1>3

LEMMA EncloserNext ==
  ASSUME NEW marks, NEW chain, Stacked(marks, chain)
  PROVE  Encloser(marks, Len(marks) + 1) = TopOf(chain)
<1> DEFINE all == {0} \cup Around(marks, Len(marks) + 1)
<1>1. chain \in Seq(Nat) /\ Len(chain) \in Nat
    BY DEF Stacked
<1>2. all = {0} \cup {chain[k] : k \in DOMAIN chain}
    BY AroundNext
<1>3. TopOf(chain) \in all
    BY <1>1, <1>2 DEF TopOf
<1>4. ASSUME NEW k \in DOMAIN chain PROVE chain[k] <= TopOf(chain)
    <2>1. chain # <<>> /\ Len(chain) \in DOMAIN chain /\ k \in Nat /\ k <= Len(chain)
        BY <1>1
    <2>2. chain[k] \in Nat /\ chain[Len(chain)] \in Nat
        BY <1>1, <2>1
    <2>3. k < Len(chain) => chain[k] < chain[Len(chain)]
        BY <2>1, StackRises
    <2> QED BY <1>1, <2>1, <2>2, <2>3 DEF TopOf
<1>5. all \in SUBSET Int /\ \A x \in all : x <= TopOf(chain)
    <2>1. TopOf(chain) \in Nat
        BY <1>1 DEF TopOf
    <2>2. \A k \in DOMAIN chain : chain[k] \in Nat
        BY <1>1
    <2> QED BY <1>2, <1>4, <2>1, <2>2
<1> HIDE DEF all
<1>6. Max(all) = TopOf(chain)
    BY <1>3, <1>5, MaxIs
<1> QED BY <1>6 DEF Encloser, all

\* One more mark.
LEMMA NextDepth ==
  ASSUME NEW marks \in Seq(Mark), NEW mark \in Mark
  PROVE  LET more == Append(marks, mark)
             n == Len(marks)
         IN /\ more \in Seq(Mark) /\ Len(more) = n + 1 /\ n \in Nat
            /\ more[n + 1] = mark
            /\ \A k \in 1 .. n : more[k] = marks[k]
            /\ \A i \in 0 .. n : Depth(more, i) = Depth(marks, i)
            /\ Depth(more, n + 1) = Depth(marks, n) + mark
<1> DEFINE more == Append(marks, mark)
           n == Len(marks)
<1>1. /\ more \in Seq(Mark) /\ Len(more) = n + 1 /\ n \in Nat
      /\ more[n + 1] = mark
      /\ \A k \in 1 .. n : more[k] = marks[k]
    OBVIOUS
<1> HIDE DEF more, n
<1>2. \A i \in 0 .. n : Depth(more, i) = Depth(marks, i)
    BY <1>1, Prefix
<1>3. n + 1 \in 1 .. Len(more) /\ n + 1 - 1 = n
    BY <1>1
<1>4. Depth(more, n + 1) = Depth(more, n) + mark
    BY <1>1, <1>3, DepthStep
<1>5. Depth(more, n) = Depth(marks, n)
    BY <1>1, <1>2
<1> QED BY <1>1, <1>2, <1>4, <1>5 DEF more, n

LEMMA StackedSame ==
  ASSUME NEW marks, NEW chain, Stacked(marks, chain)
  PROVE  Stacked(Append(marks, 0), chain)
<1> DEFINE more == Append(marks, 0)
           n == Len(marks)
<1>1. /\ marks \in Seq(Mark) /\ chain \in Seq(Nat) /\ Depth(marks, n) = Len(chain) /\ Len(chain) \in Nat
    BY DEF Stacked
<1>2. /\ more \in Seq(Mark) /\ Len(more) = n + 1 /\ n \in Nat
      /\ \A k \in 1 .. n : more[k] = marks[k]
      /\ \A i \in 0 .. n : Depth(more, i) = Depth(marks, i)
      /\ Depth(more, n + 1) = Depth(marks, n) + 0
    BY <1>1, NextDepth DEF Mark
<1> HIDE DEF more
<1>3. Depth(more, n + 1) = Len(chain)
    BY <1>1, <1>2
<1>4. \A i \in 0 .. n + 1 : Depth(more, i) >= 0
    BY <1>1, <1>2, <1>3 DEF Stacked
<1>5. ASSUME NEW k \in DOMAIN chain
      PROVE  /\ chain[k] \in 1 .. n + 1
             /\ more[chain[k]] = 1
             /\ Depth(more, chain[k]) = k
             /\ \A i \in chain[k] .. n + 1 : Depth(more, i) >= k
    <2>1. /\ chain[k] \in 1 .. n /\ marks[chain[k]] = 1 /\ Depth(marks, chain[k]) = k
          /\ \A i \in chain[k] .. n : Depth(marks, i) >= k
        BY DEF Stacked
    <2>2. Len(chain) >= k
        BY <1>1
    <2> QED BY <1>2, <1>3, <2>1, <2>2
<1> QED BY <1>1, <1>2, <1>3, <1>4, <1>5 DEF Stacked, more

LEMMA StackedPush ==
  ASSUME NEW marks, NEW chain, Stacked(marks, chain)
  PROVE  Stacked(Append(marks, 1), Append(chain, Len(marks) + 1))
<1> DEFINE more == Append(marks, 1)
           n == Len(marks)
           higher == Append(chain, n + 1)
           top == Len(chain) + 1
<1>1. /\ marks \in Seq(Mark) /\ chain \in Seq(Nat) /\ Depth(marks, n) = Len(chain) /\ Len(chain) \in Nat
    BY DEF Stacked
<1>2. /\ more \in Seq(Mark) /\ Len(more) = n + 1 /\ n \in Nat
      /\ more[n + 1] = 1
      /\ \A k \in 1 .. n : more[k] = marks[k]
      /\ \A i \in 0 .. n : Depth(more, i) = Depth(marks, i)
      /\ Depth(more, n + 1) = Depth(marks, n) + 1
    BY <1>1, NextDepth DEF Mark
<1>3. /\ higher \in Seq(Nat) /\ Len(higher) = top /\ higher[top] = n + 1
      /\ DOMAIN higher = 1 .. top
      /\ \A k \in 1 .. Len(chain) : higher[k] = chain[k]
    BY <1>1, <1>2
<1> HIDE DEF more, higher
<1>4. Depth(more, n + 1) = top
    BY <1>1, <1>2
<1>5. \A i \in 0 .. n + 1 : Depth(more, i) >= 0
    BY <1>1, <1>2, <1>4, SMTT(30) DEF Stacked
<1>6. ASSUME NEW k \in DOMAIN higher
      PROVE  /\ higher[k] \in 1 .. n + 1
             /\ more[higher[k]] = 1
             /\ Depth(more, higher[k]) = k
             /\ \A i \in higher[k] .. n + 1 : Depth(more, i) >= k
    <2>1. CASE k \in 1 .. Len(chain)
        <3>1. /\ chain[k] \in 1 .. n /\ marks[chain[k]] = 1 /\ Depth(marks, chain[k]) = k
              /\ \A i \in chain[k] .. n : Depth(marks, i) >= k
            BY <1>1, <2>1 DEF Stacked
        <3>2. higher[k] = chain[k] /\ Len(chain) >= k
            BY <1>1, <1>3, <2>1
        <3>3. PICK p \in 1 .. n : p = chain[k]
            BY <3>1
        <3>4. p \in 1 .. n + 1 /\ p \in 0 .. n /\ more[p] = 1 /\ Depth(more, p) = k
            BY <1>2, <3>1, <3>3
        <3>5. \A i \in p .. n : Depth(more, i) >= k
            BY <1>2, <3>1, <3>3
        <3>6. Depth(more, n + 1) >= k
            BY <1>1, <1>4, <2>1, <3>2
        <3>7. \A i \in p .. n + 1 : i \in p .. n \/ i = n + 1
            BY <1>2
        <3> QED BY <3>2, <3>3, <3>4, <3>5, <3>6, <3>7
    <2>2. CASE k = top
        BY <1>2, <1>3, <1>4, <2>2
    <2> QED BY <1>1, <1>3, <2>1, <2>2
<1> QED BY <1>2, <1>3, <1>4, <1>5, <1>6 DEF Stacked, more, higher

LEMMA StackedPop ==
  ASSUME NEW marks, NEW chain, Stacked(marks, chain), chain # <<>>
  PROVE  Stacked(Append(marks, -1), SubSeq(chain, 1, Len(chain) - 1))
<1> DEFINE more == Append(marks, -1)
           n == Len(marks)
           lower == SubSeq(chain, 1, Len(chain) - 1)
<1>1. /\ marks \in Seq(Mark) /\ chain \in Seq(Nat) /\ Depth(marks, n) = Len(chain)
      /\ Len(chain) \in Nat \ {0}
    BY DEF Stacked
<1>2. /\ more \in Seq(Mark) /\ Len(more) = n + 1 /\ n \in Nat
      /\ \A k \in 1 .. n : more[k] = marks[k]
      /\ \A i \in 0 .. n : Depth(more, i) = Depth(marks, i)
      /\ Depth(more, n + 1) = Depth(marks, n) + (-1)
    BY <1>1, NextDepth DEF Mark
<1>3. /\ lower \in Seq(Nat) /\ Len(lower) = Len(chain) - 1
      /\ DOMAIN lower = 1 .. Len(chain) - 1
      /\ \A k \in 1 .. Len(chain) - 1 : lower[k] = chain[k]
    BY <1>1
<1> HIDE DEF more, lower
<1>4. Depth(more, n + 1) = Len(chain) - 1
    BY <1>1, <1>2
<1>5. \A i \in 0 .. n + 1 : Depth(more, i) >= 0
    <2>1. \A i \in 0 .. n : Depth(more, i) >= 0
        BY <1>2 DEF Stacked
    <2>2. Depth(more, n + 1) >= 0
        BY <1>1, <1>4
    <2>3. \A i \in 0 .. n + 1 : i \in 0 .. n \/ i = n + 1
        BY <1>2
    <2> QED BY <2>1, <2>2, <2>3
<1>6. ASSUME NEW k \in DOMAIN lower
      PROVE  /\ lower[k] \in 1 .. n + 1
             /\ more[lower[k]] = 1
             /\ Depth(more, lower[k]) = k
             /\ \A i \in lower[k] .. n + 1 : Depth(more, i) >= k
    <2>1. k \in DOMAIN chain /\ lower[k] = chain[k] /\ k <= Len(chain) - 1
        <3>1. DOMAIN chain = 1 .. Len(chain) /\ Len(chain) \in Nat
            BY <1>1
        <3>2. k \in 1 .. Len(chain) - 1
            BY <1>3
        <3>3. lower[k] = chain[k]
            BY <1>3, <3>2, Zenon
        <3> QED BY <3>1, <3>2, <3>3
    <2>2. /\ chain[k] \in 1 .. n /\ marks[chain[k]] = 1 /\ Depth(marks, chain[k]) = k
          /\ \A i \in chain[k] .. n : Depth(marks, i) >= k
        BY <2>1 DEF Stacked
    <2>3. PICK p \in 1 .. n : p = chain[k]
        BY <2>2
    <2>4. p \in 1 .. n + 1 /\ p \in 0 .. n /\ more[p] = 1 /\ Depth(more, p) = k
        BY <1>2, <2>2, <2>3
    <2>5. \A i \in p .. n : Depth(more, i) >= k
        BY <1>2, <2>2, <2>3
    <2>6. Depth(more, n + 1) >= k
        BY <1>1, <1>4, <2>1
    <2>7. \A i \in p .. n + 1 : i \in p .. n \/ i = n + 1
        BY <1>2
    <2> QED BY <2>1, <2>3, <2>4, <2>5, <2>6, <2>7
<1> QED BY <1>2, <1>3, <1>4, <1>5, <1>6 DEF Stacked, more, lower

\* Brackets are balanced just when the stack is empty at the end.
LEMMA StackedBalanced ==
  ASSUME NEW marks, NEW chain, Stacked(marks, chain)
  PROVE  Balanced(marks) <=> chain = <<>>
<1>1. /\ marks \in Seq(Mark) /\ chain \in Seq(Nat) /\ Depth(marks, Len(marks)) = Len(chain)
      /\ \A i \in 1 .. Len(marks) : Depth(marks, i) >= 0
    BY DEF Stacked
<1> QED BY <1>1 DEF Balanced

\* An end with nothing open unbalances them for good.
LEMMA ClosesNothing ==
  ASSUME NEW marks, Stacked(marks, <<>>)
  PROVE  ~ Balanced(Append(marks, -1))
<1> DEFINE more == Append(marks, -1)
           n == Len(marks)
<1>1. marks \in Seq(Mark) /\ Depth(marks, n) = 0
    BY DEF Stacked
<1>2. more \in Seq(Mark) /\ Len(more) = n + 1 /\ n \in Nat /\ Depth(more, n + 1) = Depth(marks, n) + (-1)
    BY <1>1, NextDepth DEF Mark
<1> HIDE DEF more
<1>3. n + 1 \in DOMAIN more /\ Depth(more, n + 1) = -1
    BY <1>1, <1>2
<1> QED BY <1>3 DEF Balanced, more

-----------------------------------------------------------------------------
(* The parser keeps the shape of its tree.  TreeShape does not say enough  *)
(* to be kept: an element is one deeper than the element on top of the     *)
(* stack, so the depth of that one has to be the height of the stack, and  *)
(* the stack has to be low while events are read.                          *)

Nodes ==
  [tag : Tags, attrs : Attributes, text : Seq(Pieces), parent : Nat, depth : Nat]

Typed ==
  /\ elements \in Seq(Nodes)
  /\ open \in Seq(Nat)
  /\ root \in Nat

\* What is said of the element i of a tree and of the place k of a stack.
Hangs(tree, i) ==
  LET parent == tree[i].parent
  IN /\ parent \in 0 .. i - 1
     /\ tree[i].depth = IF parent = 0 THEN 1 ELSE tree[parent].depth + 1
     /\ tree[i].depth <= MaxDepth + 1

OnStack(tree, chain, k) ==
  /\ chain[k] \in DOMAIN tree
  /\ tree[chain[k]].parent = IF k = 1 THEN 0 ELSE chain[k - 1]
  /\ tree[chain[k]].depth = k

\* The inductive invariant.
Grown ==
  /\ Typed
  /\ Len(elements) <= MaxElements
  /\ \A i \in DOMAIN elements : Hangs(elements, i)
  /\ \A k \in DOMAIN open : OnStack(elements, open, k)
  /\ root # 0 => root \in DOMAIN elements /\ elements[root].parent = 0
  /\ outcome = "reading" => Len(open) <= MaxDepth
  /\ outcome = "parsed" => root # 0 /\ open = <<>>

-----------------------------------------------------------------------------

LEMMA InitGrown == InstanceInit => Grown
BY LimitsAssumption DEF InstanceInit, Grown, Typed

LEMMA GrownShape == Grown => TreeShape
BY DEF Grown, Typed, TreeShape, Hangs, OnStack

LEMMA NotEmpty ==
  ASSUME NEW S, NEW s \in Seq(S), s # <<>>
  PROVE  Len(s) \in Nat \ {0} /\ Len(s) \in DOMAIN s
OBVIOUS

LEMMA Beginning ==
  ASSUME NEW s \in Seq(Nat), NEW n \in Nat, n < Len(s), NEW t, t = SubSeq(s, 1, n)
  PROVE  /\ t \in Seq(Nat)
         /\ Len(t) = n
         /\ \A j \in 1 .. n : t[j] = s[j]
OBVIOUS

LEMMA AllButLast ==
  ASSUME NEW s \in Seq(Nat), s # <<>>, NEW t, t = SubSeq(s, 1, Len(s) - 1)
  PROVE  /\ t \in Seq(Nat)
         /\ Len(t) = Len(s) - 1
         /\ \A j \in 1 .. Len(s) - 1 : t[j] = s[j]
<1> DEFINE n == Len(s) - 1
<1>1. n \in Nat /\ n < Len(s) /\ t = SubSeq(s, 1, n)
    BY NotEmpty
<1> HIDE DEF n
<1>2. t \in Seq(Nat) /\ Len(t) = n /\ \A j \in 1 .. n : t[j] = s[j]
    BY <1>1, Beginning
<1> QED BY <1>2 DEF n

\* The top of the stack, under which an element is put.
LEMMA TopOfStack ==
  ASSUME Grown
  PROVE  /\ Top \in Nat
         /\ open = <<>> => Top = 0
         /\ open # <<>> => /\ Top \in DOMAIN elements
                           /\ Len(open) \in DOMAIN open
                           /\ elements[Top].depth = Len(open)
                           /\ elements[Top].parent = IF Len(open) = 1 THEN 0 ELSE open[Len(open) - 1]
<1>1. CASE open = <<>>
    BY <1>1 DEF Top
<1>2. CASE open # <<>>
    <2>1. open \in Seq(Nat) /\ Len(open) \in Nat \ {0} /\ Len(open) \in DOMAIN open
        BY <1>2, NotEmpty DEF Grown, Typed
    <2>2. OnStack(elements, open, Len(open))
        BY <2>1 DEF Grown
    <2> QED BY <1>2, <2>1, <2>2 DEF Top, OnStack
<1> QED BY <1>1, <1>2

\* Reading stops with an error.
LEMMA ConcludeGrown ==
  ASSUME Grown, NEW error, Conclude(error), error # "reading",
         error = "parsed" => root # 0 /\ open = <<>>
  PROVE  Grown'
BY DEF Grown, Typed, Conclude, Hangs, OnStack

\* The tree with one more element, under the top of the stack.
LEMMA OneMore ==
  ASSUME Grown, outcome = "reading", Len(elements) < MaxElements,
         NEW tag \in Tags, NEW attrs \in Attributes,
         elements' = Append(elements, Element(tag, attrs))
  PROVE  /\ elements' \in Seq(Nodes)
         /\ Len(elements') = Len(elements) + 1 /\ Len(elements') <= MaxElements
         /\ \A i \in DOMAIN elements' : Hangs(elements', i)
         /\ \A i \in DOMAIN elements : i \in DOMAIN elements' /\ elements'[i] = elements[i]
         /\ elements'[Len(elements) + 1].parent = Top
         /\ elements'[Len(elements) + 1].depth = Len(open) + 1
<1> DEFINE new == Element(tag, attrs)
           n == Len(elements) + 1
<1>1. /\ elements \in Seq(Nodes) /\ open \in Seq(Nat) /\ Len(elements) \in Nat /\ Len(open) \in Nat
      /\ \A i \in DOMAIN elements : Hangs(elements, i)
      /\ Len(open) <= MaxDepth
    BY DEF Grown, Typed
<1>2. new \in Nodes /\ new.parent = Top /\ new.depth = Len(open) + 1
    BY <1>1, TopOfStack DEF Element, Nodes
<1> HIDE DEF new
<1>3. /\ elements' \in Seq(Nodes) /\ Len(elements') = n /\ elements'[n] = new
      /\ \A i \in DOMAIN elements : i \in DOMAIN elements' /\ elements'[i] = elements[i]
    BY <1>1, <1>2 DEF new
<1>4. ASSUME NEW i \in DOMAIN elements' PROVE Hangs(elements', i)
    <2>1. CASE i \in DOMAIN elements
        <3>1. Hangs(elements, i) /\ elements'[i] = elements[i] /\ i \in Nat /\ i <= Len(elements)
            BY <1>1, <1>3, <2>1
        <3>2. elements[i].parent # 0 =>
                elements[i].parent \in DOMAIN elements
                /\ elements'[elements[i].parent] = elements[elements[i].parent]
            BY <1>1, <1>3, <3>1 DEF Hangs
        <3> QED BY <3>1, <3>2 DEF Hangs
    <2>2. CASE i = n
        <3>1. Top \in 0 .. n - 1
            BY <1>1, TopOfStack
        <3>2. new.depth = IF Top = 0 THEN 1 ELSE elements'[Top].depth + 1
            BY <1>1, <1>2, <1>3, TopOfStack
        <3>3. new.depth <= MaxDepth + 1
            BY <1>1, <1>2, LimitsAssumption
        <3> QED BY <1>2, <1>3, <2>2, <3>1, <3>2, <3>3 DEF Hangs
    <2> QED BY <1>1, <1>3, <2>1, <2>2
<1> QED BY <1>1, <1>2, <1>3, <1>4, LimitsAssumption

\* What stays on the stack is where it was.
LEMMA StillOnStack ==
  ASSUME Grown, elements' \in Seq(Nodes),
         \A i \in DOMAIN elements : /\ i \in DOMAIN elements'
                                    /\ elements'[i].parent = elements[i].parent
                                    /\ elements'[i].depth = elements[i].depth,
         NEW chain \in Seq(Nat), NEW k \in DOMAIN open,
         k \in DOMAIN chain,
         \A j \in 1 .. k : chain[j] = open[j]
  PROVE  OnStack(elements', chain, k)
<1>1. OnStack(elements, open, k) /\ k \in Nat /\ k >= 1
    BY DEF Grown, Typed
<1>2. chain[k] = open[k] /\ (k # 1 => chain[k - 1] = open[k - 1])
    BY <1>1, SMTT(30)
<1> QED BY <1>1, <1>2 DEF OnStack

LEMMA StartElementGrown ==
  ASSUME Grown, NEW tag \in Tags, NEW attrs \in Attributes, StartElement(tag, attrs)
  PROVE  Grown'
<1>1. outcome = "reading"
    BY DEF StartElement, Reads
<1>2. CASE Conclude("TooLarge") \/ Conclude("Malformed")
    BY <1>2, ConcludeGrown
<1>3. CASE /\ Len(elements) < MaxElements
           /\ elements' = Append(elements, Element(tag, attrs))
           /\ open' = Append(open, Len(elements) + 1)
           /\ outcome' = IF Len(open) >= MaxDepth THEN "TooDeep" ELSE "reading"
           /\ UNCHANGED root
    <2>1. /\ open \in Seq(Nat) /\ Len(open) \in Nat /\ Len(elements) \in Nat /\ root \in Nat
          /\ Len(open) <= MaxDepth
          /\ root # 0 => root \in DOMAIN elements /\ elements[root].parent = 0
        BY <1>1 DEF Grown, Typed
    <2>2. /\ elements' \in Seq(Nodes)
          /\ Len(elements') = Len(elements) + 1 /\ Len(elements') <= MaxElements
          /\ \A i \in DOMAIN elements' : Hangs(elements', i)
          /\ \A i \in DOMAIN elements : i \in DOMAIN elements' /\ elements'[i] = elements[i]
          /\ elements'[Len(elements) + 1].parent = Top
          /\ elements'[Len(elements) + 1].depth = Len(open) + 1
        BY <1>1, <1>3, OneMore
    <2>3. /\ open' \in Seq(Nat) /\ Len(open') = Len(open) + 1
          /\ open'[Len(open) + 1] = Len(elements) + 1
          /\ \A j \in DOMAIN open : j \in DOMAIN open' /\ open'[j] = open[j]
        BY <1>3, <2>1
    <2>4. ASSUME NEW k \in DOMAIN open' PROVE OnStack(elements', open', k)
        <3>1. CASE k \in DOMAIN open
            <4>1. k \in DOMAIN open' /\ \A j \in 1 .. k : open'[j] = open[j]
                BY <2>1, <2>3, <3>1
            <4> QED BY <2>2, <2>3, <3>1, <4>1, StillOnStack
        <3>2. CASE k = Len(open) + 1
            <4>1. Len(elements) + 1 \in DOMAIN elements'
                BY <2>1, <2>2
            <4>2. Top = IF k = 1 THEN 0 ELSE open'[k - 1]
                BY <2>1, <2>3, <3>2 DEF Top
            <4> QED BY <2>2, <2>3, <3>2, <4>1, <4>2 DEF OnStack
        <3> QED BY <2>1, <2>3, <3>1, <3>2
    <2>5. outcome' = "reading" => Len(open') <= MaxDepth
        BY <1>3, <2>1, <2>3, LimitsAssumption
    <2>6. outcome' # "parsed"
        BY <1>3
    <2> QED BY <1>3, <2>1, <2>2, <2>3, <2>4, <2>5, <2>6 DEF Grown, Typed
<1>4. Len(elements) \in Nat
    BY DEF Grown, Typed
<1> QED BY <1>2, <1>3, <1>4, LimitsAssumption DEF StartElement

LEMMA EmptyElementGrown ==
  ASSUME Grown, NEW tag \in Tags, NEW attrs \in Attributes, EmptyElement(tag, attrs)
  PROVE  Grown'
<1>1. outcome = "reading"
    BY DEF EmptyElement, Reads
<1>2. CASE Conclude("TooLarge") \/ Conclude("Malformed")
    BY <1>2, ConcludeGrown
<1>3. CASE /\ Len(elements) < MaxElements
           /\ elements' = Append(elements, Element(tag, attrs))
           /\ root' = IF open = <<>> THEN Len(elements) + 1 ELSE root
           /\ UNCHANGED <<open, outcome>>
    <2>1. /\ open \in Seq(Nat) /\ Len(elements) \in Nat /\ root \in Nat
          /\ root # 0 => root \in DOMAIN elements /\ elements[root].parent = 0
          /\ Len(open) <= MaxDepth
        BY <1>1 DEF Grown, Typed
    <2>2. /\ elements' \in Seq(Nodes)
          /\ Len(elements') = Len(elements) + 1 /\ Len(elements') <= MaxElements
          /\ \A i \in DOMAIN elements' : Hangs(elements', i)
          /\ \A i \in DOMAIN elements : i \in DOMAIN elements' /\ elements'[i] = elements[i]
          /\ elements'[Len(elements) + 1].parent = Top
        BY <1>1, <1>3, OneMore
    <2>3. ASSUME NEW k \in DOMAIN open' PROVE OnStack(elements', open', k)
        BY <1>3, <2>1, <2>2, StillOnStack
    <2>4. root' \in Nat /\ (root' # 0 => root' \in DOMAIN elements' /\ elements'[root'].parent = 0)
        BY <1>3, <2>1, <2>2, TopOfStack
    <2> QED BY <1>1, <1>3, <2>1, <2>2, <2>3, <2>4 DEF Grown, Typed
<1>4. Len(elements) \in Nat
    BY DEF Grown, Typed
<1> QED BY <1>2, <1>3, <1>4, LimitsAssumption DEF EmptyElement

LEMMA EndElementGrown ==
  ASSUME Grown, NEW tag, EndElement(tag)
  PROVE  Grown'
<1>1. outcome = "reading"
    BY DEF EndElement, Reads
<1>2. CASE Conclude("Malformed")
    BY <1>2, ConcludeGrown
<1>3. CASE /\ open # <<>>
           /\ open' = SubSeq(open, 1, Len(open) - 1)
           /\ root' = IF Len(open) = 1 THEN Top ELSE root
           /\ UNCHANGED <<elements, outcome>>
    <2>1. /\ elements \in Seq(Nodes) /\ open \in Seq(Nat) /\ Len(open) \in Nat \ {0} /\ root \in Nat
          /\ Len(open) <= MaxDepth
          /\ root # 0 => root \in DOMAIN elements /\ elements[root].parent = 0
        BY <1>1, <1>3, NotEmpty DEF Grown, Typed
    <2>2. /\ open' \in Seq(Nat) /\ Len(open') = Len(open) - 1
          /\ \A j \in 1 .. Len(open) - 1 : open'[j] = open[j]
        BY <1>3, <2>1, AllButLast
    <2>3. ASSUME NEW k \in DOMAIN open' PROVE OnStack(elements', open', k)
        <3>1. k \in DOMAIN open /\ \A j \in 1 .. k : open'[j] = open[j]
            BY <2>1, <2>2
        <3> QED BY <1>3, <2>1, <2>2, <3>1, StillOnStack
    <2>4. root' \in Nat /\ (root' # 0 => root' \in DOMAIN elements /\ elements[root'].parent = 0)
        BY <1>3, <2>1, TopOfStack
    <2>5. \A i \in DOMAIN elements' : Hangs(elements', i)
        BY <1>3 DEF Grown
    <2>6. Len(open') <= MaxDepth
        BY <2>1, <2>2, LimitsAssumption
    <2> QED BY <1>1, <1>3, <2>1, <2>2, <2>3, <2>4, <2>5, <2>6 DEF Grown, Typed
<1> QED BY <1>2, <1>3 DEF EndElement

\* A text changes no place in the tree.
LEMMA AddTextGrown ==
  ASSUME Grown, outcome = "reading", NEW piece \in Pieces, AddText(piece)
  PROVE  Grown'
<1>1. CASE open = <<>>
    BY <1>1 DEF AddText, Grown, Typed, Hangs, OnStack
<1>2. CASE open # <<>>
    <2>1. /\ elements' = [elements EXCEPT ![Top].text = Append(@, piece)]
          /\ UNCHANGED <<open, root, outcome>>
        BY <1>2 DEF AddText
    <2>2. elements \in Seq(Nodes) /\ Top \in DOMAIN elements
        BY <1>2, TopOfStack DEF Grown, Typed
    <2>3. PICK old : old = elements[Top]
        OBVIOUS
    <2>4. PICK text : text = Append(old.text, piece)
        OBVIOUS
    <2>5. PICK new : new = [old EXCEPT !.text = text]
        OBVIOUS
    <2>6. old \in Nodes
        BY <2>2, <2>3
    <2>7. text \in Seq(Pieces)
        BY <2>4, <2>6 DEF Nodes
    <2>8. new \in Nodes /\ new.parent = old.parent /\ new.depth = old.depth
        BY <2>5, <2>6, <2>7 DEF Nodes
    <2>9. elements' = [elements EXCEPT ![Top] = new]
        BY <2>1, <2>2, <2>3, <2>4, <2>5
    <2>10. /\ elements' \in Seq(Nodes) /\ Len(elements') = Len(elements)
          /\ DOMAIN elements' = DOMAIN elements
          /\ \A i \in DOMAIN elements : /\ elements'[i].parent = elements[i].parent
                                        /\ elements'[i].depth = elements[i].depth
        BY <2>2, <2>3, <2>8, <2>9
    <2>11. ASSUME NEW i \in DOMAIN elements' PROVE Hangs(elements', i)
        <3>1. Hangs(elements, i) /\ i \in DOMAIN elements
            BY <2>10 DEF Grown
        <3>2. elements[i].parent # 0 => elements[i].parent \in DOMAIN elements
            BY <2>2, <3>1 DEF Hangs
        <3> QED BY <2>10, <3>1, <3>2 DEF Hangs
    <2>12. ASSUME NEW k \in DOMAIN open' PROVE OnStack(elements', open', k)
        BY <2>1, <2>10, StillOnStack DEF Grown, Typed
    <2> QED BY <2>1, <2>10, <2>11, <2>12 DEF Grown, Typed
<1> QED BY <1>1, <1>2

LEMMA EofGrown ==
  ASSUME Grown, Eof
  PROVE  Grown'
<1> DEFINE error == CASE open # <<>> \/ root = 0 -> "Malformed"
                    [] open = <<>> /\ root # 0 /\ ~ HasFormId -> "MissingFormId"
                    [] open = <<>> /\ root # 0 /\ HasFormId /\ ~ HasInstanceId -> "MissingInstanceId"
                    [] OTHER -> "parsed"
<1>1. Conclude(error)
    BY DEF Eof
<1>2. error # "reading" /\ (error = "parsed" => root # 0 /\ open = <<>>)
    OBVIOUS
<1> HIDE DEF error
<1> QED BY <1>1, <1>2, ConcludeGrown

LEMMA EventGrown == Grown /\ [Event]_instanceVars => Grown'
<1> SUFFICES ASSUME Grown, [Event]_instanceVars PROVE Grown'
    OBVIOUS
<1>1. ASSUME NEW tag \in Tags, NEW attrs \in Attributes, StartElement(tag, attrs) PROVE Grown'
    BY <1>1, StartElementGrown
<1>2. ASSUME NEW tag \in Tags, NEW attrs \in Attributes, EmptyElement(tag, attrs) PROVE Grown'
    BY <1>2, EmptyElementGrown
<1>3. ASSUME NEW tag \in Tags, EndElement(tag) PROVE Grown'
    BY <1>3, EndElementGrown
<1>4. ASSUME NEW kind, NEW piece \in Pieces, Text(kind, piece) PROVE Grown'
    BY <1>4, AddTextGrown DEF Text, Reads
<1>5. ASSUME NEW name \in RefNames, GeneralRef(name) PROVE Grown'
    <2>1. CASE Conclude("UnknownEntity")
        BY <2>1, ConcludeGrown
    <2>2. CASE name \in DOMAIN Entities /\ AddText(Entities[name])
        BY <1>5, <2>2, EntitiesAssumption, AddTextGrown DEF GeneralRef, Reads
    <2> QED BY <1>5, <2>1, <2>2 DEF GeneralRef
<1>6. CASE DocType \/ Unreadable
    BY <1>6, ConcludeGrown DEF DocType, Unreadable
<1>7. CASE Other \/ UNCHANGED instanceVars
    BY <1>7 DEF Other, instanceVars, Grown, Typed, Hangs, OnStack
<1>8. CASE Eof
    BY <1>8, EofGrown
<1> QED BY <1>1, <1>2, <1>3, <1>4, <1>5, <1>6, <1>7, <1>8 DEF Event, EventOf

\* Whatever events arrive, the stack stays the chain of ancestors of what is
\* read next, every element hangs in an earlier one, one deeper, and the tree
\* stays within MAX_ELEMENTS and, but for an empty element, MAX_DEPTH
\* (parse_tree).
THEOREM ShapeIsKept == InstanceSpec => []TreeShape
<1>1. InstanceInit => Grown
    BY InitGrown
<1>2. Grown /\ [Event]_instanceVars => Grown'
    BY EventGrown
<1>3. Grown => TreeShape
    BY GrownShape
<1> QED BY <1>1, <1>2, <1>3, PTL DEF InstanceSpec

-----------------------------------------------------------------------------
(* What is parsed is what was written: the stack lists the starts around   *)
(* the next event, and every element has the text read for it so far.      *)

\* What the parser reads.
Events ==
  [kind : {"Start", "Empty"}, tag : Tags, attrs : Attributes]
  \cup [kind : {"End"}, tag : Tags]
  \cup [kind : {"Text", "CData"}, piece : Pieces]
  \cup [kind : {"Ref"}, name : RefNames]
  \cup [kind : {"DocType", "Other", "Unreadable", "Eof"}]

Elementary == {"Start", "Empty"}
Textual == {"Text", "CData", "Ref"}

LEMMA BegunWhere ==
  ASSUME NEW events \in Seq(Events)
  PROVE  /\ Len(events) \in Nat /\ Begun(events) \in SUBSET (1 .. Len(events))
         /\ \A i : Inside(events, i) \in SUBSET (1 .. Len(events))
         /\ ElementEvents(events) \in Seq(Begun(events))
         /\ Len(ElementEvents(events)) = Cardinality(Begun(events))
         /\ Cardinality(Begun(events)) \in Nat
<1>1. /\ Len(events) \in Nat /\ Begun(events) \in SUBSET (1 .. Len(events))
      /\ \A i : Inside(events, i) \in SUBSET (1 .. Len(events))
    BY DEF Begun, Inside
<1> QED BY <1>1, InOrderIs, Few DEF ElementEvents

LEMMA MarksType ==
  ASSUME NEW events \in Seq(Events)
  PROVE  TreeMarks(events) \in Seq(Mark) /\ Len(TreeMarks(events)) = Len(events) /\ Len(events) \in Nat
<1>1. PICK n \in Nat : n = Len(events) /\ DOMAIN events = 1 .. n
    OBVIOUS
<1>2. TreeMarks(events) \in [1 .. n -> Mark]
    BY <1>1 DEF TreeMarks, MarkOf, Mark
<1> QED BY <1>1, <1>2

\* One more event.
LEMMA NextEvent ==
  ASSUME NEW events \in Seq(Events), NEW event \in Events
  PROVE  LET more == Append(events, event)
             n == Len(events)
         IN /\ n \in Nat
            /\ more \in Seq(Events) /\ Len(more) = n + 1
            /\ DOMAIN more = 1 .. n + 1 /\ DOMAIN events = 1 .. n
            /\ more[n + 1] = event
            /\ \A i \in 1 .. n : more[i] = events[i]
            /\ TreeMarks(more) = Append(TreeMarks(events), MarkOf(event))
            /\ \A i \in 1 .. n + 1 : Parent(more, i) = Parent(events, i)
<1> DEFINE more == Append(events, event)
           n == Len(events)
<1>1. /\ n \in Nat
      /\ more \in Seq(Events) /\ Len(more) = n + 1
      /\ DOMAIN more = 1 .. n + 1 /\ DOMAIN events = 1 .. n
      /\ more[n + 1] = event
      /\ \A i \in 1 .. n : more[i] = events[i]
    OBVIOUS
<1> HIDE DEF more, n
<1>2. /\ TreeMarks(events) \in Seq(Mark) /\ Len(TreeMarks(events)) = n
      /\ TreeMarks(more) \in Seq(Mark) /\ Len(TreeMarks(more)) = n + 1
    BY <1>1, MarksType DEF n
<1>3. /\ \A i \in 1 .. n : TreeMarks(more)[i] = TreeMarks(events)[i]
      /\ TreeMarks(more)[n + 1] = MarkOf(event)
    BY <1>1 DEF TreeMarks
<1>4. TreeMarks(more) = Append(TreeMarks(events), MarkOf(event))
    <2> DEFINE old == TreeMarks(events)
               new == TreeMarks(more)
    <2>1. /\ old \in Seq(Mark) /\ Len(old) = n /\ new \in Seq(Mark) /\ Len(new) = n + 1
          /\ (\A i \in 1 .. n : new[i] = old[i]) /\ new[n + 1] = MarkOf(event)
        BY <1>2, <1>3
    <2> HIDE DEF old, new
    <2>2. new = Append(old, MarkOf(event))
        BY <1>1, <2>1
    <2> QED BY <2>2 DEF old, new
<1>5. \A i \in 1 .. n + 1 : Parent(more, i) = Parent(events, i)
    BY <1>1, <1>3, Prefix DEF Parent
<1> QED BY <1>1, <1>4, <1>5 DEF more, n

\* The elements the events begin.
LEMMA NextBegun ==
  ASSUME NEW events \in Seq(Events), NEW event \in Events
  PROVE  LET more == Append(events, event)
         IN ElementEvents(more) =
              IF event.kind \in Elementary THEN Append(ElementEvents(events), Len(events) + 1)
              ELSE ElementEvents(events)
<1> DEFINE more == Append(events, event)
           n == Len(events)
<1>1. /\ n \in Nat /\ DOMAIN more = 1 .. n + 1 /\ DOMAIN events = 1 .. n
      /\ more[n + 1] = event
      /\ \A i \in 1 .. n : more[i] = events[i]
    BY NextEvent
<1>2. Begun(events) \in SUBSET (1 .. n)
    BY BegunWhere
<1> HIDE DEF n, more
<1>3. Begun(more) = IF event.kind \in Elementary THEN Begun(events) \cup {n + 1} ELSE Begun(events)
    BY <1>1 DEF Begun, Elementary
<1>4. InOrder(Begun(events) \cup {n + 1}) = Append(InOrder(Begun(events)), n + 1)
    <2>1. n + 1 \in Nat /\ n + 1 > n
        BY <1>1
    <2> QED BY <1>1, <1>2, <2>1, InOrderGrows
<1> QED BY <1>3, <1>4 DEF ElementEvents, n, more

\* The text inside the elements that have begun, and inside the one that
\* this event begins.
LEMMA NextInside ==
  ASSUME NEW events \in Seq(Events), NEW event \in Events
  PROVE  LET more == Append(events, event)
             n == Len(events)
         IN /\ \A i \in 1 .. n :
                 Inside(more, i) = IF event.kind \in Textual /\ i = Parent(events, n + 1)
                                   THEN Inside(events, i) \cup {n + 1} ELSE Inside(events, i)
            /\ Inside(more, n + 1) = {}
<1> DEFINE more == Append(events, event)
           n == Len(events)
<1>1. /\ n \in Nat /\ DOMAIN more = 1 .. n + 1 /\ DOMAIN events = 1 .. n
      /\ more[n + 1] = event
      /\ \A i \in 1 .. n : more[i] = events[i]
      /\ \A i \in 1 .. n + 1 : Parent(more, i) = Parent(events, i)
    BY NextEvent
<1> HIDE DEF n, more
<1>2. 1 .. n + 1 = (1 .. n) \cup {n + 1} /\ n + 1 \notin 1 .. n
    BY <1>1
<1>3. ASSUME NEW i \in 1 .. n
      PROVE  Inside(more, i) = IF event.kind \in Textual /\ i = Parent(events, n + 1)
                               THEN Inside(events, i) \cup {n + 1} ELSE Inside(events, i)
    <2>1. Inside(more, i) = {k \in 1 .. n + 1 : more[k].kind \in Textual /\ Parent(more, k) = i}
        BY <1>1 DEF Inside, Textual
    <2>2. Inside(events, i) = {k \in 1 .. n : events[k].kind \in Textual /\ Parent(events, k) = i}
        BY <1>1 DEF Inside, Textual
    <2>3. \A k \in 1 .. n : k \in Inside(more, i) <=> k \in Inside(events, i)
        BY <1>1, <1>2, <2>1, <2>2
    <2>4. n + 1 \in Inside(more, i) <=> event.kind \in Textual /\ i = Parent(events, n + 1)
        BY <1>1, <1>2, <2>1
    <2>5. Inside(more, i) \subseteq (1 .. n) \cup {n + 1} /\ Inside(events, i) \subseteq 1 .. n
        BY <1>2, <2>1, <2>2
    <2>6. CASE event.kind \in Textual /\ i = Parent(events, n + 1)
        <3>1. n + 1 \in Inside(more, i)
            BY <2>4, <2>6
        <3>2. Inside(more, i) \subseteq Inside(events, i) \cup {n + 1}
            BY <2>3, <2>5
        <3>3. Inside(events, i) \subseteq Inside(more, i)
            BY <2>3, <2>5
        <3>4. Inside(more, i) = Inside(events, i) \cup {n + 1}
            BY <3>1, <3>2, <3>3
        <3> QED BY <2>6, <3>4
    <2>7. CASE ~ (event.kind \in Textual /\ i = Parent(events, n + 1))
        <3>1. n + 1 \notin Inside(more, i)
            BY <2>4, <2>7
        <3>2. Inside(more, i) = Inside(events, i)
            BY <2>3, <2>5, <3>1
        <3> QED BY <2>7, <3>2
    <2> QED BY <2>6, <2>7
<1>4. Inside(more, n + 1) = {}
    <2>1. ASSUME NEW k \in 1 .. n + 1 PROVE Parent(more, k) # n + 1
        <3>1. k \in Nat \ {0} /\ k - 1 < n + 1
            BY <1>1
        <3>2. Parent(more, k) \in 0 .. k - 1
            BY <3>1, EncloserIs DEF Parent
        <3> QED BY <1>1, <3>1, <3>2
    <2> QED BY <1>1, <2>1 DEF Inside
<1> QED BY <1>3, <1>4 DEF n, more

LEMMA PiecesType ==
  ASSUME NEW events \in Seq(Events), NEW i
  PROVE  /\ Cardinality(Inside(events, i)) \in Nat
         /\ InOrder(Inside(events, i)) \in Seq(Inside(events, i))
         /\ Len(InOrder(Inside(events, i))) = Cardinality(Inside(events, i))
         /\ PiecesIn(events, i) = [k \in 1 .. Cardinality(Inside(events, i)) |->
                                     PieceOf(events[InOrder(Inside(events, i))[k]])]
<1>1. Inside(events, i) \in SUBSET (1 .. Len(events)) /\ Len(events) \in Nat
    BY BegunWhere
<1>2. /\ Cardinality(Inside(events, i)) \in Nat
      /\ InOrder(Inside(events, i)) \in Seq(Inside(events, i))
      /\ Len(InOrder(Inside(events, i))) = Cardinality(Inside(events, i))
    BY <1>1, Few, InOrderIs
<1> QED BY <1>2 DEF PiecesIn

\* The pieces of an element, of which this event may add one.
LEMMA NextPieces ==
  ASSUME NEW events \in Seq(Events), NEW event \in Events,
         NEW i \in 1 .. Len(events), PiecesIn(events, i) \in Seq(Pieces),
         event.kind \in Textual => PieceOf(event) \in Pieces
  PROVE  PiecesIn(Append(events, event), i) =
           IF event.kind \in Textual /\ i = Parent(events, Len(events) + 1)
           THEN Append(PiecesIn(events, i), PieceOf(event)) ELSE PiecesIn(events, i)
<1> DEFINE more == Append(events, event)
           n == Len(events)
           old == InOrder(Inside(events, i))
           c == Cardinality(Inside(events, i))
           adds == event.kind \in Textual /\ i = Parent(events, n + 1)
<1>1. /\ n \in Nat /\ more[n + 1] = event /\ more \in Seq(Events)
      /\ \A k \in 1 .. n : more[k] = events[k]
    BY NextEvent
<1>2. /\ c \in Nat /\ old \in Seq(Inside(events, i)) /\ Len(old) = c
      /\ PiecesIn(events, i) = [k \in 1 .. c |-> PieceOf(events[old[k]])]
    BY PiecesType
<1>3. Inside(events, i) \in SUBSET (1 .. n)
    BY BegunWhere
<1>4. Inside(more, i) = IF adds THEN Inside(events, i) \cup {n + 1} ELSE Inside(events, i)
    BY NextInside
<1>5. PiecesIn(more, i) = [k \in 1 .. Cardinality(Inside(more, i)) |->
                             PieceOf(more[InOrder(Inside(more, i))[k]])]
    BY <1>1, PiecesType
<1>6. InOrder(Inside(more, i)) \in Seq(Inside(more, i))
      /\ Len(InOrder(Inside(more, i))) = Cardinality(Inside(more, i))
    BY <1>1, PiecesType
<1>7. InOrder(Inside(events, i) \cup {n + 1}) = Append(old, n + 1)
    <2>1. n + 1 \in Nat /\ n + 1 > n
        BY <1>1
    <2> QED BY <1>1, <1>3, <2>1, InOrderGrows
<1>8. \A k \in 1 .. c : old[k] \in 1 .. n
    BY <1>2, <1>3, ElementOfSeq
<1> HIDE DEF more, n, old, c, adds
<1>9. CASE adds
    <2>0. old \in Seq(Nat)
        <3>1. Inside(events, i) \subseteq Nat
            BY <1>3
        <3> QED BY <1>2, <3>1, SeqMonotonic
    <2>1. /\ Len(Append(old, n + 1)) = c + 1
          /\ Append(old, n + 1)[c + 1] = n + 1
          /\ \A k \in 1 .. c : Append(old, n + 1)[k] = old[k]
        BY <1>2, <1>1, <2>0
    <2>2. PiecesIn(more, i) = [k \in 1 .. c + 1 |-> PieceOf(more[Append(old, n + 1)[k]])]
        BY <1>4, <1>5, <1>6, <1>7, <1>9, <2>1, ZenonT(30)
    <2> DEFINE s == PiecesIn(events, i)
               t == PiecesIn(more, i)
    <2>3. DOMAIN t = 1 .. c + 1 /\ DOMAIN s = 1 .. c /\ s \in Seq(Pieces)
        BY <1>2, <2>2
    <2>4. \A k \in 1 .. c : t[k] = s[k]
        BY <1>1, <1>2, <1>8, <2>1, <2>2
    <2>5. t[c + 1] = PieceOf(event)
        BY <1>1, <1>2, <2>1, <2>2
    <2>6. t = [k \in 1 .. c + 1 |-> t[k]]
        BY <2>2
    <2>7. PieceOf(event) \in Pieces
        BY <1>9 DEF adds
    <2> HIDE DEF s, t
    <2>8. t = Append(s, PieceOf(event))
        <3>1. Len(s) = c
            BY <1>2, <2>3
        <3>2. t \in Seq(Pieces) /\ Len(t) = c + 1
            <4>1. \A k \in 1 .. c : t[k] \in Pieces
                BY <2>3, <2>4, <3>1, ElementOfSeq
            <4>2. \A k \in 1 .. c + 1 : t[k] \in Pieces
                BY <1>2, <2>5, <2>7, <4>1
            <4>3. t \in [1 .. c + 1 -> Pieces]
                BY <2>6, <4>2
            <4> QED BY <1>2, <4>3
        <3>3. \A k \in 1 .. c + 1 : k \in 1 .. c \/ k = c + 1
            BY <1>2
        <3>4. \A k \in 1 .. c + 1 : t[k] = Append(s, PieceOf(event))[k]
            BY <2>3, <2>4, <2>5, <2>7, <3>1, <3>3
        <3>5. Append(s, PieceOf(event)) \in Seq(Pieces) /\ Len(Append(s, PieceOf(event))) = c + 1
            BY <2>3, <2>7, <3>1
        <3> QED BY <3>2, <3>4, <3>5, SeqEqual
    <2> QED BY <1>9, <2>8 DEF s, t, more, adds, n
<1>10. CASE ~ adds
    <2>1. PiecesIn(more, i) = [k \in 1 .. c |-> PieceOf(more[old[k]])]
        BY <1>4, <1>5, <1>10 DEF old, c
    <2>2. PiecesIn(more, i) = PiecesIn(events, i)
        BY <1>1, <1>2, <1>8, <2>1
    <2> QED BY <1>10, <2>2 DEF more, adds, n
<1> QED BY <1>9, <1>10

LEMMA NextPiecesNew ==
  ASSUME NEW events \in Seq(Events), NEW event \in Events
  PROVE  PiecesIn(Append(events, event), Len(events) + 1) = <<>>
<1> DEFINE more == Append(events, event)
           inside == Inside(more, Len(events) + 1)
<1>1. inside = {} /\ more \in Seq(Events)
    BY NextInside, NextEvent
<1>2. Cardinality(inside) = 0
    BY <1>1, FS_EmptySet
<1>3. PiecesIn(more, Len(events) + 1) = [k \in 1 .. Cardinality(inside) |-> PieceOf(more[InOrder(inside)[k]])]
    BY <1>1, PiecesType
<1> HIDE DEF more, inside
<1>4. PiecesIn(more, Len(events) + 1) = <<>>
    BY <1>2, <1>3
<1> QED BY <1>4 DEF more

-----------------------------------------------------------------------------
(* The invariant. *)

\* The events of the elements that have not ended.
EventStack == [k \in DOMAIN open |-> ElementEvents(read)[open[k]]]

\* The outermost element that is open began after the one that ended last.
RootIsLast(tree, chain, last) ==
  /\ \A k \in DOMAIN tree : tree[k].parent = 0 => k <= last \/ (chain # <<>> /\ k = chain[1])
  /\ chain # <<>> => last < chain[1]

AsWritten ==
  /\ Stacked(TreeMarks(read), EventStack)
  /\ \A i \in DOMAIN read : EventFits(read, i)
  /\ Len(elements) = Len(ElementEvents(read))
  /\ \A k \in DOMAIN elements : ElementFits(elements, read, k)
  /\ RootIsLast(elements, open, root)

\* The inductive invariant, beside Grown.
Faithful ==
  /\ read \in Seq(Events)
  /\ outcome \in {"reading", "parsed"} => AsWritten

LEMMA Known ==
  ASSUME Grown, Faithful, outcome = "reading"
  PROVE  LET n == Len(read)
             starts == ElementEvents(read)
         IN /\ AsWritten
            /\ elements \in Seq(Nodes) /\ open \in Seq(Nat) /\ root \in Nat
            /\ n \in Nat /\ Len(elements) \in Nat /\ Len(open) \in Nat
            /\ starts \in Seq(Nat) /\ Len(starts) = Len(elements)
            /\ \A k \in DOMAIN elements : starts[k] \in 1 .. n /\ read[starts[k]].kind \in Elementary
            /\ \A k, l \in DOMAIN elements : starts[k] = starts[l] => k = l
            /\ \A k \in DOMAIN open : open[k] \in DOMAIN elements
            /\ EventStack \in Seq(Nat) /\ Len(EventStack) = Len(open)
            /\ Parent(read, n + 1) = IF open = <<>> THEN 0 ELSE starts[Top]
            /\ open # <<>> => Top \in DOMAIN elements /\ read[starts[Top]].kind = "Start"
<1> DEFINE n == Len(read)
           starts == ElementEvents(read)
<1>1. /\ AsWritten
      /\ elements \in Seq(Nodes) /\ open \in Seq(Nat) /\ root \in Nat
      /\ Len(elements) \in Nat /\ Len(open) \in Nat
      /\ \A k \in DOMAIN open : open[k] \in DOMAIN elements
    BY DEF Grown, Typed, OnStack, Faithful
<1>2. /\ n \in Nat /\ Begun(read) \in SUBSET (1 .. n) /\ DOMAIN read = 1 .. n
      /\ starts \in Seq(Begun(read)) /\ Len(starts) = Cardinality(Begun(read))
    BY BegunWhere DEF Faithful
<1>3. \A k \in 1 .. Cardinality(Begun(read)) : Rank(Begun(read), starts[k]) = k
    BY <1>2, InOrderIs DEF ElementEvents
<1>4. Len(starts) = Len(elements)
    BY <1>1 DEF AsWritten
<1> HIDE DEF n, starts
<1>5. starts \in Seq(Nat)
    <2>1. Begun(read) \subseteq Nat
        BY <1>2
    <2> QED BY <1>2, <2>1, SeqMonotonic
<1>6. ASSUME NEW k \in DOMAIN elements PROVE starts[k] \in 1 .. n /\ read[starts[k]].kind \in Elementary
    <2>1. starts[k] \in Begun(read)
        BY <1>1, <1>2, <1>4, ElementOfSeq
    <2> QED BY <1>2, <2>1 DEF Begun, Elementary
<1>7. \A k, l \in DOMAIN elements : starts[k] = starts[l] => k = l
    <2>1. DOMAIN elements = 1 .. Cardinality(Begun(read))
        BY <1>1, <1>2, <1>4
    <2> QED BY <1>3, <2>1
<1>8. EventStack = [k \in 1 .. Len(open) |-> starts[open[k]]]
    BY <1>1 DEF EventStack, starts
<1>9. /\ EventStack \in Seq(Nat) /\ Len(EventStack) = Len(open)
      /\ DOMAIN EventStack = 1 .. Len(open)
    <2>1. \A k \in 1 .. Len(open) : starts[open[k]] \in Nat
        BY <1>1, <1>6
    <2>2. EventStack \in [1 .. Len(open) -> Nat]
        BY <1>8, <2>1
    <2> QED BY <1>1, <1>8, <2>2
<1>10. Parent(read, n + 1) = TopOf(EventStack)
    <2>1. Len(TreeMarks(read)) = n
        BY MarksType DEF Faithful, n
    <2>2. Stacked(TreeMarks(read), EventStack)
        BY <1>1 DEF AsWritten
    <2> QED BY <2>1, <2>2, EncloserNext DEF Parent
<1>11. TopOf(EventStack) = IF open = <<>> THEN 0 ELSE starts[Top]
    <2>1. CASE open = <<>>
        <3>1. EventStack = <<>>
            BY <1>9, <2>1
        <3> QED BY <2>1, <3>1 DEF TopOf
    <2>2. CASE open # <<>>
        <3>1. Len(open) \in 1 .. Len(open) /\ EventStack # <<>>
            BY <1>1, <1>9, <2>2
        <3>2. EventStack[Len(EventStack)] = starts[open[Len(open)]]
            BY <1>8, <1>9, <3>1
        <3> QED BY <2>2, <3>1, <3>2 DEF TopOf, Top
    <2> QED BY <2>1, <2>2
<1>12. ASSUME open # <<>> PROVE Top \in DOMAIN elements /\ read[starts[Top]].kind = "Start"
    <2>1. Len(open) \in 1 .. Len(open) /\ Len(open) \in DOMAIN open
        BY <1>1, <1>12
    <2>2. Top = open[Len(open)] /\ Top \in DOMAIN elements
        BY <1>1, <1>12, <2>1 DEF Top
    <2>3. EventStack[Len(open)] = starts[Top]
        BY <1>8, <2>1, <2>2
    <2>4. TreeMarks(read)[starts[Top]] = 1
        BY <1>1, <1>9, <2>1, <2>3 DEF AsWritten, Stacked
    <2>5. starts[Top] \in DOMAIN read
        BY <1>2, <1>6, <2>2
    <2> QED BY <2>2, <2>4, <2>5 DEF TreeMarks, MarkOf
<1> QED BY <1>1, <1>2, <1>4, <1>5, <1>6, <1>7, <1>9, <1>10, <1>11, <1>12 DEF n, starts

\* The events before fit as they did.
LEMMA EventsKept ==
  ASSUME Grown, Faithful, outcome = "reading", NEW event \in Events,
         event.kind \notin {"DocType", "Unreadable"},
         event.kind = "End" => /\ Parent(read, Len(read) + 1) # 0
                               /\ read[Parent(read, Len(read) + 1)].tag = event.tag,
         event.kind = "Ref" => event.name \in DOMAIN Entities
  PROVE  \A i \in DOMAIN Append(read, event) : EventFits(Append(read, event), i)
<1> DEFINE more == Append(read, event)
           n == Len(read)
<1>1. read \in Seq(Events) /\ \A i \in DOMAIN read : EventFits(read, i)
    BY DEF Faithful, AsWritten
<1>2. /\ n \in Nat
      /\ DOMAIN more = 1 .. n + 1 /\ DOMAIN read = 1 .. n
      /\ more[n + 1] = event
      /\ \A i \in 1 .. n : more[i] = read[i]
      /\ \A i \in 1 .. n + 1 : Parent(more, i) = Parent(read, i)
    BY <1>1, NextEvent
<1> HIDE DEF more, n
<1>3. \A i \in 1 .. n + 1 : Parent(read, i) \in 0 .. i - 1
    <2>1. \A i \in 1 .. n + 1 : i \in Nat \ {0}
        BY <1>2
    <2> QED BY <2>1, EncloserIs DEF Parent
<1>4. \A i \in 1 .. n + 1 : Parent(read, i) # 0 => Parent(read, i) \in 1 .. n
    BY <1>2, <1>3
<1>5. ASSUME NEW i \in 1 .. n PROVE EventFits(more, i)
    <2>1. EventFits(read, i) /\ i \in 1 .. n + 1
        BY <1>1, <1>2
    <2>2. more[i] = read[i] /\ Parent(more, i) = Parent(read, i)
        BY <1>2, <2>1
    <2>3. Parent(read, i) # 0 => more[Parent(read, i)] = read[Parent(read, i)]
        BY <1>2, <1>4, <2>1
    <2> QED BY <2>1, <2>2, <2>3 DEF EventFits
<1>6. EventFits(more, n + 1)
    <2>1. n + 1 \in 1 .. n + 1
        BY <1>2
    <2>2. more[n + 1] = event /\ Parent(more, n + 1) = Parent(read, n + 1)
        BY <1>2, <2>1
    <2>3. Parent(read, n + 1) # 0 => more[Parent(read, n + 1)] = read[Parent(read, n + 1)]
        BY <1>2, <1>4, <2>1
    <2> QED BY <2>2, <2>3 DEF EventFits, n
<1> QED BY <1>2, <1>5, <1>6 DEF more

\* An element that was there fits as it did; the one on top takes the text.
LEMMA ElementKept ==
  ASSUME Grown, Faithful, outcome = "reading", NEW event \in Events,
         event.kind \in Textual => PieceOf(event) \in Pieces,
         NEW tree, NEW k \in DOMAIN elements,
         tree[k].tag = elements[k].tag, tree[k].attrs = elements[k].attrs,
         tree[k].parent = elements[k].parent,
         tree[k].text = IF event.kind \in Textual /\ open # <<>> /\ k = Top
                        THEN Append(elements[k].text, PieceOf(event)) ELSE elements[k].text
  PROVE  ElementFits(tree, Append(read, event), k)
<1> DEFINE more == Append(read, event)
           n == Len(read)
           starts == ElementEvents(read)
           later == ElementEvents(more)
           parent == elements[k].parent
<1>1. /\ elements \in Seq(Nodes) /\ Len(elements) \in Nat
      /\ starts \in Seq(Nat) /\ Len(starts) = Len(elements)
      /\ \A l \in DOMAIN elements : starts[l] \in 1 .. n /\ read[starts[l]].kind \in Elementary
      /\ \A l, m \in DOMAIN elements : starts[l] = starts[m] => l = m
      /\ Parent(read, n + 1) = IF open = <<>> THEN 0 ELSE starts[Top]
      /\ open # <<>> => Top \in DOMAIN elements /\ read[starts[Top]].kind = "Start"
    BY Known
<1>2. /\ read \in Seq(Events) /\ n \in Nat
      /\ \A i \in 1 .. n : more[i] = read[i]
      /\ \A i \in 1 .. n + 1 : Parent(more, i) = Parent(read, i)
    BY NextEvent DEF Faithful
<1>3. \A l \in DOMAIN elements : later[l] = starts[l]
    <2>1. later = Append(starts, n + 1) \/ later = starts
        BY <1>2, NextBegun
    <2> HIDE DEF later, starts
    <2> QED BY <1>1, <2>1
<1>4. ElementFits(elements, read, k)
    BY Known DEF AsWritten
<1>5. parent # 0 => parent \in DOMAIN elements
    BY <1>1 DEF Grown, Hangs
<1>6. elements[k].text \in Seq(Pieces)
    <2>1. elements[k] \in Nodes
        BY <1>1, ElementOfSeq
    <2> HIDE DEF parent
    <2> QED BY <2>1 DEF Nodes
<1> HIDE DEF more, n, starts, later
<1>7. PICK i \in 1 .. n : i = starts[k] /\ read[i].kind \in Elementary
    BY <1>1
<1>8. later[k] = i /\ more[i] = read[i] /\ Parent(more, i) = Parent(read, i)
    BY <1>2, <1>3, <1>7
<1>9. Parent(more, i) = IF parent = 0 THEN 0 ELSE later[parent]
    BY <1>3, <1>4, <1>5, <1>7, <1>8 DEF ElementFits, starts
<1>10. tree[k].text = IF more[i].kind = "Empty" THEN <<>> ELSE PiecesIn(more, i)
    <2>1. elements[k].text = IF read[i].kind = "Empty" THEN <<>> ELSE PiecesIn(read, i)
        BY <1>4, <1>7 DEF ElementFits, starts
    <2>2. CASE read[i].kind = "Empty"
        <3>1. ~ (open # <<>> /\ k = Top)
            BY <1>1, <1>7, <2>2
        <3> QED BY <1>8, <2>1, <2>2, <3>1
    <2>3. CASE read[i].kind # "Empty"
        <3>1. PiecesIn(read, i) \in Seq(Pieces)
            BY <1>6, <2>1, <2>3
        <3>2. PiecesIn(more, i) = IF event.kind \in Textual /\ i = Parent(read, n + 1)
                                  THEN Append(PiecesIn(read, i), PieceOf(event)) ELSE PiecesIn(read, i)
            BY <1>2, <1>7, <3>1, NextPieces DEF more, n
        <3>3. i = Parent(read, n + 1) <=> open # <<>> /\ k = Top
            BY <1>1, <1>7
        <3> QED BY <1>8, <2>1, <2>3, <3>2, <3>3
    <2> QED BY <2>2, <2>3
<1> QED BY <1>4, <1>7, <1>8, <1>9, <1>10 DEF ElementFits, starts, later, more

\* The element that this event begins.
LEMMA ElementNew ==
  ASSUME Grown, Faithful, outcome = "reading", NEW tag \in Tags, NEW attrs \in Attributes,
         NEW event \in Events, event.kind \in Elementary, event.tag = tag, event.attrs = attrs
  PROVE  ElementFits(Append(elements, Element(tag, attrs)), Append(read, event), Len(elements) + 1)
<1> DEFINE more == Append(read, event)
           n == Len(read)
           starts == ElementEvents(read)
           later == ElementEvents(more)
           new == Element(tag, attrs)
           tree == Append(elements, new)
           k == Len(elements) + 1
<1>1. /\ elements \in Seq(Nodes) /\ Len(elements) \in Nat /\ open \in Seq(Nat)
      /\ starts \in Seq(Nat) /\ Len(starts) = Len(elements)
      /\ Parent(read, n + 1) = IF open = <<>> THEN 0 ELSE starts[Top]
      /\ open # <<>> => Top \in DOMAIN elements
    BY Known
<1>2. /\ read \in Seq(Events) /\ n \in Nat
      /\ more[n + 1] = event
      /\ \A i \in 1 .. n + 1 : Parent(more, i) = Parent(read, i)
    BY NextEvent DEF Faithful
<1>3. later = Append(starts, n + 1)
    BY <1>2, NextBegun
<1>4. PiecesIn(more, n + 1) = <<>>
    BY <1>2, NextPiecesNew
<1>5. /\ new.tag = tag /\ new.attrs = attrs /\ new.text = <<>> /\ new.parent = Top
      /\ new \in Nodes
    <2>1. Top \in Nat
        BY TopOfStack
    <2> QED BY <1>1, <2>1 DEF Element, Nodes
<1> HIDE DEF more, n, starts, later, new
<1>6. tree[k] = new
    BY <1>1, <1>5
<1>7. later[k] = n + 1 /\ \A l \in DOMAIN elements : later[l] = starts[l]
    BY <1>1, <1>2, <1>3
<1>8. Parent(more, n + 1) = IF Top = 0 THEN 0 ELSE later[Top]
    <2>1. open = <<>> => Top = 0
        BY DEF Top
    <2>2. open # <<>> => Top # 0
        BY <1>1
    <2>3. Parent(more, n + 1) = Parent(read, n + 1)
        BY <1>2
    <2> QED BY <1>1, <1>7, <2>1, <2>2, <2>3
<1> HIDE DEF tree, k
<1>9. ElementFits(tree, more, k)
    BY <1>2, <1>4, <1>5, <1>6, <1>7, <1>8 DEF ElementFits, later
<1> QED BY <1>9 DEF tree, more, k, new

\* Where the elements before began.
LEMMA StillBegan ==
  ASSUME Grown, Faithful, outcome = "reading", NEW event \in Events
  PROVE  LET later == ElementEvents(Append(read, event))
             new == IF event.kind \in Elementary THEN 1 ELSE 0
         IN /\ later \in Seq(Nat) /\ Len(later) = Len(elements) + new
            /\ \A l \in DOMAIN elements : later[l] = ElementEvents(read)[l]
            /\ event.kind \in Elementary => later[Len(elements) + 1] = Len(read) + 1
<1> DEFINE starts == ElementEvents(read)
           later == ElementEvents(Append(read, event))
           n == Len(read)
<1>1. /\ elements \in Seq(Nodes) /\ Len(elements) \in Nat /\ n \in Nat
      /\ starts \in Seq(Nat) /\ Len(starts) = Len(elements)
    BY Known
<1>2. later = IF event.kind \in Elementary THEN Append(starts, n + 1) ELSE starts
    BY NextBegun DEF Faithful
<1> HIDE DEF starts, later, n
<1>3. /\ later \in Seq(Nat) /\ Len(later) = Len(elements) + IF event.kind \in Elementary THEN 1 ELSE 0
      /\ \A l \in DOMAIN elements : later[l] = starts[l]
      /\ event.kind \in Elementary => later[Len(elements) + 1] = n + 1
    BY <1>1, <1>2
<1> QED BY <1>3 DEF starts, later, n

LEMMA StackKept ==
  ASSUME Grown, Faithful, outcome = "reading", NEW event \in Events, MarkOf(event) = 0,
         read' = Append(read, event), open' = open
  PROVE  Stacked(TreeMarks(read)', EventStack')
<1>1. Stacked(TreeMarks(read), EventStack)
    BY Known DEF AsWritten
<1>2. TreeMarks(read)' = Append(TreeMarks(read), 0)
    BY NextEvent DEF Faithful
<1>3. \A k \in DOMAIN open : ElementEvents(read')[open[k]] = ElementEvents(read)[open[k]]
    BY Known, StillBegan
<1>4. EventStack' = EventStack
    BY <1>3 DEF EventStack
<1> QED BY <1>1, <1>2, <1>4, StackedSame

\* Nothing begins or ends; the element on top may take a text.
LEMMA SteadyIsWritten ==
  ASSUME Grown, Faithful, outcome = "reading", NEW event \in Events,
         event.kind \in Textual \cup {"Other", "Eof"},
         event.kind = "Ref" => event.name \in DOMAIN Entities,
         event.kind \in Textual => PieceOf(event) \in Pieces,
         read' = Append(read, event), UNCHANGED <<open, root>>,
         DOMAIN elements' = DOMAIN elements, Len(elements') = Len(elements),
         \A k \in DOMAIN elements :
           /\ elements'[k].tag = elements[k].tag /\ elements'[k].attrs = elements[k].attrs
           /\ elements'[k].parent = elements[k].parent
           /\ elements'[k].text = IF event.kind \in Textual /\ open # <<>> /\ k = Top
                                  THEN Append(elements[k].text, PieceOf(event)) ELSE elements[k].text
  PROVE  AsWritten'
<1>1. MarkOf(event) = 0 /\ event.kind \notin Elementary /\ event.kind \notin {"End", "DocType", "Unreadable"}
    BY DEF MarkOf, Textual, Elementary
<1>2. Stacked(TreeMarks(read)', EventStack')
    BY <1>1, StackKept
<1>3. \A i \in DOMAIN read' : EventFits(read', i)
    BY <1>1, EventsKept
<1>4. Len(elements') = Len(ElementEvents(read'))
    <2>1. Len(elements) \in Nat
        BY Known
    <2> QED BY <1>1, <2>1, StillBegan
<1>5. \A k \in DOMAIN elements' : ElementFits(elements', read', k)
    BY ElementKept
<1>6. RootIsLast(elements, open, root)
    BY Known DEF AsWritten
<1>7. RootIsLast(elements', open', root')
    BY <1>6 DEF RootIsLast
<1> QED BY <1>2, <1>3, <1>4, <1>5, <1>7 DEF AsWritten

LEMMA StartIsWritten ==
  ASSUME Grown, Faithful, outcome = "reading", NEW tag \in Tags, NEW attrs \in Attributes,
         Len(elements) < MaxElements,
         read' = Append(read, [kind |-> "Start", tag |-> tag, attrs |-> attrs]),
         elements' = Append(elements, Element(tag, attrs)),
         open' = Append(open, Len(elements) + 1), root' = root
  PROVE  AsWritten'
<1> DEFINE event == [kind |-> "Start", tag |-> tag, attrs |-> attrs]
           n == Len(read)
           m == Len(elements)
<1>1. /\ event \in Events /\ event.kind = "Start" /\ event.tag = tag /\ event.attrs = attrs
      /\ MarkOf(event) = 1 /\ read' = Append(read, event)
    BY DEF Events, MarkOf
<1>2. /\ n \in Nat /\ m \in Nat /\ open \in Seq(Nat) /\ Len(open) \in Nat /\ root \in Nat
      /\ \A k \in DOMAIN open : open[k] \in DOMAIN elements
      /\ EventStack \in Seq(Nat) /\ Len(EventStack) = Len(open)
      /\ elements \in Seq(Nodes)
    BY Known
<1>3. /\ DOMAIN elements' = 1 .. m + 1 /\ Len(elements') = m + 1 /\ DOMAIN elements = 1 .. m
      /\ \A k \in 1 .. m : elements'[k] = elements[k]
      /\ elements'[m + 1].parent = Top
    BY OneMore, <1>2
<1> HIDE DEF event, n, m
<1>4. Stacked(TreeMarks(read)', EventStack')
    <2>1. Stacked(TreeMarks(read), EventStack)
        BY Known DEF AsWritten
    <2>2. TreeMarks(read)' = Append(TreeMarks(read), 1)
        BY <1>1, NextEvent DEF Faithful
    <2>3. Len(TreeMarks(read)) = n
        BY MarksType DEF Faithful, n
    <2>4. /\ \A k \in DOMAIN open : ElementEvents(read')[open[k]] = ElementEvents(read)[open[k]]
          /\ ElementEvents(read')[m + 1] = n + 1
        BY <1>1, <1>2, StillBegan DEF Elementary, n, m
    <2>5. /\ DOMAIN open' = 1 .. Len(open) + 1 /\ DOMAIN open = 1 .. Len(open)
          /\ open'[Len(open) + 1] = m + 1 /\ \A k \in 1 .. Len(open) : open'[k] = open[k]
        BY <1>2 DEF m
    <2>6. EventStack' = [k \in 1 .. Len(open) + 1 |-> ElementEvents(read')[open'[k]]]
        BY <2>5 DEF EventStack
    <2>7. EventStack = [k \in 1 .. Len(open) |-> ElementEvents(read)[open[k]]]
        BY <2>5 DEF EventStack
    <2>8. Append(EventStack, n + 1) = [k \in 1 .. Len(open) + 1 |->
                                         IF k = Len(open) + 1 THEN n + 1 ELSE EventStack[k]]
        BY <1>2
    <2>9. EventStack' = Append(EventStack, n + 1)
        <3>1. \A k \in 1 .. Len(open) + 1 :
                ElementEvents(read')[open'[k]] = IF k = Len(open) + 1 THEN n + 1 ELSE EventStack[k]
            BY <1>2, <2>4, <2>5, <2>7
        <3> QED BY <2>6, <2>8, <3>1
    <2> QED BY <2>1, <2>2, <2>3, <2>9, StackedPush
<1>5. \A i \in DOMAIN read' : EventFits(read', i)
    BY <1>1, EventsKept
<1>6. Len(elements') = Len(ElementEvents(read'))
    BY <1>1, <1>2, <1>3, StillBegan DEF Elementary, m
<1>7. ASSUME NEW k \in DOMAIN elements' PROVE ElementFits(elements', read', k)
    <2>1. CASE k \in 1 .. m
        BY <1>1, <1>3, <2>1, ElementKept DEF Textual
    <2>2. CASE k = m + 1
        BY <1>1, <2>2, ElementNew DEF Elementary, m
    <2> QED BY <1>2, <1>3, <2>1, <2>2
<1>8. RootIsLast(elements', open', root')
    <2>1. RootIsLast(elements, open, root)
        BY Known DEF AsWritten
    <2>2. root <= m
        BY <1>2, <1>3 DEF Grown
    <2>3. CASE open = <<>>
        <3>1. open' # <<>> /\ open'[1] = m + 1
            BY <1>2, <2>3 DEF m
        <3> QED BY <1>2, <1>3, <2>1, <2>2, <2>3, <3>1 DEF RootIsLast
    <2>4. CASE open # <<>>
        <3>1. open' # <<>> /\ open'[1] = open[1]
            BY <1>2, <2>4
        <3>2. elements'[m + 1].parent # 0
            BY <1>3, <2>4, TopOfStack, <1>2
        <3> QED BY <1>2, <1>3, <2>1, <2>2, <2>4, <3>1, <3>2 DEF RootIsLast
    <2> QED BY <2>3, <2>4
<1> QED BY <1>4, <1>5, <1>6, <1>7, <1>8 DEF AsWritten

LEMMA EmptyIsWritten ==
  ASSUME Grown, Faithful, outcome = "reading", NEW tag \in Tags, NEW attrs \in Attributes,
         Len(elements) < MaxElements,
         read' = Append(read, [kind |-> "Empty", tag |-> tag, attrs |-> attrs]),
         elements' = Append(elements, Element(tag, attrs)),
         root' = IF open = <<>> THEN Len(elements) + 1 ELSE root, open' = open
  PROVE  AsWritten'
<1> DEFINE event == [kind |-> "Empty", tag |-> tag, attrs |-> attrs]
           m == Len(elements)
<1>1. /\ event \in Events /\ event.kind = "Empty" /\ event.tag = tag /\ event.attrs = attrs
      /\ MarkOf(event) = 0 /\ read' = Append(read, event)
    BY DEF Events, MarkOf
<1>2. m \in Nat /\ root \in Nat /\ open \in Seq(Nat)
    BY Known
<1>3. /\ DOMAIN elements' = 1 .. m + 1 /\ Len(elements') = m + 1 /\ DOMAIN elements = 1 .. m
      /\ \A k \in 1 .. m : elements'[k] = elements[k]
      /\ elements'[m + 1].parent = Top
    <2>1. elements \in Seq(Nodes)
        BY Known
    <2> QED BY OneMore, <1>2, <2>1
<1> HIDE DEF event, m
<1>4. Stacked(TreeMarks(read)', EventStack')
    BY <1>1, StackKept
<1>5. \A i \in DOMAIN read' : EventFits(read', i)
    BY <1>1, EventsKept
<1>6. Len(elements') = Len(ElementEvents(read'))
    BY <1>1, <1>2, <1>3, StillBegan DEF Elementary, m
<1>7. ASSUME NEW k \in DOMAIN elements' PROVE ElementFits(elements', read', k)
    <2>1. CASE k \in 1 .. m
        BY <1>1, <1>3, <2>1, ElementKept DEF Textual
    <2>2. CASE k = m + 1
        BY <1>1, <2>2, ElementNew DEF Elementary, m
    <2> QED BY <1>2, <1>3, <2>1, <2>2
<1>8. RootIsLast(elements', open', root')
    <2>1. RootIsLast(elements, open, root)
        BY Known DEF AsWritten
    <2>2. CASE open = <<>>
        BY <1>2, <1>3, <2>1, <2>2 DEF RootIsLast, m
    <2>3. CASE open # <<>>
        <3>1. elements'[m + 1].parent # 0
            BY <1>2, <1>3, <2>3, TopOfStack
        <3> QED BY <1>2, <1>3, <2>1, <2>3, <3>1 DEF RootIsLast
    <2> QED BY <2>2, <2>3
<1> QED BY <1>4, <1>5, <1>6, <1>7, <1>8 DEF AsWritten

LEMMA EndIsWritten ==
  ASSUME Grown, Faithful, outcome = "reading", NEW tag \in Tags,
         read' = Append(read, [kind |-> "End", tag |-> tag]),
         open # <<>>, elements[Top].tag = tag,
         open' = SubSeq(open, 1, Len(open) - 1),
         root' = IF Len(open) = 1 THEN Top ELSE root, elements' = elements
  PROVE  AsWritten'
<1> DEFINE event == [kind |-> "End", tag |-> tag]
           n == Len(read)
<1>1. /\ event \in Events /\ event.kind = "End" /\ event.tag = tag
      /\ MarkOf(event) = -1 /\ read' = Append(read, event)
    BY DEF Events, MarkOf
<1>2. /\ n \in Nat /\ open \in Seq(Nat) /\ Len(open) \in Nat \ {0} /\ root \in Nat
      /\ \A k \in DOMAIN open : open[k] \in DOMAIN elements
      /\ EventStack \in Seq(Nat) /\ Len(EventStack) = Len(open)
      /\ elements \in Seq(Nodes)
      /\ Parent(read, n + 1) = ElementEvents(read)[Top]
      /\ Top \in DOMAIN elements
      /\ ElementEvents(read)[Top] \in 1 .. n
    BY Known
<1>3. /\ open' \in Seq(Nat) /\ Len(open') = Len(open) - 1
      /\ DOMAIN open' = 1 .. Len(open) - 1 /\ DOMAIN open = 1 .. Len(open)
      /\ \A j \in 1 .. Len(open) - 1 : open'[j] = open[j]
    <2>1. open \in Seq(Nat) /\ open # <<>>
        BY <1>2
    <2>2. /\ open' \in Seq(Nat) /\ Len(open') = Len(open) - 1
          /\ \A j \in 1 .. Len(open) - 1 : open'[j] = open[j]
        BY <2>1, AllButLast
    <2> QED BY <2>1, <2>2
<1> HIDE DEF event, n
<1>4. Stacked(TreeMarks(read)', EventStack')
    <2>1. Stacked(TreeMarks(read), EventStack) /\ EventStack # <<>>
        BY <1>2, Known DEF AsWritten
    <2>2. TreeMarks(read)' = Append(TreeMarks(read), -1)
        BY <1>1, NextEvent DEF Faithful
    <2>3. \A k \in DOMAIN open : ElementEvents(read')[open[k]] = ElementEvents(read)[open[k]]
        BY <1>1, <1>2, StillBegan, SMTT(30)
    <2>4. EventStack' = [k \in 1 .. Len(open) - 1 |-> ElementEvents(read')[open'[k]]]
        BY <1>3 DEF EventStack
    <2>5. EventStack = [k \in 1 .. Len(open) |-> ElementEvents(read)[open[k]]]
        BY <1>3 DEF EventStack
    <2>6. SubSeq(EventStack, 1, Len(EventStack) - 1) = [k \in 1 .. Len(open) - 1 |-> EventStack[k]]
        BY <1>2
    <2>7. EventStack' = SubSeq(EventStack, 1, Len(EventStack) - 1)
        <3>1. ASSUME NEW k \in 1 .. Len(open) - 1 PROVE ElementEvents(read')[open'[k]] = EventStack[k]
            <4>1. k \in 1 .. Len(open) /\ open'[k] = open[k]
                BY <1>2, <1>3
            <4> QED BY <1>3, <2>3, <2>5, <4>1
        <3> QED BY <2>4, <2>6, <3>1
    <2> QED BY <2>1, <2>2, <2>7, StackedPop
<1>5. \A i \in DOMAIN read' : EventFits(read', i)
    <2>1. ElementFits(elements, read, Top)
        BY <1>2, Known DEF AsWritten
    <2>2. Parent(read, n + 1) # 0 /\ read[Parent(read, n + 1)].tag = tag
        BY <1>2, <2>1 DEF ElementFits
    <2> QED BY <1>1, <2>2, EventsKept DEF n
<1>6. Len(elements') = Len(ElementEvents(read'))
    <2>1. Len(elements) \in Nat /\ event.kind \notin Elementary
        BY <1>1, Known DEF Elementary
    <2>2. Len(ElementEvents(Append(read, event))) = Len(elements) + 0
        BY <1>1, <2>1, StillBegan
    <2> QED BY <1>1, <2>1, <2>2
<1>7. \A k \in DOMAIN elements' : ElementFits(elements', read', k)
    BY <1>1, ElementKept DEF Textual
<1>8. RootIsLast(elements', open', root')
    <2>1. RootIsLast(elements, open, root)
        BY Known DEF AsWritten
    <2>2. CASE Len(open) = 1
        <3>1. open' = <<>> /\ root' = open[1] /\ open[1] \in Nat
            BY <1>2, <1>3, <2>2 DEF Top
        <3>2. \A k \in DOMAIN elements : k \in Nat
            BY <1>2
        <3> QED BY <1>2, <2>1, <3>1, <3>2, SMTT(30) DEF RootIsLast
    <2>3. CASE Len(open) # 1
        <3>1. 1 \in 1 .. Len(open) - 1
            BY <1>2, <2>3
        <3>2. open'[1] = open[1] /\ Len(open') # 0
            <4>1. open'[1] = open[1]
                BY <1>3, <3>1
            <4>2. PICK h \in Nat : h = Len(open)
                BY <1>2
            <4>3. Len(open') = h - 1 /\ 1 \in 1 .. h - 1
                BY <1>3, <3>1, <4>2
            <4>4. h - 1 # 0
                BY <4>2, <4>3
            <4> QED BY <4>1, <4>3, <4>4
        <3>3. open' # <<>> /\ root' = root
            BY <2>3, <3>2
        <3> QED BY <2>1, <3>2, <3>3 DEF RootIsLast
    <2> QED BY <2>2, <2>3
<1> QED BY <1>4, <1>5, <1>6, <1>7, <1>8 DEF AsWritten

\* A text or a reference.
LEMMA TextIsWritten ==
  ASSUME Grown, Faithful, outcome = "reading", NEW event \in Events, event.kind \in Textual,
         event.kind = "Ref" => event.name \in DOMAIN Entities,
         PieceOf(event) \in Pieces,
         read' = Append(read, event), AddText(PieceOf(event))
  PROVE  AsWritten'
<1>1. UNCHANGED <<open, root>>
    BY DEF AddText
<1>2. elements \in Seq(Nodes) /\ (open # <<>> => Top \in DOMAIN elements)
    BY Known
<1>3. /\ DOMAIN elements' = DOMAIN elements /\ Len(elements') = Len(elements)
      /\ \A k \in DOMAIN elements :
           /\ elements'[k].tag = elements[k].tag /\ elements'[k].attrs = elements[k].attrs
           /\ elements'[k].parent = elements[k].parent
           /\ elements'[k].text = IF event.kind \in Textual /\ open # <<>> /\ k = Top
                                  THEN Append(elements[k].text, PieceOf(event)) ELSE elements[k].text
    <2>1. CASE open = <<>>
        BY <2>1 DEF AddText
    <2>2. CASE open # <<>>
        <3>1. PICK text : text = Append(elements[Top].text, PieceOf(event))
            OBVIOUS
        <3>2. PICK new : new = [elements[Top] EXCEPT !.text = text]
            OBVIOUS
        <3>3. elements[Top] \in Nodes
            BY <1>2, <2>2, ElementOfSeq
        <3>4. /\ new.tag = elements[Top].tag /\ new.attrs = elements[Top].attrs
              /\ new.parent = elements[Top].parent /\ new.text = text
            BY <3>2, <3>3 DEF Nodes
        <3>5. elements' = [elements EXCEPT ![Top] = new]
            BY <1>2, <2>2, <3>1, <3>2 DEF AddText
        <3>6. DOMAIN elements' = DOMAIN elements /\ Len(elements') = Len(elements)
            BY <1>2, <3>5
        <3>7. ASSUME NEW k \in DOMAIN elements
              PROVE  /\ elements'[k].tag = elements[k].tag /\ elements'[k].attrs = elements[k].attrs
                     /\ elements'[k].parent = elements[k].parent
                     /\ elements'[k].text = IF k = Top THEN Append(elements[k].text, PieceOf(event))
                                            ELSE elements[k].text
            <4>1. elements'[k] = IF k = Top THEN new ELSE elements[k]
                BY <3>5
            <4> QED BY <3>1, <3>4, <4>1
        <3> QED BY <2>2, <3>6, <3>7
    <2> QED BY <2>1, <2>2
<1> QED BY <1>1, <1>3, SteadyIsWritten

-----------------------------------------------------------------------------

LEMMA InitFaithful == InstanceInit => Faithful
<1> SUFFICES ASSUME InstanceInit PROVE Faithful
    OBVIOUS
<1>1. read = <<>> /\ elements = <<>> /\ open = <<>> /\ root = 0
    BY DEF InstanceInit
<1>2. read \in Seq(Events)
    BY <1>1
<1>3. TreeMarks(read) = <<>> /\ EventStack = <<>>
    BY <1>1 DEF TreeMarks, EventStack
<1>4. Begun(read) = {}
    BY <1>1 DEF Begun
<1>5. Len(ElementEvents(read)) = 0
    BY <1>2, <1>4, BegunWhere, FS_EmptySet
<1> QED BY <1>1, <1>2, <1>3, <1>5, StackedFirst DEF Faithful, AsWritten, RootIsLast

\* Reading stops with an error.
LEMMA ConcludeFaithful ==
  ASSUME Faithful, NEW event \in Events, Reads(event), NEW error, Conclude(error),
         error \notin {"reading", "parsed"}
  PROVE  Faithful'
BY DEF Faithful, Reads, Conclude

LEMMA EventFaithful == Grown /\ Faithful /\ [Event]_instanceVars => Faithful'
<1> SUFFICES ASSUME Grown, Faithful, [Event]_instanceVars PROVE Faithful'
    OBVIOUS
<1> USE DEF Reads
<1>1. ASSUME NEW tag \in Tags, NEW attrs \in Attributes, StartElement(tag, attrs) PROVE Faithful'
    <2> DEFINE event == [kind |-> "Start", tag |-> tag, attrs |-> attrs]
    <2>1. event \in Events /\ Reads(event)
        BY <1>1 DEF Events, StartElement
    <2>2. CASE Conclude("TooLarge") \/ Conclude("Malformed")
        BY <2>1, <2>2, ConcludeFaithful
    <2>3. CASE /\ Len(elements) < MaxElements
               /\ elements' = Append(elements, Element(tag, attrs))
               /\ open' = Append(open, Len(elements) + 1)
               /\ UNCHANGED root
        <3>1. AsWritten'
            BY <2>1, <2>3, StartIsWritten
        <3> QED BY <2>1, <3>1 DEF Faithful
    <2>4. Len(elements) \in Nat
        BY DEF Grown, Typed
    <2> QED BY <1>1, <2>2, <2>3, <2>4, LimitsAssumption DEF StartElement
<1>2. ASSUME NEW tag \in Tags, NEW attrs \in Attributes, EmptyElement(tag, attrs) PROVE Faithful'
    <2> DEFINE event == [kind |-> "Empty", tag |-> tag, attrs |-> attrs]
    <2>1. event \in Events /\ Reads(event)
        BY <1>2 DEF Events, EmptyElement
    <2>2. CASE Conclude("TooLarge") \/ Conclude("Malformed")
        BY <2>1, <2>2, ConcludeFaithful
    <2>3. CASE /\ Len(elements) < MaxElements
               /\ elements' = Append(elements, Element(tag, attrs))
               /\ root' = IF open = <<>> THEN Len(elements) + 1 ELSE root
               /\ UNCHANGED open
        <3>1. AsWritten'
            BY <2>1, <2>3, EmptyIsWritten
        <3> QED BY <2>1, <3>1 DEF Faithful
    <2>4. Len(elements) \in Nat
        BY DEF Grown, Typed
    <2> QED BY <1>2, <2>2, <2>3, <2>4, LimitsAssumption DEF EmptyElement
<1>3. ASSUME NEW tag \in Tags, EndElement(tag) PROVE Faithful'
    <2> DEFINE event == [kind |-> "End", tag |-> tag]
    <2>1. event \in Events /\ Reads(event)
        BY <1>3 DEF Events, EndElement
    <2>2. CASE Conclude("Malformed")
        BY <2>1, <2>2, ConcludeFaithful
    <2>3. CASE ~ Conclude("Malformed")
        <3>1. AsWritten'
            BY <1>3, <2>3, EndIsWritten DEF EndElement
        <3> QED BY <2>1, <3>1 DEF Faithful
    <2> QED BY <2>2, <2>3
<1>4. ASSUME NEW event \in Events, event.kind \in Textual, PieceOf(event) \in Pieces,
             event.kind = "Ref" => event.name \in DOMAIN Entities,
             Reads(event), AddText(PieceOf(event))
      PROVE  Faithful'
    <2>1. AsWritten'
        BY <1>4, TextIsWritten
    <2> QED BY <1>4, <2>1 DEF Faithful
<1>5. ASSUME NEW kind \in {"Text", "CData"}, NEW piece \in Pieces, Text(kind, piece) PROVE Faithful'
    <2> DEFINE event == [kind |-> kind, piece |-> piece]
    <2>1. event \in Events /\ event.kind \in Textual /\ event.kind # "Ref" /\ PieceOf(event) = piece
        BY DEF Events, Textual, PieceOf
    <2> QED BY <1>4, <1>5, <2>1 DEF Text
<1>6. ASSUME NEW name \in RefNames, GeneralRef(name) PROVE Faithful'
    <2> DEFINE event == [kind |-> "Ref", name |-> name]
    <2>1. event \in Events /\ event.kind \in Textual /\ event.name = name /\ PieceOf(event) = Entities[name]
        BY DEF Events, Textual, PieceOf
    <2>2. Reads(event)
        BY <1>6 DEF GeneralRef
    <2>3. CASE Conclude("UnknownEntity")
        BY <2>1, <2>2, <2>3, ConcludeFaithful
    <2>4. CASE name \in DOMAIN Entities /\ AddText(Entities[name])
        BY <1>4, <2>1, <2>2, <2>4, EntitiesAssumption
    <2> QED BY <1>6, <2>3, <2>4 DEF GeneralRef
<1>7. CASE DocType \/ Unreadable
    BY <1>7, ConcludeFaithful DEF DocType, Unreadable, Events
<1>8. ASSUME NEW event \in Events, event.kind \in {"Other", "Eof"}, Reads(event),
             UNCHANGED <<elements, open, root>>
      PROVE  Faithful'
    <2>1. AsWritten'
        BY <1>8, SteadyIsWritten DEF Textual
    <2> QED BY <1>8, <2>1 DEF Faithful
<1>9. CASE Other
    BY <1>8, <1>9 DEF Other, Events
<1>10. CASE Eof
    BY <1>8, <1>10 DEF Eof, Conclude, Events
<1>11. CASE UNCHANGED instanceVars
    BY <1>11 DEF instanceVars, Faithful, AsWritten, EventStack
<1> QED BY <1>1, <1>2, <1>3, <1>5, <1>6, <1>7, <1>9, <1>10, <1>11 DEF Event, EventOf

LEMMA FaithfulParsed == Grown /\ Faithful => ParsedAsWritten
<1> SUFFICES ASSUME Grown, Faithful, outcome = "parsed" PROVE ParsedAsWritten
    BY DEF ParsedAsWritten
<1>1. AsWritten /\ open = <<>> /\ root # 0 /\ root \in DOMAIN elements /\ elements[root].parent = 0
    BY DEF Faithful, Grown
<1>2. EventStack = <<>>
    BY <1>1 DEF EventStack
<1>3. Balanced(TreeMarks(read))
    BY <1>1, <1>2, StackedBalanced DEF AsWritten
<1>4. root = Max({k \in DOMAIN elements : elements[k].parent = 0})
    <2>1. DOMAIN elements \subseteq Int
        BY DEF Grown, Typed
    <2>2. \A k \in {l \in DOMAIN elements : elements[l].parent = 0} : k <= root
        BY <1>1 DEF AsWritten, RootIsLast
    <2> QED BY <1>1, <2>1, <2>2, MaxIs
<1> QED BY <1>1, <1>3, <1>4 DEF ParsedAsWritten, AsWritten

\* The tree of a parsed instance is that of its document, for any names,
\* texts and limits: each element where the document has it and with the text
\* directly inside it, closed by its own end, and nothing broken off, declared
\* or unknown gets so far (parse_tree).
THEOREM ParsedIsWritten == InstanceSpec => []ParsedAsWritten
<1>1. InstanceInit => Grown /\ Faithful
    BY InitGrown, InitFaithful
<1>2. Grown /\ Faithful /\ [Event]_instanceVars => Grown' /\ Faithful'
    BY EventGrown, EventFaithful
<1>3. Grown /\ Faithful => ParsedAsWritten
    BY FaithfulParsed
<1> QED BY <1>1, <1>2, <1>3, PTL DEF InstanceSpec

-----------------------------------------------------------------------------
(* Sequences of anything, given as functions. *)

LEMMA AnySeq ==
  ASSUME NEW n \in Nat, NEW s, s = [k \in 1 .. n |-> s[k]]
  PROVE  s \in Seq({s[k] : k \in 1 .. n}) /\ Len(s) = n
OBVIOUS

LEMMA AppendAny ==
  ASSUME NEW n \in Nat, NEW s, s = [k \in 1 .. n |-> s[k]], NEW x
  PROVE  Append(s, x) = [k \in 1 .. n + 1 |-> IF k = n + 1 THEN x ELSE s[k]]
<1> DEFINE S == {s[k] : k \in 1 .. n} \cup {x}
<1>1. s \in Seq(S) /\ Len(s) = n /\ x \in S
    OBVIOUS
<1> HIDE DEF S
<1> QED BY <1>1

LEMMA FrontAny ==
  ASSUME NEW n \in Nat \ {0}, NEW s, s = [k \in 1 .. n |-> s[k]]
  PROVE  Front(s) = [k \in 1 .. n - 1 |-> s[k]] /\ Last(s) = s[n]
<1>1. s \in Seq({s[k] : k \in 1 .. n}) /\ Len(s) = n
    BY AnySeq
<1> QED BY <1>1 DEF Front, Last

LEMMA ConcatAny ==
  ASSUME NEW n \in Nat, NEW m \in Nat, NEW s, NEW t,
         s = [k \in 1 .. n |-> s[k]], t = [k \in 1 .. m |-> t[k]]
  PROVE  s \o t = [k \in 1 .. n + m |-> IF k <= n THEN s[k] ELSE t[k - n]]
<1> DEFINE S == {s[k] : k \in 1 .. n} \cup {t[k] : k \in 1 .. m}
<1>1. s \in Seq(S) /\ Len(s) = n /\ t \in Seq(S) /\ Len(t) = m
    <2>1. \A k \in 1 .. n : s[k] \in S
        OBVIOUS
    <2>2. \A k \in 1 .. m : t[k] \in S
        OBVIOUS
    <2> HIDE DEF S
    <2>3. s \in [1 .. n -> S] /\ t \in [1 .. m -> S]
        BY <2>1, <2>2
    <2> QED BY <2>3
<1> HIDE DEF S
<1> QED BY <1>1

-----------------------------------------------------------------------------
(* The fields some rows have become, in the order of the rows. *)

Listing(numbers, made) == [n \in DOMAIN InOrder(numbers) |-> made[InOrder(numbers)[n]]]

ListsAs(numbers, made) ==
  /\ Cardinality(numbers) \in Nat
  /\ DOMAIN InOrder(numbers) = 1 .. Cardinality(numbers)
  /\ \A k \in 1 .. Cardinality(numbers) : InOrder(numbers)[k] \in numbers
  /\ Listing(numbers, made) = [k \in 1 .. Cardinality(numbers) |-> made[InOrder(numbers)[k]]]

LEMMA ListingIs ==
  ASSUME NEW n \in Nat, NEW numbers \in SUBSET (1 .. n), NEW made
  PROVE  ListsAs(numbers, made)
<1>1. Cardinality(numbers) \in Nat
    BY Few
<1>2. InOrder(numbers) \in Seq(numbers) /\ Len(InOrder(numbers)) = Cardinality(numbers)
    BY InOrderIs
<1>3. DOMAIN InOrder(numbers) = 1 .. Cardinality(numbers)
    BY <1>2
<1>4. \A k \in 1 .. Cardinality(numbers) : InOrder(numbers)[k] \in numbers
    BY <1>2, ElementOfSeq
<1> QED BY <1>1, <1>3, <1>4 DEF Listing, ListsAs

LEMMA ListingSame ==
  ASSUME NEW n \in Nat, NEW numbers \in SUBSET (1 .. n), NEW made, NEW other,
         \A i \in numbers : made[i] = other[i]
  PROVE  Listing(numbers, made) = Listing(numbers, other)
<1>1. ListsAs(numbers, made) /\ ListsAs(numbers, other)
    BY ListingIs
<1> QED BY <1>1 DEF ListsAs

LEMMA ListingNone == \A made : Listing({}, made) = <<>>
<1>1. Cardinality({}) = 0
    BY FS_EmptySet
<1>2. InOrder({}) = <<>>
    BY <1>1 DEF InOrder
<1> QED BY <1>2 DEF Listing

LEMMA ListingOne ==
  ASSUME NEW m \in Nat \ {0}, NEW made
  PROVE  Listing({m}, made) = <<made[m]>>
<1>1. Cardinality({}) = 0
    BY FS_EmptySet
<1>2. InOrder({}) = <<>>
    BY <1>1 DEF InOrder
<1>3. InOrder({} \cup {m}) = Append(InOrder({}), m)
    <2>1. 0 \in Nat /\ {} \in SUBSET (1 .. 0) /\ m \in Nat /\ m > 0
        OBVIOUS
    <2> QED BY <2>1, InOrderGrows
<1>4. InOrder({m}) = <<m>>
    <2>1. {} \cup {m} = {m} /\ Append(<<>>, m) = <<m>>
        OBVIOUS
    <2> QED BY <1>2, <1>3, <2>1
<1> QED BY <1>4 DEF Listing

MapsConcat(made, a, c, b, d) ==
  [k \in DOMAIN (a \o b) |-> made[(a \o b)[k]]]
    = [k \in 1 .. c |-> made[a[k]]] \o [k \in 1 .. d |-> made[b[k]]]

LEMMA ConcatMapped ==
  ASSUME NEW c \in Nat, NEW d \in Nat, NEW a, NEW b, NEW made,
         a = [k \in 1 .. c |-> a[k]], b = [k \in 1 .. d |-> b[k]]
  PROVE  MapsConcat(made, a, c, b, d)
<1> DEFINE s == [k \in 1 .. c |-> made[a[k]]]
           t == [k \in 1 .. d |-> made[b[k]]]
<1>1. a \o b = [k \in 1 .. c + d |-> IF k <= c THEN a[k] ELSE b[k - c]]
    BY ConcatAny
<1>2. s \o t = [k \in 1 .. c + d |-> IF k <= c THEN s[k] ELSE t[k - c]]
    <2>1. s = [k \in 1 .. c |-> s[k]] /\ t = [k \in 1 .. d |-> t[k]]
        OBVIOUS
    <2> HIDE DEF s, t
    <2> QED BY <2>1, ConcatAny
<1>3. ASSUME NEW k \in 1 .. c + d
      PROVE  made[(a \o b)[k]] = IF k <= c THEN s[k] ELSE t[k - c]
    <2>1. CASE k <= c
        <3>1. k \in 1 .. c
            BY <2>1
        <3> QED BY <1>1, <2>1, <3>1
    <2>2. CASE ~ k <= c
        <3>1. k - c \in 1 .. d
            BY <2>2
        <3> QED BY <1>1, <2>2, <3>1
    <2> QED BY <2>1, <2>2
<1>4. DOMAIN (a \o b) = 1 .. c + d
    BY <1>1
<1> HIDE DEF s, t
<1>5. [k \in DOMAIN (a \o b) |-> made[(a \o b)[k]]] = s \o t
    BY <1>2, <1>3, <1>4
<1> QED BY <1>5 DEF s, t, MapsConcat

ListsBoth(low, high, made) ==
  Listing(low \cup high, made) = Listing(low, made) \o Listing(high, made)

LEMMA ListingConcat ==
  ASSUME NEW n \in Nat, NEW m \in Nat, NEW low \in SUBSET (1 .. n), NEW high \in SUBSET (n + 1 .. m),
         NEW made
  PROVE  ListsBoth(low, high, made)
<1>0. high \in SUBSET (1 .. m)
    OBVIOUS
<1>1. ListsAs(low, made) /\ ListsAs(high, made)
    BY <1>0, ListingIs
<1>2. Consecutive(low, high)
    BY InOrderConcat
<1>3. InOrder(low) \in Seq(low) /\ InOrder(high) \in Seq(high)
    BY <1>0, InOrderIs
<1>4. /\ InOrder(low) = [k \in 1 .. Cardinality(low) |-> InOrder(low)[k]]
      /\ InOrder(high) = [k \in 1 .. Cardinality(high) |-> InOrder(high)[k]]
    BY <1>1, <1>3 DEF ListsAs
<1>5. Cardinality(low) \in Nat /\ Cardinality(high) \in Nat
    BY <1>1 DEF ListsAs
<1>6. MapsConcat(made, InOrder(low), Cardinality(low), InOrder(high), Cardinality(high))
    BY <1>4, <1>5, ConcatMapped
<1>7. Listing(low \cup high, made)
        = [k \in DOMAIN (InOrder(low) \o InOrder(high)) |-> made[(InOrder(low) \o InOrder(high))[k]]]
    BY <1>2 DEF Listing, Consecutive
<1> QED BY <1>1, <1>6, <1>7 DEF ListsBoth, MapsConcat, ListsAs

ListsTagged(numbers, made, other, group) ==
  Listing(numbers, other)
    = [k \in DOMAIN Listing(numbers, made) |-> Tagged(Listing(numbers, made)[k], group)]

LEMMA ListingTagged ==
  ASSUME NEW n \in Nat, NEW numbers \in SUBSET (1 .. n), NEW made, NEW other, NEW group,
         \A i \in numbers : other[i] = Tagged(made[i], group)
  PROVE  ListsTagged(numbers, made, other, group)
<1>1. ListsAs(numbers, made) /\ ListsAs(numbers, other)
    BY ListingIs
<1> QED BY <1>1 DEF ListsAs, ListsTagged

-----------------------------------------------------------------------------
(* A sheet that gets one more row. *)

MarkOfRow(r) == IF Opens(r) THEN 1 ELSE IF Closes(r) THEN -1 ELSE 0

LEMMA RowMarks ==
  ASSUME NEW s \in Seq(Rows)
  PROVE  /\ Len(s) \in Nat /\ DOMAIN s = 1 .. Len(s)
         /\ SheetMarks(s) \in Seq(Mark) /\ Len(SheetMarks(s)) = Len(s)
         /\ \A i \in 1 .. Len(s) : SheetMarks(s)[i] = MarkOfRow(s[i])
<1>1. PICK n \in Nat : n = Len(s) /\ DOMAIN s = 1 .. n
    OBVIOUS
<1>2. SheetMarks(s) = [i \in 1 .. n |-> MarkOfRow(s[i])]
    BY <1>1 DEF SheetMarks, MarkOfRow
<1>3. \A i : MarkOfRow(s[i]) \in Mark
    BY DEF MarkOfRow, Mark
<1>4. SheetMarks(s) \in [1 .. n -> Mark]
    BY <1>2, <1>3
<1>5. SheetMarks(s) \in Seq(Mark) /\ Len(SheetMarks(s)) = n
    BY <1>4
<1> QED BY <1>1, <1>2, <1>5

\* What is around a row, of what is around it the innermost repeat.
LEMMA AroundRow ==
  ASSUME NEW s \in Seq(Rows), NEW i \in 1 .. Len(s) + 1
  PROVE  /\ \A j \in Around(SheetMarks(s), i) : j \in 1 .. i - 1 /\ Opens(s[j])
         /\ RepeatOf(s, i) \in 0 .. i - 1
         /\ RepeatOf(s, i) # 0 =>
              RepeatOf(s, i) \in Around(SheetMarks(s), i) /\ Base(s[RepeatOf(s, i)]) = "begin_repeat"
         /\ \A j \in Around(SheetMarks(s), i) :
              Base(s[j]) = "begin_repeat" => j <= RepeatOf(s, i)
<1> DEFINE around == Around(SheetMarks(s), i)
           repeats == {0} \cup {j \in around : Base(s[j]) = "begin_repeat"}
<1>1. \A j \in around : j \in 1 .. i - 1 /\ SheetMarks(s)[j] = 1
    BY DEF Around
<1>2. Len(s) \in Nat /\ \A j \in 1 .. Len(s) : SheetMarks(s)[j] = MarkOfRow(s[j])
    BY RowMarks
<1>3. \A j \in around : j \in 1 .. i - 1 /\ Opens(s[j])
    BY <1>1, <1>2 DEF MarkOfRow
<1>4. RepeatOf(s, i) = Max(repeats)
    BY DEF RepeatOf
<1>5. i - 1 \in Nat /\ repeats \in SUBSET (0 .. i - 1) /\ 0 \in repeats
    BY <1>2, <1>3
<1> HIDE DEF repeats
<1>6. Max(repeats) \in repeats /\ \A k \in repeats : k <= Max(repeats)
    BY <1>5, MaxOf
<1> QED BY <1>3, <1>4, <1>5, <1>6 DEF repeats

LEMMA NextRow ==
  ASSUME NEW s \in Seq(Rows), NEW r \in Rows
  PROVE  LET more == Append(s, r)
             n == Len(s)
         IN /\ n \in Nat /\ DOMAIN s = 1 .. n /\ DOMAIN more = 1 .. n + 1
            /\ more \in Seq(Rows) /\ Len(more) = n + 1
            /\ more[n + 1] = r
            /\ \A i \in 1 .. n : more[i] = s[i]
            /\ SheetMarks(more) = Append(SheetMarks(s), MarkOfRow(r))
            /\ \A i \in 1 .. n + 1 : /\ Around(SheetMarks(more), i) = Around(SheetMarks(s), i)
                                     /\ ContainerOf(more, i) = ContainerOf(s, i)
                                     /\ RepeatOf(more, i) = RepeatOf(s, i)
                                     /\ GroupOf(more, i) = GroupOf(s, i)
<1> DEFINE more == Append(s, r)
           n == Len(s)
<1>1. /\ n \in Nat /\ DOMAIN s = 1 .. n /\ DOMAIN more = 1 .. n + 1
      /\ more \in Seq(Rows) /\ Len(more) = n + 1
      /\ more[n + 1] = r
      /\ \A i \in 1 .. n : more[i] = s[i]
    OBVIOUS
<1> HIDE DEF more, n
<1>2. /\ SheetMarks(s) \in Seq(Mark) /\ Len(SheetMarks(s)) = n
      /\ \A i \in 1 .. n : SheetMarks(s)[i] = MarkOfRow(s[i])
    BY <1>1, RowMarks DEF n
<1>3. /\ SheetMarks(more) \in Seq(Mark) /\ Len(SheetMarks(more)) = n + 1
      /\ \A i \in 1 .. n + 1 : SheetMarks(more)[i] = MarkOfRow(more[i])
    BY <1>1, RowMarks
<1>4. MarkOfRow(r) \in Mark
    BY DEF MarkOfRow, Mark
<1>5. SheetMarks(more) = Append(SheetMarks(s), MarkOfRow(r))
    <2>1. /\ Append(SheetMarks(s), MarkOfRow(r)) \in Seq(Mark)
          /\ Len(Append(SheetMarks(s), MarkOfRow(r))) = n + 1
          /\ \A i \in 1 .. n + 1 : Append(SheetMarks(s), MarkOfRow(r))[i] = SheetMarks(more)[i]
        BY <1>1, <1>2, <1>3, <1>4
    <2> QED BY <1>3, <2>1, SeqEqual
<1>6. \A k \in 1 .. n : SheetMarks(more)[k] = SheetMarks(s)[k]
    BY <1>1, <1>2, <1>3
<1>7. ASSUME NEW i \in 1 .. n + 1
      PROVE  /\ Around(SheetMarks(more), i) = Around(SheetMarks(s), i)
             /\ ContainerOf(more, i) = ContainerOf(s, i)
             /\ RepeatOf(more, i) = RepeatOf(s, i)
             /\ GroupOf(more, i) = GroupOf(s, i)
    <2>1. /\ Around(SheetMarks(more), i) = Around(SheetMarks(s), i)
          /\ Encloser(SheetMarks(more), i) = Encloser(SheetMarks(s), i)
        BY <1>1, <1>6, Prefix
    <2>2. ContainerOf(more, i) = ContainerOf(s, i)
        BY <2>1 DEF ContainerOf
    <2>3. \A j \in Around(SheetMarks(s), i) : more[j] = s[j]
        BY <1>1 DEF Around
    <2>4. {j \in Around(SheetMarks(s), i) : Base(more[j]) = "begin_repeat"}
            = {j \in Around(SheetMarks(s), i) : Base(s[j]) = "begin_repeat"}
        BY <2>3
    <2>5. RepeatOf(more, i) = RepeatOf(s, i)
        BY <2>1, <2>4 DEF RepeatOf
    <2>6. i \in Nat \ {0}
        BY <1>1
    <2>7. ContainerOf(s, i) = 0 \/ ContainerOf(s, i) \in Around(SheetMarks(s), i)
        BY <2>6, EncloserIs DEF ContainerOf
    <2>8. GroupOf(more, i) = GroupOf(s, i)
        BY <2>2, <2>3, <2>7 DEF GroupOf
    <2> QED BY <2>1, <2>2, <2>5, <2>8
<1> QED BY <1>1, <1>5, <1>7 DEF more, n

-----------------------------------------------------------------------------
(* The rows that opened what is open: pos lists them, the outermost first. *)

OpenAt(pos) == {0} \cup {pos[k] : k \in DOMAIN pos}

LEMMA Positions ==
  ASSUME NEW s \in Seq(Rows), NEW pos, Stacked(SheetMarks(s), pos)
  PROVE  /\ Len(s) \in Nat /\ DOMAIN s = 1 .. Len(s)
         /\ pos \in Seq(Nat) /\ Len(pos) \in Nat /\ DOMAIN pos = 1 .. Len(pos)
         /\ \A k \in 1 .. Len(pos) : pos[k] \in 1 .. Len(s) /\ Opens(s[pos[k]])
         /\ \A k, l \in 1 .. Len(pos) : k < l => pos[k] < pos[l]
         /\ Around(SheetMarks(s), Len(s) + 1) = {pos[k] : k \in DOMAIN pos}
<1>1. /\ Len(s) \in Nat /\ DOMAIN s = 1 .. Len(s) /\ Len(SheetMarks(s)) = Len(s)
      /\ \A i \in 1 .. Len(s) : SheetMarks(s)[i] = MarkOfRow(s[i])
    BY RowMarks
<1>2. /\ pos \in Seq(Nat)
      /\ \A k \in DOMAIN pos : pos[k] \in 1 .. Len(SheetMarks(s)) /\ SheetMarks(s)[pos[k]] = 1
    BY DEF Stacked
<1>3. Len(pos) \in Nat /\ DOMAIN pos = 1 .. Len(pos)
    BY <1>2
<1>4. \A k \in 1 .. Len(pos) : pos[k] \in 1 .. Len(s) /\ Opens(s[pos[k]])
    BY <1>1, <1>2, <1>3, SMTT(30) DEF MarkOfRow
<1>5. \A k, l \in 1 .. Len(pos) : k < l => pos[k] < pos[l]
    BY <1>3, StackRises
<1>6. Around(SheetMarks(s), Len(s) + 1) = {pos[k] : k \in DOMAIN pos}
    BY <1>1, AroundNext
<1> QED BY <1>1, <1>2, <1>3, <1>4, <1>5, <1>6

\* What comes next stands directly in what is open.
LEMMA NextStands ==
  ASSUME NEW s \in Seq(Rows), NEW pos, Stacked(SheetMarks(s), pos)
  PROVE  /\ RepeatOf(s, Len(s) + 1) \in OpenAt(pos)
         /\ ContainerOf(s, Len(s) + 1) = TopOf(pos)
         /\ TopOf(pos) \in OpenAt(pos)
<1>1. Len(s) \in Nat /\ Len(SheetMarks(s)) = Len(s) /\ Len(s) + 1 \in 1 .. Len(s) + 1
    BY RowMarks
<1>2. OpenAt(pos) = {0} \cup Around(SheetMarks(s), Len(s) + 1)
    BY Positions DEF OpenAt
<1>3. RepeatOf(s, Len(s) + 1) \in OpenAt(pos)
    BY <1>1, <1>2, AroundRow
<1>4. ContainerOf(s, Len(s) + 1) = TopOf(pos)
    BY <1>1, EncloserNext DEF ContainerOf
<1>5. TopOf(pos) \in OpenAt(pos)
    BY Positions DEF OpenAt, TopOf
<1> QED BY <1>3, <1>4, <1>5

\* What is open is around every row after it.
LEMMA StandsAround ==
  ASSUME NEW s \in Seq(Rows), NEW pos, Stacked(SheetMarks(s), pos), NEW k \in DOMAIN pos
  PROVE  LET p == pos[k]
         IN /\ RepeatOf(s, p) \in OpenAt(pos) /\ RepeatOf(s, p) < p
            /\ ContainerOf(s, p) \in OpenAt(pos) /\ ContainerOf(s, p) < p
            /\ \A i \in p + 1 .. Len(s) + 1 :
                 /\ Base(s[p]) = "begin_repeat" => p <= RepeatOf(s, i)
                 /\ p <= ContainerOf(s, i)
                 /\ ContainerOf(s, i) = p => RepeatOf(s, i) \in OpenAt(pos)
<1> DEFINE p == pos[k]
           n == Len(s)
           marks == SheetMarks(s)
<1>1. n \in Nat /\ marks \in Seq(Mark) /\ Len(marks) = n
    BY RowMarks
<1>2. p \in 1 .. n /\ p \in Around(marks, n + 1) /\ OpenAt(pos) = {0} \cup Around(marks, n + 1)
    BY Positions DEF OpenAt
<1> HIDE DEF p, n, marks
<1>3. \A j \in Around(marks, p) : j \in Around(marks, n + 1)
    BY <1>1, <1>2, AroundWithin
<1>4. p \in 1 .. n + 1 /\ p \in Nat \ {0}
    BY <1>1, <1>2
<1>5. RepeatOf(s, p) \in OpenAt(pos) /\ RepeatOf(s, p) < p
    BY <1>2, <1>3, <1>4, AroundRow DEF n, marks
<1>6. ContainerOf(s, p) \in OpenAt(pos) /\ ContainerOf(s, p) < p
    <2>1. ContainerOf(s, p) \in 0 .. p - 1 /\ ContainerOf(s, p) \in {0} \cup Around(marks, p)
        BY <1>4, EncloserIs DEF ContainerOf, marks
    <2> QED BY <1>2, <1>3, <1>4, <2>1
<1>7. ASSUME NEW i \in p + 1 .. n + 1
      PROVE  /\ Base(s[p]) = "begin_repeat" => p <= RepeatOf(s, i)
             /\ p <= ContainerOf(s, i)
             /\ ContainerOf(s, i) = p => RepeatOf(s, i) \in OpenAt(pos)
    <2>1. i \in 1 .. n + 1 /\ i \in Nat \ {0} /\ n + 1 \in Nat /\ p < i
        BY <1>1, <1>4
    <2>2. p \in Around(marks, i)
        BY <1>2, <2>1, AroundEarlier
    <2>3. Base(s[p]) = "begin_repeat" => p <= RepeatOf(s, i)
        BY <2>1, <2>2, AroundRow DEF n, marks
    <2>4. /\ \A j \in Around(marks, i) : j <= ContainerOf(s, i)
          /\ ContainerOf(s, i) \in {0} \cup Around(marks, i)
        BY <2>1, EncloserIs DEF ContainerOf, marks
    <2>5. ASSUME ContainerOf(s, i) = p PROVE RepeatOf(s, i) \in OpenAt(pos)
        <3>1. CASE RepeatOf(s, i) = 0
            BY <3>1 DEF OpenAt
        <3>2. CASE RepeatOf(s, i) # 0
            <4>1. RepeatOf(s, i) \in Around(marks, i)
                BY <2>1, <3>2, AroundRow DEF n, marks
            <4>2. RepeatOf(s, i) <= p
                BY <2>4, <2>5, <4>1
            <4>3. CASE RepeatOf(s, i) = p
                BY <1>2, <4>3
            <4>4. CASE RepeatOf(s, i) # p
                <5>1. RepeatOf(s, i) \in Nat
                    BY <2>1, AroundRow DEF n
                <5>2. RepeatOf(s, i) < p /\ p \in 1 .. i
                    BY <1>4, <2>1, <4>2, <4>4, <5>1
                <5>3. i \in Nat
                    BY <2>1
                <5>4. RepeatOf(s, i) \in Around(marks, p)
                    BY <4>1, <5>2, <5>3, AroundEarlier
                <5> QED BY <1>2, <1>3, <5>4
            <4> QED BY <4>3, <4>4
        <3> QED BY <3>1, <3>2
    <2> QED BY <2>2, <2>3, <2>4, <2>5
<1> QED BY <1>5, <1>6, <1>7 DEF p, n

-----------------------------------------------------------------------------
(* The rows whose fields a container that is open holds so far: the k-th   *)
(* container, the root being the first.                                    *)

Before(pos, k) == IF k = 1 THEN 0 ELSE pos[k - 1]
After(s, pos, k) == IF k \in DOMAIN pos THEN pos[k] ELSE Len(s) + 1
Within(s, pos, k) ==
  {i \in DOMAIN s : /\ IsField(s[i])
                    /\ Before(pos, k) < i /\ i < After(s, pos, k)
                    /\ RepeatOf(s, i) \in OpenAt(pos)}

LEMMA Containers == \A r : /\ Opens(r) <=> Base(r) \in {"begin_group", "begin_repeat"}
                           /\ Opens(r) => ~ Closes(r)
                           /\ Opens(r) => (IsField(r) <=> Base(r) = "begin_repeat")
                           /\ Closes(r) => ~ IsField(r)
BY DEF IsField, TypeOf, Opens, Closes, Begins, Ends

LEMMA BeforeType ==
  ASSUME NEW s \in Seq(Rows), NEW pos, Stacked(SheetMarks(s), pos), NEW k \in 1 .. Len(pos) + 1
  PROVE  /\ Before(pos, k) \in 0 .. Len(s) /\ After(s, pos, k) \in 1 .. Len(s) + 1
         /\ Before(pos, k) \in OpenAt(pos)
         /\ \A i \in 1 .. Len(s) : Before(pos, k) < i /\ i < After(s, pos, k) => i \notin OpenAt(pos)
<1>1. /\ Len(s) \in Nat /\ Len(pos) \in Nat /\ DOMAIN pos = 1 .. Len(pos)
      /\ \A l \in 1 .. Len(pos) : pos[l] \in 1 .. Len(s)
      /\ \A l, m \in 1 .. Len(pos) : l < m => pos[l] < pos[m]
    BY Positions
<1>2. k # 1 => k - 1 \in 1 .. Len(pos)
    BY <1>1
<1>3. Before(pos, k) \in 0 .. Len(s) /\ After(s, pos, k) \in 1 .. Len(s) + 1
    BY <1>1, <1>2 DEF Before, After
<1>4. Before(pos, k) \in OpenAt(pos)
    BY <1>1, <1>2 DEF Before, OpenAt
<1>5. ASSUME NEW i \in 1 .. Len(s), Before(pos, k) < i, i < After(s, pos, k), i \in OpenAt(pos)
      PROVE  FALSE
    <2>1. PICK l \in 1 .. Len(pos) : i = pos[l]
        BY <1>1, <1>5 DEF OpenAt
    <2>2. CASE l < k
        <3>1. k # 1 /\ Before(pos, k) = pos[k - 1]
            BY <1>1, <2>2 DEF Before
        <3>2. l = k - 1 \/ l < k - 1
            BY <1>1, <2>2
        <3>3. pos[l] <= pos[k - 1]
            BY <1>1, <1>2, <3>1, <3>2
        <3> QED BY <1>1, <1>2, <1>5, <2>1, <3>1, <3>3
    <2>3. CASE l >= k
        <3>1. k \in 1 .. Len(pos)
            BY <1>1, <2>3
        <3>2. After(s, pos, k) = pos[k]
            BY <1>1, <3>1 DEF After
        <3>3. pos[k] <= pos[l]
            <4>1. k = l \/ k < l
                BY <1>1, <2>3
            <4> QED BY <1>1, <3>1, <4>1
        <3> QED BY <1>1, <1>5, <2>1, <3>1, <3>2, <3>3
    <2> QED BY <1>1, <2>2, <2>3
<1> QED BY <1>3, <1>4, <1>5

LEMMA FieldRowsGrow ==
  ASSUME NEW s \in Seq(Rows), NEW pos, Stacked(SheetMarks(s), pos), NEW r \in Rows
  PROVE  LET more == Append(s, r)
             n == Len(s)
         IN /\ \A i \in 1 .. n : i \notin OpenAt(pos) => FieldRows(more, i) = FieldRows(s, i)
            /\ FieldRows(more, n + 1) = {}
            /\ ~ IsField(r) => \A i : FieldRows(more, i) = FieldRows(s, i)
            /\ \A i : FieldRows(s, i) \in SUBSET (1 .. n)
<1> DEFINE more == Append(s, r)
           n == Len(s)
<1>1. /\ n \in Nat /\ DOMAIN s = 1 .. n /\ DOMAIN more = 1 .. n + 1
      /\ more \in Seq(Rows) /\ Len(more) = n + 1
      /\ more[n + 1] = r
      /\ \A i \in 1 .. n : more[i] = s[i]
      /\ \A i \in 1 .. n + 1 : RepeatOf(more, i) = RepeatOf(s, i)
    BY NextRow
<1>2. RepeatOf(s, n + 1) \in OpenAt(pos)
    BY NextStands
<1>3. \A i \in 1 .. n + 1 : RepeatOf(s, i) < i
    <2>1. ASSUME NEW i \in 1 .. Len(s) + 1 PROVE RepeatOf(s, i) < i
        <3>1. RepeatOf(s, i) \in 0 .. i - 1
            BY AroundRow
        <3> QED BY <3>1, <1>1
    <2> QED BY <2>1
<1> HIDE DEF more, n
<1>4. ASSUME NEW i PROVE FieldRows(more, i) = FieldRows(s, i) \cup
                            {j \in {n + 1} : IsField(r) /\ RepeatOf(s, n + 1) = i}
    BY <1>1 DEF FieldRows
<1>5. FieldRows(more, n + 1) = {}
    <2>1. \A j \in 1 .. n + 1 : RepeatOf(more, j) # n + 1
        BY <1>1, <1>3
    <2> QED BY <1>1, <2>1 DEF FieldRows
<1>6. \A i : FieldRows(s, i) \in SUBSET (1 .. n)
    BY <1>1 DEF FieldRows
<1>7. \A i \in 1 .. n : i \notin OpenAt(pos) => FieldRows(more, i) = FieldRows(s, i)
    BY <1>2, <1>4
<1>8. ~ IsField(r) => \A i : FieldRows(more, i) = FieldRows(s, i)
    BY <1>4
<1> QED BY <1>5, <1>6, <1>7, <1>8 DEF more, n

LEMMA WithinKept ==
  ASSUME NEW s \in Seq(Rows), NEW pos, Stacked(SheetMarks(s), pos), NEW r \in Rows
  PROVE  LET more == Append(s, r)
             top == Len(pos) + 1
         IN /\ \A k \in 1 .. Len(pos) : Within(more, pos, k) = Within(s, pos, k)
            /\ Within(more, pos, top)
                 = Within(s, pos, top) \cup (IF IsField(r) THEN {Len(s) + 1} ELSE {})
<1> DEFINE more == Append(s, r)
           n == Len(s)
           top == Len(pos) + 1
<1>1. /\ n \in Nat /\ DOMAIN s = 1 .. n /\ DOMAIN more = 1 .. n + 1 /\ Len(more) = n + 1
      /\ more[n + 1] = r
      /\ \A i \in 1 .. n : more[i] = s[i]
      /\ \A i \in 1 .. n + 1 : RepeatOf(more, i) = RepeatOf(s, i)
    BY NextRow
<1>2. RepeatOf(s, n + 1) \in OpenAt(pos)
    BY NextStands
<1>3. /\ Len(pos) \in Nat /\ DOMAIN pos = 1 .. Len(pos)
      /\ \A k \in 1 .. Len(pos) : pos[k] \in 1 .. n
    BY Positions
<1>4. top \in 1 .. Len(pos) + 1 /\ Before(pos, top) \in 0 .. n
    BY <1>3, BeforeType
<1> HIDE DEF more, n
<1>5. ASSUME NEW k \in 1 .. Len(pos) PROVE Within(more, pos, k) = Within(s, pos, k)
    <2>1. After(more, pos, k) = pos[k] /\ After(s, pos, k) = pos[k] /\ pos[k] \in 1 .. n
        BY <1>3 DEF After
    <2>2. \A i \in 1 .. n + 1 : i < pos[k] => i \in 1 .. n
        BY <1>1, <2>1
    <2> QED BY <1>1, <2>1, <2>2 DEF Within
<1>6. Within(more, pos, top) = Within(s, pos, top) \cup (IF IsField(r) THEN {n + 1} ELSE {})
    <2>1. After(more, pos, top) = n + 2 /\ After(s, pos, top) = n + 1
        BY <1>1, <1>3 DEF After, n
    <2>2. \A i \in 1 .. n + 1 : i < n + 2 /\ (i \in 1 .. n <=> i < n + 1) /\ (i \notin 1 .. n => i = n + 1)
        BY <1>1
    <2>3. Before(pos, top) < n + 1
        BY <1>1, <1>4
    <2> HIDE DEF top
    <2> QED BY <1>1, <1>2, <2>1, <2>2, <2>3 DEF Within
<1> QED BY <1>5, <1>6 DEF more, n

LEMMA WithinOpened ==
  ASSUME NEW s \in Seq(Rows), NEW pos, Stacked(SheetMarks(s), pos), NEW r \in Rows
  PROVE  LET more == Append(s, r)
             higher == Append(pos, Len(s) + 1)
         IN /\ \A k \in 1 .. Len(pos) + 1 : Within(more, higher, k) = Within(s, pos, k)
            /\ Within(more, higher, Len(pos) + 2) = {}
            /\ OpenAt(higher) = OpenAt(pos) \cup {Len(s) + 1}
            /\ Len(higher) = Len(pos) + 1
            /\ \A k \in 1 .. Len(pos) + 1 : Before(higher, k) = Before(pos, k)
            /\ Before(higher, Len(pos) + 2) = Len(s) + 1
<1> DEFINE more == Append(s, r)
           n == Len(s)
           l == Len(pos)
           higher == Append(pos, n + 1)
<1>1. /\ n \in Nat /\ DOMAIN s = 1 .. n /\ DOMAIN more = 1 .. n + 1 /\ Len(more) = n + 1
      /\ \A i \in 1 .. n : more[i] = s[i]
      /\ \A i \in 1 .. n + 1 : RepeatOf(more, i) = RepeatOf(s, i)
    BY NextRow
<1>2. /\ l \in Nat /\ DOMAIN pos = 1 .. l /\ pos \in Seq(Nat)
      /\ \A k \in 1 .. l : pos[k] \in 1 .. n
    BY Positions
<1>3. /\ DOMAIN higher = 1 .. l + 1 /\ higher[l + 1] = n + 1 /\ Len(higher) = l + 1
      /\ \A k \in 1 .. l : higher[k] = pos[k]
    BY <1>1, <1>2
<1>4. \A i \in 1 .. n : RepeatOf(s, i) \in 0 .. n
    <2>1. ASSUME NEW i \in 1 .. Len(s) + 1 PROVE RepeatOf(s, i) \in 0 .. i - 1
        BY AroundRow
    <2> QED BY <1>1, <2>1
<1> HIDE DEF more, n, l, higher
<1>5. OpenAt(higher) = OpenAt(pos) \cup {n + 1}
    <2>1. DOMAIN higher = DOMAIN pos \cup {l + 1} /\ \A k \in DOMAIN pos : higher[k] = pos[k]
        BY <1>2, <1>3
    <2>2. {higher[k] : k \in DOMAIN higher} = {pos[k] : k \in DOMAIN pos} \cup {higher[l + 1]}
        BY <2>1
    <2> QED BY <1>3, <2>2 DEF OpenAt
<1>6. ASSUME NEW k \in 1 .. l + 2
      PROVE  Before(higher, k) = IF k = l + 2 THEN n + 1 ELSE Before(pos, k)
    <2>1. CASE k = 1
        BY <1>2, <2>1 DEF Before
    <2>2. CASE k = l + 2
        <3>1. k # 1 /\ k - 1 = l + 1
            BY <1>2, <2>2
        <3> QED BY <1>3, <2>2, <3>1 DEF Before
    <2>3. CASE k # 1 /\ k # l + 2
        <3>1. k - 1 \in 1 .. l
            BY <1>2, <2>3
        <3> QED BY <1>3, <2>3, <3>1 DEF Before
    <2> QED BY <2>1, <2>2, <2>3
<1>7. ASSUME NEW k \in 1 .. l + 1 PROVE Within(more, higher, k) = Within(s, pos, k)
    <2>1. Before(higher, k) = Before(pos, k)
        BY <1>2, <1>6
    <2>2. After(more, higher, k) = After(s, pos, k)
        BY <1>1, <1>2, <1>3 DEF After, n
    <2>3. After(s, pos, k) \in 1 .. n + 1
        BY BeforeType DEF n, l
    <2>4. \A i \in 1 .. n + 1 : i < After(s, pos, k) => i \in 1 .. n
        BY <1>1, <2>3
    <2>5. \A i \in 1 .. n : RepeatOf(s, i) \in OpenAt(higher) <=> RepeatOf(s, i) \in OpenAt(pos)
        BY <1>1, <1>4, <1>5
    <2> QED BY <1>1, <2>1, <2>2, <2>4, <2>5 DEF Within
<1>8. Within(more, higher, l + 2) = {}
    <2>1. Before(higher, l + 2) = n + 1
        BY <1>2, <1>6
    <2>2. \A i \in 1 .. n + 1 : ~ n + 1 < i
        BY <1>1
    <2> QED BY <1>1, <2>1, <2>2 DEF Within
<1>9. Len(higher) = l + 1
    BY <1>3
<1>10. /\ \A k \in 1 .. l + 1 : Before(higher, k) = Before(pos, k)
       /\ Before(higher, l + 2) = n + 1
    BY <1>2, <1>6
<1> QED BY <1>5, <1>7, <1>8, <1>9, <1>10 DEF more, n, l, higher

\* The innermost container is closed.
Lower(pos) == SubSeq(pos, 1, Len(pos) - 1)

LEMMA LowerIs ==
  ASSUME NEW pos \in Seq(Nat), Len(pos) \in Nat \ {0}
  PROVE  /\ Len(Lower(pos)) = Len(pos) - 1
         /\ DOMAIN Lower(pos) = 1 .. Len(pos) - 1
         /\ \A k \in 1 .. Len(pos) - 1 : Lower(pos)[k] = pos[k]
         /\ OpenAt(pos) = OpenAt(Lower(pos)) \cup {pos[Len(pos)]}
         /\ \A k \in 1 .. Len(pos) : Before(Lower(pos), k) = Before(pos, k)
<1> DEFINE lower == Lower(pos)
<1>0. PICK l \in Nat \ {0} : l = Len(pos) /\ DOMAIN pos = 1 .. l
    OBVIOUS
<1>1. /\ Len(lower) = l - 1 /\ DOMAIN lower = 1 .. l - 1 /\ DOMAIN pos = 1 .. l
      /\ \A k \in 1 .. l - 1 : lower[k] = pos[k]
    <2>1. lower = [k \in 1 .. l - 1 |-> pos[k]]
        BY <1>0 DEF Lower
    <2> HIDE DEF lower
    <2>2. l - 1 \in Nat
        OBVIOUS
    <2> QED BY <1>0, <2>1, <2>2
<1> HIDE DEF lower
<1>2. OpenAt(pos) = OpenAt(lower) \cup {pos[l]}
    <2>1. DOMAIN pos = DOMAIN lower \cup {l} /\ \A k \in DOMAIN lower : lower[k] = pos[k]
        BY <1>1
    <2>2. {pos[k] : k \in DOMAIN pos} = {lower[k] : k \in DOMAIN lower} \cup {pos[l]}
        BY <2>1
    <2> QED BY <2>2 DEF OpenAt
<1>3. ASSUME NEW k \in 1 .. l PROVE Before(lower, k) = Before(pos, k)
    <2>1. k # 1 => k - 1 \in 1 .. l - 1
        BY <1>1
    <2> QED BY <1>1, <2>1 DEF Before
<1> QED BY <1>0, <1>1, <1>2, <1>3 DEF lower

LEMMA WithinClosed ==
  ASSUME NEW s \in Seq(Rows), NEW pos, Stacked(SheetMarks(s), pos), NEW r \in Rows,
         ~ IsField(r), Len(pos) # 0
  PROVE  LET more == Append(s, r)
             l == Len(pos)
             p == pos[l]
             lower == Lower(pos)
         IN /\ \A k \in 1 .. l - 1 : Within(more, lower, k) = Within(s, pos, k)
            /\ Base(s[p]) = "begin_group" =>
                 Within(more, lower, l) = Within(s, pos, l) \cup Within(s, pos, l + 1)
            /\ Base(s[p]) = "begin_repeat" =>
                 /\ Within(more, lower, l) = Within(s, pos, l) \cup {p}
                 /\ Within(s, pos, l + 1) = FieldRows(s, p)
<1> DEFINE more == Append(s, r)
           n == Len(s)
           l == Len(pos)
           p == pos[l]
           lower == Lower(pos)
<1>1. /\ n \in Nat /\ DOMAIN s = 1 .. n /\ DOMAIN more = 1 .. n + 1 /\ Len(more) = n + 1
      /\ more[n + 1] = r
      /\ \A i \in 1 .. n : more[i] = s[i]
      /\ \A i \in 1 .. n + 1 : RepeatOf(more, i) = RepeatOf(s, i)
    BY NextRow
<1>2. /\ l \in Nat /\ DOMAIN pos = 1 .. l /\ pos \in Seq(Nat)
      /\ \A k \in 1 .. l : pos[k] \in 1 .. n /\ Opens(s[pos[k]])
      /\ \A j, k \in 1 .. l : j < k => pos[j] < pos[k]
    BY Positions
<1>3. l \in 1 .. l /\ l \in Nat \ {0} /\ p \in 1 .. n /\ Opens(s[p])
    BY <1>2
<1>4. /\ Len(lower) = l - 1 /\ DOMAIN lower = 1 .. l - 1
      /\ \A k \in 1 .. l - 1 : lower[k] = pos[k]
      /\ OpenAt(pos) = OpenAt(lower) \cup {p}
      /\ \A k \in 1 .. l : Before(lower, k) = Before(pos, k)
    BY <1>2, <1>3, LowerIs
<1>5. \A i \in 1 .. n + 1 : /\ RepeatOf(s, i) \in 0 .. i - 1
                            /\ RepeatOf(s, i) # 0 => Base(s[RepeatOf(s, i)]) = "begin_repeat"
    BY AroundRow
<1>6. /\ RepeatOf(s, p) \in OpenAt(pos) /\ RepeatOf(s, p) < p
      /\ \A i \in p + 1 .. n + 1 : Base(s[p]) = "begin_repeat" => p <= RepeatOf(s, i)
    BY <1>2, <1>3, StandsAround
<1> HIDE DEF more, n, l, p, lower
<1>7. \A i \in OpenAt(pos) : i <= p /\ i \in Nat
    <2>1. ASSUME NEW k \in 1 .. l PROVE pos[k] <= pos[l]
        <3>1. k = l \/ k < l
            BY <1>2
        <3>2. pos[k] \in Nat /\ pos[l] \in Nat
            BY <1>2, <1>3 DEF p
        <3> QED BY <1>2, <1>3, <3>1, <3>2
    <2> QED BY <1>2, <1>3, <2>1 DEF OpenAt, p
<1>8. p \notin OpenAt(lower)
    <2>1. ASSUME NEW k \in 1 .. l - 1 PROVE lower[k] # p
        <3>1. k \in 1 .. l /\ k < l
            BY <1>3
        <3> QED BY <1>2, <1>3, <1>4, <3>1 DEF p
    <2> QED BY <1>3, <1>4, <2>1 DEF OpenAt
<1>9. ASSUME NEW k \in 1 .. l - 1 PROVE Within(more, lower, k) = Within(s, pos, k)
    <2>1. k \in 1 .. l /\ k < l
        BY <1>3
    <2>2. /\ After(more, lower, k) = pos[k] /\ After(s, pos, k) = pos[k]
          /\ Before(lower, k) = Before(pos, k)
          /\ pos[k] \in 1 .. n /\ pos[k] < p
        BY <1>2, <1>3, <1>4, <2>1 DEF After, p
    <2>3. ASSUME NEW i \in 1 .. n + 1, i < pos[k]
          PROVE  i \in 1 .. n /\ (RepeatOf(s, i) \in OpenAt(lower) <=> RepeatOf(s, i) \in OpenAt(pos))
        <3>1. i \in 1 .. n /\ RepeatOf(s, i) < p
            <4>1. RepeatOf(s, i) \in 0 .. i - 1
                BY <1>5
            <4>2. i < p /\ i \in 1 .. n
                BY <1>1, <1>3, <2>2, <2>3
            <4> QED BY <1>3, <4>1, <4>2
        <3> QED BY <1>3, <1>4, <3>1
    <2> QED BY <1>1, <2>2, <2>3 DEF Within
<1>10. /\ After(more, lower, l) = n + 2 /\ After(s, pos, l) = p /\ After(s, pos, l + 1) = n + 1
       /\ Before(lower, l) = Before(pos, l) /\ Before(pos, l + 1) = p
       /\ Before(pos, l) \in OpenAt(lower) /\ Before(pos, l) < p
    <2>1. /\ l \notin DOMAIN lower /\ l + 1 \notin DOMAIN pos /\ l + 1 # 1 /\ l + 1 - 1 = l
          /\ n + 1 + 1 = n + 2
        BY <1>1, <1>2, <1>3, <1>4
    <2>2. Before(pos, l) \in OpenAt(lower) /\ Before(pos, l) < p
        <3>1. CASE l = 1
            BY <1>3, <3>1 DEF Before, OpenAt
        <3>2. CASE l # 1
            <4>1. l - 1 \in 1 .. l - 1 /\ l - 1 \in 1 .. l /\ l - 1 < l
                BY <1>3, <3>2
            <4>2. Before(pos, l) = pos[l - 1] /\ lower[l - 1] = pos[l - 1] /\ pos[l - 1] < p
                BY <1>2, <1>3, <1>4, <3>2, <4>1 DEF Before, p
            <4> QED BY <1>4, <4>1, <4>2 DEF OpenAt
        <3> QED BY <3>1, <3>2
    <2> QED BY <1>1, <1>2, <1>3, <1>4, <2>1, <2>2 DEF After, Before, n, p
<1>11. \A i \in 1 .. n + 1 : i < n + 2 /\ (i \in 1 .. n <=> i < n + 1) /\ (i \notin 1 .. n => i = n + 1)
    BY <1>1
<1>12. ASSUME Base(s[p]) = "begin_group"
       PROVE  Within(more, lower, l) = Within(s, pos, l) \cup Within(s, pos, l + 1)
    <2>1. ~ IsField(s[p])
        BY <1>3, <1>12, Containers
    <2>2. \A i \in 1 .. n : RepeatOf(s, i) \in OpenAt(lower) <=> RepeatOf(s, i) \in OpenAt(pos)
        <3>1. ASSUME NEW i \in 1 .. n PROVE RepeatOf(s, i) # p
            <4>1. i \in 1 .. n + 1
                BY <1>1
            <4> QED BY <1>3, <1>5, <1>12, <4>1
        <3> QED BY <1>4, <3>1
    <2>3. ASSUME NEW i \in 1 .. n, i # p
          PROVE  Before(pos, l) < i <=> (Before(pos, l) < i /\ i < p) \/ p < i
        <3>1. Before(pos, l) \in Int /\ Before(pos, l) < p
            BY <1>3, <1>7, <1>4, <1>10
        <3> QED BY <1>3, <2>3, <3>1
    <2>4. ASSUME NEW i
          PROVE  i \in Within(more, lower, l) <=> i \in Within(s, pos, l) \/ i \in Within(s, pos, l + 1)
        <3>1. i \in Within(more, lower, l) <=>
                 i \in 1 .. n /\ IsField(s[i]) /\ Before(pos, l) < i /\ RepeatOf(s, i) \in OpenAt(pos)
            BY <1>1, <1>10, <1>11, <2>2 DEF Within
        <3>2. i \in Within(s, pos, l) <=>
                 i \in 1 .. n /\ IsField(s[i]) /\ Before(pos, l) < i /\ i < p /\ RepeatOf(s, i) \in OpenAt(pos)
            BY <1>1, <1>10 DEF Within
        <3>3. i \in Within(s, pos, l + 1) <=>
                 i \in 1 .. n /\ IsField(s[i]) /\ p < i /\ RepeatOf(s, i) \in OpenAt(pos)
            BY <1>1, <1>10, <1>11 DEF Within
        <3> QED BY <2>1, <2>3, <3>1, <3>2, <3>3
    <2> QED BY <2>4
<1>13. ASSUME Base(s[p]) = "begin_repeat"
       PROVE  /\ Within(more, lower, l) = Within(s, pos, l) \cup {p}
              /\ Within(s, pos, l + 1) = FieldRows(s, p)
    <2>1. IsField(s[p])
        BY <1>3, <1>13, Containers
    <2>2. RepeatOf(s, p) \in OpenAt(lower)
        BY <1>3, <1>4, <1>6
    <2>3. ASSUME NEW i \in 1 .. n, p < i
          PROVE  /\ RepeatOf(s, i) \in OpenAt(pos) <=> RepeatOf(s, i) = p
                 /\ RepeatOf(s, i) \notin OpenAt(lower)
        <3>1. i \in p + 1 .. n + 1 /\ i \in 1 .. n + 1
            BY <1>1, <1>3, <2>3
        <3>2. p <= RepeatOf(s, i) /\ RepeatOf(s, i) \in Int
            BY <1>5, <1>6, <1>13, <3>1
        <3>3. RepeatOf(s, i) \in OpenAt(pos) => RepeatOf(s, i) = p
            BY <1>3, <1>7, <3>2
        <3> QED BY <1>4, <1>8, <3>3
    <2>4. ASSUME NEW i \in 1 .. n, i < p
          PROVE  /\ RepeatOf(s, i) \in OpenAt(pos) <=> RepeatOf(s, i) \in OpenAt(lower)
                 /\ RepeatOf(s, i) # p
        <3>1. i \in 1 .. n + 1
            BY <1>1
        <3>2. RepeatOf(s, i) < p
            BY <1>3, <1>5, <2>4, <3>1
        <3> QED BY <1>3, <1>4, <3>2
    <2>5. RepeatOf(s, p) # p
        BY <1>3, <1>6
    <2>6. \A i \in 1 .. n : i < p \/ i = p \/ p < i
        BY <1>3
    <2>7. ASSUME NEW i
          PROVE  i \in Within(more, lower, l) <=> i \in Within(s, pos, l) \/ i = p
        <3>1. i \in Within(more, lower, l) <=>
                 i \in 1 .. n /\ IsField(s[i]) /\ Before(pos, l) < i /\ RepeatOf(s, i) \in OpenAt(lower)
            BY <1>1, <1>10, <1>11 DEF Within
        <3>2. i \in Within(s, pos, l) <=>
                 i \in 1 .. n /\ IsField(s[i]) /\ Before(pos, l) < i /\ i < p /\ RepeatOf(s, i) \in OpenAt(pos)
            BY <1>1, <1>10 DEF Within
        <3>3. ~ p < p
            BY <1>3
        <3> QED BY <1>3, <1>10, <2>1, <2>2, <2>3, <2>4, <2>6, <3>1, <3>2, <3>3
    <2>8. ASSUME NEW i
          PROVE  i \in Within(s, pos, l + 1) <=> i \in FieldRows(s, p)
        <3>1. i \in Within(s, pos, l + 1) <=>
                 i \in 1 .. n /\ IsField(s[i]) /\ p < i /\ RepeatOf(s, i) \in OpenAt(pos)
            BY <1>1, <1>10, <1>11 DEF Within
        <3>2. i \in FieldRows(s, p) <=> i \in 1 .. n /\ IsField(s[i]) /\ RepeatOf(s, i) = p
            BY <1>1 DEF FieldRows
        <3> QED BY <2>3, <2>4, <2>5, <2>6, <3>1, <3>2
    <2> QED BY <2>7, <2>8
<1> QED BY <1>9, <1>12, <1>13 DEF more, l, p, lower

-----------------------------------------------------------------------------
(* The fields. *)

FieldType(r) == IF Opens(r) THEN "Repeat" ELSE TypeOf[Base(r)]

Repeated(field, fields) == [field EXCEPT !.children = fields]

\* Fields are records that have children and a group.
Updated(f, children, group) == [f EXCEPT !.children = children, !.group = group]

IsFresh(f) ==
  /\ f = [x \in DOMAIN f |-> f[x]] /\ "children" \in DOMAIN f /\ "group" \in DOMAIN f
  /\ f.children = <<>> /\ f.group = ""

LEMMA Updates ==
  ASSUME NEW f, IsFresh(f), NEW children, NEW group
  PROVE  /\ Updated(f, <<>>, "") = f
         /\ Repeated(f, children) = Updated(f, children, "")
         /\ Updated(f, children, group).group = group
<1>1. Updated(f, <<>>, "") = f
    BY DEF IsFresh, Updated
<1>2. Repeated(f, children) = Updated(f, children, "")
    BY DEF IsFresh, Updated, Repeated
<1>3. Updated(f, children, group).group = group
    BY DEF IsFresh, Updated
<1> QED BY <1>1, <1>2, <1>3

KeepsGroup(r, children, other, group) ==
  Tagged(FieldOf(r, children, other), group) = FieldOf(r, children, other)

LEMMA FieldParts ==
  ASSUME NEW r, NEW children, NEW group, NEW other
  PROVE  /\ FieldOf(r, <<>>, "") = BuildField(r, FieldType(r))
         /\ Repeated(BuildField(r, FieldType(r)), children) = FieldOf(r, children, "")
         /\ Tagged(FieldOf(r, children, ""), group) = FieldOf(r, children, group)
         /\ other # "" => KeepsGroup(r, children, other, group)
<1> DEFINE f == BuildField(r, FieldType(r))
<1>1. IsFresh(f)
    BY DEF BuildField, IsFresh
<1>2. \A c, g : FieldOf(r, c, g) = Updated(f, c, g)
    BY DEF FieldOf, FieldType, Updated
<1> HIDE DEF f
<1>3. Updated(f, <<>>, "") = f /\ Repeated(f, children) = Updated(f, children, "")
    BY <1>1, Updates
<1>4. Tagged(Updated(f, children, ""), group) = Updated(f, children, group)
    <2>1. Updated(f, children, "").group = ""
        BY <1>1, Updates
    <2> QED BY <1>1, <2>1 DEF IsFresh, Updated, Tagged
<1>5. Updated(f, children, other).group = other
    BY <1>1, Updates
<1>6. other # "" => Tagged(Updated(f, children, other), group) = Updated(f, children, other)
    BY <1>5 DEF Tagged
<1> QED BY <1>2, <1>3, <1>4, <1>6 DEF f, KeepsGroup

-----------------------------------------------------------------------------
(* What the fields of the rows are so far: a group tags what it holds when *)
(* it is closed, and a repeat becomes a field then.                        *)

Tag(s, pos, i) == IF ContainerOf(s, i) \in OpenAt(pos) THEN "" ELSE GroupOf(s, i)

FieldIs(s, pos, made, i) == FieldOf(s[i], Listing(FieldRows(s, i), made), Tag(s, pos, i))

Built(s, pos, made) ==
  \A i \in 1 .. Len(s) : IsField(s[i]) /\ i \notin OpenAt(pos) => made[i] = FieldIs(s, pos, made, i)

SoundSheet(s) ==
  \A i \in 1 .. Len(s) : IsSound(s[i]) /\ EndFits(s, i) /\ (Closes(s[i]) => ContainerOf(s, i) # 0)

LEMMA TagOpened ==
  ASSUME NEW s \in Seq(Rows), NEW pos, Stacked(SheetMarks(s), pos), NEW r \in Rows
  PROVE  \A i \in 1 .. Len(s) :
           /\ Tag(Append(s, r), pos, i) = Tag(s, pos, i)
           /\ Tag(Append(s, r), Append(pos, Len(s) + 1), i) = Tag(s, pos, i)
<1> DEFINE more == Append(s, r)
           n == Len(s)
           higher == Append(pos, n + 1)
<1>1. /\ n \in Nat
      /\ \A i \in 1 .. n + 1 : ContainerOf(more, i) = ContainerOf(s, i) /\ GroupOf(more, i) = GroupOf(s, i)
    BY NextRow
<1>2. OpenAt(higher) = OpenAt(pos) \cup {n + 1}
    BY WithinOpened
<1> HIDE DEF more, n, higher
<1>3. ASSUME NEW i \in 1 .. n PROVE Tag(more, pos, i) = Tag(s, pos, i) /\ Tag(more, higher, i) = Tag(s, pos, i)
    <2>1. i \in 1 .. n + 1 /\ i \in Nat \ {0}
        BY <1>1
    <2>2. ContainerOf(s, i) \in 0 .. i - 1
        BY <2>1, EncloserIs DEF ContainerOf
    <2>3. ContainerOf(s, i) # n + 1
        BY <1>1, <2>2
    <2> QED BY <1>1, <1>2, <2>1, <2>3 DEF Tag
<1> QED BY <1>3 DEF more, n, higher

LEMMA TagClosed ==
  ASSUME NEW s \in Seq(Rows), NEW pos, Stacked(SheetMarks(s), pos), NEW r \in Rows,
         SoundSheet(s), Len(pos) # 0
  PROVE  LET more == Append(s, r)
             l == Len(pos)
             p == pos[l]
             lower == Lower(pos)
         IN /\ Base(s[p]) = "begin_repeat" =>
                 \A i \in 1 .. Len(s) : Tag(more, lower, i) = IF i = p THEN "" ELSE Tag(s, pos, i)
            /\ Base(s[p]) = "begin_group" =>
                 \A i \in 1 .. Len(s) : IsField(s[i]) /\ i \notin OpenAt(pos) =>
                   IF i \notin Within(s, pos, l + 1) THEN Tag(more, lower, i) = Tag(s, pos, i)
                   ELSE \/ Tag(s, pos, i) = "" /\ Tag(more, lower, i) = s[p].name
                        \/ Tag(s, pos, i) # "" /\ Tag(more, lower, i) = Tag(s, pos, i)
<1> DEFINE more == Append(s, r)
           n == Len(s)
           l == Len(pos)
           p == pos[l]
           lower == Lower(pos)
<1>1. /\ n \in Nat /\ DOMAIN s = 1 .. n
      /\ \A i \in 1 .. n + 1 : ContainerOf(more, i) = ContainerOf(s, i) /\ GroupOf(more, i) = GroupOf(s, i)
    BY NextRow
<1>2. /\ l \in Nat /\ DOMAIN pos = 1 .. l /\ pos \in Seq(Nat)
      /\ \A k \in 1 .. l : pos[k] \in 1 .. n /\ Opens(s[pos[k]])
      /\ \A j, k \in 1 .. l : j < k => pos[j] < pos[k]
    BY Positions
<1>3. l \in 1 .. l /\ l \in Nat \ {0} /\ p \in 1 .. n /\ Opens(s[p])
    BY <1>2
<1>4. Len(lower) = l - 1 /\ DOMAIN lower = 1 .. l - 1 /\ OpenAt(pos) = OpenAt(lower) \cup {p}
      /\ \A k \in 1 .. l - 1 : lower[k] = pos[k]
    BY <1>2, <1>3, LowerIs
<1>5. /\ ContainerOf(s, p) \in OpenAt(pos) /\ ContainerOf(s, p) < p
      /\ \A i \in p + 1 .. n + 1 : /\ p <= ContainerOf(s, i)
                                   /\ ContainerOf(s, i) = p => RepeatOf(s, i) \in OpenAt(pos)
    BY <1>2, <1>3, StandsAround
<1>6. Before(pos, l + 1) = p /\ After(s, pos, l + 1) = n + 1
    <2>1. l + 1 \notin DOMAIN pos /\ l + 1 # 1 /\ l + 1 - 1 = l
        BY <1>2, <1>3
    <2> QED BY <2>1 DEF Before, After
<1> HIDE DEF more, n, l, p, lower
<1>7. \A i \in OpenAt(pos) : i <= p /\ i \in Nat
    <2>1. ASSUME NEW k \in 1 .. l PROVE pos[k] <= pos[l]
        <3>1. k = l \/ k < l
            BY <1>2
        <3>2. pos[k] \in Nat /\ pos[l] \in Nat
            BY <1>2, <1>3 DEF p
        <3> QED BY <1>2, <1>3, <3>1, <3>2
    <2> QED BY <1>2, <1>3, <2>1 DEF OpenAt, p
<1>8. p \notin OpenAt(lower)
    <2>1. ASSUME NEW k \in 1 .. l - 1 PROVE lower[k] # p
        <3>1. k \in 1 .. l /\ k < l
            BY <1>3
        <3> QED BY <1>2, <1>3, <1>4, <3>1 DEF p
    <2> QED BY <1>3, <1>4, <2>1 DEF OpenAt
<1>9. ASSUME NEW i \in 1 .. n
      PROVE  Tag(more, lower, i) = IF ContainerOf(s, i) \in OpenAt(lower) THEN "" ELSE GroupOf(s, i)
    <2>1. ContainerOf(more, i) = ContainerOf(s, i) /\ GroupOf(more, i) = GroupOf(s, i)
        BY <1>1
    <2> QED BY <2>1 DEF Tag
<1>10. ASSUME NEW i \in 1 .. n, ContainerOf(s, i) # p PROVE Tag(more, lower, i) = Tag(s, pos, i)
    BY <1>4, <1>9, <1>10 DEF Tag
<1>11. ASSUME Base(s[p]) = "begin_repeat", NEW i \in 1 .. n
       PROVE  Tag(more, lower, i) = IF i = p THEN "" ELSE Tag(s, pos, i)
    <2>1. CASE i = p
        <3>1. ContainerOf(s, p) \in OpenAt(lower)
            BY <1>3, <1>4, <1>5
        <3> QED BY <1>9, <2>1, <3>1
    <2>2. CASE i # p /\ ContainerOf(s, i) = p
        <3>1. GroupOf(s, i) = ""
            BY <1>11, <2>2 DEF GroupOf
        <3>2. Tag(s, pos, i) = ""
            BY <1>4, <2>2 DEF Tag
        <3> QED BY <1>9, <2>2, <3>1, <3>2
    <2> QED BY <1>10, <2>1, <2>2
<1>12. ASSUME Base(s[p]) = "begin_group", NEW i \in 1 .. n, IsField(s[i]), i \notin OpenAt(pos)
       PROVE  IF i \notin Within(s, pos, l + 1) THEN Tag(more, lower, i) = Tag(s, pos, i)
              ELSE \/ Tag(s, pos, i) = "" /\ Tag(more, lower, i) = s[p].name
                   \/ Tag(s, pos, i) # "" /\ Tag(more, lower, i) = Tag(s, pos, i)
    <2>0. i \in Within(s, pos, l + 1) <=> p < i /\ RepeatOf(s, i) \in OpenAt(pos)
        BY <1>1, <1>6, <1>12 DEF Within
    <2>1. CASE i \notin Within(s, pos, l + 1)
        <3>1. ASSUME ContainerOf(s, i) = p PROVE FALSE
            <4>1. i \in Nat \ {0}
                BY <1>1
            <4>2. p < i
                <5>1. ContainerOf(s, i) \in 0 .. i - 1
                    BY <4>1, EncloserIs DEF ContainerOf
                <5> QED BY <1>3, <3>1, <5>1
            <4>3. i \in p + 1 .. n + 1
                BY <1>1, <1>3, <4>2
            <4> QED BY <1>5, <2>0, <2>1, <3>1, <4>2, <4>3
        <3> QED BY <1>10, <2>1, <3>1
    <2>2. CASE i \in Within(s, pos, l + 1) /\ ContainerOf(s, i) = p
        <3>1. Tag(s, pos, i) = ""
            BY <1>4, <2>2 DEF Tag
        <3>2. GroupOf(s, i) = s[p].name
            <4>1. p # 0 /\ Base(s[p]) = "begin_group" /\ ContainerOf(s, i) = p
                BY <1>3, <1>12, <2>2
            <4> QED BY <4>1 DEF GroupOf
        <3>3. Tag(more, lower, i) = s[p].name
            BY <1>8, <1>9, <2>2, <3>2
        <3> QED BY <2>2, <3>1, <3>3
    <2>3. CASE i \in Within(s, pos, l + 1) /\ ContainerOf(s, i) # p
        <3>1. i \in p + 1 .. n + 1 /\ i \in Nat \ {0} /\ i \in 1 .. n + 1
            BY <1>1, <1>3, <2>0, <2>3
        <3> DEFINE c == ContainerOf(s, i)
        <3>2. /\ c \in 0 .. i - 1 /\ c \in {0} \cup Around(SheetMarks(s), i)
              /\ \A j \in Around(SheetMarks(s), i) : j <= c
            BY <3>1, EncloserIs DEF ContainerOf
        <3>3. p < c
            <4>1. p <= c
                BY <1>5, <3>1
            <4> QED BY <1>3, <2>3, <3>2, <4>1
        <3>4. c \notin OpenAt(pos)
            BY <1>3, <1>7, <3>2, <3>3
        <3>5. c # 0 /\ c \in Around(SheetMarks(s), i) /\ c \in 1 .. n
            BY <1>1, <1>3, <3>1, <3>2, <3>3
        <3>6. Opens(s[c])
            BY <3>1, <3>5, AroundRow DEF n
        <3>7. Base(s[c]) # "begin_repeat"
            <4>1. SUFFICES ASSUME Base(s[c]) = "begin_repeat" PROVE FALSE
                OBVIOUS
            <4>2. c <= RepeatOf(s, i) /\ RepeatOf(s, i) \in 0 .. i - 1
                BY <3>1, <3>5, <4>1, AroundRow DEF n
            <4>3. RepeatOf(s, i) # 0
                BY <3>2, <3>5, <4>2
            <4>4. RepeatOf(s, i) \in Around(SheetMarks(s), i)
                BY <3>1, <4>3, AroundRow DEF n
            <4>5. RepeatOf(s, i) = c
                BY <3>2, <4>2, <4>4
            <4> QED BY <2>0, <2>3, <3>4, <4>5
        <3>8. Base(s[c]) = "begin_group"
            BY <3>6, <3>7, Containers
        <3>9. s[c].name # ""
            <4>1. IsSound(s[c]) /\ ~ Closes(s[c])
                BY <3>5, <3>6, Containers DEF SoundSheet, n
            <4>2. s[c].type # <<>>
                BY <3>8 DEF Base
            <4> QED BY <4>1, <4>2 DEF IsSound
        <3>10. Tag(s, pos, i) # ""
            BY <3>4, <3>5, <3>8, <3>9 DEF Tag, GroupOf
        <3> QED BY <1>10, <2>3, <3>10
    <2> QED BY <2>1, <2>2, <2>3
<1> QED BY <1>11, <1>12 DEF more, n, l, p, lower

LEMMA FieldSame ==
  ASSUME NEW s, NEW more, NEW pos, NEW q, NEW made, NEW other, NEW i, NEW n \in Nat,
         more[i] = s[i], FieldRows(more, i) = FieldRows(s, i), FieldRows(s, i) \in SUBSET (1 .. n),
         \A j \in FieldRows(s, i) : made[j] = other[j],
         Tag(more, q, i) = Tag(s, pos, i)
  PROVE  FieldIs(more, q, other, i) = FieldIs(s, pos, made, i)
<1>1. Listing(FieldRows(s, i), made) = Listing(FieldRows(s, i), other)
    BY ListingSame
<1> QED BY <1>1 DEF FieldIs

LEMMA SoundNext ==
  ASSUME NEW s \in Seq(Rows), NEW pos, Stacked(SheetMarks(s), pos), NEW r \in Rows,
         SoundSheet(s), IsSound(r),
         Closes(r) => TopOf(pos) # 0 /\ Begins[Base(s[TopOf(pos)])] = Ends[Base(r)]
  PROVE  SoundSheet(Append(s, r))
<1> DEFINE more == Append(s, r)
           n == Len(s)
<1>1. /\ n \in Nat /\ Len(more) = n + 1 /\ more[n + 1] = r
      /\ \A i \in 1 .. n : more[i] = s[i]
      /\ \A i \in 1 .. n + 1 : ContainerOf(more, i) = ContainerOf(s, i)
    BY NextRow
<1>2. \A i \in 1 .. n + 1 : ContainerOf(s, i) \in 0 .. i - 1
    <2>1. ASSUME NEW i \in 1 .. n + 1 PROVE ContainerOf(s, i) \in 0 .. i - 1
        <3>1. i \in Nat \ {0}
            BY <1>1
        <3> QED BY <3>1, EncloserIs DEF ContainerOf
    <2> QED BY <2>1
<1>3. ContainerOf(s, n + 1) = TopOf(pos)
    BY NextStands
<1> HIDE DEF more, n
<1>4. ASSUME NEW i \in 1 .. n
      PROVE  IsSound(more[i]) /\ EndFits(more, i) /\ (Closes(more[i]) => ContainerOf(more, i) # 0)
    <2>1. i \in 1 .. n + 1 /\ more[i] = s[i] /\ ContainerOf(more, i) = ContainerOf(s, i)
        BY <1>1
    <2>2. IsSound(s[i]) /\ EndFits(s, i) /\ (Closes(s[i]) => ContainerOf(s, i) # 0)
        BY DEF SoundSheet, n
    <2>3. ContainerOf(s, i) # 0 => ContainerOf(s, i) \in 1 .. n
        <3>1. ContainerOf(s, i) \in 0 .. i - 1
            BY <1>2, <2>1
        <3> QED BY <1>1, <3>1
    <2>4. ContainerOf(s, i) # 0 => more[ContainerOf(s, i)] = s[ContainerOf(s, i)]
        BY <1>1, <2>3
    <2> QED BY <2>1, <2>2, <2>4 DEF EndFits
<1>5. IsSound(more[n + 1]) /\ EndFits(more, n + 1) /\ (Closes(more[n + 1]) => ContainerOf(more, n + 1) # 0)
    <2>1. n + 1 \in 1 .. n + 1
        BY <1>1
    <2>2. TopOf(pos) # 0 => TopOf(pos) \in 1 .. n
        <3>1. ContainerOf(s, n + 1) \in 0 .. (n + 1) - 1
            BY <1>2, <2>1
        <3> QED BY <1>1, <1>3, <3>1
    <2>3. TopOf(pos) # 0 => more[TopOf(pos)] = s[TopOf(pos)]
        BY <1>1, <2>2
    <2> QED BY <1>1, <1>3, <2>1, <2>3 DEF EndFits
<1>6. \A i \in 1 .. n + 1 : i \in 1 .. n \/ i = n + 1
    BY <1>1
<1> QED BY <1>1, <1>4, <1>5, <1>6 DEF SoundSheet, more

-----------------------------------------------------------------------------
(* The stack. *)

\* The frame of the container that row j opens, of the root if j is 0.
FrameOf(s, j, fields) ==
  [kind |-> IF j = 0 THEN "Root" ELSE Begins[Base(s[j])],
   field |-> IF j = 0 THEN <<>>
             ELSE IF Base(s[j]) = "begin_group" THEN s[j].name
             ELSE BuildField(s[j], FieldType(s[j])),
   fields |-> fields]

FrameAt(s, pos, made, k) == FrameOf(s, Before(pos, k), Listing(Within(s, pos, k), made))

Frames(s, pos, made) == [k \in 1 .. Len(pos) + 1 |-> FrameAt(s, pos, made, k)]

Holding(frame, fields) == [frame EXCEPT !.fields = @ \o fields]

LEMMA FrameHolds ==
  ASSUME NEW s, NEW j, NEW fields, NEW others
  PROVE  /\ Holding(FrameOf(s, j, fields), others) = FrameOf(s, j, fields \o others)
         /\ FrameOf(s, j, fields).fields = fields
<1> DEFINE a == FrameOf(s, j, fields).kind
           b == FrameOf(s, j, fields).field
<1>1. FrameOf(s, j, fields) = [kind |-> a, field |-> b, fields |-> fields]
    BY DEF FrameOf
<1>2. FrameOf(s, j, fields \o others) = [kind |-> a, field |-> b, fields |-> fields \o others]
    BY DEF FrameOf
<1> HIDE DEF a, b
<1>3. Holding(FrameOf(s, j, fields), others) = [kind |-> a, field |-> b, fields |-> fields \o others]
    <2>1. \A f, t : [[kind |-> a, field |-> b, fields |-> f] EXCEPT !.fields = t]
                      = [kind |-> a, field |-> b, fields |-> t]
        OBVIOUS
    <2>2. FrameOf(s, j, fields).fields = fields
        BY <1>1
    <2>3. Holding(FrameOf(s, j, fields), others) = [FrameOf(s, j, fields) EXCEPT !.fields = fields \o others]
        BY <2>2, Zenon DEF Holding
    <2> QED BY <1>1, <2>1, <2>3, ZenonT(60)
<1>4. FrameOf(s, j, fields).fields = fields
    BY <1>1
<1> QED BY <1>2, <1>3, <1>4

LEMMA FrameSame ==
  ASSUME NEW s, NEW more, NEW j, NEW fields, j # 0 => more[j] = s[j]
  PROVE  FrameOf(more, j, fields) = FrameOf(s, j, fields)
BY DEF FrameOf

FillsTop(frames, fields, m) ==
  Filled(frames, fields) = [k \in 1 .. m |-> IF k = m THEN Holding(frames[m], fields) ELSE frames[k]]

LEMMA FilledIs ==
  ASSUME NEW m \in Nat \ {0}, NEW frames, frames = [k \in 1 .. m |-> frames[k]], NEW fields
  PROVE  FillsTop(frames, fields, m)
<1>1. Len(frames) = m
    BY AnySeq
<1> QED BY <1>1 DEF Filled, Holding, FillsTop

\* The sheet has become more, and the stack q: of the containers of pos the lowest
\* l + 1 are left, what they hold is the same but for these fields of the last.
Refilled(s, more, pos, q, l, made, other, fields) ==
  /\ Len(q) = l
  /\ \A k \in 1 .. l + 1 : /\ Before(q, k) = Before(pos, k)
                           /\ Before(pos, k) # 0 => more[Before(pos, k)] = s[Before(pos, k)]
  /\ \A k \in 1 .. l : Listing(Within(more, q, k), other) = Listing(Within(s, pos, k), made)
  /\ Listing(Within(more, q, l + 1), other) = Listing(Within(s, pos, l + 1), made) \o fields

LEMMA FramesFilled ==
  ASSUME NEW s, NEW more, NEW pos, NEW q, NEW l \in Nat, NEW made, NEW other, NEW frames, NEW fields,
         frames = [k \in 1 .. l + 1 |-> FrameAt(s, pos, made, k)],
         Refilled(s, more, pos, q, l, made, other, fields)
  PROVE  Filled(frames, fields) = Frames(more, q, other)
<1> USE DEF Refilled
<1>1. /\ frames = [k \in 1 .. l + 1 |-> frames[k]] /\ l + 1 \in Nat \ {0} /\ l + 1 \in 1 .. l + 1
      /\ \A k \in 1 .. l + 1 : frames[k] = FrameAt(s, pos, made, k)
    OBVIOUS
<1>2. Filled(frames, fields)
        = [k \in 1 .. l + 1 |-> IF k = l + 1 THEN Holding(frames[l + 1], fields) ELSE frames[k]]
    <2>1. FillsTop(frames, fields, l + 1)
        BY <1>1, FilledIs
    <2> QED BY <2>1 DEF FillsTop
<1>3. Frames(more, q, other) = [k \in 1 .. l + 1 |-> FrameAt(more, q, other, k)]
    BY DEF Frames
<1>4. Holding(frames[l + 1], fields) = FrameAt(more, q, other, l + 1)
    <2>1. frames[l + 1] = FrameOf(s, Before(pos, l + 1), Listing(Within(s, pos, l + 1), made))
        BY <1>1 DEF FrameAt
    <2>2. Holding(frames[l + 1], fields)
            = FrameOf(s, Before(pos, l + 1), Listing(Within(s, pos, l + 1), made) \o fields)
        BY <2>1, FrameHolds
    <2>3. FrameAt(more, q, other, l + 1)
            = FrameOf(more, Before(pos, l + 1), Listing(Within(s, pos, l + 1), made) \o fields)
        BY <1>1 DEF FrameAt
    <2>4. Before(pos, l + 1) # 0 => more[Before(pos, l + 1)] = s[Before(pos, l + 1)]
        BY <1>1
    <2> QED BY <2>2, <2>3, <2>4, FrameSame
<1>5. ASSUME NEW k \in 1 .. l PROVE frames[k] = FrameAt(more, q, other, k)
    <2>1. k \in 1 .. l + 1
        OBVIOUS
    <2>2. FrameAt(more, q, other, k) = FrameOf(more, Before(pos, k), Listing(Within(s, pos, k), made))
        BY <2>1 DEF FrameAt
    <2>3. Before(pos, k) # 0 => more[Before(pos, k)] = s[Before(pos, k)]
        BY <2>1
    <2> QED BY <1>1, <2>1, <2>2, <2>3, FrameSame DEF FrameAt
<1>6. \A k \in 1 .. l + 1 : k = l + 1 \/ k \in 1 .. l
    OBVIOUS
<1>7. \A k \in 1 .. l + 1 : (IF k = l + 1 THEN Holding(frames[l + 1], fields) ELSE frames[k])
                              = FrameAt(more, q, other, k)
    BY <1>4, <1>5, <1>6
<1> QED BY <1>2, <1>3, <1>7

-----------------------------------------------------------------------------
(* The steps of the importer. *)

Standing(s, pos, made, frames) ==
  /\ s \in Seq(Rows) /\ Stacked(SheetMarks(s), pos)
  /\ SoundSheet(s)
  /\ Built(s, pos, made)
  /\ frames = Frames(s, pos, made)

LEMMA WithinWhere ==
  ASSUME NEW s \in Seq(Rows), NEW pos
  PROVE  \A k : Within(s, pos, k) \in SUBSET (1 .. Len(s))
BY RowMarks DEF Within

\* A row that opens and closes nothing: a question is a field of the container on top.
LEMMA RowKept ==
  ASSUME NEW s, NEW pos, NEW made, NEW frames, Standing(s, pos, made, frames), NEW r \in Rows,
         ~ Opens(r), ~ Closes(r), IsSound(r)
  PROVE  \E other : Standing(Append(s, r), pos, other,
                       IF IsField(r) THEN Filled(frames, <<BuildField(r, FieldType(r))>>) ELSE frames)
<1> DEFINE more == Append(s, r)
           n == Len(s)
           l == Len(pos)
           new == BuildField(r, FieldType(r))
           other == [i \in 1 .. n + 1 |-> IF i = n + 1 THEN new ELSE made[i]]
<1>1. /\ s \in Seq(Rows) /\ Stacked(SheetMarks(s), pos) /\ SoundSheet(s)
      /\ Built(s, pos, made) /\ frames = Frames(s, pos, made)
    BY DEF Standing
<1>2. /\ n \in Nat /\ DOMAIN s = 1 .. n /\ DOMAIN more = 1 .. n + 1 /\ Len(more) = n + 1
      /\ more \in Seq(Rows) /\ more[n + 1] = r
      /\ \A i \in 1 .. n : more[i] = s[i]
      /\ SheetMarks(more) = Append(SheetMarks(s), MarkOfRow(r))
      /\ \A i \in 1 .. n + 1 : ContainerOf(more, i) = ContainerOf(s, i)
    BY <1>1, NextRow
<1>3. Stacked(SheetMarks(more), pos)
    <2>1. MarkOfRow(r) = 0
        BY DEF MarkOfRow
    <2> QED BY <1>1, <1>2, <2>1, StackedSame
<1>4. SoundSheet(more)
    BY <1>1, SoundNext
<1>5. /\ \A i \in 1 .. n : i \notin OpenAt(pos) => FieldRows(more, i) = FieldRows(s, i)
      /\ FieldRows(more, n + 1) = {}
      /\ \A i : FieldRows(s, i) \in SUBSET (1 .. n)
    BY <1>1, FieldRowsGrow
<1>6. \A i \in 1 .. n : Tag(more, pos, i) = Tag(s, pos, i)
    BY <1>1, TagOpened
<1>7. ContainerOf(s, n + 1) \in OpenAt(pos)
    BY <1>1, NextStands
<1>8. /\ l \in Nat /\ \A k \in 1 .. l : Within(more, pos, k) = Within(s, pos, k)
      /\ Within(more, pos, l + 1) = Within(s, pos, l + 1) \cup (IF IsField(r) THEN {n + 1} ELSE {})
    BY <1>1, WithinKept, Positions
<1>9. \A k : Within(s, pos, k) \in SUBSET (1 .. n)
    BY <1>1, WithinWhere
<1>10. \A k \in 1 .. l + 1 : Before(pos, k) \in 0 .. n
    BY <1>1, BeforeType
<1>11. (\A i \in 1 .. n : other[i] = made[i]) /\ other[n + 1] = new
    BY <1>2
<1> HIDE DEF more, n, l, new, other
<1>12. Built(more, pos, other)
    <2>1. ASSUME NEW i \in 1 .. n, IsField(more[i]), i \notin OpenAt(pos)
          PROVE  other[i] = FieldIs(more, pos, other, i)
        <3>1. /\ more[i] = s[i] /\ FieldRows(more, i) = FieldRows(s, i)
              /\ FieldRows(s, i) \in SUBSET (1 .. n)
              /\ \A j \in FieldRows(s, i) : made[j] = other[j]
              /\ Tag(more, pos, i) = Tag(s, pos, i)
            BY <1>2, <1>5, <1>6, <1>11, <2>1
        <3>2. FieldIs(more, pos, other, i) = FieldIs(s, pos, made, i)
            BY <1>2, <3>1, FieldSame
        <3>3. made[i] = FieldIs(s, pos, made, i)
            BY <1>1, <2>1, <3>1 DEF Built, n
        <3> QED BY <1>11, <3>2, <3>3
    <2>2. ASSUME IsField(r) PROVE other[n + 1] = FieldIs(more, pos, other, n + 1)
        <3>1. Tag(more, pos, n + 1) = ""
            <4>1. ContainerOf(more, n + 1) = ContainerOf(s, n + 1)
                BY <1>2
            <4> QED BY <1>7, <4>1 DEF Tag
        <3>2. Listing(FieldRows(more, n + 1), other) = <<>>
            BY <1>5, ListingNone
        <3>3. FieldIs(more, pos, other, n + 1) = FieldOf(r, <<>>, "")
            BY <1>2, <3>1, <3>2 DEF FieldIs
        <3> QED BY <1>11, <3>3, FieldParts DEF new
    <2>3. \A i \in 1 .. n + 1 : i \in 1 .. n \/ i = n + 1
        BY <1>2
    <2> QED BY <1>2, <2>1, <2>2, <2>3 DEF Built
<1>13. Listing(Within(s, pos, l + 1), other) = Listing(Within(s, pos, l + 1), made)
    BY <1>2, <1>9, <1>11, ListingSame
<1>14. \A k \in 1 .. l : Listing(Within(more, pos, k), other) = Listing(Within(s, pos, k), made)
    <2>1. ASSUME NEW k \in 1 .. l
          PROVE  Listing(Within(s, pos, k), other) = Listing(Within(s, pos, k), made)
        BY <1>2, <1>9, <1>11, ListingSame
    <2> QED BY <1>8, <2>1
<1>15. CASE IsField(r)
    <2>1. Listing(Within(more, pos, l + 1), other) = Listing(Within(s, pos, l + 1), made) \o <<new>>
        <3>1. Within(more, pos, l + 1) = Within(s, pos, l + 1) \cup {n + 1}
            BY <1>8, <1>15
        <3>2. {n + 1} \in SUBSET (n + 1 .. n + 1) /\ n + 1 \in Nat /\ n + 1 \in Nat \ {0}
            BY <1>2
        <3>3. ListsBoth(Within(s, pos, l + 1), {n + 1}, other)
            BY <1>2, <1>9, <3>2, ListingConcat
        <3>4. Listing({n + 1}, other) = <<new>>
            BY <1>11, <3>2, ListingOne
        <3> QED BY <1>13, <3>1, <3>3, <3>4 DEF ListsBoth
    <2>2. frames = [k \in 1 .. l + 1 |-> FrameAt(s, pos, made, k)]
        BY <1>1 DEF Frames, l
    <2>3. \A k \in 1 .. l + 1 : Before(pos, k) # 0 => more[Before(pos, k)] = s[Before(pos, k)]
        BY <1>2, <1>10
    <2>4. Refilled(s, more, pos, pos, l, made, other, <<new>>)
        BY <1>14, <2>1, <2>3 DEF Refilled, l
    <2>5. Filled(frames, <<new>>) = Frames(more, pos, other)
        BY <1>8, <2>2, <2>4, FramesFilled
    <2>6. Standing(more, pos, other, Filled(frames, <<new>>))
        BY <1>2, <1>3, <1>4, <1>12, <2>5 DEF Standing
    <2> QED BY <1>15, <2>6 DEF more, new
<1>16. CASE ~ IsField(r)
    <2>1. \A k \in 1 .. l + 1 : Listing(Within(more, pos, k), other) = Listing(Within(s, pos, k), made)
        <3>1. Within(more, pos, l + 1) = Within(s, pos, l + 1)
            BY <1>8, <1>16
        <3>2. \A k \in 1 .. l + 1 : k \in 1 .. l \/ k = l + 1
            BY <1>8
        <3> QED BY <1>13, <1>14, <3>1, <3>2
    <2>2. ASSUME NEW k \in 1 .. l + 1 PROVE FrameAt(more, pos, other, k) = FrameAt(s, pos, made, k)
        <3>1. Before(pos, k) # 0 => more[Before(pos, k)] = s[Before(pos, k)]
            BY <1>2, <1>10
        <3>2. FrameAt(more, pos, other, k) = FrameOf(more, Before(pos, k), Listing(Within(s, pos, k), made))
            BY <2>1 DEF FrameAt
        <3> QED BY <3>1, <3>2, FrameSame DEF FrameAt
    <2>3. frames = Frames(more, pos, other)
        BY <1>1, <2>2 DEF Frames, l
    <2>4. Standing(more, pos, other, frames)
        BY <1>2, <1>3, <1>4, <1>12, <2>3 DEF Standing
    <2> QED BY <1>16, <2>4 DEF more
<1> QED BY <1>15, <1>16

LEMMA TopFrame ==
  ASSUME NEW s, NEW pos, NEW made, NEW frames, Standing(s, pos, made, frames)
  PROVE  /\ Len(frames) = Len(pos) + 1
         /\ Last(frames) = FrameOf(s, TopOf(pos), Listing(Within(s, pos, Len(pos) + 1), made))
         /\ Front(frames) = [k \in 1 .. Len(pos) |-> FrameAt(s, pos, made, k)]
<1>1. s \in Seq(Rows) /\ Stacked(SheetMarks(s), pos) /\ frames = Frames(s, pos, made)
    BY DEF Standing
<1>2. PICK l \in Nat : l = Len(pos) /\ pos \in Seq(Nat)
    BY <1>1, Positions
<1>3. frames = [k \in 1 .. l + 1 |-> FrameAt(s, pos, made, k)]
    BY <1>1, <1>2 DEF Frames
<1>4. l + 1 \in Nat \ {0} /\ frames = [k \in 1 .. l + 1 |-> frames[k]]
    BY <1>3
<1>5. Len(frames) = l + 1
    BY <1>4, AnySeq
<1>6. Front(frames) = [k \in 1 .. (l + 1) - 1 |-> frames[k]] /\ Last(frames) = frames[l + 1]
    BY <1>4, FrontAny
<1>7. (l + 1) - 1 = l /\ \A k \in 1 .. l : k \in 1 .. l + 1
    OBVIOUS
<1>8. Front(frames) = [k \in 1 .. l |-> FrameAt(s, pos, made, k)]
    BY <1>3, <1>6, <1>7
<1>9. Before(pos, l + 1) = TopOf(pos)
    BY <1>2 DEF Before, TopOf
<1>10. Last(frames) = FrameAt(s, pos, made, l + 1)
    BY <1>3, <1>4, <1>6
<1> QED BY <1>2, <1>5, <1>8, <1>9, <1>10 DEF FrameAt

\* A row that opens a container puts its frame on top.
LEMMA RowOpens ==
  ASSUME NEW s, NEW pos, NEW made, NEW frames, Standing(s, pos, made, frames), NEW r \in Rows,
         Opens(r), IsSound(r)
  PROVE  Standing(Append(s, r), Append(pos, Len(s) + 1), made,
                  Append(frames, FrameOf(Append(s, r), Len(s) + 1, <<>>)))
<1> DEFINE more == Append(s, r)
           n == Len(s)
           l == Len(pos)
           higher == Append(pos, n + 1)
           frame == FrameOf(more, n + 1, <<>>)
<1>1. /\ s \in Seq(Rows) /\ Stacked(SheetMarks(s), pos) /\ SoundSheet(s)
      /\ Built(s, pos, made) /\ frames = Frames(s, pos, made)
    BY DEF Standing
<1>2. /\ n \in Nat /\ DOMAIN s = 1 .. n /\ DOMAIN more = 1 .. n + 1 /\ Len(more) = n + 1
      /\ more \in Seq(Rows) /\ more[n + 1] = r
      /\ \A i \in 1 .. n : more[i] = s[i]
      /\ SheetMarks(more) = Append(SheetMarks(s), MarkOfRow(r))
    BY <1>1, NextRow
<1>3. Stacked(SheetMarks(more), higher)
    <2>1. MarkOfRow(r) = 1 /\ Len(SheetMarks(s)) = n
        BY <1>1, RowMarks DEF MarkOfRow
    <2> QED BY <1>1, <1>2, <2>1, StackedPush
<1>4. SoundSheet(more)
    BY <1>1, SoundNext, Containers
<1>5. /\ \A i \in 1 .. n : i \notin OpenAt(pos) => FieldRows(more, i) = FieldRows(s, i)
      /\ \A i : FieldRows(s, i) \in SUBSET (1 .. n)
    BY <1>1, FieldRowsGrow
<1>6. \A i \in 1 .. n : Tag(more, higher, i) = Tag(s, pos, i)
    BY <1>1, TagOpened
<1>7. /\ \A k \in 1 .. l + 1 : Within(more, higher, k) = Within(s, pos, k)
      /\ Within(more, higher, l + 2) = {}
      /\ OpenAt(higher) = OpenAt(pos) \cup {n + 1}
      /\ Len(higher) = l + 1
      /\ \A k \in 1 .. l + 1 : Before(higher, k) = Before(pos, k)
      /\ Before(higher, l + 2) = n + 1
    BY <1>1, WithinOpened
<1>8. l \in Nat /\ \A k \in 1 .. l + 1 : Before(pos, k) \in 0 .. n
    BY <1>1, BeforeType, Positions
<1> HIDE DEF more, n, l, higher, frame
<1>9. Built(more, higher, made)
    <2>1. ASSUME NEW i \in 1 .. n, IsField(more[i]), i \notin OpenAt(pos)
          PROVE  made[i] = FieldIs(more, higher, made, i)
        <3>1. /\ more[i] = s[i] /\ FieldRows(more, i) = FieldRows(s, i)
              /\ FieldRows(s, i) \in SUBSET (1 .. n)
              /\ \A j \in FieldRows(s, i) : made[j] = made[j]
              /\ Tag(more, higher, i) = Tag(s, pos, i)
            BY <1>2, <1>5, <1>6, <2>1
        <3>2. FieldIs(more, higher, made, i) = FieldIs(s, pos, made, i)
            BY <1>2, <3>1, FieldSame
        <3>3. made[i] = FieldIs(s, pos, made, i)
            BY <1>1, <2>1, <3>1 DEF Built, n
        <3> QED BY <3>2, <3>3
    <2>2. \A i \in 1 .. n + 1 : i \in 1 .. n \/ i = n + 1
        BY <1>2
    <2> QED BY <1>2, <1>7, <2>1, <2>2 DEF Built
<1>10. Append(frames, frame) = Frames(more, higher, made)
    <2>1. frames = [k \in 1 .. l + 1 |-> FrameAt(s, pos, made, k)]
        BY <1>1 DEF Frames, l
    <2>2. frames = [k \in 1 .. l + 1 |-> frames[k]] /\ l + 1 \in Nat
        BY <1>8, <2>1
    <2>3. Append(frames, frame) = [k \in 1 .. (l + 1) + 1 |-> IF k = (l + 1) + 1 THEN frame ELSE frames[k]]
        BY <2>2, AppendAny
    <2>4. (l + 1) + 1 = l + 2 /\ \A k \in 1 .. l + 2 : k \in 1 .. l + 1 \/ k = l + 2
        BY <1>8
    <2>5. ASSUME NEW k \in 1 .. l + 1 PROVE frames[k] = FrameAt(more, higher, made, k)
        <3>1. Before(pos, k) # 0 => more[Before(pos, k)] = s[Before(pos, k)]
            BY <1>2, <1>8
        <3>2. FrameAt(more, higher, made, k) = FrameOf(more, Before(pos, k), Listing(Within(s, pos, k), made))
            BY <1>7 DEF FrameAt
        <3> QED BY <2>1, <3>1, <3>2, FrameSame DEF FrameAt
    <2>6. frame = FrameAt(more, higher, made, l + 2)
        BY <1>7, ListingNone DEF FrameAt, frame
    <2>7. Frames(more, higher, made) = [k \in 1 .. l + 2 |-> FrameAt(more, higher, made, k)]
        BY <1>7, <2>4 DEF Frames
    <2>8. \A k \in 1 .. l + 2 : FrameAt(more, higher, made, k) = IF k = l + 2 THEN frame ELSE frames[k]
        BY <2>4, <2>5, <2>6
    <2>9. Append(frames, frame) = [k \in 1 .. l + 2 |-> IF k = l + 2 THEN frame ELSE frames[k]]
        BY <2>3, <2>4
    <2> QED BY <2>7, <2>8, <2>9
<1>11. Standing(more, higher, made, Append(frames, frame))
    BY <1>2, <1>3, <1>4, <1>9, <1>10 DEF Standing
<1> QED BY <1>11 DEF more, n, higher, frame

\* A row that closes the container on top.
LEMMA RowCloses ==
  ASSUME NEW s, NEW pos, NEW made, NEW frames, Standing(s, pos, made, frames), NEW r \in Rows,
         Closes(r), Len(pos) # 0, Begins[Base(s[pos[Len(pos)]])] = Ends[Base(r)]
  PROVE  LET more == Append(s, r)
             n == Len(s)
             l == Len(pos)
             p == pos[l]
         IN /\ n \in Nat /\ l \in Nat \ {0} /\ p \in 1 .. n /\ Opens(s[p])
            /\ more \in Seq(Rows) /\ Len(more) = n + 1
            /\ Stacked(SheetMarks(more), Lower(pos))
            /\ SoundSheet(more)
            /\ \A i \in 1 .. n + 1 : IsField(more[i]) => i \in 1 .. n
            /\ \A i \in 1 .. n : more[i] = s[i]
            /\ \A i : FieldRows(more, i) = FieldRows(s, i) /\ FieldRows(s, i) \in SUBSET (1 .. n)
            /\ OpenAt(pos) = OpenAt(Lower(pos)) \cup {p}
            /\ Len(Lower(pos)) = l - 1
            /\ \A k \in 1 .. l : /\ Before(Lower(pos), k) = Before(pos, k)
                                 /\ Before(pos, k) # 0 => more[Before(pos, k)] = s[Before(pos, k)]
                                 /\ Within(s, pos, k) \in SUBSET (1 .. p - 1)
            /\ Within(s, pos, l + 1) \in SUBSET (p + 1 .. n)
<1> DEFINE more == Append(s, r)
           n == Len(s)
           l == Len(pos)
           p == pos[l]
<1>1. s \in Seq(Rows) /\ Stacked(SheetMarks(s), pos) /\ SoundSheet(s)
    BY DEF Standing
<1>2. /\ n \in Nat /\ DOMAIN s = 1 .. n /\ more \in Seq(Rows) /\ Len(more) = n + 1
      /\ more[n + 1] = r
      /\ \A i \in 1 .. n : more[i] = s[i]
      /\ SheetMarks(more) = Append(SheetMarks(s), MarkOfRow(r))
    BY <1>1, NextRow
<1>3. /\ l \in Nat /\ DOMAIN pos = 1 .. l /\ pos \in Seq(Nat)
      /\ \A k \in 1 .. l : pos[k] \in 1 .. n /\ Opens(s[pos[k]])
      /\ \A j, k \in 1 .. l : j < k => pos[j] < pos[k]
    BY <1>1, Positions
<1>4. l \in 1 .. l /\ l \in Nat \ {0} /\ p \in 1 .. n /\ Opens(s[p])
    BY <1>3
<1>5. ~ IsField(r) /\ ~ Opens(r) /\ IsSound(r)
    BY Containers DEF IsSound
<1>6. Stacked(SheetMarks(more), Lower(pos))
    <2>1. MarkOfRow(r) = -1
        BY <1>5 DEF MarkOfRow
    <2>2. pos # <<>>
        BY <1>3, <1>4
    <2> QED BY <1>1, <1>2, <2>1, <2>2, StackedPop DEF Lower
<1>7. SoundSheet(more)
    <2>1. TopOf(pos) = p
        BY <1>3, <1>4 DEF TopOf
    <2>2. TopOf(pos) # 0
        BY <1>4, <2>1
    <2> QED BY <1>1, <1>5, <2>1, <2>2, SoundNext
<1>8. /\ \A i : FieldRows(more, i) = FieldRows(s, i)
      /\ \A i : FieldRows(s, i) \in SUBSET (1 .. n)
    BY <1>1, <1>5, FieldRowsGrow
<1>9. /\ Len(Lower(pos)) = l - 1
      /\ OpenAt(pos) = OpenAt(Lower(pos)) \cup {p}
      /\ \A k \in 1 .. l : Before(Lower(pos), k) = Before(pos, k)
    BY <1>3, <1>4, LowerIs
<1>10. \A k \in 1 .. l + 1 : Before(pos, k) \in 0 .. n
    BY <1>1, BeforeType
<1> HIDE DEF more, n, l, p
<1>11. \A i \in 1 .. n + 1 : IsField(more[i]) => i \in 1 .. n
    <2>1. \A i \in 1 .. n + 1 : i \in 1 .. n \/ i = n + 1
        BY <1>2
    <2> QED BY <1>2, <1>5, <2>1
<1>12. \A k \in 1 .. l : Before(pos, k) # 0 => more[Before(pos, k)] = s[Before(pos, k)]
    <2>1. \A k \in 1 .. l : k \in 1 .. l + 1
        BY <1>4
    <2> QED BY <1>2, <1>10, <2>1
<1>13. ASSUME NEW k \in 1 .. l PROVE Within(s, pos, k) \in SUBSET (1 .. p - 1)
    <2>1. After(s, pos, k) = pos[k]
        BY <1>3 DEF After
    <2>2. pos[k] <= p /\ pos[k] \in Nat
        <3>1. k = l \/ k < l
            BY <1>4
        <3>2. pos[k] \in Nat /\ pos[l] \in Nat
            BY <1>3, <1>4
        <3> QED BY <1>3, <1>4, <3>1, <3>2 DEF p
    <2>3. ASSUME NEW i \in Within(s, pos, k) PROVE i \in 1 .. p - 1
        <3>1. i \in 1 .. n /\ i < pos[k]
            BY <1>2, <2>1 DEF Within
        <3> QED BY <1>4, <2>2, <3>1
    <2> QED BY <2>3
<1>14. Within(s, pos, l + 1) \in SUBSET (p + 1 .. n)
    <2>1. Before(pos, l + 1) = p
        <3>1. l + 1 # 1 /\ (l + 1) - 1 = l
            BY <1>4
        <3>2. Before(pos, l + 1) = pos[(l + 1) - 1]
            BY <3>1 DEF Before
        <3> QED BY <3>1, <3>2 DEF p
    <2>2. ASSUME NEW i \in Within(s, pos, l + 1) PROVE i \in p + 1 .. n
        <3>1. i \in 1 .. n /\ p < i
            BY <1>2, <2>1 DEF Within
        <3> QED BY <1>2, <1>4, <3>1
    <2> QED BY <2>2
<1> QED BY <1>2, <1>4, <1>6, <1>7, <1>8, <1>9, <1>11, <1>12, <1>13, <1>14 DEF more, n, l, p

LEMMA GroupCloses ==
  ASSUME NEW s, NEW pos, NEW made, NEW frames, Standing(s, pos, made, frames), NEW r \in Rows,
         Closes(r), Len(pos) # 0, Begins[Base(s[pos[Len(pos)]])] = Ends[Base(r)],
         Base(s[pos[Len(pos)]]) = "begin_group"
  PROVE  LET held == Last(frames).fields
         IN \E other : Standing(Append(s, r), Lower(pos), other,
              Filled(Front(frames), [k \in DOMAIN held |-> Tagged(held[k], Last(frames).field)]))
<1> DEFINE more == Append(s, r)
           n == Len(s)
           l == Len(pos)
           p == pos[l]
           T == Within(s, pos, l + 1)
           held == Listing(T, made)
           name == s[p].name
           fields == [k \in DOMAIN held |-> Tagged(held[k], name)]
           other == [i \in 1 .. n |-> IF i \in T THEN Tagged(made[i], name) ELSE made[i]]
           lower == Lower(pos)
<1>1. /\ s \in Seq(Rows) /\ Stacked(SheetMarks(s), pos) /\ SoundSheet(s) /\ Built(s, pos, made)
    BY DEF Standing
<1>2. /\ n \in Nat /\ l \in Nat \ {0} /\ p \in 1 .. n /\ Opens(s[p])
      /\ more \in Seq(Rows) /\ Len(more) = n + 1
      /\ Stacked(SheetMarks(more), lower)
      /\ SoundSheet(more)
      /\ \A i \in 1 .. n + 1 : IsField(more[i]) => i \in 1 .. n
      /\ \A i \in 1 .. n : more[i] = s[i]
      /\ \A i : FieldRows(more, i) = FieldRows(s, i) /\ FieldRows(s, i) \in SUBSET (1 .. n)
      /\ OpenAt(pos) = OpenAt(lower) \cup {p}
      /\ Len(lower) = l - 1
      /\ \A k \in 1 .. l : /\ Before(lower, k) = Before(pos, k)
                           /\ Before(pos, k) # 0 => more[Before(pos, k)] = s[Before(pos, k)]
                           /\ Within(s, pos, k) \in SUBSET (1 .. p - 1)
      /\ T \in SUBSET (p + 1 .. n)
    BY RowCloses
<1>3. ~ IsField(r) /\ ~ IsField(s[p])
    BY <1>2, Containers
<1>4. /\ \A k \in 1 .. l - 1 : Within(more, lower, k) = Within(s, pos, k)
      /\ Within(more, lower, l) = Within(s, pos, l) \cup T
    BY <1>1, <1>3, WithinClosed
<1>5. \A i \in 1 .. n : IsField(s[i]) /\ i \notin OpenAt(pos) =>
         IF i \notin T THEN Tag(more, lower, i) = Tag(s, pos, i)
         ELSE \/ Tag(s, pos, i) = "" /\ Tag(more, lower, i) = name
              \/ Tag(s, pos, i) # "" /\ Tag(more, lower, i) = Tag(s, pos, i)
    BY <1>1, TagClosed
<1>6. /\ Last(frames) = FrameOf(s, p, held)
      /\ Front(frames) = [k \in 1 .. l |-> FrameAt(s, pos, made, k)]
    <2>1. TopOf(pos) = p
        BY <1>2 DEF TopOf
    <2> QED BY <2>1, TopFrame
<1>7. Last(frames).fields = held /\ Last(frames).field = name
    BY <1>2, <1>6 DEF FrameOf
<1>8. T \in SUBSET (1 .. n) /\ \A j \in T : RepeatOf(s, j) \in OpenAt(pos)
    BY <1>2 DEF Within
<1>9. \A i \in 1 .. n : other[i] = IF i \in T THEN Tagged(made[i], name) ELSE made[i]
    OBVIOUS
<1> HIDE DEF more, n, l, p, T, held, name, other, lower
<1>10. Built(more, lower, other)
    <2>1. ASSUME NEW i \in 1 .. n, IsField(s[i]), i \notin OpenAt(pos)
          PROVE  other[i] = FieldIs(more, lower, other, i)
        <3> DEFINE children == Listing(FieldRows(s, i), made)
        <3>1. made[i] = FieldOf(s[i], children, Tag(s, pos, i))
            BY <1>1, <2>1 DEF Built, FieldIs, n
        <3>2. Listing(FieldRows(s, i), other) = children
            <4>1. \A j \in FieldRows(s, i) : j \in 1 .. n /\ j \notin T
                BY <1>2, <1>8, <2>1 DEF FieldRows
            <4>2. \A j \in FieldRows(s, i) : made[j] = other[j]
                BY <1>9, <4>1
            <4>3. FieldRows(s, i) \in SUBSET (1 .. n)
                BY <1>2
            <4> QED BY <1>2, <4>2, <4>3, ListingSame
        <3>3. FieldIs(more, lower, other, i) = FieldOf(s[i], children, Tag(more, lower, i))
            BY <1>2, <3>2 DEF FieldIs
        <3> HIDE DEF children
        <3>4. CASE i \notin T
            BY <1>5, <1>9, <2>1, <3>1, <3>3, <3>4
        <3>5. CASE i \in T
            <4>1. other[i] = Tagged(FieldOf(s[i], children, Tag(s, pos, i)), name)
                BY <1>9, <3>1, <3>5
            <4>2. CASE Tag(s, pos, i) = ""
                <5>1. Tag(more, lower, i) = name
                    BY <1>5, <2>1, <3>5, <4>2
                <5>2. Tagged(FieldOf(s[i], children, ""), name) = FieldOf(s[i], children, name)
                    BY FieldParts
                <5> QED BY <3>3, <4>1, <4>2, <5>1, <5>2
            <4>3. CASE Tag(s, pos, i) # ""
                <5>1. Tag(more, lower, i) = Tag(s, pos, i)
                    BY <1>5, <2>1, <3>5, <4>3
                <5>2. KeepsGroup(s[i], children, Tag(s, pos, i), name)
                    BY <4>3, FieldParts
                <5> QED BY <3>3, <4>1, <5>1, <5>2 DEF KeepsGroup
            <4> QED BY <4>2, <4>3
        <3> QED BY <3>4, <3>5
    <2>2. ASSUME NEW i \in 1 .. n + 1, IsField(more[i]), i \notin OpenAt(lower)
          PROVE  other[i] = FieldIs(more, lower, other, i)
        <3>1. i \in 1 .. n /\ IsField(s[i])
            BY <1>2, <2>2
        <3>2. i # p
            BY <1>3, <3>1
        <3>3. i \notin OpenAt(pos)
            BY <1>2, <2>2, <3>2
        <3> QED BY <2>1, <3>1, <3>3
    <2> QED BY <1>2, <2>2 DEF Built
<1>11. \A i \in 1 .. p - 1 : other[i] = made[i]
    <2>1. \A i \in 1 .. p - 1 : i \in 1 .. n /\ i \notin p + 1 .. n
        BY <1>2
    <2> QED BY <1>2, <1>9, <2>1
<1>12. \A k \in 1 .. l : Listing(Within(s, pos, k), other) = Listing(Within(s, pos, k), made)
    <2>1. p - 1 \in Nat
        BY <1>2
    <2>2. ASSUME NEW k \in 1 .. l PROVE Listing(Within(s, pos, k), made) = Listing(Within(s, pos, k), other)
        <3>1. Within(s, pos, k) \in SUBSET (1 .. p - 1)
            BY <1>2
        <3>2. \A i \in Within(s, pos, k) : made[i] = other[i]
            BY <1>11, <3>1
        <3> QED BY <2>1, <3>1, <3>2, ListingSame
    <2> QED BY <2>2
<1>13. Listing(T, other) = fields
    <2>1. \A i \in T : other[i] = Tagged(made[i], name)
        BY <1>8, <1>9
    <2>2. ListsTagged(T, made, other, name)
        BY <1>2, <1>8, <2>1, ListingTagged
    <2> QED BY <2>2 DEF held, ListsTagged
<1> HIDE DEF fields
<1>14. Listing(Within(more, lower, l), other) = Listing(Within(s, pos, l), made) \o fields
    <2>1. l \in 1 .. l /\ p \in Nat
        BY <1>2
    <2>2. Within(s, pos, l) \in SUBSET (1 .. p)
        BY <1>2, <2>1
    <2>3. ListsBoth(Within(s, pos, l), T, other)
        BY <1>2, <2>1, <2>2, ListingConcat
    <2> QED BY <1>4, <1>12, <1>13, <2>1, <2>3 DEF ListsBoth
<1>15. Standing(more, lower, other, Filled(Front(frames), fields))
    <2>1. (l - 1) + 1 = l /\ l - 1 \in Nat /\ \A k \in 1 .. l - 1 : k \in 1 .. l
        BY <1>2
    <2>2. \A k \in 1 .. l - 1 : Listing(Within(more, lower, k), other) = Listing(Within(s, pos, k), made)
        BY <1>4, <1>12, <2>1
    <2>3. Refilled(s, more, pos, lower, l - 1, made, other, fields)
        BY <1>2, <1>14, <2>1, <2>2 DEF Refilled
    <2>4. Front(frames) = [k \in 1 .. (l - 1) + 1 |-> FrameAt(s, pos, made, k)]
        BY <1>6, <2>1
    <2>5. Filled(Front(frames), fields) = Frames(more, lower, other)
        BY <2>1, <2>3, <2>4, FramesFilled
    <2> QED BY <1>2, <1>10, <2>5 DEF Standing
<1> QED BY <1>7, <1>15 DEF fields, more, lower

LEMMA RepeatCloses ==
  ASSUME NEW s, NEW pos, NEW made, NEW frames, Standing(s, pos, made, frames), NEW r \in Rows,
         Closes(r), Len(pos) # 0, Begins[Base(s[pos[Len(pos)]])] = Ends[Base(r)],
         Base(s[pos[Len(pos)]]) = "begin_repeat"
  PROVE  \E other : Standing(Append(s, r), Lower(pos), other,
           Filled(Front(frames), <<Repeated(Last(frames).field, Last(frames).fields)>>))
<1> DEFINE more == Append(s, r)
           n == Len(s)
           l == Len(pos)
           p == pos[l]
           T == Within(s, pos, l + 1)
           held == Listing(T, made)
           new == Repeated(BuildField(s[p], FieldType(s[p])), held)
           other == [i \in 1 .. n |-> IF i = p THEN new ELSE made[i]]
           lower == Lower(pos)
<1>1. /\ s \in Seq(Rows) /\ Stacked(SheetMarks(s), pos) /\ SoundSheet(s) /\ Built(s, pos, made)
    BY DEF Standing
<1>2. /\ n \in Nat /\ l \in Nat \ {0} /\ p \in 1 .. n /\ Opens(s[p])
      /\ more \in Seq(Rows) /\ Len(more) = n + 1
      /\ Stacked(SheetMarks(more), lower)
      /\ SoundSheet(more)
      /\ \A i \in 1 .. n + 1 : IsField(more[i]) => i \in 1 .. n
      /\ \A i \in 1 .. n : more[i] = s[i]
      /\ \A i : FieldRows(more, i) = FieldRows(s, i) /\ FieldRows(s, i) \in SUBSET (1 .. n)
      /\ OpenAt(pos) = OpenAt(lower) \cup {p}
      /\ Len(lower) = l - 1
      /\ \A k \in 1 .. l : /\ Before(lower, k) = Before(pos, k)
                           /\ Before(pos, k) # 0 => more[Before(pos, k)] = s[Before(pos, k)]
                           /\ Within(s, pos, k) \in SUBSET (1 .. p - 1)
      /\ T \in SUBSET (p + 1 .. n)
    BY RowCloses
<1>3. ~ IsField(r)
    BY Containers
<1>4. /\ \A k \in 1 .. l - 1 : Within(more, lower, k) = Within(s, pos, k)
      /\ Within(more, lower, l) = Within(s, pos, l) \cup {p}
      /\ T = FieldRows(s, p)
    BY <1>1, <1>3, WithinClosed
<1>5. \A i \in 1 .. n : Tag(more, lower, i) = IF i = p THEN "" ELSE Tag(s, pos, i)
    BY <1>1, TagClosed
<1>6. /\ Last(frames) = FrameOf(s, p, held)
      /\ Front(frames) = [k \in 1 .. l |-> FrameAt(s, pos, made, k)]
    <2>1. TopOf(pos) = p
        BY <1>2 DEF TopOf
    <2> QED BY <2>1, TopFrame
<1>7. Last(frames).fields = held /\ Last(frames).field = BuildField(s[p], FieldType(s[p]))
    <2>1. p # 0 /\ Base(s[p]) # "begin_group"
        BY <1>2
    <2> QED BY <1>6, <2>1 DEF FrameOf
<1>8. RepeatOf(s, p) \in OpenAt(pos)
    <2>1. l \in DOMAIN pos
        BY <1>1, <1>2, Positions
    <2> QED BY <1>1, <2>1, StandsAround
<1>9. \A i \in 1 .. n : other[i] = IF i = p THEN new ELSE made[i]
    OBVIOUS
<1> HIDE DEF more, n, l, p, T, held, new, other, lower
<1>10. Built(more, lower, other)
    <2>1. ASSUME NEW i \in 1 .. n, IsField(s[i]), i \notin OpenAt(pos)
          PROVE  other[i] = FieldIs(more, lower, other, i)
        <3>1. i # p
            BY <1>2, <2>1
        <3>2. made[i] = FieldIs(s, pos, made, i)
            BY <1>1, <2>1 DEF Built, n
        <3>3. p \notin FieldRows(s, i)
            BY <1>8, <2>1 DEF FieldRows
        <3>4. FieldRows(s, i) \in SUBSET (1 .. n) /\ FieldRows(more, i) = FieldRows(s, i) /\ more[i] = s[i]
            BY <1>2
        <3>5. \A j \in FieldRows(s, i) : made[j] = other[j]
            BY <1>9, <3>3, <3>4
        <3>6. Tag(more, lower, i) = Tag(s, pos, i)
            BY <1>5, <3>1
        <3>7. FieldIs(more, lower, other, i) = FieldIs(s, pos, made, i)
            BY <1>2, <3>4, <3>5, <3>6, FieldSame
        <3> QED BY <1>9, <3>1, <3>2, <3>7
    <2>2. other[p] = FieldIs(more, lower, other, p)
        <3>1. \A i \in T : i \in 1 .. n /\ i # p
            BY <1>2
        <3>2. T \in SUBSET (1 .. n) /\ \A i \in T : made[i] = other[i]
            BY <1>9, <3>1
        <3>3. Listing(T, made) = Listing(T, other)
            BY <1>2, <3>2, ListingSame
        <3>4. Tag(more, lower, p) = ""
            BY <1>2, <1>5
        <3>5. FieldIs(more, lower, other, p) = FieldOf(s[p], held, "")
            BY <1>2, <1>4, <3>3, <3>4 DEF FieldIs, held
        <3>6. new = FieldOf(s[p], held, "")
            BY FieldParts DEF new
        <3> QED BY <1>2, <1>9, <3>5, <3>6
    <2>3. ASSUME NEW i \in 1 .. n + 1, IsField(more[i]), i \notin OpenAt(lower)
          PROVE  other[i] = FieldIs(more, lower, other, i)
        <3>1. i \in 1 .. n /\ IsField(s[i])
            BY <1>2, <2>3
        <3>2. CASE i = p
            BY <2>2, <3>2
        <3>3. CASE i # p
            <4>1. i \notin OpenAt(pos)
                BY <1>2, <2>3, <3>3
            <4> QED BY <2>1, <3>1, <4>1
        <3> QED BY <3>2, <3>3
    <2> QED BY <1>2, <2>3 DEF Built
<1>11. \A i \in 1 .. p - 1 : other[i] = made[i]
    <2>1. \A i \in 1 .. p - 1 : i \in 1 .. n /\ i # p
        BY <1>2
    <2> QED BY <1>9, <2>1
<1>12. \A k \in 1 .. l : Listing(Within(s, pos, k), other) = Listing(Within(s, pos, k), made)
    <2>1. p - 1 \in Nat
        BY <1>2
    <2>2. ASSUME NEW k \in 1 .. l PROVE Listing(Within(s, pos, k), made) = Listing(Within(s, pos, k), other)
        <3>1. Within(s, pos, k) \in SUBSET (1 .. p - 1)
            BY <1>2
        <3>2. \A i \in Within(s, pos, k) : made[i] = other[i]
            BY <1>11, <3>1
        <3> QED BY <2>1, <3>1, <3>2, ListingSame
    <2> QED BY <2>2
<1>13. Listing(Within(more, lower, l), other) = Listing(Within(s, pos, l), made) \o <<new>>
    <2>1. l \in 1 .. l /\ p \in Nat \ {0} /\ p - 1 \in Nat
        BY <1>2
    <2>2. Within(s, pos, l) \in SUBSET (1 .. p - 1) /\ {p} \in SUBSET ((p - 1) + 1 .. p)
        BY <1>2, <2>1
    <2>3. ListsBoth(Within(s, pos, l), {p}, other)
        BY <2>1, <2>2, ListingConcat
    <2>4. Listing({p}, other) = <<new>>
        BY <1>2, <1>9, <2>1, ListingOne
    <2> QED BY <1>4, <1>12, <2>1, <2>3, <2>4 DEF ListsBoth
<1>14. Standing(more, lower, other, Filled(Front(frames), <<new>>))
    <2>1. (l - 1) + 1 = l /\ l - 1 \in Nat /\ \A k \in 1 .. l - 1 : k \in 1 .. l
        BY <1>2
    <2>2. \A k \in 1 .. l - 1 : Listing(Within(more, lower, k), other) = Listing(Within(s, pos, k), made)
        BY <1>4, <1>12, <2>1
    <2>3. Refilled(s, more, pos, lower, l - 1, made, other, <<new>>)
        BY <1>2, <1>13, <2>1, <2>2 DEF Refilled
    <2>4. Front(frames) = [k \in 1 .. (l - 1) + 1 |-> FrameAt(s, pos, made, k)]
        BY <1>6, <2>1
    <2>5. Filled(Front(frames), <<new>>) = Frames(more, lower, other)
        BY <2>1, <2>3, <2>4, FramesFilled
    <2> QED BY <1>2, <1>10, <2>5 DEF Standing
<1> QED BY <1>7, <1>14 DEF new, more, lower

-----------------------------------------------------------------------------
(* The sheet ends: what the rows became is the form they say. *)

FieldsAt(s, g, j) ==
  LET inside == InOrder(FieldRows(s, j))
  IN [m \in DOMAIN inside |-> FieldOf(s[inside[m]], g[inside[m]], GroupOf(s, inside[m]))]

Solves(s, g) == g = [j \in 0 .. Len(s) |-> FieldsAt(s, g, j)]

LEMMA FormIs == \A s : FormOf(s) = (CHOOSE g : Solves(s, g))[0]
BY DEF FormOf, Solves, FieldsAt

\* The fields of a row depend on those of later rows only.
LEMMA FieldsFromLater ==
  ASSUME NEW s \in Seq(Rows), NEW j \in 0 .. Len(s), NEW f, NEW g,
         \A i \in j + 1 .. Len(s) : f[i] = g[i]
  PROVE  FieldsAt(s, f, j) = FieldsAt(s, g, j)
<1>1. Len(s) \in Nat /\ DOMAIN s = 1 .. Len(s)
    BY RowMarks
<1>2. FieldRows(s, j) \in SUBSET (1 .. Len(s)) /\ \A i \in FieldRows(s, j) : i \in j + 1 .. Len(s)
    <2>1. ASSUME NEW i \in FieldRows(s, j) PROVE i \in 1 .. Len(s) /\ i \in j + 1 .. Len(s)
        <3>1. i \in 1 .. Len(s) + 1 /\ i \in 1 .. Len(s) /\ RepeatOf(s, i) = j
            BY <1>1 DEF FieldRows
        <3>2. RepeatOf(s, i) \in 0 .. i - 1
            BY <3>1, AroundRow
        <3> QED BY <1>1, <3>1, <3>2
    <2> QED BY <2>1
<1>3. ListsAs(FieldRows(s, j), f)
    BY <1>1, <1>2, ListingIs
<1>4. \A m \in DOMAIN InOrder(FieldRows(s, j)) :
        f[InOrder(FieldRows(s, j))[m]] = g[InOrder(FieldRows(s, j))[m]]
    BY <1>2, <1>3 DEF ListsAs
<1> QED BY <1>4 DEF FieldsAt

LEMMA SolvedOnce ==
  ASSUME NEW s \in Seq(Rows), NEW f, NEW g, Solves(s, f), Solves(s, g)
  PROVE  f[0] = g[0]
<1> DEFINE n == Len(s)
           left == {n - j : j \in {i \in 0 .. n : f[i] # g[i]}}
<1>1. n \in Nat
    OBVIOUS
<1>2. SUFFICES ASSUME f[0] # g[0] PROVE FALSE
    OBVIOUS
<1> HIDE DEF n
<1>3. left \in SUBSET Nat /\ left # {}
    BY <1>1, <1>2
<1>4. PICK m \in left : \A k \in left : m <= k
    <2> HIDE DEF left
    <2> QED BY <1>3, Smallest
<1>5. PICK j \in 0 .. n : m = n - j /\ f[j] # g[j]
    OBVIOUS
<1>6. ASSUME NEW i \in j + 1 .. n PROVE f[i] = g[i]
    <2>1. SUFFICES ASSUME f[i] # g[i] PROVE FALSE
        OBVIOUS
    <2>2. i \in 0 .. n /\ n - i \in left
        BY <1>1, <2>1
    <2>3. n - j <= n - i
        BY <1>4, <1>5, <2>2
    <2> QED BY <1>1, <2>2, <2>3
<1>7. FieldsAt(s, f, j) = FieldsAt(s, g, j)
    BY <1>6, FieldsFromLater DEF n
<1>8. f[j] = FieldsAt(s, f, j) /\ g[j] = FieldsAt(s, g, j)
    BY DEF Solves, n
<1> QED BY <1>5, <1>7, <1>8

LEMMA SheetEnds ==
  ASSUME NEW s, NEW made, NEW frames, Standing(s, <<>>, made, frames)
  PROVE  frames[1].fields = FormOf(s)
<1> DEFINE n == Len(s)
           f == [j \in 0 .. n |-> Listing(FieldRows(s, j), made)]
<1>1. s \in Seq(Rows) /\ Built(s, <<>>, made) /\ frames = Frames(s, <<>>, made)
    BY DEF Standing
<1>2. n \in Nat /\ DOMAIN s = 1 .. n
    BY <1>1, RowMarks
<1>3. OpenAt(<<>>) = {0}
    BY DEF OpenAt
<1>4. \A j : FieldRows(s, j) \in SUBSET (1 .. n)
    BY <1>2 DEF FieldRows
<1>5. f[0] = Listing(FieldRows(s, 0), made) /\ \A i \in 1 .. n : f[i] = Listing(FieldRows(s, i), made)
    BY <1>2
<1> HIDE DEF n, f
<1>6. ASSUME NEW i \in 1 .. n, IsField(s[i])
      PROVE  made[i] = FieldOf(s[i], f[i], GroupOf(s, i))
    <2>1. i \notin OpenAt(<<>>)
        BY <1>2, <1>3
    <2>2. made[i] = FieldIs(s, <<>>, made, i)
        BY <1>1, <1>6, <2>1 DEF Built, n
    <2>3. Tag(s, <<>>, i) = GroupOf(s, i)
        BY <1>3 DEF Tag, GroupOf
    <2> QED BY <1>5, <2>2, <2>3 DEF FieldIs
<1>7. ASSUME NEW j \in 0 .. n PROVE Listing(FieldRows(s, j), made) = FieldsAt(s, f, j)
    <2>1. ListsAs(FieldRows(s, j), made)
        BY <1>2, <1>4, ListingIs
    <2>2. \A i \in FieldRows(s, j) : i \in 1 .. n /\ IsField(s[i])
        BY <1>2 DEF FieldRows
    <2>3. \A m \in DOMAIN InOrder(FieldRows(s, j)) :
            made[InOrder(FieldRows(s, j))[m]]
              = FieldOf(s[InOrder(FieldRows(s, j))[m]], f[InOrder(FieldRows(s, j))[m]],
                        GroupOf(s, InOrder(FieldRows(s, j))[m]))
        BY <1>6, <2>1, <2>2 DEF ListsAs
    <2> QED BY <2>3 DEF Listing, FieldsAt
<1>8. Solves(s, f)
    <2>1. f = [j \in 0 .. n |-> Listing(FieldRows(s, j), made)]
        BY DEF f
    <2> QED BY <1>7, <2>1 DEF Solves, n
<1>9. FormOf(s) = f[0]
    <2>1. Solves(s, CHOOSE g : Solves(s, g))
        BY <1>8
    <2>2. f[0] = (CHOOSE g : Solves(s, g))[0]
        BY <1>1, <1>8, <2>1, SolvedOnce
    <2> QED BY <2>2, FormIs
<1>10. Within(s, <<>>, 1) = FieldRows(s, 0)
    <2>1. Before(<<>>, 1) = 0 /\ After(s, <<>>, 1) = n + 1
        BY DEF Before, After, n
    <2>2. \A i \in 1 .. n : 0 < i /\ i < n + 1
        BY <1>2
    <2> QED BY <1>2, <1>3, <2>1, <2>2 DEF Within, FieldRows
<1>11. frames[1].fields = Listing(FieldRows(s, 0), made)
    <2>1. Len(<<>>) = 0 /\ 1 \in 1 .. 0 + 1
        OBVIOUS
    <2>2. frames[1] = FrameAt(s, <<>>, made, 1)
        BY <1>1, <2>1 DEF Frames
    <2>3. frames[1] = FrameOf(s, Before(<<>>, 1), Listing(FieldRows(s, 0), made))
        BY <1>10, <2>2 DEF FrameAt
    <2> QED BY <2>3, FrameHolds
<1> QED BY <1>5, <1>9, <1>11

-----------------------------------------------------------------------------
(* The importer. *)

Walking == \E pos, made : Standing(sheet, pos, made, stack)

RowErrors == {"MissingName", "UnsupportedType", "MissingChoiceList"}

\* While it reads, the stack is what the rows so far say; what it ends with is right.
Walked ==
  /\ import \in {"reading", "imported", "UnbalancedGroup"} \cup RowErrors
  /\ import = "reading" => Walking
  /\ ImportedAsWritten
  /\ BalancedIsAccepted

LEMMA Selects ==
  \A base \in DOMAIN TypeOf :
    TypeOf[base] \in {"Select", "MultiSelect"}
      <=> base \in {"select_one", "select_multiple", "select_multi"}
BY DEF TypeOf

\* The importer stops at a row it cannot read.
LEMMA RowFails ==
  ASSUME NEW r \in Rows, sheet \in Seq(Rows), sheet' = Append(sheet, r), import' \in RowErrors, ~ IsSound(r)
  PROVE  Walked'
<1>1. Last(sheet') = r
    BY DEF Last
<1> QED BY <1>1 DEF Walked, RowErrors, ImportedAsWritten, BalancedIsAccepted

\* It goes on.
LEMMA RowWalked ==
  ASSUME import' = "reading", Walking'
  PROVE  Walked'
BY DEF Walked, ImportedAsWritten, BalancedIsAccepted

LEMMA SkipWalks ==
  ASSUME Walking, NEW r \in Rows, SkipRow(r)
  PROVE  Walked'
<1>1. Base(r) = "" /\ sheet' = Append(sheet, r) /\ stack' = stack /\ import' = "reading"
    BY DEF SkipRow, ComesTo, Base
<1>2. ~ Opens(r) /\ ~ Closes(r) /\ ~ IsField(r) /\ IsSound(r)
    BY <1>1 DEF Opens, Closes, IsField, Begins, Ends, TypeOf, IsSound, SkipRow
<1>3. PICK pos, made : Standing(sheet, pos, made, stack)
    BY DEF Walking
<1>4. \E other : Standing(Append(sheet, r), pos, other, stack)
    BY <1>2, <1>3, RowKept
<1> QED BY <1>1, <1>4, RowWalked DEF Walking

LEMMA QuestionWalks ==
  ASSUME Walking, NEW r \in Rows, Question(r)
  PROVE  Walked'
<1>1. /\ sheet' = Append(sheet, r) /\ import = "reading" /\ r.type # <<>>
      /\ Base(r) \notin DOMAIN Begins \cup DOMAIN Ends
    BY DEF Question, ComesTo
<1>2. ~ Opens(r) /\ ~ Closes(r) /\ sheet \in Seq(Rows)
    BY <1>1 DEF Opens, Closes, Walking, Standing
<1>3. \/ Base(r) \notin DOMAIN TypeOf /\ import' = "UnsupportedType"
      \/ Base(r) \in DOMAIN TypeOf /\ r.name = "" /\ import' = "MissingName"
      \/ /\ Base(r) \in DOMAIN TypeOf /\ TypeOf[Base(r)] \in {"Select", "MultiSelect"}
         /\ ListName(r) \notin DOMAIN ChoiceLists
         /\ import' = "MissingChoiceList"
      \/ /\ Base(r) \in DOMAIN TypeOf /\ r.name # ""
         /\ TypeOf[Base(r)] \in {"Select", "MultiSelect"} => ListName(r) \in DOMAIN ChoiceLists
         /\ stack' = Filled(stack, <<BuildField(r, TypeOf[Base(r)])>>) /\ import' = import
    BY DEF Question, Fail, Put
<1>4. CASE import' \in RowErrors
    <2>1. ~ IsSound(r)
        BY <1>1, <1>2, <1>3, <1>4, Selects DEF IsSound, RowErrors
    <2> QED BY <1>1, <1>2, <1>4, <2>1, RowFails
<1>5. CASE import' \notin RowErrors
    <2>1. /\ Base(r) \in DOMAIN TypeOf /\ r.name # ""
          /\ TypeOf[Base(r)] \in {"Select", "MultiSelect"} => ListName(r) \in DOMAIN ChoiceLists
          /\ stack' = Filled(stack, <<BuildField(r, TypeOf[Base(r)])>>) /\ import' = "reading"
        BY <1>1, <1>3, <1>5 DEF RowErrors
    <2>2. IsField(r) /\ IsSound(r) /\ FieldType(r) = TypeOf[Base(r)]
        BY <1>2, <2>1, Selects DEF IsField, IsSound, FieldType
    <2>3. PICK pos, made : Standing(sheet, pos, made, stack)
        BY DEF Walking
    <2>4. \E other : Standing(Append(sheet, r), pos, other, stack')
        BY <1>2, <2>1, <2>2, <2>3, RowKept
    <2> QED BY <1>1, <2>1, <2>4, RowWalked DEF Walking
<1> QED BY <1>4, <1>5

LEMMA BeginWalks ==
  ASSUME Walking, NEW r \in Rows, BeginGroup(r) \/ BeginRepeat(r)
  PROVE  Walked'
<1>1. /\ sheet' = Append(sheet, r) /\ import = "reading"
      /\ Base(r) \in {"begin_group", "begin_repeat"}
      /\ \/ r.name = "" /\ import' = "MissingName"
         \/ /\ r.name # "" /\ import' = import
            /\ stack' = Append(stack, IF Base(r) = "begin_group" THEN Frame("Group", r.name)
                                      ELSE Frame("Repeat", BuildField(r, "Repeat")))
    BY DEF BeginGroup, BeginRepeat, ComesTo, Fail, Put
<1>2. Opens(r) /\ ~ Closes(r) /\ r.type # <<>> /\ Base(r) \notin DOMAIN TypeOf
    BY <1>1 DEF Opens, Closes, Begins, Ends, Base, TypeOf
<1>3. PICK pos, made : Standing(sheet, pos, made, stack)
    BY DEF Walking
<1>4. sheet \in Seq(Rows)
    BY <1>3 DEF Standing
<1>5. CASE r.name = ""
    <2>1. ~ IsSound(r) /\ import' \in RowErrors
        BY <1>1, <1>2, <1>5 DEF IsSound, RowErrors
    <2> QED BY <1>1, <1>4, <2>1, RowFails
<1>6. CASE r.name # ""
    <2>1. IsSound(r)
        BY <1>2, <1>6 DEF IsSound
    <2> DEFINE n == Len(sheet)
               more == Append(sheet, r)
    <2>2. more[n + 1] = r /\ n + 1 # 0
        BY <1>4
    <2> HIDE DEF n, more
    <2>3. FrameOf(more, n + 1, <<>>)
            = IF Base(r) = "begin_group" THEN Frame("Group", r.name)
              ELSE Frame("Repeat", BuildField(r, "Repeat"))
        <3>1. Begins[Base(r)] = IF Base(r) = "begin_group" THEN "Group" ELSE "Repeat"
            BY <1>1 DEF Begins
        <3>2. FieldType(r) = "Repeat"
            BY <1>2 DEF FieldType
        <3>3. CASE Base(r) = "begin_group"
            BY <2>2, <3>1, <3>3 DEF FrameOf, Frame
        <3>4. CASE Base(r) # "begin_group"
            BY <2>2, <3>1, <3>2, <3>4 DEF FrameOf, Frame
        <3> QED BY <3>3, <3>4
    <2>4. Standing(more, Append(pos, n + 1), made, Append(stack, FrameOf(more, n + 1, <<>>)))
        BY <1>2, <1>3, <2>1, RowOpens DEF n, more
    <2>5. stack' = Append(stack, FrameOf(more, n + 1, <<>>)) /\ import' = "reading" /\ sheet' = more
        BY <1>1, <1>6, <2>3 DEF more
    <2> QED BY <2>4, <2>5, RowWalked DEF Walking
<1> QED BY <1>5, <1>6

LEMMA EndWalks ==
  ASSUME Walking, NEW r \in Rows, EndGroup(r) \/ EndRepeat(r)
  PROVE  Walked'
<1> DEFINE frame == Last(stack)
           kind == Ends[Base(r)]
<1>1. /\ sheet' = Append(sheet, r) /\ import = "reading"
      /\ Base(r) \in {"end_group", "end_repeat"}
      /\ kind = IF Base(r) = "end_group" THEN "Group" ELSE "Repeat"
    BY DEF EndGroup, EndRepeat, ComesTo, Ends
<1>2. \/ frame.kind # kind /\ import' = "UnbalancedGroup"
      \/ /\ frame.kind = kind /\ import' = import
         /\ kind = "Group" =>
              stack' = Filled(Front(stack), [i \in DOMAIN frame.fields |-> Tagged(frame.fields[i], frame.field)])
         /\ kind = "Repeat" =>
              stack' = Filled(Front(stack), <<Repeated(frame.field, frame.fields)>>)
    <2>1. CASE EndGroup(r)
        <3>1. kind = "Group"
            BY <1>1, <2>1 DEF EndGroup
        <3> QED BY <2>1, <3>1 DEF EndGroup, Fail, Put
    <2>2. CASE EndRepeat(r)
        <3>1. kind = "Repeat"
            BY <1>1, <2>2 DEF EndRepeat
        <3> QED BY <2>2, <3>1 DEF EndRepeat, Fail, Put, Repeated
    <2> QED BY <2>1, <2>2
<1>3. Closes(r)
    BY <1>1 DEF Closes, Ends
<1>4. PICK pos, made : Standing(sheet, pos, made, stack)
    BY DEF Walking
<1>5. /\ sheet \in Seq(Rows) /\ Stacked(SheetMarks(sheet), pos)
      /\ pos \in Seq(Nat) /\ Len(pos) \in Nat
    BY <1>4, Positions DEF Standing
<1>6. frame.kind = IF TopOf(pos) = 0 THEN "Root" ELSE Begins[Base(sheet[TopOf(pos)])]
    BY <1>4, TopFrame DEF FrameOf
<1>7. Len(pos) # 0 => TopOf(pos) = pos[Len(pos)] /\ TopOf(pos) # 0 /\ TopOf(pos) \in 1 .. Len(sheet)
    BY <1>5, Positions DEF TopOf
<1>8. Len(pos) = 0 => pos = <<>> /\ TopOf(pos) = 0
    BY <1>5 DEF TopOf
<1>9. kind \in {"Group", "Repeat"}
    BY <1>1
<1> HIDE DEF frame, kind
<1>10. CASE frame.kind # kind
    <2>1. ~ Matched(sheet')
        <3> DEFINE more == Append(sheet, r)
                   n == Len(sheet)
        <3>1. /\ n \in Nat /\ DOMAIN more = 1 .. n + 1 /\ more[n + 1] = r
              /\ \A i \in 1 .. n : more[i] = sheet[i]
              /\ SheetMarks(more) = Append(SheetMarks(sheet), MarkOfRow(r))
              /\ \A i \in 1 .. n + 1 : ContainerOf(more, i) = ContainerOf(sheet, i)
            BY <1>5, NextRow
        <3>2. MarkOfRow(r) = -1
            BY <1>3, Containers DEF MarkOfRow
        <3>3. CASE Len(pos) = 0
            <4>1. ~ Balanced(SheetMarks(more))
                BY <1>5, <1>8, <3>1, <3>2, <3>3, ClosesNothing
            <4> QED BY <1>1, <4>1 DEF Matched
        <3>4. CASE Len(pos) # 0
            <4> DEFINE p == TopOf(pos)
            <4>1. n + 1 \in 1 .. n + 1 /\ p \in 1 .. n
                BY <1>7, <3>1, <3>4
            <4>2. ContainerOf(more, n + 1) = p
                BY <1>5, <3>1, <4>1, NextStands
            <4>3. Begins[Base(sheet[p])] # kind
                BY <1>6, <1>7, <1>10, <3>4
            <4> HIDE DEF p, more, n
            <4>4. more[p] = sheet[p]
                BY <3>1, <4>1
            <4>5. ~ EndFits(more, n + 1)
                BY <1>3, <3>1, <4>2, <4>3, <4>4 DEF EndFits, kind
            <4> QED BY <1>1, <3>1, <4>1, <4>5 DEF Matched, more
        <3> QED BY <3>3, <3>4
    <2>2. import' = "UnbalancedGroup"
        BY <1>2, <1>10
    <2> QED BY <2>1, <2>2 DEF Walked, RowErrors, ImportedAsWritten, BalancedIsAccepted
<1>11. CASE frame.kind = kind
    <2>1. Len(pos) # 0
        BY <1>6, <1>8, <1>9, <1>11
    <2>2. Begins[Base(sheet[pos[Len(pos)]])] = Ends[Base(r)]
        BY <1>6, <1>7, <1>11, <2>1 DEF kind
    <2>3. import' = "reading"
        BY <1>1, <1>2, <1>11
    <2>4. Opens(sheet[pos[Len(pos)]])
        BY <1>4, <2>1, <2>2, <1>3, RowCloses
    <2>5. CASE kind = "Group"
        <3>1. Base(sheet[pos[Len(pos)]]) = "begin_group"
            BY <2>2, <2>4, <2>5 DEF kind, Opens, Begins
        <3>2. stack' = Filled(Front(stack), [i \in DOMAIN frame.fields |-> Tagged(frame.fields[i], frame.field)])
            BY <1>2, <1>11, <2>5
        <3>3. \E other : Standing(Append(sheet, r), Lower(pos), other, stack')
            BY <1>3, <1>4, <2>1, <2>2, <3>1, <3>2, GroupCloses DEF frame
        <3> QED BY <1>1, <2>3, <3>3, RowWalked DEF Walking
    <2>6. CASE kind = "Repeat"
        <3>1. Base(sheet[pos[Len(pos)]]) = "begin_repeat"
            BY <2>2, <2>4, <2>6 DEF kind, Opens, Begins
        <3>2. stack' = Filled(Front(stack), <<Repeated(frame.field, frame.fields)>>)
            BY <1>2, <1>11, <2>6
        <3>3. \E other : Standing(Append(sheet, r), Lower(pos), other, stack')
            BY <1>3, <1>4, <2>1, <2>2, <3>1, <3>2, RepeatCloses DEF frame
        <3> QED BY <1>1, <2>3, <3>3, RowWalked DEF Walking
    <2> QED BY <1>9, <2>5, <2>6
<1> QED BY <1>10, <1>11

LEMMA EndOfSheet ==
  ASSUME Walking, EndSheet
  PROVE  Walked'
<1>1. PICK pos, made : Standing(sheet, pos, made, stack)
    BY DEF Walking
<1>2. /\ sheet \in Seq(Rows) /\ Stacked(SheetMarks(sheet), pos) /\ SoundSheet(sheet)
      /\ pos \in Seq(Nat) /\ Len(pos) \in Nat
    BY <1>1, Positions DEF Standing
<1>3. Len(stack) = Len(pos) + 1
    BY <1>1, TopFrame
<1>4. Balanced(SheetMarks(sheet)) <=> pos = <<>>
    BY <1>2, StackedBalanced
<1>5. CASE pos = <<>>
    <2>1. Len(stack) = 1
        BY <1>3, <1>5
    <2>2. sheet' = sheet /\ import' = "imported" /\ form' = stack[1].fields
        BY <2>1 DEF EndSheet
    <2>3. form' = FormOf(sheet)
        BY <1>1, <1>5, <2>2, SheetEnds
    <2>4. DOMAIN sheet = 1 .. Len(sheet)
        BY <1>2
    <2>5. Matched(sheet) /\ \A i \in DOMAIN sheet : IsSound(sheet[i])
        BY <1>2, <1>4, <1>5, <2>4 DEF Matched, SoundSheet
    <2> QED BY <2>2, <2>3, <2>5 DEF Walked, RowErrors, ImportedAsWritten, BalancedIsAccepted
<1>6. CASE pos # <<>>
    <2>1. Len(stack) # 1
        BY <1>2, <1>3, <1>6
    <2>2. sheet' = sheet /\ import' = "UnbalancedGroup"
        BY <2>1 DEF EndSheet
    <2>3. ~ Matched(sheet)
        BY <1>4, <1>6 DEF Matched
    <2> QED BY <2>2, <2>3 DEF Walked, RowErrors, ImportedAsWritten, BalancedIsAccepted
<1> QED BY <1>5, <1>6

LEMMA StartWalked == ImporterInit => Walked
<1> SUFFICES ASSUME ImporterInit PROVE Walked
    OBVIOUS
<1>1. sheet = <<>> /\ stack = <<Frame("Root", <<>>)>> /\ import = "reading"
    BY DEF ImporterInit
<1> DEFINE made == <<>>
<1>2. SheetMarks(<<>>) = <<>> /\ <<>> \in Seq(Rows) /\ Len(<<>>) = 0 /\ DOMAIN <<>> = {}
    BY DEF SheetMarks
<1>3. Stacked(SheetMarks(<<>>), <<>>)
    BY <1>2, StackedFirst
<1>4. SoundSheet(<<>>) /\ Built(<<>>, <<>>, made)
    BY <1>2 DEF SoundSheet, Built
<1>5. Frames(<<>>, <<>>, made) = <<Frame("Root", <<>>)>>
    <2>1. Within(<<>>, <<>>, 1) = {}
        BY <1>2 DEF Within
    <2>2. FrameAt(<<>>, <<>>, made, 1) = Frame("Root", <<>>)
        BY <2>1, ListingNone DEF FrameAt, FrameOf, Frame, Before
    <2>3. Frames(<<>>, <<>>, made) = [k \in 1 .. 1 |-> FrameAt(<<>>, <<>>, made, k)]
        BY <1>2 DEF Frames
    <2>4. \A k \in 1 .. 1 : k = 1
        OBVIOUS
    <2> QED BY <2>2, <2>3, <2>4
<1>6. Standing(sheet, <<>>, made, stack)
    BY <1>1, <1>2, <1>3, <1>4, <1>5 DEF Standing
<1> QED BY <1>1, <1>6 DEF Walked, Walking, ImportedAsWritten, BalancedIsAccepted

LEMMA ImportWalked == Walked /\ [Import]_importVars => Walked'
<1> SUFFICES ASSUME Walked, [Import]_importVars PROVE Walked'
    OBVIOUS
<1>1. ASSUME NEW r \in Rows, SkipRow(r) \/ BeginGroup(r) \/ EndGroup(r) \/ BeginRepeat(r) \/ EndRepeat(r) \/ Question(r)
      PROVE  Walked'
    <2>1. import = "reading"
        BY <1>1 DEF SkipRow, BeginGroup, EndGroup, BeginRepeat, EndRepeat, Question, ComesTo
    <2>2. Walking
        BY <2>1 DEF Walked
    <2> QED BY <1>1, <2>2, SkipWalks, BeginWalks, EndWalks, QuestionWalks
<1>2. CASE EndSheet
    <2>1. Walking
        BY <1>2 DEF Walked, EndSheet
    <2> QED BY <1>2, <2>1, EndOfSheet
<1>3. CASE UNCHANGED importVars
    BY <1>3 DEF importVars, Walked, Walking, ImportedAsWritten, BalancedIsAccepted
<1> QED BY <1>1, <1>2, <1>3 DEF Import

(* Every imported form is what its sheet says: the fields in the order of  *)
(* the rows, in their repeats and under their groups, at any nesting.      *)
THEOREM ImportIsWritten == ImporterSpec => []ImportedAsWritten
<1>1. Walked => ImportedAsWritten
    BY DEF Walked
<1> QED BY <1>1, StartWalked, ImportWalked, PTL DEF ImporterSpec

(* A sheet of any length is imported just when its rows can be read and    *)
(* its groups and repeats match, and each error says what is wrong.        *)
THEOREM ImportIsJust == ImporterSpec => []BalancedIsAccepted
<1>1. Walked => BalancedIsAccepted
    BY DEF Walked
<1> QED BY <1>1, StartWalked, ImportWalked, PTL DEF ImporterSpec

-----------------------------------------------------------------------------
(* The whole way.  What the importer makes has the names of its rows, so   *)
(* the writer writes nothing the parser could not read.                    *)

CellNames == {r.name : r \in Rows}

\* Fields with everything below them.
Closed(fields) == \A f \in fields : f.name \in CellNames /\ f.children \in Seq(fields)

LEMMA FieldNamed ==
  ASSUME NEW r, NEW children, NEW group
  PROVE  FieldOf(r, children, group).name = r.name /\ FieldOf(r, children, group).children = children
BY DEF FieldOf, BuildField

\* The fields a sheet became have the names of its rows.
LEMMA FormIsClosed ==
  ASSUME NEW s, NEW made, NEW frames, Standing(s, <<>>, made, frames)
  PROVE  \E fields : Closed(fields) /\ frames[1].fields \in Seq(fields)
<1> DEFINE n == Len(s)
           all == {made[i] : i \in {j \in 1 .. n : IsField(s[j])}}
<1>1. s \in Seq(Rows) /\ Built(s, <<>>, made) /\ frames = Frames(s, <<>>, made)
    BY DEF Standing
<1>2. n \in Nat /\ DOMAIN s = 1 .. n
    BY <1>1, RowMarks
<1>3. OpenAt(<<>>) = {0}
    BY DEF OpenAt
<1>4. \A j : FieldRows(s, j) \in SUBSET {i \in 1 .. n : IsField(s[i])}
    BY <1>2 DEF FieldRows
<1>5. ASSUME NEW j PROVE Listing(FieldRows(s, j), made) \in Seq(all)
    <2>1. FieldRows(s, j) \in SUBSET (1 .. n)
        BY <1>4
    <2>2. ListsAs(FieldRows(s, j), made)
        BY <1>2, <2>1, ListingIs
    <2>3. PICK c \in Nat : c = Cardinality(FieldRows(s, j))
        BY <2>2 DEF ListsAs
    <2>4. \A k \in 1 .. c : made[InOrder(FieldRows(s, j))[k]] \in all
        BY <1>4, <2>2, <2>3 DEF ListsAs
    <2>5. Listing(FieldRows(s, j), made) = [k \in 1 .. c |-> made[InOrder(FieldRows(s, j))[k]]]
        BY <2>2, <2>3 DEF ListsAs
    <2> HIDE DEF all
    <2>6. Listing(FieldRows(s, j), made) \in [1 .. c -> all]
        BY <2>4, <2>5
    <2> QED BY <2>6
<1>6. Closed(all)
    <2> SUFFICES ASSUME NEW i \in 1 .. n, IsField(s[i])
                 PROVE  made[i].name \in CellNames /\ made[i].children \in Seq(all)
        BY DEF Closed
    <2>1. i \notin OpenAt(<<>>)
        BY <1>2, <1>3
    <2>2. made[i] = FieldOf(s[i], Listing(FieldRows(s, i), made), Tag(s, <<>>, i))
        BY <1>1, <2>1 DEF Built, FieldIs
    <2>3. s[i] \in Rows
        BY <1>1
    <2>4. made[i].name = s[i].name /\ made[i].children = Listing(FieldRows(s, i), made)
        BY <2>2, FieldNamed
    <2> HIDE DEF all
    <2> QED BY <1>5, <2>3, <2>4 DEF CellNames
<1>7. Within(s, <<>>, 1) = FieldRows(s, 0)
    <2>1. Before(<<>>, 1) = 0 /\ After(s, <<>>, 1) = n + 1
        BY DEF Before, After
    <2>2. \A i \in 1 .. n : 0 < i /\ i < n + 1
        BY <1>2
    <2> QED BY <1>2, <1>3, <2>1, <2>2 DEF Within, FieldRows
<1>8. frames[1].fields = Listing(FieldRows(s, 0), made)
    <2>1. Len(<<>>) = 0 /\ 1 \in 1 .. 0 + 1
        OBVIOUS
    <2>2. frames[1] = FrameAt(s, <<>>, made, 1)
        BY <1>1, <2>1 DEF Frames
    <2>3. frames[1] = FrameOf(s, Before(<<>>, 1), Listing(FieldRows(s, 0), made))
        BY <1>7, <2>2 DEF FrameAt
    <2> QED BY <2>3, FrameHolds
<1> HIDE DEF all
<1> QED BY <1>5, <1>6, <1>8

\* What the writer may still have to write: pieces of text, fields, elements.
Place == Seq(CellNames \cup Nat \cup {"meta", "instanceID"})
Texts == [kind : {"Piece"}, piece : Pieces]
Unasked(fields) == [kind : {"Field"}, field : fields, place : Place, rows : Nat]
NodesOf(tags, jobs) == [kind : {"Node"}, tag : tags, attrs : Attributes, place : Place, content : Seq(jobs)]
Leaves == NodesOf(Tags, Texts)
Blocks(fields) == NodesOf(Tags, Unasked(fields) \cup Leaves)
Documents(fields) == NodesOf(Tags, Unasked(fields) \cup Blocks(fields))
Jobs(fields) == Texts \cup Unasked(fields) \cup Leaves \cup Blocks(fields) \cup Documents(fields)
Underway(fields) == NodesOf(Tags \cup {<<>>}, Jobs(fields))

Written(fields) ==
  /\ form \in Seq(fields) /\ todo \in Seq(Underway(fields))
  /\ \A k \in 2 .. Len(todo) : todo[k].tag \in Tags

Errors == RowErrors \cup {"UnbalancedGroup"}

Outcomes ==
  {"reading", "parsed", "Malformed", "DocTypeRejected", "UnknownEntity",
   "TooDeep", "TooLarge", "MissingFormId", "MissingInstanceId"}

Bounded ==
  /\ sheet \in Seq(Rows) /\ Len(sheet) <= MaxRead /\ row \in 1 .. Len(sheet) + 1
  /\ import \in {"reading", "imported", "past"} \cup Errors
  /\ import \notin {"imported", "past"} => form = <<>>
  /\ outcome \in Outcomes
  /\ slip \in {"none", "extra", "fault"}
  /\ import = "past" => Rendered(form)

\* While the importer is at work nothing is written or read.
Untouched == Walked /\ InstanceInit /\ filled = Nothing /\ todo = <<>> /\ slip = "none"

\* The inductive invariant of the whole way.
Supplied ==
  /\ Bounded
  /\ import # "past" => Untouched
  /\ import \in {"imported", "past"} => \E fields : Closed(fields) /\ Written(fields)
  /\ import = "past" => todo # <<>>

LEMMA InitSupplied == Init => Supplied
<1> SUFFICES ASSUME Init PROVE Supplied
    OBVIOUS
<1>1. Walked
    BY StartWalked DEF Init
<1>2. Bounded
    BY MaxReadAssumption DEF Init, ImporterInit, InstanceInit, Bounded, Outcomes
<1> QED BY <1>1, <1>2 DEF Init, ImporterInit, Supplied, Untouched

\* A row is read.
LEMMA RowBounded ==
  ASSUME Bounded, NEW r \in Rows, ComesTo(r), import' \in {"reading"} \cup Errors,
         UNCHANGED instanceVars, UNCHANGED slip
  PROVE  Bounded'
<1>1. sheet' = Append(sheet, r) /\ sheet \in Seq(Rows) /\ Len(sheet) \in Nat /\ Len(sheet) < MaxRead
    BY DEF Bounded, ComesTo
<1>2. sheet' \in Seq(Rows) /\ Len(sheet') = Len(sheet) + 1
    BY <1>1
<1>3. row \in 1 .. Len(sheet) + 1 /\ (row' = row \/ row' = row + 1)
    BY DEF Bounded, ComesTo
<1>4. Len(sheet') <= MaxRead /\ row' \in 1 .. Len(sheet') + 1
    BY <1>1, <1>2, <1>3, MaxReadAssumption
<1>5. form' = <<>>
    BY DEF Bounded, ComesTo
<1>6. import' \notin {"imported", "past"}
    BY DEF Errors, RowErrors
<1> QED BY <1>2, <1>4, <1>5, <1>6 DEF Bounded, instanceVars

LEMMA RowOutcome ==
  ASSUME NEW r, SkipRow(r) \/ BeginGroup(r) \/ EndGroup(r) \/ BeginRepeat(r) \/ EndRepeat(r) \/ Question(r)
  PROVE  ComesTo(r) /\ import' \in {"reading"} \cup Errors
<1>1. ComesTo(r)
    BY DEF SkipRow, BeginGroup, EndGroup, BeginRepeat, EndRepeat, Question
<1>2. import = "reading"
    BY <1>1 DEF ComesTo
<1>3. CASE SkipRow(r)
    BY <1>2, <1>3 DEF SkipRow
<1>4. CASE BeginGroup(r) \/ BeginRepeat(r)
    BY <1>2, <1>4 DEF BeginGroup, BeginRepeat, Fail, Put, Errors, RowErrors
<1>5. CASE EndGroup(r) \/ EndRepeat(r)
    BY <1>2, <1>5 DEF EndGroup, EndRepeat, Fail, Put, Errors, RowErrors
<1>6. CASE Question(r)
    BY <1>2, <1>6 DEF Question, Fail, Put, Errors, RowErrors
<1> QED BY <1>1, <1>3, <1>4, <1>5, <1>6

LEMMA ImportSupplied ==
  ASSUME Supplied, Import, UNCHANGED <<instanceVars, filled, todo, slip>>
  PROVE  Supplied'
<1>1. import = "reading"
    BY DEF Import, SkipRow, BeginGroup, EndGroup, BeginRepeat, EndRepeat, Question, ComesTo, EndSheet
<1>2. Untouched /\ Bounded
    BY <1>1 DEF Supplied
<1>3. Untouched'
    <2>1. Walked'
        BY <1>2, ImportWalked DEF Untouched
    <2> QED BY <1>2, <2>1 DEF Untouched, InstanceInit, instanceVars
<1>4. CASE \E r \in Rows : \/ SkipRow(r) \/ BeginGroup(r) \/ EndGroup(r)
                           \/ BeginRepeat(r) \/ EndRepeat(r) \/ Question(r)
    <2>1. PICK r \in Rows : ComesTo(r) /\ import' \in {"reading"} \cup Errors
        BY <1>4, RowOutcome
    <2>2. Bounded'
        BY <1>2, <2>1, RowBounded
    <2>3. import' \notin {"imported", "past"}
        BY <2>1 DEF Errors, RowErrors
    <2> QED BY <1>3, <2>2, <2>3 DEF Supplied
<1>5. CASE EndSheet
    <2>1. import' = (IF Len(stack) = 1 THEN "imported" ELSE "UnbalancedGroup")
        BY <1>5 DEF EndSheet
    <2>2. Bounded'
        BY <1>2, <1>5 DEF Bounded, EndSheet, Errors, instanceVars
    <2>3. CASE Len(stack) = 1
        <3>1. PICK pos, made : Standing(sheet, pos, made, stack)
            BY <1>1, <1>2 DEF Untouched, Walked, Walking
        <3>2. Len(stack) = Len(pos) + 1 /\ pos \in Seq(Nat)
            BY <3>1, TopFrame, Positions DEF Standing
        <3>3. pos = <<>>
            <4>1. Len(pos) \in Nat
                BY <3>2
            <4>2. PICK n \in Nat : n = Len(pos)
                BY <4>1
            <4>3. Len(stack) = n + 1
                BY <3>2, <4>2
            <4>4. n + 1 = 1
                BY <2>3, <4>3, Zenon
            <4>5. n = 0
                BY <4>2, <4>4
            <4>6. pos \in Seq(Nat) /\ Len(pos) = 0
                BY <3>2, <4>2, <4>5
            <4> QED BY <4>6
        <3>4. PICK fields : Closed(fields) /\ stack[1].fields \in Seq(fields)
            BY <3>1, <3>3, FormIsClosed
        <3>5. form' = stack[1].fields /\ todo' = <<>>
            BY <1>5, <2>3, <1>3 DEF EndSheet, Untouched
        <3>6. todo' \in Seq(Underway(fields)) /\ Len(todo') = 0
            BY <3>5
        <3>7. Written(fields)'
            BY <3>4, <3>5, <3>6 DEF Written
        <3>8. import' = "imported"
            BY <2>1, <2>3
        <3> QED BY <1>3, <2>2, <3>4, <3>7, <3>8 DEF Supplied
    <2>4. CASE Len(stack) # 1
        <3>1. import' \notin {"imported", "past"}
            BY <2>1, <2>4
        <3> QED BY <1>3, <2>2, <3>1 DEF Supplied
    <2> QED BY <2>3, <2>4
<1> QED BY <1>4, <1>5 DEF Import

-----------------------------------------------------------------------------
(* What the writer has to write. *)

LEMMA SeqWider ==
  ASSUME NEW S, NEW T, S \subseteq T, NEW s \in Seq(S)
  PROVE  s \in Seq(T)
OBVIOUS

LEMMA JobKinds ==
  ASSUME NEW fields, NEW job \in Jobs(fields)
  PROVE  /\ job.kind = "Piece" => job.piece \in Pieces
         /\ job.kind = "Field" => job \in Unasked(fields)
         /\ job.kind = "Node" => job \in NodesOf(Tags, Jobs(fields))
<1>1. CASE job \in Texts
    BY <1>1 DEF Texts
<1>2. CASE job \in Unasked(fields)
    BY <1>2 DEF Unasked
<1>3. CASE job \in Leaves \cup Blocks(fields) \cup Documents(fields)
    <2>1. PICK jobs : jobs \subseteq Jobs(fields) /\ job \in NodesOf(Tags, jobs)
        BY <1>3 DEF Leaves, Blocks, Documents, Jobs
    <2>2. job.kind = "Node" /\ job.content \in Seq(jobs)
        BY <2>1 DEF NodesOf
    <2>3. job.content \in Seq(Jobs(fields))
        BY <2>1, <2>2, SeqWider
    <2>4. job \in NodesOf(Tags, Jobs(fields))
        BY <2>1, <2>3 DEF NodesOf
    <2> QED BY <2>2, <2>4
<1> QED BY <1>1, <1>2, <1>3 DEF Jobs

LEMMA LeafJob ==
  ASSUME NEW fields, NEW tag \in Tags, NEW place \in Place, NEW text \in Seq(Pieces)
  PROVE  Leaf(tag, place, text) \in Leaves /\ Leaf(tag, place, text) \in Jobs(fields)
<1>1. PICK n \in Nat : n = Len(text)
    OBVIOUS
<1>2. DOMAIN text = 1 .. n /\ \A i \in 1 .. n : text[i] \in Pieces
    BY <1>1
<1> DEFINE content == [i \in DOMAIN text |-> [kind |-> "Piece", piece |-> text[i]]]
<1>3. \A i \in 1 .. n : [kind |-> "Piece", piece |-> text[i]] \in Texts
    BY <1>2 DEF Texts
<1>4. content \in [1 .. n -> Texts]
    BY <1>2, <1>3
<1>5. content \in Seq(Texts)
    BY <1>4
<1>6. Leaf(tag, place, text) = Node(tag, <<>>, place, content) /\ <<>> \in Attributes
    BY TagsAssumption DEF Leaf
<1> HIDE DEF content
<1> QED BY <1>5, <1>6 DEF Node, Leaves, NodesOf, Jobs

LEMMA FieldJob ==
  ASSUME NEW fields, NEW f \in fields, NEW place \in Place, NEW n \in Nat
  PROVE  ToCome(f, place, n) \in Unasked(fields)
BY DEF ToCome, Unasked

LEMMA FieldJobs ==
  ASSUME NEW fields, Closed(fields), NEW some \in Seq(fields), NEW place \in Place
  PROVE  Fields(some, place) \in Seq(Unasked(fields))
<1>1. PICK n \in Nat : n = Len(some)
    OBVIOUS
<1>2. DOMAIN some = 1 .. n /\ \A i \in 1 .. n : some[i] \in fields
    BY <1>1
<1>3. ASSUME NEW i \in 1 .. n PROVE ToCome(some[i], Append(place, some[i].name), 0) \in Unasked(fields)
    <2>1. some[i].name \in CellNames \cup Nat
        BY <1>2 DEF Closed
    <2>2. Append(place, some[i].name) \in Place
        BY <2>1 DEF Place
    <2> QED BY <1>2, <2>2, FieldJob
<1>4. Fields(some, place) = [i \in 1 .. n |-> ToCome(some[i], Append(place, some[i].name), 0)]
    BY <1>2 DEF Fields
<1>5. Fields(some, place) \in [1 .. n -> Unasked(fields)]
    BY <1>3, <1>4
<1> QED BY <1>5

LEMMA RowJob ==
  ASSUME NEW fields, Closed(fields), NEW tag \in Tags, NEW some \in Seq(fields), NEW place \in Place
  PROVE  Node(tag, <<>>, place, Fields(some, place)) \in Jobs(fields)
<1>1. Fields(some, place) \in Seq(Unasked(fields))
    BY FieldJobs
<1>2. Fields(some, place) \in Seq(Unasked(fields) \cup Leaves)
    BY <1>1, SeqWider
<1> QED BY <1>2, TagsAssumption DEF Node, Blocks, NodesOf, Jobs

LEMMA DocumentJob ==
  ASSUME NEW fields, Closed(fields), form \in Seq(fields), NEW attrs \in Attributes, NEW id \in Seq(Pieces)
  PROVE  Document(attrs, id) \in Jobs(fields)
<1>1. <<>> \in Attributes /\ {<<"data">>, <<"orx", "meta">>, <<"orx", "instanceID">>} \subseteq Tags
    BY TagsAssumption
<1>2. <<>> \in Place /\ MetaPlace \in Place /\ IdPlace \in Place
    BY DEF Place, MetaPlace, IdPlace
<1>3. Leaf(<<"orx", "instanceID">>, IdPlace, id) \in Leaves
    BY <1>1, <1>2, LeafJob
<1>4. <<Leaf(<<"orx", "instanceID">>, IdPlace, id)>> \in Seq(Unasked(fields) \cup Leaves)
    BY <1>3
<1>5. Meta(id) \in Blocks(fields)
    BY <1>1, <1>2, <1>4 DEF Meta, Node, Blocks, NodesOf
<1>6. Fields(form, <<>>) \in Seq(Unasked(fields))
    BY <1>2, FieldJobs
<1>7. Fields(form, <<>>) \in Seq(Unasked(fields) \cup Blocks(fields))
    BY <1>6, SeqWider
<1>8. Append(Fields(form, <<>>), Meta(id)) \in Seq(Unasked(fields) \cup Blocks(fields))
    BY <1>5, <1>7
<1> QED BY <1>1, <1>2, <1>8 DEF Document, Node, Documents, NodesOf, Jobs

LEMMA TextPieces ==
  /\ Answers \cup {<<>>} \subseteq Seq(Pieces)
  /\ {<<>>, <<Space>>, <<InstanceId>>} \subseteq Seq(Pieces)
<1>1. ASSUME NEW text \in Seq(Pieces \ {Space}) PROVE text \in Seq(Pieces)
    OBVIOUS
<1>2. Answers \subseteq Seq(Pieces)
    BY <1>1, RoundTripAssumption
<1>3. Space \in Pieces /\ InstanceId \in Pieces
    BY RoundTripAssumption
<1>4. <<>> \in Seq(Pieces) /\ <<Space>> \in Seq(Pieces) /\ <<InstanceId>> \in Seq(Pieces)
    BY <1>3
<1> QED BY <1>2, <1>4

LEMMA TailIs ==
  ASSUME NEW S, NEW s \in Seq(S), s # <<>>
  PROVE  /\ s[1] \in S /\ Tail(s) \in Seq(S)
         /\ Len(s) \in Nat \ {0} /\ Len(Tail(s)) = Len(s) - 1
         /\ \A i \in 1 .. Len(s) - 1 : Tail(s)[i] = s[i + 1]
OBVIOUS

\* The stack of what is written, changed at its top.
LEMMA InnermostIs ==
  ASSUME NEW fields, todo \in Seq(Underway(fields)), todo # <<>>
  PROVE  /\ Len(todo) \in Nat \ {0} /\ DOMAIN todo = 1 .. Len(todo) /\ Len(todo) \in DOMAIN todo
         /\ Innermost \in Underway(fields) /\ Innermost = todo[Len(todo)]
         /\ Innermost.content \in Seq(Jobs(fields))
<1>1. Len(todo) \in Nat \ {0} /\ DOMAIN todo = 1 .. Len(todo) /\ Len(todo) \in DOMAIN todo
    OBVIOUS
<1>2. Innermost \in Underway(fields) /\ Innermost = todo[Len(todo)]
    BY <1>1 DEF Innermost
<1> QED BY <1>1, <1>2 DEF Underway, NodesOf

LEMMA WithIs ==
  ASSUME NEW fields, todo \in Seq(Underway(fields)), todo # <<>>, NEW content \in Seq(Jobs(fields))
  PROVE  /\ With(content) \in Seq(Underway(fields)) /\ Len(With(content)) = Len(todo)
         /\ \A k \in 1 .. Len(todo) - 1 : With(content)[k] = todo[k]
         /\ With(content)[Len(todo)] = [Innermost EXCEPT !.content = content]
         /\ [Innermost EXCEPT !.content = content] \in Underway(fields)
<1>1. /\ Len(todo) \in Nat \ {0} /\ DOMAIN todo = 1 .. Len(todo) /\ Len(todo) \in DOMAIN todo
      /\ Innermost \in Underway(fields) /\ Innermost = todo[Len(todo)]
    BY InnermostIs
<1>2. [Innermost EXCEPT !.content = content] \in Underway(fields)
    BY <1>1 DEF Underway, NodesOf
<1>3. With(content) = [todo EXCEPT ![Len(todo)] = [Innermost EXCEPT !.content = content]]
    BY <1>1 DEF With
<1> HIDE DEF With, Innermost
<1> QED BY <1>1, <1>2, <1>3

LEMMA JobIs ==
  ASSUME NEW fields, todo \in Seq(Underway(fields)), todo # <<>>, Innermost.content # <<>>
  PROVE  Job \in Jobs(fields) /\ Others \in Seq(Jobs(fields))
<1>1. Innermost.content \in Seq(Jobs(fields))
    BY InnermostIs
<1> HIDE DEF Innermost
<1> QED BY <1>1, TailIs DEF Job, Others

LEMMA NextJob ==
  ASSUME NEW fields, Closed(fields), todo \in Seq(Underway(fields)), todo # <<>>, Innermost.content # <<>>
  PROVE  /\ Job.kind = "Node" => Job \in NodesOf(Tags, Jobs(fields)) /\ Job \in Underway(fields)
         /\ Job.kind = "Piece" => Job.piece \in Pieces
         /\ Job.kind = "Field" =>
              /\ Job.field \in fields /\ Job.place \in Place /\ Job.rows \in Nat
              /\ <<Job.field.name>> \in Tags
              /\ Job.field.name \in CellNames \cup Nat
              /\ Job.field.children \in Seq(fields)
<1>1. Job \in Jobs(fields)
    BY JobIs
<1>2. \A name \in CellNames : <<name>> \in Tags
    BY TagsAssumption DEF CellNames
<1>3. CASE Job.kind = "Field"
    <2>1. Job \in Unasked(fields)
        BY <1>1, <1>3, JobKinds
    <2> QED BY <1>2, <1>3, <2>1 DEF Closed, Unasked
<1>4. CASE Job.kind = "Node"
    <2>1. Job \in NodesOf(Tags, Jobs(fields))
        BY <1>1, <1>4, JobKinds
    <2>2. Job \in Underway(fields)
        BY <2>1 DEF Underway, NodesOf
    <2> QED BY <1>4, <2>1, <2>2
<1>5. CASE Job.kind = "Piece"
    BY <1>1, <1>5, JobKinds
<1> QED BY <1>3, <1>4, <1>5

-----------------------------------------------------------------------------
(* Every step of the whole way is an event of the parser or leaves it be.  *)

LEMMA WritesPast ==
  ASSUME Supplied, todo # <<>>
  PROVE  import = "past" /\ \E fields : Closed(fields) /\ Written(fields)
BY DEF Supplied, Untouched

LEMMA WriterReads ==
  ASSUME Supplied, WriteOpen \/ WriteText \/ WriteClose \/ WriteEof \/ WriteExtra
  PROVE  Event
<1>1. CASE WriteEof
    BY <1>1 DEF WriteEof, Event, EventOf
<1>2. CASE WriteExtra
    <2>1. <<"orx", "deviceID">> \in Tags /\ <<>> \in Attributes /\ Space \in Pieces
        BY TagsAssumption, RoundTripAssumption
    <2> QED BY <1>2, <2>1 DEF WriteExtra, Event, EventOf
<1>3. CASE WriteOpen \/ WriteText
    <2>1. todo # <<>> /\ Innermost.content # <<>>
        BY <1>3 DEF WriteOpen, WriteText, Comes
    <2>2. PICK fields : Closed(fields) /\ Written(fields)
        BY <2>1, WritesPast
    <2>3. todo \in Seq(Underway(fields))
        BY <2>2 DEF Written
    <2>4. CASE WriteOpen
        <3>1. Job.tag \in Tags /\ Job.attrs \in Attributes
            BY <2>1, <2>2, <2>3, <2>4, NextJob DEF WriteOpen, Comes, NodesOf
        <3>2. StartElement(Job.tag, Job.attrs) \/ EmptyElement(Job.tag, Job.attrs)
            BY <2>4 DEF WriteOpen
        <3> QED BY <3>1, <3>2 DEF Event, EventOf
    <2>5. CASE WriteText
        <3>1. Job.piece \in Pieces
            BY <2>1, <2>2, <2>3, <2>5, NextJob DEF WriteText, Comes
        <3>2. \/ Text("Text", Job.piece) \/ Text("CData", Job.piece)
              \/ \E name \in DOMAIN Entities : GeneralRef(name)
            BY <2>5 DEF WriteText
        <3> QED BY <3>1, <3>2, TagsAssumption DEF Event, EventOf
    <2> QED BY <1>3, <2>4, <2>5
<1>4. CASE WriteClose
    <2>1. Len(todo) > 1 /\ EndElement(Innermost.tag)
        BY <1>4 DEF WriteClose, IsWritten
    <2>2. todo # <<>>
        BY <2>1
    <2>3. PICK fields : Closed(fields) /\ Written(fields)
        BY <2>2, WritesPast
    <2>4. Len(todo) \in Nat
        BY <2>2, <2>3, InnermostIs DEF Written
    <2>5. Innermost.tag \in Tags
        BY <2>1, <2>3, <2>4 DEF Written, Innermost
    <2> QED BY <2>1, <2>5 DEF Event, EventOf
<1> QED BY <1>1, <1>2, <1>3, <1>4

LEMMA SlipReads ==
  ASSUME Slip
  PROVE  [Event]_instanceVars
<1>1. StrayTags \subseteq Tags /\ StrayAttributes \subseteq Attributes
    BY TagsAssumption
<1>2. EventOf(StrayTags, StrayAttributes) => Event
    BY <1>1 DEF Event, EventOf
<1> QED BY <1>2 DEF Slip

\* Every step of a RoundTrip is a step of the parser, or leaves it alone.
LEMMA ParserSteps ==
  ASSUME Supplied, [Next]_vars
  PROVE  [Event]_instanceVars
<1>1. CASE Import /\ UNCHANGED <<instanceVars, filled, todo, slip>>
    BY <1>1
<1>2. CASE Download \/ Fill \/ AddRow \/ EndRows
    BY <1>2 DEF Download, Fill, AddRow, EndRows, Instead
<1>3. CASE WriteOpen \/ WriteText \/ WriteClose \/ WriteEof \/ WriteExtra
    BY <1>3, WriterReads
<1>4. CASE Slip
    BY <1>4, SlipReads
<1>5. CASE UNCHANGED vars
    BY <1>5 DEF vars
<1> QED BY <1>1, <1>2, <1>3, <1>4, <1>5 DEF Next

LEMMA EventOutcome ==
  ASSUME outcome \in Outcomes, [Event]_instanceVars
  PROVE  outcome' \in Outcomes
<1>2. CASE \E tag \in Tags, attrs \in Attributes : StartElement(tag, attrs)
    BY <1>2 DEF StartElement, Conclude, Outcomes
<1>3. CASE \E tag \in Tags, attrs \in Attributes : EmptyElement(tag, attrs)
    BY <1>3 DEF EmptyElement, Conclude, Outcomes
<1>4. CASE \E tag \in Tags : EndElement(tag)
    BY <1>4 DEF EndElement, Conclude, Outcomes
<1>5. CASE \E kind \in {"Text", "CData"}, piece \in Pieces : Text(kind, piece)
    BY <1>5 DEF Text, AddText
<1>6. CASE \E name \in RefNames : GeneralRef(name)
    BY <1>6 DEF GeneralRef, AddText, Conclude, Outcomes
<1>7. CASE DocType \/ Unreadable
    BY <1>7 DEF DocType, Unreadable, Conclude, Outcomes
<1>8. CASE Other \/ UNCHANGED instanceVars
    BY <1>8 DEF Other, instanceVars
<1>9. CASE Eof
    BY <1>9 DEF Eof, Conclude, Outcomes
<1> QED BY <1>2, <1>3, <1>4, <1>5, <1>6, <1>7, <1>8, <1>9 DEF Event, EventOf

-----------------------------------------------------------------------------
(* The steps of the writer keep the stack of what is written typed.        *)

\* What the steps of the writer do to the stack, and nothing else.
StackSteps(fields) ==
  \/ todo' = todo
  \/ \E content \in Seq(Jobs(fields)) : todo' = With(content)
  \/ Innermost.content # <<>> /\ Job.kind = "Node" /\ todo' = Entered(Job)
  \/ Len(todo) > 1 /\ todo' = Left

LEMMA StackKeepsTypes ==
  ASSUME NEW fields, Closed(fields), Written(fields), todo # <<>>, StackSteps(fields), form' = form
  PROVE  Written(fields)' /\ todo' # <<>>
<1>1. /\ todo \in Seq(Underway(fields)) /\ form' \in Seq(fields)
      /\ \A k \in 2 .. Len(todo) : todo[k].tag \in Tags
      /\ Len(todo) \in Nat \ {0}
    BY InnermostIs DEF Written
<1>2. CASE todo' = todo
    BY <1>1, <1>2 DEF Written
<1>3. ASSUME NEW content \in Seq(Jobs(fields))
      PROVE  /\ With(content) \in Seq(Underway(fields)) /\ Len(With(content)) = Len(todo)
             /\ \A k \in 2 .. Len(With(content)) : With(content)[k].tag \in Tags
    <2>1. /\ With(content) \in Seq(Underway(fields)) /\ Len(With(content)) = Len(todo)
          /\ \A k \in 1 .. Len(todo) - 1 : With(content)[k] = todo[k]
          /\ With(content)[Len(todo)] = [Innermost EXCEPT !.content = content]
          /\ Innermost \in Underway(fields) /\ Innermost = todo[Len(todo)]
        BY <1>1, WithIs, InnermostIs
    <2>2. With(content)[Len(todo)].tag = todo[Len(todo)].tag
        BY <2>1 DEF Underway, NodesOf
    <2>3. ASSUME NEW k \in 1 .. Len(todo) PROVE With(content)[k].tag = todo[k].tag
        <3>1. k = Len(todo) \/ k \in 1 .. Len(todo) - 1
            BY <1>1
        <3> QED BY <2>1, <2>2, <3>1
    <2> QED BY <1>1, <2>1, <2>3
<1>4. CASE \E content \in Seq(Jobs(fields)) : todo' = With(content)
    <2>1. /\ todo' \in Seq(Underway(fields)) /\ Len(todo') = Len(todo)
          /\ \A k \in 2 .. Len(todo') : todo'[k].tag \in Tags
        BY <1>3, <1>4
    <2> QED BY <1>1, <2>1 DEF Written
<1>5. CASE Innermost.content # <<>> /\ Job.kind = "Node" /\ todo' = Entered(Job)
    <2>1. Others \in Seq(Jobs(fields))
        BY <1>1, <1>5, JobIs
    <2>2. Job \in NodesOf(Tags, Jobs(fields)) /\ Job \in Underway(fields)
        BY <1>1, <1>5, NextJob
    <2> DEFINE w == With(Others)
    <2>3. /\ w \in Seq(Underway(fields)) /\ Len(w) = Len(todo)
          /\ \A k \in 2 .. Len(w) : w[k].tag \in Tags
        BY <1>3, <2>1
    <2>4. todo' = Append(w, Job)
        BY <1>5 DEF Entered
    <2> HIDE DEF w
    <2>5. /\ todo' \in Seq(Underway(fields)) /\ Len(todo') = Len(w) + 1
          /\ \A k \in 1 .. Len(w) : todo'[k] = w[k]
          /\ todo'[Len(w) + 1] = Job
        BY <2>2, <2>3, <2>4
    <2>6. Job.tag \in Tags
        BY <2>2 DEF NodesOf
    <2>7. \A k \in 2 .. Len(todo') : todo'[k].tag \in Tags
        BY <1>1, <2>3, <2>5, <2>6
    <2> QED BY <1>1, <2>3, <2>5, <2>7 DEF Written
<1>6. CASE Len(todo) > 1 /\ todo' = Left
    <2> DEFINE n == Len(todo) - 1
    <2>1. n \in Nat \ {0} /\ n < Len(todo) /\ todo' = SubSeq(todo, 1, n)
        BY <1>1, <1>6 DEF Left
    <2> HIDE DEF n
    <2>2. todo' \in Seq(Underway(fields)) /\ Len(todo') = n /\ \A k \in 1 .. n : todo'[k] = todo[k]
        BY <1>1, <2>1
    <2>3. \A k \in 2 .. Len(todo') : todo'[k].tag \in Tags
        BY <1>1, <2>1, <2>2
    <2> QED BY <1>1, <2>1, <2>2, <2>3 DEF Written
<1> QED BY <1>2, <1>4, <1>5, <1>6 DEF StackSteps

\* What comes instead of a field is of the kinds there are.
LEMMA InsteadJobs ==
  ASSUME NEW fields, Closed(fields), Written(fields), Fill \/ AddRow \/ EndRows
  PROVE  \E content \in Seq(Jobs(fields)) : todo' = With(content)
<1>1. todo \in Seq(Underway(fields)) /\ todo # <<>> /\ Innermost.content # <<>> /\ Job.kind = "Field"
    BY DEF Written, Fill, AddRow, EndRows, Comes
<1>2. Others \in Seq(Jobs(fields))
    BY <1>1, JobIs
<1>3. /\ Job.field \in fields /\ Job.place \in Place /\ Job.rows \in Nat
      /\ <<Job.field.name>> \in Tags
      /\ Job.field.children \in Seq(fields)
    BY <1>1, NextJob
<1>4. CASE Fill
    <2>1. PICK text \in Seq(Pieces) : todo' = With(<<Leaf(<<Job.field.name>>, Job.place, text)>> \o Others)
        BY <1>4, TextPieces DEF Fill, Instead
    <2>2. Leaf(<<Job.field.name>>, Job.place, text) \in Jobs(fields)
        BY <1>3, LeafJob
    <2>3. <<Leaf(<<Job.field.name>>, Job.place, text)>> \o Others \in Seq(Jobs(fields))
        BY <1>2, <2>2
    <2> QED BY <2>1, <2>3
<1>5. CASE AddRow
    <2> DEFINE place == Append(Job.place, Job.rows + 1)
               row1 == Node(<<Job.field.name>>, <<>>, place, Fields(Job.field.children, place))
               more == ToCome(Job.field, Job.place, Job.rows + 1)
    <2>1. todo' = With(<<row1, more>> \o Others)
        BY <1>5 DEF AddRow, Instead
    <2>2. place \in Place /\ Job.rows + 1 \in Nat
        BY <1>3 DEF Place
    <2>3. row1 \in Jobs(fields)
        BY <1>3, <2>2, RowJob
    <2>4. more \in Jobs(fields)
        BY <1>3, <2>2, FieldJob DEF Jobs
    <2> HIDE DEF row1, more
    <2>5. <<row1, more>> \o Others \in Seq(Jobs(fields))
        BY <1>2, <2>3, <2>4
    <2> QED BY <2>1, <2>5
<1>6. CASE EndRows
    BY <1>2, <1>6 DEF EndRows
<1> QED BY <1>4, <1>5, <1>6

LEMMA WriterStack ==
  ASSUME NEW fields, Closed(fields), Written(fields), todo # <<>>,
         \/ Fill \/ AddRow \/ EndRows \/ WriteOpen \/ WriteText \/ WriteClose \/ WriteEof \/ WriteExtra \/ Slip
         \/ UNCHANGED vars
  PROVE  StackSteps(fields)
<1>1. Innermost.content # <<>> => Others \in Seq(Jobs(fields))
    BY JobIs DEF Written
<1>2. CASE Fill \/ AddRow \/ EndRows
    BY <1>2, InsteadJobs DEF StackSteps
<1>3. CASE WriteOpen
    BY <1>1, <1>3 DEF WriteOpen, Comes, StackSteps
<1>4. CASE WriteText
    BY <1>1, <1>4 DEF WriteText, Comes, StackSteps
<1>5. CASE WriteClose
    BY <1>5 DEF WriteClose, IsWritten, StackSteps
<1>6. CASE WriteEof \/ WriteExtra
    BY <1>6 DEF WriteEof, WriteExtra, StackSteps
<1>7. CASE Slip
    BY <1>1, <1>7 DEF Slip, Comes, IsWritten, StackSteps
<1>8. CASE UNCHANGED vars
    BY <1>8 DEF vars, StackSteps
<1> QED BY <1>2, <1>3, <1>4, <1>5, <1>6, <1>7, <1>8

\* Nothing of the importer changes, the parser may read an event.
LEMMA WriterSupplied ==
  ASSUME Supplied, import = "past", [Event]_instanceVars,
         \/ Fill \/ AddRow \/ EndRows \/ WriteOpen \/ WriteText \/ WriteClose \/ WriteEof \/ WriteExtra \/ Slip
         \/ UNCHANGED vars
  PROVE  Supplied'
<1>1. UNCHANGED importVars
    BY DEF Fill, AddRow, EndRows, Instead, WriteOpen, WriteText, WriteClose, WriteEof, WriteExtra, Slip, vars
<1>2. slip' \in {"none", "extra", "fault"}
    BY DEF Fill, AddRow, EndRows, Instead, WriteOpen, WriteText, WriteClose, WriteEof, WriteExtra, Slip, vars,
           Supplied, Bounded
<1>3. Bounded'
    <2>1. outcome' \in Outcomes
        BY EventOutcome DEF Supplied, Bounded
    <2> QED BY <1>1, <1>2, <2>1 DEF Supplied, Bounded, importVars
<1>4. PICK fields : Closed(fields) /\ Written(fields)
    BY DEF Supplied
<1>5. todo # <<>>
    BY DEF Supplied
<1>6. StackSteps(fields)
    BY <1>4, <1>5, WriterStack
<1>7. Written(fields)' /\ todo' # <<>>
    BY <1>1, <1>4, <1>5, <1>6, StackKeepsTypes DEF importVars
<1> QED BY <1>1, <1>3, <1>4, <1>7 DEF Supplied, importVars

LEMMA DownloadSupplied ==
  ASSUME Supplied, Download
  PROVE  Supplied'
<1>1. import = "imported" /\ Rendered(form)
    BY DEF Download, Listed
<1>2. PICK fields : Closed(fields) /\ Written(fields)
    BY <1>1 DEF Supplied
<1>3. PICK attrs, id : /\ attrs \in {Identified} \cup StrayAttributes /\ id \in {<<>>, <<Space>>, <<InstanceId>>}
                       /\ todo' = <<Node(<<>>, <<>>, <<>>, <<Document(attrs, id)>>)>>
                       /\ slip' \in {"none", "fault"}
    BY DEF Download
<1>4. attrs \in Attributes /\ id \in Seq(Pieces) /\ <<>> \in Attributes
    BY <1>3, TagsAssumption, TextPieces
<1>5. form' = form /\ import' = "past" /\ sheet' = <<>> /\ row' = 1 /\ UNCHANGED instanceVars
    BY DEF Download
<1>6. Written(fields)' /\ todo' # <<>>
    <2>1. form \in Seq(fields)
        BY <1>2 DEF Written
    <2>2. Document(attrs, id) \in Jobs(fields)
        BY <1>2, <1>4, <2>1, DocumentJob
    <2>3. <<Document(attrs, id)>> \in Seq(Jobs(fields)) /\ <<>> \in Place
        BY <2>2 DEF Place
    <2> DEFINE outside == Node(<<>>, <<>>, <<>>, <<Document(attrs, id)>>)
    <2>4. outside \in Underway(fields)
        BY <1>4, <2>3 DEF Node, Underway, NodesOf
    <2>5. todo' = <<outside>>
        BY <1>3
    <2> HIDE DEF outside
    <2>6. todo' \in Seq(Underway(fields)) /\ Len(todo') = 1 /\ todo' # <<>>
        BY <2>4, <2>5
    <2> QED BY <1>5, <2>1, <2>6 DEF Written
<1>7. Bounded'
    <2>1. sheet' \in Seq(Rows) /\ Len(sheet') = 0
        BY <1>5
    <2>2. Len(sheet') <= MaxRead /\ row' \in 1 .. Len(sheet') + 1
        BY <1>5, <2>1, MaxReadAssumption
    <2>3. outcome' \in Outcomes
        BY <1>5 DEF Supplied, Bounded, instanceVars
    <2>4. Rendered(form)'
        BY <1>1, <1>5
    <2> QED BY <1>3, <1>5, <2>1, <2>2, <2>3, <2>4 DEF Bounded
<1> QED BY <1>2, <1>5, <1>6, <1>7 DEF Supplied

LEMMA NextSupplied == Supplied /\ [Next]_vars => Supplied'
<1> SUFFICES ASSUME Supplied, [Next]_vars PROVE Supplied'
    OBVIOUS
<1>1. [Event]_instanceVars
    BY ParserSteps
<1>2. CASE Import /\ UNCHANGED <<instanceVars, filled, todo, slip>>
    BY <1>2, ImportSupplied
<1>3. CASE Download
    BY <1>3, DownloadSupplied
<1>4. CASE \/ Fill \/ AddRow \/ EndRows \/ WriteOpen \/ WriteText \/ WriteClose \/ WriteEof
           \/ WriteExtra \/ Slip
    <2>1. import = "past"
        <3>1. Comes("Node") \/ Comes("Field") \/ Comes("Piece") \/ Len(todo) >= 1 \/ import = "past"
            <4>1. CASE Fill \/ AddRow \/ EndRows \/ WriteOpen \/ WriteText
                BY <4>1 DEF Fill, AddRow, EndRows, WriteOpen, WriteText
            <4>2. CASE WriteClose \/ WriteExtra
                <5>1. Comes("Node") \/ Len(todo) > 1
                    BY <4>2 DEF WriteClose, WriteExtra, IsWritten
                <5>2. todo = <<>> => Len(todo) = 0
                    OBVIOUS
                <5>3. todo # <<>>
                    BY <5>1, <5>2 DEF Comes
                <5> QED BY <5>3, WritesPast
            <4>3. CASE WriteEof
                BY <4>3 DEF WriteEof
            <4>4. CASE Slip
                BY <4>4 DEF Slip
            <4> QED BY <1>4, <4>1, <4>2, <4>3, <4>4
        <3>2. todo = <<>> => Len(todo) = 0
            OBVIOUS
        <3>3. todo # <<>> \/ import = "past"
            BY <3>1, <3>2 DEF Comes
        <3> QED BY <3>3, WritesPast
    <2> QED BY <1>1, <1>4, <2>1, WriterSupplied
<1>5. CASE UNCHANGED vars
    <2>1. CASE import = "past"
        BY <1>1, <1>5, <2>1, WriterSupplied
    <2>2. CASE import # "past"
        <3>1. UNCHANGED <<importVars, instanceVars, filled, todo, slip>>
            BY <1>5 DEF vars
        <3>2. Untouched'
            <4>1. Walked'
                BY <2>2, <3>1, ImportWalked DEF Supplied, Untouched
            <4> QED BY <2>2, <3>1, <4>1 DEF Supplied, Untouched, InstanceInit, instanceVars
        <3>3. Bounded'
            BY <2>2, <3>1 DEF Supplied, Bounded, importVars, instanceVars
        <3>4. UNCHANGED <<import, form, todo>>
            BY <3>1 DEF importVars
        <3>5. \A fields : Written(fields) => Written(fields)'
            BY <3>4 DEF Written
        <3>6. import' \in {"imported", "past"} => \E fields : Closed(fields) /\ Written(fields)'
            BY <3>4, <3>5 DEF Supplied
        <3> QED BY <2>2, <3>2, <3>3, <3>4, <3>6 DEF Supplied
    <2> QED BY <2>1, <2>2
<1> QED BY <1>2, <1>3, <1>4, <1>5 DEF Next

-----------------------------------------------------------------------------
(* The properties of the whole way. *)

LEMMA SuppliedTyped == Supplied => TypeOK
<1> SUFFICES ASSUME Supplied PROVE TypeOK
    OBVIOUS
<1>1. Bounded
    BY DEF Supplied
<1>2. row \in 1 .. MaxRead + 1
    <2>1. Len(sheet) \in Nat /\ Len(sheet) <= MaxRead /\ row \in 1 .. Len(sheet) + 1
        BY <1>1 DEF Bounded
    <2> QED BY <2>1, MaxReadAssumption
<1>3. import = "reading" => stack # <<>> /\ stack[1].kind = "Root"
    <2> SUFFICES ASSUME import = "reading" PROVE stack # <<>> /\ stack[1].kind = "Root"
        OBVIOUS
    <2>1. PICK pos, made : Standing(sheet, pos, made, stack)
        BY DEF Supplied, Untouched, Walked, Walking
    <2>2. Len(pos) \in Nat /\ stack = Frames(sheet, pos, made)
        BY <2>1, Positions DEF Standing
    <2>3. 1 \in 1 .. Len(pos) + 1
        BY <2>2
    <2>4. DOMAIN stack = 1 .. Len(pos) + 1 /\ stack[1] = FrameAt(sheet, pos, made, 1)
        BY <2>2, <2>3 DEF Frames
    <2>5. stack[1].kind = "Root"
        BY <2>4, FrameHolds DEF FrameAt, FrameOf, Before, Frame
    <2>6. stack # <<>>
        <3>1. 1 \in DOMAIN stack /\ 1 \notin DOMAIN <<>>
            BY <2>3, <2>4
        <3> QED BY <3>1
    <2> QED BY <2>5, <2>6
<1>4. import # "past" => todo = <<>> /\ read = <<>>
    BY DEF Supplied, Untouched, InstanceInit
<1> QED BY <1>1, <1>2, <1>3, <1>4 DEF Bounded, TypeOK, Errors, RowErrors, Outcomes

(* Nothing is written or parsed before a form that can be rendered is      *)
(* there, for sheets, rows, answers and slips of any number.               *)
THEOREM TypeCorrect == Spec => []TypeOK
<1> QED BY InitSupplied, NextSupplied, SuppliedTyped, PTL DEF Spec

(* What the parser reads in a RoundTrip is a document as it is described   *)
(* by itself: the clients do nothing it is not said to be given.           *)
THEOREM WayParses == Spec => InstanceSpec
<1>1. Init => InstanceInit
    BY DEF Init
<1>2. Supplied /\ [Next]_vars => [Event]_instanceVars
    BY ParserSteps
<1> QED BY <1>1, <1>2, InitSupplied, NextSupplied, PTL DEF Spec, InstanceSpec

(* The tree of a RoundTrip has its shape and stays within the limits.      *)
THEOREM ShapeOnTheWay == Spec => []TreeShape
<1> QED BY WayParses, ShapeIsKept, PTL

(* An instance parsed on the whole way is parsed as written.               *)
THEOREM ParsedOnTheWay == Spec => []ParsedAsWritten
<1> QED BY WayParses, ParsedIsWritten, PTL

(* The form that comes to be listed is what its sheet says.                *)
THEOREM ImportedOnTheWay == Spec => []ImportedAsWritten
<1>1. Supplied => ImportedAsWritten
    BY DEF Supplied, Untouched, Walked, ImportedAsWritten
<1> QED BY <1>1, InitSupplied, NextSupplied, PTL DEF Spec

(* It is imported just when the sheet can be read.                         *)
THEOREM BalancedOnTheWay == Spec => []BalancedIsAccepted
<1>1. Supplied => BalancedIsAccepted
    <2> SUFFICES ASSUME Supplied PROVE BalancedIsAccepted
        OBVIOUS
    <2>1. CASE import = "past"
        BY <2>1 DEF BalancedIsAccepted
    <2>2. CASE import # "past"
        BY <2>2 DEF Supplied, Untouched, Walked
    <2> QED BY <2>1, <2>2
<1> QED BY <1>1, InitSupplied, NextSupplied, PTL DEF Spec

=============================================================================
