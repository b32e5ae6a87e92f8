--------------------------- MODULE FilteringProofs ---------------------------
(***************************************************************************)
(* Facts that the proofs of several components cite: about sets of         *)
(* naturals, about the finite sets whose sizes the limits compare, and     *)
(* what Filter keeps: every kept entry, no other, and their order.         *)
(***************************************************************************)
EXTENDS Filtering, FiniteSetTheorems, WellFoundedInduction, TLAPS

\* A non-empty set of naturals has a least element.
LEMMA LeastElement ==
    ASSUME NEW S, S \subseteq Nat, S # {}
    PROVE  \E i \in S : \A j \in S : i <= j
<1> DEFINE R == OpToRel(<, Nat)
<1>1. \E i \in S : \A j \in S : ~(<<j, i>> \in R)
  <2>1. IsWellFoundedOn(R, Nat)
    BY NatLessThanWellFounded
  <2> QED BY <2>1, WFMin
<1>2. ASSUME NEW i \in S, NEW j \in S, ~(<<j, i>> \in R) PROVE i <= j
  BY <1>2 DEF OpToRel
<1> QED BY <1>1, <1>2

\* A set whose elements are all one has at most one.
LEMMA AtMostOne ==
    ASSUME NEW S, \A x, y \in S : x = y PROVE Cardinality(S) <= 1
<1>1. CASE S = {}
  BY <1>1, FS_EmptySet
<1>2. CASE S # {}
  <2>1. PICK x \in S : S = {x}
    BY <1>2
  <2> QED BY <2>1, FS_Singleton
<1> QED BY <1>1, <1>2

\* The image of a finite set is finite and not larger.
LEMMA ImageOfFinite ==
    ASSUME NEW S, IsFiniteSet(S), NEW image
    PROVE  LET T == {image[x] : x \in S}
           IN  IsFiniteSet(T) /\ Cardinality(T) <= Cardinality(S)
<1> DEFINE T == {image[x] : x \in S}
           f == [x \in S |-> image[x]]
<1>1. f \in Surjection(S, T)
  BY DEF Surjection
<1> HIDE DEF f, T
<1>2. IsFiniteSet(T) /\ Cardinality(T) <= Cardinality(S)
  BY <1>1, FS_Surjection
<1> QED BY <1>2 DEF T

(***************************************************************************)
(* Ranks                                                                   *)
(***************************************************************************)

\* The positions kept in a list of length n.
LEMMA PositionsFinite ==
    ASSUME NEW n \in Nat, NEW kept \in SUBSET (1..n)
    PROVE  /\ IsFiniteSet(kept)
           /\ Cardinality(kept) \in Nat
           /\ Cardinality(kept) <= n
<1>1. IsFiniteSet(1..n) /\ Cardinality(1..n) = n
  BY FS_Interval
<1>2. IsFiniteSet(kept) /\ Cardinality(kept) <= Cardinality(1..n)
  BY <1>1, FS_Subset
<1> QED BY <1>1, <1>2, FS_CardinalityType

\* A set of positions that is not empty has a last one.
LEMMA LastPosition ==
    ASSUME NEW n \in Nat, NEW S \in SUBSET (1..n), S # {}
    PROVE  \E i \in S : \A j \in S : j <= i
<1> DEFINE T == {n - i : i \in S}
<1>1. T \subseteq Nat /\ T # {}
  <2>1. ASSUME NEW i \in S PROVE n - i \in Nat
    <3>1. i \in 1..n
      OBVIOUS
    <3> QED BY <3>1
  <2> QED BY <2>1
<1>2. PICK t \in T : \A u \in T : t <= u
  <2> HIDE DEF T
  <2> QED BY <1>1, LeastElement
<1>3. PICK i \in S : t = n - i
  BY <1>2
<1>4. ASSUME NEW j \in S PROVE j <= i
  <2>1. t <= n - j
    BY <1>2
  <2> QED BY <1>3, <2>1
<1> QED BY <1>4

\* The rank of a kept position counts it.
LEMMA RankType ==
    ASSUME NEW n \in Nat, NEW kept \in SUBSET (1..n), NEW i \in kept
    PROVE  Rank(kept, i) \in 1..Cardinality(kept)
<1>1. UpTo(kept, i) \in SUBSET kept /\ UpTo(kept, i) # {}
  BY DEF UpTo
<1>2. IsFiniteSet(kept) /\ Cardinality(kept) \in Nat
  BY PositionsFinite
<1>3. IsFiniteSet(UpTo(kept, i)) /\ Cardinality(UpTo(kept, i)) <= Cardinality(kept)
  BY <1>1, <1>2, FS_Subset
<1>4. Cardinality(UpTo(kept, i)) \in Nat /\ Cardinality(UpTo(kept, i)) # 0
  BY <1>1, <1>3, FS_CardinalityType, FS_EmptySet
<1> QED BY <1>2, <1>3, <1>4 DEF Rank

\* Later positions have higher ranks, so that a rank belongs to one position only.
LEMMA RankIncreases ==
    ASSUME NEW n \in Nat, NEW kept \in SUBSET (1..n), NEW i \in kept, NEW j \in kept, i < j
    PROVE  Rank(kept, i) < Rank(kept, j)
<1>0. \A l \in kept : l \in Int
  OBVIOUS
<1>1. UpTo(kept, i) \cup {j} \in SUBSET UpTo(kept, j) /\ j \notin UpTo(kept, i)
  <2>1. ASSUME NEW l \in UpTo(kept, i) PROVE l \in UpTo(kept, j)
    BY <1>0 DEF UpTo
  <2>2. j \in UpTo(kept, j) /\ j \notin UpTo(kept, i)
    BY <1>0 DEF UpTo
  <2> QED BY <2>1, <2>2
<1>2. UpTo(kept, i) \in SUBSET (1..n) /\ UpTo(kept, j) \in SUBSET (1..n)
  BY DEF UpTo
<1>3. /\ IsFiniteSet(UpTo(kept, i)) /\ Cardinality(UpTo(kept, i)) \in Nat
      /\ IsFiniteSet(UpTo(kept, j)) /\ Cardinality(UpTo(kept, j)) \in Nat
  BY <1>2, PositionsFinite
<1>4. Cardinality(UpTo(kept, i) \cup {j}) = Cardinality(UpTo(kept, i)) + 1
  BY <1>1, <1>3, FS_AddElement
<1>5. Cardinality(UpTo(kept, i) \cup {j}) <= Cardinality(UpTo(kept, j))
  BY <1>1, <1>3, FS_Subset
<1> QED BY <1>3, <1>4, <1>5 DEF Rank

\* Every rank up to the number of kept positions occurs: the first position of at
\* least that rank has it, since the one before has a rank less by one.
LEMMA RankOccurs ==
    ASSUME NEW n \in Nat, NEW kept \in SUBSET (1..n), NEW k \in 1..Cardinality(kept)
    PROVE  \E i \in kept : Rank(kept, i) = k
<1>0. IsFiniteSet(kept) /\ Cardinality(kept) \in Nat
  BY PositionsFinite
<1> DEFINE High == {i \in kept : Rank(kept, i) >= k}
<1>9. kept \subseteq Nat /\ \A i \in kept : i \in 1..n
  OBVIOUS
<1>1. High # {} /\ High \subseteq Nat
  <2>1. kept # {}
    BY <1>0, FS_EmptySet
  <2>2. PICK i \in kept : \A j \in kept : j <= i
    BY <2>1, LastPosition
  <2>3. UpTo(kept, i) = kept
    BY <2>2 DEF UpTo
  <2>4. i \in High
    BY <1>0, <2>3 DEF Rank
  <2>5. High \subseteq kept
    OBVIOUS
  <2> HIDE DEF High
  <2> QED BY <1>9, <2>4, <2>5
<1>2. PICK i \in High : \A j \in High : i <= j
  <2> HIDE DEF High
  <2> QED BY <1>1, LeastElement
<1>3. Rank(kept, i) \in 1..Cardinality(kept) /\ Rank(kept, i) >= k
  BY RankType
<1>4. ASSUME Rank(kept, i) > k PROVE FALSE
  <2> DEFINE Before == UpTo(kept, i) \ {i}
  <2>0. i \in kept /\ i \in Nat
    BY <1>9
  <2>1. Before \in SUBSET (1..n) /\ i \in UpTo(kept, i) /\ UpTo(kept, i) \in SUBSET (1..n)
    <3>1. i \in UpTo(kept, i) /\ UpTo(kept, i) \subseteq kept
      BY <2>0 DEF UpTo
    <3>2. Before \subseteq kept
      BY <3>1
    <3> HIDE DEF Before
    <3> QED BY <3>1, <3>2
  <2>2. IsFiniteSet(UpTo(kept, i)) /\ Cardinality(UpTo(kept, i)) \in Nat
    BY <2>1, PositionsFinite
  <2>3. Cardinality(Before) = Rank(kept, i) - 1
    BY <2>1, <2>2, FS_RemoveElement DEF Rank
  <2>4. Before # {}
    <3>1. Cardinality(Before) # 0
      BY <1>3, <1>4, <2>3, <1>0
    <3> QED BY <3>1, FS_EmptySet
  <2>5. PICK j \in Before : \A l \in Before : l <= j
    <3> HIDE DEF Before
    <3> QED BY <2>1, <2>4, LastPosition
  <2>6. j \in kept /\ j < i
    BY <2>5 DEF UpTo
  <2>7. UpTo(kept, j) = Before
    <3>1. \A l : l \in Before <=> l \in kept /\ l <= i /\ l # i
      BY DEF UpTo
    <3>2. \A l : l \in UpTo(kept, j) <=> l \in kept /\ l <= j
      BY DEF UpTo
    <3>3. \A l \in kept : l \in Nat
      BY <1>9
    <3> HIDE DEF Before
    <3>4. ASSUME NEW l \in UpTo(kept, j) PROVE l \in Before
      <4>1. l \in kept /\ l <= j
        BY <3>2
      <4>2. l \in Nat /\ j \in Nat /\ i \in Nat
        BY <2>0, <2>6, <3>3, <4>1
      <4>3. l <= i /\ l # i
        BY <2>6, <4>1, <4>2
      <4> QED BY <3>1, <4>1, <4>3
    <3>5. ASSUME NEW l \in Before PROVE l \in UpTo(kept, j)
      BY <2>5, <3>1, <3>2
    <3> QED BY <3>4, <3>5
  <2>8. Rank(kept, j) >= k
    BY <1>0, <1>3, <1>4, <2>3, <2>7 DEF Rank
  <2> QED BY <1>2, <2>6, <2>8
<1> QED BY <1>0, <1>3, <1>4

(***************************************************************************)
(* Filter                                                                  *)
(***************************************************************************)

\* The k-th kept position is kept and has rank k.
LEMMA PositionOfRank ==
    ASSUME NEW n \in Nat, NEW kept \in SUBSET (1..n), NEW k \in 1..Cardinality(kept)
    PROVE  Position(kept, k) \in kept /\ Rank(kept, Position(kept, k)) = k
  BY RankOccurs DEF Position

\* The filtered list is a list of kept entries, not longer than the list.
LEMMA FilterType ==
    ASSUME NEW S, NEW list \in Seq(S), NEW kept \in SUBSET (DOMAIN list)
    PROVE  /\ Filter(list, kept) \in Seq(S)
           /\ Len(Filter(list, kept)) = Cardinality(kept)
           /\ Len(Filter(list, kept)) <= Len(list)
<1>1. Len(list) \in Nat /\ DOMAIN list = 1..Len(list) /\ kept \in SUBSET (1..Len(list))
  OBVIOUS
<1>2. Cardinality(kept) \in Nat /\ Cardinality(kept) <= Len(list)
  BY <1>1, PositionsFinite
<1>3. ASSUME NEW k \in 1..Cardinality(kept) PROVE list[Position(kept, k)] \in S
  <2>1. Position(kept, k) \in kept
    BY <1>1, PositionOfRank
  <2> QED BY <1>1, <2>1
<1>4. Filter(list, kept) \in [1..Cardinality(kept) -> S]
  BY <1>3 DEF Filter
<1> QED BY <1>2, <1>4

\* An entry is left iff it stood at a kept position.
LEMMA FilterKeeps ==
    ASSUME NEW S, NEW list \in Seq(S), NEW kept \in SUBSET (DOMAIN list)
    PROVE  /\ \A k \in DOMAIN Filter(list, kept) :
                  Position(kept, k) \in kept /\ Filter(list, kept)[k] = list[Position(kept, k)]
           /\ \A i \in kept : \E k \in DOMAIN Filter(list, kept) : Filter(list, kept)[k] = list[i]
<1>1. Len(list) \in Nat /\ DOMAIN list = 1..Len(list) /\ kept \in SUBSET (1..Len(list))
  OBVIOUS
<1>2. DOMAIN Filter(list, kept) = 1..Cardinality(kept)
  BY DEF Filter
<1>3. ASSUME NEW k \in 1..Cardinality(kept)
      PROVE  Position(kept, k) \in kept /\ Filter(list, kept)[k] = list[Position(kept, k)]
  BY <1>1, PositionOfRank DEF Filter
<1>4. ASSUME NEW i \in kept PROVE \E k \in DOMAIN Filter(list, kept) : Filter(list, kept)[k] = list[i]
  <2>1. Rank(kept, i) \in 1..Cardinality(kept)
    BY <1>1, RankType
  <2>2. Position(kept, Rank(kept, i)) \in kept /\ Rank(kept, Position(kept, Rank(kept, i))) = Rank(kept, i)
    BY <1>1, <2>1, PositionOfRank
  <2>3. \A p, q \in kept : p < q => Rank(kept, p) < Rank(kept, q)
    BY <1>1, RankIncreases
  <2>4. ASSUME NEW p \in kept PROVE p \in Int /\ Rank(kept, p) \in Int
    <3>1. Rank(kept, p) \in 1..Cardinality(kept)
      BY <1>1, RankType
    <3> QED BY <1>1, <3>1, PositionsFinite
  <2>5. Position(kept, Rank(kept, i)) = i
    BY <2>2, <2>3, <2>4
  <2> QED BY <1>2, <1>3, <2>1, <2>5
<1> QED BY <1>2, <1>3, <1>4

\* Two entries that are left stand in the order they stood in.
LEMMA FilterKeepsOrder ==
    ASSUME NEW S, NEW list \in Seq(S), NEW kept \in SUBSET (DOMAIN list),
           NEW k \in DOMAIN Filter(list, kept), NEW l \in DOMAIN Filter(list, kept), k < l
    PROVE  Position(kept, k) < Position(kept, l)
<1>1. Len(list) \in Nat /\ kept \in SUBSET (1..Len(list))
  OBVIOUS
<1>2. k \in 1..Cardinality(kept) /\ l \in 1..Cardinality(kept)
  BY DEF Filter
<1>3. /\ Position(kept, k) \in kept /\ Rank(kept, Position(kept, k)) = k
      /\ Position(kept, l) \in kept /\ Rank(kept, Position(kept, l)) = l
  BY <1>1, <1>2, PositionOfRank
<1>4. \A p, q \in kept : p < q => Rank(kept, p) < Rank(kept, q)
  BY <1>1, RankIncreases
<1>5. Position(kept, k) \in Int /\ Position(kept, l) \in Int
  BY <1>1, <1>3
<1>6. k \in Int /\ l \in Int
  BY <1>1, <1>2, PositionsFinite
<1> QED BY <1>3, <1>4, <1>5, <1>6
=============================================================================
