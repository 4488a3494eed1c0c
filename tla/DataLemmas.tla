----------------------------- MODULE DataLemmas -----------------------------
(***************************************************************************)
(* What the proofs about data rest on: sequences that gain or lose one     *)
(* element; that a function defined by recursion on a rank exists; sums    *)
(* over a finite set.  An induction is a least natural number that would   *)
(* be an exception.                                                        *)
(***************************************************************************)
EXTENDS Integers, SequencesExt, SequenceTheorems, FiniteSetTheorems,
  WellFoundedInduction, TLAPS

-----------------------------------------------------------------------------
(* Sequences.                                                              *)

\* Taking one element out of a sequence keeps the others, in their order.
LEMMA RemoveAtProperties ==
  ASSUME NEW S, NEW s \in Seq(S), NEW i \in DOMAIN s
  PROVE  /\ RemoveAt(s, i) \in Seq(S)
         /\ Len(RemoveAt(s, i)) = Len(s) - 1
         /\ \A j \in 1..Len(s) - 1 :
              RemoveAt(s, i)[j] = IF j < i THEN s[j] ELSE s[j+1]
<1> DEFINE front == SubSeq(s, 1, i-1)
           back  == SubSeq(s, i+1, Len(s))
<1>1. i \in 1..Len(s) /\ Len(s) \in Nat
  BY LenProperties
<1>2. /\ front \in Seq(S) /\ Len(front) = i-1
      /\ \A j \in 1..i-1 : front[j] = s[j]
  BY <1>1, ElementOfSeq, SubSeqProperties
<1>3. /\ back \in Seq(S) /\ Len(back) = Len(s) - i
      /\ \A j \in 1..Len(s)-i : back[j] = s[i+j]
  BY <1>1, ElementOfSeq, SubSeqProperties
<1> HIDE DEF front, back
<1>4. /\ front \o back \in Seq(S)
      /\ Len(front \o back) = Len(s) - 1
      /\ \A j \in 1..Len(s)-1 :
           (front \o back)[j] = IF j <= i-1 THEN front[j] ELSE back[j-(i-1)]
  BY <1>1, <1>2, <1>3, ConcatProperties, SMTT(40)
<1>5. ASSUME NEW j \in 1..Len(s)-1
      PROVE  (front \o back)[j] = IF j < i THEN s[j] ELSE s[j+1]
  <2>1. CASE j <= i-1
    BY <1>1, <1>2, <1>4, <2>1
  <2>2. CASE ~ (j <= i-1)
    <3>1. j-(i-1) \in 1..Len(s)-i /\ i + (j-(i-1)) = j+1
      BY <1>1, <2>2
    <3>2. back[j-(i-1)] = s[i + (j-(i-1))]
      BY <1>3, <3>1
    <3> QED
      BY <1>1, <1>4, <2>2, <3>1, <3>2
  <2> QED
    BY <2>1, <2>2
<1>6. RemoveAt(s, i) = front \o back
  BY DEF RemoveAt, front, back
<1> QED
  BY <1>4, <1>5, <1>6

\* So does putting one in, and the new one is where it was to be.
LEMMA InsertAtProperties ==
  ASSUME NEW S, NEW s \in Seq(S), NEW i \in 1..Len(s) + 1, NEW x \in S
  PROVE  /\ InsertAt(s, i, x) \in Seq(S)
         /\ Len(InsertAt(s, i, x)) = Len(s) + 1
         /\ \A j \in 1..Len(s) + 1 :
              InsertAt(s, i, x)[j] = IF j < i THEN s[j] ELSE IF j = i THEN x ELSE s[j-1]
<1> DEFINE front == SubSeq(s, 1, i-1)
           mid   == front \o <<x>>
           back  == SubSeq(s, i, Len(s))
<1>1. i \in Nat /\ Len(s) \in Nat /\ 1 <= i /\ i <= Len(s) + 1
  BY LenProperties
<1>2. /\ front \in Seq(S) /\ Len(front) = i-1
      /\ \A j \in 1..i-1 : front[j] = s[j]
  BY <1>1, ElementOfSeq, SubSeqProperties
<1>3. /\ back \in Seq(S) /\ Len(back) = Len(s) - i + 1
      /\ \A j \in 1..Len(s)-i+1 : back[j] = s[i+j-1]
  BY <1>1, ElementOfSeq, SubSeqProperties
<1>4. <<x>> \in Seq(S) /\ Len(<<x>>) = 1 /\ <<x>>[1] = x
  OBVIOUS
<1>5. /\ mid \in Seq(S) /\ Len(mid) = i
      /\ \A j \in 1..i : mid[j] = IF j < i THEN s[j] ELSE x
  <2> HIDE DEF front
  <2> QED
    BY <1>1, <1>2, <1>4, ConcatProperties
<1> HIDE DEF mid, back
<1>6. /\ mid \o back \in Seq(S)
      /\ Len(mid \o back) = Len(s) + 1
      /\ \A j \in 1..Len(s)+1 : (mid \o back)[j] = IF j <= i THEN mid[j] ELSE back[j-i]
  BY <1>1, <1>3, <1>5, ConcatProperties
<1>7. \A j \in 1..Len(s)+1 :
        (mid \o back)[j] = IF j < i THEN s[j] ELSE IF j = i THEN x ELSE s[j-1]
  BY <1>1, <1>3, <1>5, <1>6
<1>8. InsertAt(s, i, x) = mid \o back
  BY DEF InsertAt, mid, back, front
<1> QED
  BY <1>6, <1>7, <1>8

\* The elements of a sequence that gains or loses one.
LEMMA RangeOfSequence ==
  ASSUME NEW S, NEW s \in Seq(S)
  PROVE  /\ \A x : x \in Range(s) <=> \E i \in 1..Len(s) : s[i] = x
         /\ Range(s) \subseteq S
BY LenProperties, ElementOfSeq DEF Range

LEMMA RangeOfInsertAt ==
  ASSUME NEW S, NEW s \in Seq(S), NEW i \in 1..Len(s) + 1, NEW x \in S
  PROVE  Range(InsertAt(s, i, x)) = Range(s) \cup {x}
<1> DEFINE t == InsertAt(s, i, x)
<1>1. /\ t \in Seq(S) /\ Len(t) = Len(s) + 1
      /\ \A j \in 1..Len(s) + 1 : t[j] = IF j < i THEN s[j] ELSE IF j = i THEN x ELSE s[j-1]
  BY InsertAtProperties
<1> HIDE DEF t
<1>2. /\ \A y : y \in Range(s) <=> \E j \in 1..Len(s) : s[j] = y
      /\ \A y : y \in Range(t) <=> \E j \in 1..Len(t) : t[j] = y
  BY <1>1, RangeOfSequence
<1>3. i \in Nat /\ Len(s) \in Nat /\ 1 <= i /\ i <= Len(s) + 1
  BY LenProperties
<1>4. ASSUME NEW y \in Range(s) PROVE y \in Range(t)
  <2>1. PICK j \in 1..Len(s) : s[j] = y
    BY <1>2
  <2>2. CASE j < i
    BY <1>1, <1>2, <1>3, <2>1, <2>2
  <2>3. CASE ~ (j < i)
    <3>1. j + 1 \in 1..Len(s) + 1 /\ ~ (j + 1 < i) /\ j + 1 # i /\ j + 1 - 1 = j
      BY <1>3, <2>3
    <3>2. t[j + 1] = y
      BY <1>1, <2>1, <3>1
    <3> QED
      BY <1>1, <1>2, <3>1, <3>2
  <2> QED
    BY <2>2, <2>3
<1>5. x \in Range(t)
  BY <1>1, <1>2, <1>3
<1>6. ASSUME NEW y \in Range(t) PROVE y \in Range(s) \cup {x}
  <2>1. PICK j \in 1..Len(s) + 1 : t[j] = y
    BY <1>1, <1>2
  <2>2. t[j] = IF j < i THEN s[j] ELSE IF j = i THEN x ELSE s[j-1]
    BY <1>1
  <2>3. /\ j < i => j \in 1..Len(s)
        /\ ~ (j < i) /\ j # i => j-1 \in 1..Len(s)
    BY <1>3
  <2> QED
    BY <1>2, <2>1, <2>2, <2>3
<1> QED
  BY <1>4, <1>5, <1>6 DEF t

LEMMA RangeOfRemoveAt ==
  ASSUME NEW S, NEW s \in Seq(S), NEW i \in 1..Len(s),
         \A j, k \in 1..Len(s) : s[j] = s[k] => j = k
  PROVE  Range(RemoveAt(s, i)) = Range(s) \ {s[i]}
<1> DEFINE t == RemoveAt(s, i)
<1>0. i \in DOMAIN s
  BY LenProperties
<1>1. /\ t \in Seq(S) /\ Len(t) = Len(s) - 1
      /\ \A j \in 1..Len(s) - 1 : t[j] = IF j < i THEN s[j] ELSE s[j+1]
  BY <1>0, RemoveAtProperties
<1> HIDE DEF t
<1>2. /\ \A y : y \in Range(s) <=> \E j \in 1..Len(s) : s[j] = y
      /\ \A y : y \in Range(t) <=> \E j \in 1..Len(t) : t[j] = y
  BY <1>1, RangeOfSequence
<1>3. i \in Nat /\ Len(s) \in Nat /\ 1 <= i /\ i <= Len(s)
  BY LenProperties
<1>4. ASSUME NEW y \in Range(s) \ {s[i]} PROVE y \in Range(t)
  <2>1. PICK j \in 1..Len(s) : s[j] = y
    BY <1>2
  <2>2. CASE j < i
    <3>1. j \in 1..Len(s) - 1
      BY <1>3, <2>2
    <3> QED
      BY <1>1, <1>2, <2>1, <2>2, <3>1
  <2>3. CASE ~ (j < i)
    <3>1. j # i
      BY <2>1
    <3>2. j - 1 \in 1..Len(s) - 1 /\ ~ (j - 1 < i) /\ j - 1 + 1 = j
      BY <1>3, <2>3, <3>1
    <3>3. t[j - 1] = y
      BY <1>1, <2>1, <3>2
    <3> QED
      BY <1>1, <1>2, <3>2, <3>3
  <2> QED
    BY <2>2, <2>3
<1>5. ASSUME NEW y \in Range(t) PROVE y \in Range(s) \ {s[i]}
  <2>1. PICK j \in 1..Len(s) - 1 : t[j] = y
    BY <1>1, <1>2
  <2>2. t[j] = IF j < i THEN s[j] ELSE s[j+1]
    BY <1>1
  <2>3. j \in 1..Len(s) /\ j + 1 \in 1..Len(s) /\ (j < i => j # i) /\ (~ (j < i) => j + 1 # i)
    BY <1>3
  <2> QED
    BY <1>2, <2>1, <2>2, <2>3
<1> QED
  BY <1>4, <1>5 DEF t

-----------------------------------------------------------------------------
(* Recursive functions.                                                    *)


LEMMA LeastNatural ==
  ASSUME NEW T, T \subseteq Nat, T # {}
  PROVE  \E x \in T : \A y \in T : x <= y
<1>1. PICK x \in T : \A y \in T : ~ (<<y, x>> \in OpToRel(<, Nat))
  BY NatLessThanWellFounded, WFMin
<1>2. \A y \in T : ~ (y < x)
  BY <1>1 DEF OpToRel
<1> QED
  BY <1>2

\* A recursion on D with values in T: every d of rank 0 has a value, and each
\* other one has a value computed from that of pred[d], which has a lower rank.
Decreasing(D, T, rank, pred, base, G) ==
  /\ rank \in [D -> Nat] /\ pred \in [D -> D]
  /\ base \in [D -> T] /\ G \in [D -> [T -> T]]
  /\ \A d \in D : rank[d] > 0 => rank[pred[d]] < rank[d]

Solves(h, D, T, rank, pred, base, G) ==
  /\ h \in [D -> T]
  /\ \A d \in D : h[d] = IF rank[d] = 0 THEN base[d] ELSE G[d][h[pred[d]]]

LEMMA RankedRecursion ==
  ASSUME NEW D, NEW T, NEW rank, NEW pred, NEW base, NEW G,
         Decreasing(D, T, rank, pred, base, G)
  PROVE  \E h : Solves(h, D, T, rank, pred, base, G)
<1> USE DEF Decreasing
<1> DEFINE Below(k) == {d \in D : rank[d] < k}
           Value(h, d) == IF rank[d] = 0 THEN base[d] ELSE G[d][h[pred[d]]]
           Good(k, h) == h \in [D -> T] /\ \A d \in Below(k) : h[d] = Value(h, d)
           Bad == {k \in Nat : ~ \E h : Good(k, h)}
<1>1. Bad = {}
  <2> SUFFICES ASSUME Bad # {} PROVE FALSE
    OBVIOUS
  <2>1. PICK k \in Bad : \A j \in Bad : k <= j
    BY LeastNatural
  <2>2. k # 0
    <3>1. base \in [D -> T] /\ Below(0) = {}
      OBVIOUS
    <3>2. Good(0, base)
      BY <3>1
    <3> QED
      BY <3>2
  <2>3. k - 1 \in Nat /\ k - 1 \notin Bad
    <3>1. k \in Nat
      OBVIOUS
    <3> HIDE DEF Bad
    <3> QED
      BY <3>1, <2>1, <2>2
  <2>4. PICK h : Good(k - 1, h)
    BY <2>3
  <2> DEFINE next == [d \in D |-> Value(h, d)]
  <2>5. next \in [D -> T]
    <3> SUFFICES ASSUME NEW d \in D PROVE Value(h, d) \in T
      OBVIOUS
    <3> QED
      BY <2>4
  <2>6. ASSUME NEW d \in Below(k) PROVE next[d] = Value(next, d)
    <3>1. CASE rank[d] = 0
      BY <3>1
    <3>2. CASE rank[d] > 0
      <4>1. pred[d] \in Below(k - 1)
        BY <3>2, <2>1
      <4>2. h[pred[d]] = next[pred[d]]
        BY <4>1, <2>4
      <4>3. next[d] = G[d][h[pred[d]]]
        BY <3>2
      <4> HIDE DEF next
      <4> QED
        BY <4>2, <4>3, <3>2
    <3>3. rank[d] \in Nat
      OBVIOUS
    <3> HIDE DEF next, Value
    <3> QED
      BY <3>1, <3>2, <3>3
  <2>7. Good(k, next)
    BY <2>5, <2>6
  <2> HIDE DEF Good
  <2> QED
    BY <2>7, <2>1
<1> DEFINE some(k) == CHOOSE h : Good(k, h)
<1>2. \A k \in Nat : Good(k, some(k))
  BY <1>1
<1> HIDE DEF some
\* Two of them agree where both have the values they should have.
<1>3. ASSUME NEW h1, NEW h2, NEW j \in Nat, NEW k \in Nat, j <= k, Good(j, h1), Good(k, h2)
      PROVE  \A d \in Below(j) : h1[d] = h2[d]
  <2> DEFINE Differ == {i \in Nat : \E d \in Below(j) : rank[d] = i /\ h1[d] # h2[d]}
  <2> SUFFICES ASSUME Differ # {} PROVE FALSE
    OBVIOUS
  <2>1. PICK i \in Differ : \A m \in Differ : i <= m
    BY LeastNatural
  <2>2. PICK d \in Below(j) : rank[d] = i /\ h1[d] # h2[d]
    BY <2>1
  <2>3. d \in Below(k) /\ h1[d] = Value(h1, d) /\ h2[d] = Value(h2, d)
    BY <1>3
  <2>4. rank[d] > 0
    BY <2>3, <2>2
  <2>5. pred[d] \in Below(j) /\ rank[pred[d]] < i
    BY <2>4, <2>2
  <2>6. rank[pred[d]] \notin Differ
    BY <2>5, <2>1
  <2>7. h1[pred[d]] = h2[pred[d]]
    BY <2>6, <2>5
  <2> QED
    BY <2>7, <2>3, <2>2
<1> DEFINE h == [d \in D |-> some(rank[d] + 1)[d]]
<1>4. h \in [D -> T]
  BY <1>2
<1>5. ASSUME NEW d \in D PROVE h[d] = Value(h, d)
  <2> DEFINE k == rank[d] + 1
  <2>1. k \in Nat /\ d \in Below(k) /\ Good(k, some(k))
    BY <1>2
  <2>2. h[d] = Value(some(k), d)
    BY <2>1
  <2>3. CASE rank[d] = 0
    BY <2>2, <2>3
  <2>4. CASE rank[d] > 0
    <3> DEFINE j == rank[pred[d]] + 1
    <3>1. j \in Nat /\ j <= k /\ pred[d] \in Below(j) /\ Good(j, some(j))
      BY <1>2, <2>4
    <3>2. some(j)[pred[d]] = some(k)[pred[d]]
      <4> HIDE DEF Good, j, k
      <4> QED
        BY <3>1, <2>1, <1>3
    <3>3. h[pred[d]] = some(k)[pred[d]]
      BY <3>2
    <3> QED
      BY <3>3, <2>2, <2>4
  <2> QED
    BY <2>3, <2>4
<1> HIDE DEF h
<1> QED
  BY <1>4, <1>5 DEF Solves

-----------------------------------------------------------------------------
(* Folding a sequence from the left, as FoldLeft does: over the sets of    *)
(* the places that have been folded, the greatest place last.              *)

LEMMA MaxOfPlaces ==
  ASSUME NEW n \in Nat, NEW s \in SUBSET (1..n), s # {}
  PROVE  Max(s) \in s /\ \A y \in s : Max(s) >= y
<1> DEFINE Above == {m \in Nat : \A y \in s : y <= m}
<1>1. Above # {}
  BY DEF Above
<1>2. PICK m \in Above : \A k \in Above : m <= k
  BY <1>1, LeastNatural
<1>3. m \in s
  <2> SUFFICES ASSUME m \notin s PROVE FALSE
    OBVIOUS
  <2>1. PICK y \in s : TRUE
    OBVIOUS
  <2>2. y \in Nat /\ y >= 1 /\ y <= m
    BY <1>2
  <2>3. m - 1 \in Nat /\ \A z \in s : z <= m - 1
    BY <1>2, <2>2
  <2> QED
    BY <1>2, <2>3
<1>4. m \in s /\ \A y \in s : m >= y
  BY <1>2, <1>3
<1> QED
  BY <1>4 DEF Max

LEMMA MaxOfInterval ==
  ASSUME NEW k \in Nat, k # 0
  PROVE  Max(1..k) = k /\ (1..k) \ {k} = 1..(k - 1) /\ 1..k # {}
<1>1. /\ 1..k # {} /\ 1..k \in SUBSET (1..k) /\ (1..k) \ {k} = 1..(k - 1)
  OBVIOUS
<1>2. Max(1..k) \in 1..k /\ \A y \in 1..k : Max(1..k) >= y
  BY <1>1, MaxOfPlaces
<1> QED
  BY <1>1, <1>2

\* h is what FoldLeft computes, with G[i] for the operation on the i-th element.
FoldsFrom(h, n, T, base, G) ==
  /\ h \in [SUBSET (1..n) -> T]
  /\ \A s \in SUBSET (1..n) : h[s] = IF s = {} THEN base ELSE G[Max(s)][h[s \ {Max(s)}]]

LEMMA FoldExists ==
  ASSUME NEW n \in Nat, NEW T, NEW base \in T, NEW G \in [1..n -> [T -> T]]
  PROVE  \E h : FoldsFrom(h, n, T, base, G)
<1> DEFINE D == SUBSET (1..n)
           rank == [s \in D |-> Cardinality(s)]
           pred == [s \in D |-> s \ {Max(s)}]
           first == [s \in D |-> base]
           F == [s \in D |-> [t \in T |-> IF s = {} THEN base ELSE G[Max(s)][t]]]
<1>1. ASSUME NEW s \in D
      PROVE  /\ Cardinality(s) \in Nat
             /\ Cardinality(s) = 0 <=> s = {}
             /\ s # {} => /\ Max(s) \in s /\ Max(s) \in 1..n
                          /\ Cardinality(s \ {Max(s)}) = Cardinality(s) - 1
  <2>1. IsFiniteSet(s)
    <3>1. IsFiniteSet(1..n) /\ s \subseteq 1..n
      BY FS_Interval
    <3> QED
      BY <3>1, FS_Subset
  <2>2. s # {} => Max(s) \in s
    BY MaxOfPlaces
  <2> QED
    BY <2>1, <2>2, FS_CardinalityType, FS_EmptySet, FS_RemoveElement
<1>2. rank \in [D -> Nat] /\ pred \in [D -> D] /\ first \in [D -> T]
  <2>1. \A s \in D : Cardinality(s) \in Nat
    BY <1>1
  <2>2. \A s \in D : s \ {Max(s)} \in D
    OBVIOUS
  <2>3. pred \in [D -> D]
    BY <2>2
  <2> QED
    BY <2>1, <2>3
<1>3. F \in [D -> [T -> T]]
  <2>1. \A s \in D : s # {} => G[Max(s)] \in [T -> T]
    BY <1>1
  <2> QED
    BY <2>1
<1>4. \A s \in D : rank[s] > 0 => rank[pred[s]] < rank[s]
  <2>1. \A s \in D : Cardinality(s) \in Nat /\ (Cardinality(s) = 0 <=> s = {})
    BY <1>1
  <2>2. \A s \in D : s # {} => Cardinality(s \ {Max(s)}) = Cardinality(s) - 1
    BY <1>1
  <2>3. \A s \in D : rank[s] = Cardinality(s) /\ rank[pred[s]] = Cardinality(s \ {Max(s)})
    BY <1>2
  <2> SUFFICES ASSUME NEW s \in D, rank[s] > 0 PROVE rank[pred[s]] < rank[s]
    OBVIOUS
  <2> DEFINE m == Cardinality(s)
             k == Cardinality(s \ {Max(s)})
  <2>4. m \in Nat /\ m > 0 /\ (m # 0 => k = m - 1) /\ rank[s] = m /\ rank[pred[s]] = k
    BY <2>1, <2>2, <2>3
  <2> HIDE DEF m, k, rank, pred
  <2> QED
    BY <2>4
<1>5. PICK h \in [D -> T] :
        \A s \in D : h[s] = IF rank[s] = 0 THEN first[s] ELSE F[s][h[pred[s]]]
  <2>1. Decreasing(D, T, rank, pred, first, F)
    <3> HIDE DEF D, rank, pred, first, F
    <3> QED
      BY <1>2, <1>3, <1>4 DEF Decreasing
  <2> HIDE DEF D, rank, pred, first, F
  <2>2. PICK h : Solves(h, D, T, rank, pred, first, F)
    BY <2>1, RankedRecursion
  <2> QED
    BY <2>2 DEF Solves
<1>6. ASSUME NEW s \in D PROVE h[s] = IF s = {} THEN base ELSE G[Max(s)][h[s \ {Max(s)}]]
  <2>1. h[s] = IF rank[s] = 0 THEN first[s] ELSE F[s][h[pred[s]]]
    BY <1>5
  <2>2. pred[s] \in D /\ h[pred[s]] \in T
    BY <1>2, <1>5
  <2>3. CASE s = {}
    BY <2>1, <2>3, <1>1
  <2>4. CASE s # {}
    BY <2>1, <2>4, <1>1, <2>2
  <2> QED
    BY <2>3, <2>4
<1> QED
  BY <1>6 DEF FoldsFrom

-----------------------------------------------------------------------------
(* Sums over a finite set.                                                 *)

Some(s) == CHOOSE x \in s : TRUE

\* What MapThenFoldSet computes on its way to the sum of f over S.
PartialSums(f, S) ==
  CHOOSE iter : iter = [s \in SUBSET S |-> IF s = {} THEN 0 ELSE f[Some(s)] + iter[s \ {Some(s)}]]

LEMMA SumIsPartialSum ==
  ASSUME NEW f, NEW S
  PROVE  SumFunctionOnSet(f, S) = PartialSums(f, S)[S]
BY DEF SumFunctionOnSet, FoldFunctionOnSet, MapThenFoldSet, PartialSums, Some

LEMMA PartialSumsExist ==
  ASSUME NEW S, IsFiniteSet(S), NEW f \in [S -> Int]
  PROVE  LET g == PartialSums(f, S)
         IN /\ g \in [SUBSET S -> Int]
            /\ g[{}] = 0
            /\ \A s \in SUBSET S : s # {} => g[s] = f[Some(s)] + g[s \ {Some(s)}]
<1> DEFINE D == SUBSET S
           rank == [s \in D |-> Cardinality(s)]
           pred == [s \in D |-> s \ {Some(s)}]
           base == [s \in D |-> 0]
           G == [s \in D |-> [n \in Int |-> IF s = {} THEN 0 ELSE f[Some(s)] + n]]
           Value(h, s) == IF s = {} THEN 0 ELSE f[Some(s)] + h[s \ {Some(s)}]
<1>1. ASSUME NEW s \in D
      PROVE  /\ Cardinality(s) \in Nat
             /\ Cardinality(s) = 0 <=> s = {}
             /\ s # {} => /\ Some(s) \in s
                          /\ Cardinality(s \ {Some(s)}) = Cardinality(s) - 1
  <2>1. IsFiniteSet(s)
    BY FS_Subset
  <2> QED
    BY <2>1, FS_CardinalityType, FS_EmptySet, FS_RemoveElement DEF Some
<1>2. rank \in [D -> Nat] /\ pred \in [D -> D] /\ base \in [D -> Int]
  <2>1. \A s \in D : Cardinality(s) \in Nat
    BY <1>1
  <2>2. rank \in [D -> Nat] /\ base \in [D -> Int]
    BY <2>1
  <2>3. \A s \in D : s \ {Some(s)} \in D
    OBVIOUS
  <2>4. pred \in [D -> D]
    BY <2>3
  <2> QED
    BY <2>2, <2>4
<1>3. G \in [D -> [Int -> Int]]
  <2>1. \A s \in D : s # {} => f[Some(s)] \in Int
    BY <1>1
  <2> QED
    BY <2>1
<1>4. \A s \in D : rank[s] > 0 => rank[pred[s]] < rank[s]
  BY <1>1
<1>5. PICK h \in [D -> Int] :
        \A s \in D : h[s] = IF rank[s] = 0 THEN base[s] ELSE G[s][h[pred[s]]]
  <2>1. Decreasing(D, Int, rank, pred, base, G)
    <3> HIDE DEF D, rank, pred, base, G
    <3> QED
      BY <1>2, <1>3, <1>4 DEF Decreasing
  <2> HIDE DEF D, rank, pred, base, G
  <2>2. PICK h : Solves(h, D, Int, rank, pred, base, G)
    BY <2>1, RankedRecursion
  <2> QED
    BY <2>2 DEF Solves
<1>6. ASSUME NEW s \in D PROVE h[s] = Value(h, s)
  <2>1. h[s] = IF rank[s] = 0 THEN base[s] ELSE G[s][h[pred[s]]]
    BY <1>5
  <2>2. pred[s] \in D /\ h[pred[s]] \in Int
    BY <1>2, <1>5
  <2>4. CASE s = {}
    BY <2>1, <2>4, <1>1
  <2>5. CASE s # {}
    BY <2>1, <2>5, <1>1, <2>2
  <2> QED
    BY <2>4, <2>5
<1>7. h = [s \in D |-> Value(h, s)]
  BY <1>5, <1>6
<1> DEFINE g == PartialSums(f, S)
<1>8. g = [s \in D |-> Value(g, s)]
  BY <1>7 DEF PartialSums
<1>9. g \in [D -> Int]
  <2> DEFINE Bad == {n \in Nat : \E s \in D : Cardinality(s) = n /\ g[s] \notin Int}
  <2>1. Bad = {}
    <3> SUFFICES ASSUME Bad # {} PROVE FALSE
      OBVIOUS
    <3>1. PICK n \in Bad : \A m \in Bad : n <= m
      BY LeastNatural
    <3>2. PICK s \in D : Cardinality(s) = n /\ g[s] \notin Int
      BY <3>1
    <3>3. g[s] = Value(g, s)
      BY <1>8
    <3>4. s # {}
      BY <3>2, <3>3
    <3>5. s \ {Some(s)} \in D /\ Cardinality(s \ {Some(s)}) = n - 1 /\ n - 1 \in Nat
      BY <3>4, <3>2, <1>1
    <3>6. g[s \ {Some(s)}] \in Int
      BY <3>5, <3>1
    <3> QED
      BY <3>6, <3>3, <3>4, <3>2, <1>1
  <2>2. \A s \in D : g[s] \in Int
    BY <2>1, <1>1
  <2> HIDE DEF g
  <2> QED
    BY <1>8, <2>2
<1> HIDE DEF g
<1>10. {} \in D
  OBVIOUS
<1> QED
  BY <1>8, <1>9, <1>10 DEF g

\* The order in which elements are taken does not matter.
LEMMA PartialSumsRemove ==
  ASSUME NEW S, IsFiniteSet(S), NEW f \in [S -> Int]
  PROVE  LET g == PartialSums(f, S)
         IN \A s \in SUBSET S : \A x \in s : g[s] = f[x] + g[s \ {x}]
<1> DEFINE g == PartialSums(f, S)
           Holds(s) == \A x \in s : g[s] = f[x] + g[s \ {x}]
           Bad == {n \in Nat : \E s \in SUBSET S : Cardinality(s) = n /\ ~ Holds(s)}
<1>1. /\ g \in [SUBSET S -> Int]
      /\ \A s \in SUBSET S : s # {} => g[s] = f[Some(s)] + g[s \ {Some(s)}]
  BY PartialSumsExist
<1> HIDE DEF g
<1>2. ASSUME NEW s \in SUBSET S
      PROVE  Cardinality(s) \in Nat /\ \A x \in s : Cardinality(s \ {x}) = Cardinality(s) - 1
  BY FS_Subset, FS_CardinalityType, FS_RemoveElement
<1>3. Bad = {}
  <2> SUFFICES ASSUME Bad # {} PROVE FALSE
    OBVIOUS
  <2>1. PICK n \in Bad : \A m \in Bad : n <= m
    BY LeastNatural
  <2>2. PICK s \in SUBSET S : Cardinality(s) = n /\ ~ Holds(s)
    BY <2>1
  <2>3. PICK x \in s : g[s] # f[x] + g[s \ {x}]
    BY <2>2
  <2> DEFINE y == Some(s)
  <2>4. y \in s /\ g[s] = f[y] + g[s \ {y}]
    BY <2>3, <1>1 DEF Some
  <2>5. x # y
    BY <2>3, <2>4
  <2>6. ASSUME NEW z \in s PROVE Holds(s \ {z})
    <3>1. Cardinality(s \ {z}) = n - 1 /\ n - 1 \in Nat /\ s \ {z} \in SUBSET S
      BY <1>2, <2>2
    <3> HIDE DEF Holds
    <3> QED
      BY <3>1, <2>1
  <2> HIDE DEF y
  <2>7. x \in s \ {y} /\ y \in s \ {x}
    BY <2>5, <2>4
  <2>8. g[s \ {y}] = f[x] + g[(s \ {y}) \ {x}] /\ g[s \ {x}] = f[y] + g[(s \ {x}) \ {y}]
    BY <2>6, <2>7, <2>4
  <2>9. (s \ {y}) \ {x} = (s \ {x}) \ {y}
    OBVIOUS
  <2> DEFINE rest == (s \ {x}) \ {y}
  <2>10. f[x] \in Int /\ f[y] \in Int /\ g[rest] \in Int
    BY <1>1, <2>4
  <2>11. g[s \ {y}] = f[x] + g[rest] /\ g[s \ {x}] = f[y] + g[rest]
    BY <2>8, <2>9
  <2> HIDE DEF rest
  <2>12. g[s] = f[y] + (f[x] + g[rest]) /\ g[s] # f[x] + (f[y] + g[rest])
    BY <2>3, <2>4, <2>11
  <2> QED
    BY <2>12, <2>10
<1>4. ASSUME NEW s \in SUBSET S PROVE Holds(s)
  BY <1>3, <1>2
<1> QED
  BY <1>4 DEF g

\* Two functions that agree on a set have the same sum over it.
LEMMA PartialSumsAgree ==
  ASSUME NEW S, IsFiniteSet(S), NEW f1 \in [S -> Int], NEW f2 \in [S -> Int],
         NEW s \in SUBSET S, \A x \in s : f1[x] = f2[x]
  PROVE  PartialSums(f1, S)[s] = PartialSums(f2, S)[s]
<1> DEFINE g1 == PartialSums(f1, S)
           g2 == PartialSums(f2, S)
           Bad == {n \in Nat : \E t \in SUBSET s : Cardinality(t) = n /\ g1[t] # g2[t]}
<1>1. \A t \in SUBSET S : /\ t = {} => g1[t] = 0 /\ g2[t] = 0
                          /\ t # {} => /\ g1[t] = f1[Some(t)] + g1[t \ {Some(t)}]
                                       /\ g2[t] = f2[Some(t)] + g2[t \ {Some(t)}]
  BY PartialSumsExist
<1> HIDE DEF g1, g2
<1>2. ASSUME NEW t \in SUBSET s
      PROVE  Cardinality(t) \in Nat /\ \A x \in t : Cardinality(t \ {x}) = Cardinality(t) - 1
  BY FS_Subset, FS_CardinalityType, FS_RemoveElement
<1>3. Bad = {}
  <2> SUFFICES ASSUME Bad # {} PROVE FALSE
    OBVIOUS
  <2>1. PICK n \in Bad : \A m \in Bad : n <= m
    BY LeastNatural
  <2>2. PICK t \in SUBSET s : Cardinality(t) = n /\ g1[t] # g2[t]
    BY <2>1
  <2>3. t # {}
    BY <2>2, <1>1
  <2>4. Some(t) \in t
    BY <2>3 DEF Some
  <2>5. t \ {Some(t)} \in SUBSET s /\ Cardinality(t \ {Some(t)}) = n - 1 /\ n - 1 \in Nat
    BY <2>4, <2>2, <1>2
  <2>6. g1[t \ {Some(t)}] = g2[t \ {Some(t)}]
    BY <2>5, <2>1
  <2> QED
    BY <2>6, <2>4, <2>3, <2>2, <1>1
<1>4. g1[s] = g2[s]
  BY <1>3, <1>2
<1> QED
  BY <1>4 DEF g1, g2

\* A sum is an integer, 0 if all summands are, and grows as a summand does.
LEMMA SumTyped ==
  ASSUME NEW S, IsFiniteSet(S), NEW f \in [S -> Int]
  PROVE  SumFunction(f) \in Int
<1> DEFINE g == PartialSums(f, S)
<1>1. g \in [SUBSET S -> Int] /\ S \in SUBSET S
  BY PartialSumsExist
<1>2. SumFunction(f) = g[S]
  <2>1. DOMAIN f = S
    OBVIOUS
  <2> HIDE DEF g
  <2> QED
    BY <2>1, SumIsPartialSum DEF SumFunction, g
<1> HIDE DEF g
<1> QED
  BY <1>1, <1>2

LEMMA SumOfZeros ==
  ASSUME NEW S, IsFiniteSet(S)
  PROVE  SumFunction([x \in S |-> 0]) = 0
<1> DEFINE f == [x \in S |-> 0]
           g == PartialSums(f, S)
           Bad == {n \in Nat : \E s \in SUBSET S : Cardinality(s) = n /\ g[s] # 0}
<1>0. f \in [S -> Int]
  OBVIOUS
<1>1. \A s \in SUBSET S : /\ s = {} => g[s] = 0
                          /\ s # {} => g[s] = f[Some(s)] + g[s \ {Some(s)}]
  BY <1>0, PartialSumsExist
<1> HIDE DEF g
<1>2. ASSUME NEW t \in SUBSET S
      PROVE  Cardinality(t) \in Nat /\ \A x \in t : Cardinality(t \ {x}) = Cardinality(t) - 1
  BY FS_Subset, FS_CardinalityType, FS_RemoveElement
<1>3. Bad = {}
  <2> SUFFICES ASSUME Bad # {} PROVE FALSE
    OBVIOUS
  <2>1. PICK n \in Bad : \A m \in Bad : n <= m
    BY LeastNatural
  <2>2. PICK s \in SUBSET S : Cardinality(s) = n /\ g[s] # 0
    BY <2>1
  <2>3. s # {}
    BY <2>2, <1>1
  <2>4. Some(s) \in s
    BY <2>3 DEF Some
  <2>5. s \ {Some(s)} \in SUBSET S /\ Cardinality(s \ {Some(s)}) = n - 1 /\ n - 1 \in Nat
    BY <2>4, <2>2, <1>2
  <2>6. g[s \ {Some(s)}] = 0
    BY <2>5, <2>1
  <2>7. f[Some(s)] = 0
    BY <2>4
  <2> QED
    BY <2>6, <2>7, <2>3, <2>2, <1>1
<1>4. g[S] = 0
  BY <1>3, <1>2
<1>5. SumFunctionOnSet(f, S) = 0
  BY <1>4, SumIsPartialSum DEF g
<1> QED
  BY <1>5 DEF SumFunction

LEMMA SumOfChange ==
  ASSUME NEW S, IsFiniteSet(S), NEW f \in [S -> Int], NEW x \in S, NEW y \in Int
  PROVE  SumFunction([f EXCEPT ![x] = y]) = SumFunction(f) - f[x] + y
<1> DEFINE f2 == [f EXCEPT ![x] = y]
           g1 == PartialSums(f, S)
           g2 == PartialSums(f2, S)
<1>1. f2 \in [S -> Int] /\ f2[x] = y
  OBVIOUS
<1>2. g1[S] = f[x] + g1[S \ {x}] /\ g2[S] = y + g2[S \ {x}]
  <2>1. S \in SUBSET S
    OBVIOUS
  <2> HIDE DEF f2
  <2>2. /\ \A s \in SUBSET S : \A z \in s : g1[s] = f[z] + g1[s \ {z}]
        /\ \A s \in SUBSET S : \A z \in s : g2[s] = f2[z] + g2[s \ {z}]
    BY <1>1, PartialSumsRemove
  <2> HIDE DEF g1, g2
  <2> QED
    BY <2>1, <2>2, <1>1
<1>3. g1[S \ {x}] = g2[S \ {x}]
  <2>1. \A z \in S \ {x} : f[z] = f2[z]
    OBVIOUS
  <2> HIDE DEF f2
  <2> QED
    BY <1>1, <2>1, PartialSumsAgree
<1>4. g1[S \ {x}] \in Int /\ g2[S \ {x}] \in Int
  <2>1. S \ {x} \in SUBSET S
    OBVIOUS
  <2> HIDE DEF f2
  <2>2. g1 \in [SUBSET S -> Int] /\ g2 \in [SUBSET S -> Int]
    BY <1>1, PartialSumsExist
  <2> HIDE DEF g1, g2
  <2> QED
    BY <2>1, <2>2
<1>5. SumFunction(f) = g1[S] /\ SumFunction(f2) = g2[S]
  <2>1. DOMAIN f = S /\ DOMAIN f2 = S
    OBVIOUS
  <2> HIDE DEF f2, g1, g2
  <2> QED
    BY <2>1, SumIsPartialSum DEF SumFunction, g1, g2
<1> HIDE DEF g1, g2, f2
<1>6. g2[S] = g1[S] - f[x] + y
  BY <1>2, <1>3, <1>4
<1> QED
  BY <1>5, <1>6 DEF f2

-----------------------------------------------------------------------------
(* Powers of two, which count the subsets of an interval, and division.    *)

LEMMA PowerCounts ==
  ASSUME NEW n \in Nat
  PROVE  2^n \in Nat /\ 2^n = Cardinality(SUBSET (1..n))
<1>1. IsFiniteSet(1..n) /\ Cardinality(1..n) = n
  BY FS_Interval
<1>2. IsFiniteSet(SUBSET (1..n)) /\ Cardinality(SUBSET (1..n)) = 2^n
  BY <1>1, FS_SUBSET
<1> QED
  BY <1>2, FS_CardinalityType

LEMMA PowerDoubles ==
  ASSUME NEW n \in Nat
  PROVE  2^(n + 1) = 2 * 2^n
<1> DEFINE A == SUBSET (1..n)
           B == {s \cup {n + 1} : s \in A}
           f == [s \in A |-> s \cup {n + 1}]
<1>1. SUBSET (1..(n + 1)) = A \cup B
  <2>1. ASSUME NEW s \in SUBSET (1..(n + 1)) PROVE s \in A \cup B
    <3>1. CASE n + 1 \in s
      <4>1. s \ {n + 1} \in A
        OBVIOUS
      <4>2. s = (s \ {n + 1}) \cup {n + 1}
        BY <3>1
      <4> QED
        BY <4>1, <4>2
    <3>2. CASE n + 1 \notin s
      BY <3>2
    <3> QED
      BY <3>1, <3>2
  <2>2. ASSUME NEW s \in A PROVE s \in SUBSET (1..(n + 1)) /\ s \cup {n + 1} \in SUBSET (1..(n + 1))
    OBVIOUS
  <2>3. B \subseteq SUBSET (1..(n + 1)) /\ A \subseteq SUBSET (1..(n + 1))
    BY <2>2, ZenonT(60)
  <2> HIDE DEF A, B
  <2> QED
    BY <2>1, <2>3
<1>2. A \cap B = {}
  OBVIOUS
<1>3. IsFiniteSet(A) /\ Cardinality(A) = 2^n /\ 2^n \in Nat
  <2>1. IsFiniteSet(1..n)
    BY FS_Interval
  <2>2. IsFiniteSet(A)
    BY <2>1, FS_SUBSET
  <2> QED
    BY <2>2, PowerCounts
<1>4. f \in Bijection(A, B)
  <2>1. f \in [A -> B]
    OBVIOUS
  <2>2. \A s, t \in A : f[s] = f[t] => s = t
    <3> SUFFICES ASSUME NEW s \in A, NEW t \in A, s \cup {n + 1} = t \cup {n + 1} PROVE s = t
      OBVIOUS
    <3>1. n + 1 \notin s /\ n + 1 \notin t
      OBVIOUS
    <3> QED
      BY <3>1
  <2>3. \A b \in B : \E s \in A : f[s] = b
    OBVIOUS
  <2> HIDE DEF f, A, B
  <2>4. f \in Injection(A, B) /\ f \in Surjection(A, B)
    BY <2>1, <2>2, <2>3 DEF Injection, IsInjective, Surjection
  <2> QED
    BY <2>4 DEF Bijection
<1>5. IsFiniteSet(B) /\ Cardinality(B) = Cardinality(A)
  <2>1. ExistsBijection(A, B)
    BY <1>4 DEF ExistsBijection
  <2> QED
    BY <2>1, <1>3, FS_Bijection
<1>6. Cardinality(A \cup B) = Cardinality(A) + Cardinality(B) - Cardinality(A \cap B)
  BY <1>3, <1>5, FS_Union
<1>7. Cardinality(A \cap B) = 0
  BY <1>2, FS_EmptySet
<1>8. 2^(n + 1) = Cardinality(SUBSET (1..(n + 1)))
  BY PowerCounts
<1> HIDE DEF A, B, f
<1>9. 2^(n + 1) = 2^n + 2^n - 0
  BY <1>1, <1>3, <1>5, <1>6, <1>7, <1>8
<1> QED
  BY <1>3, <1>9

LEMMA PowersGrow ==
  ASSUME NEW n \in Nat, NEW k \in Nat, k <= n
  PROVE  2^k <= 2^n
<1>1. IsFiniteSet(SUBSET (1..n)) /\ SUBSET (1..k) \subseteq SUBSET (1..n)
  <2>1. IsFiniteSet(1..n)
    BY FS_Interval
  <2>2. IsFiniteSet(SUBSET (1..n))
    BY <2>1, FS_SUBSET
  <2> QED
    BY <2>2
<1>2. Cardinality(SUBSET (1..k)) <= Cardinality(SUBSET (1..n))
  BY <1>1, FS_Subset
<1> QED
  BY <1>2, PowerCounts

LEMMA PowerPositive ==
  ASSUME NEW n \in Nat
  PROVE  2^n \in Nat \ {0} /\ n < 2^n
<1>1. ASSUME NEW m \in Nat PROVE 2^m \in Nat \ {0}
  <2>1. IsFiniteSet(SUBSET (1..m)) /\ SUBSET (1..m) # {}
    <3>1. IsFiniteSet(1..m)
      BY FS_Interval
    <3> QED
      BY <3>1, FS_SUBSET
  <2>2. Cardinality(SUBSET (1..m)) # 0
    BY <2>1, FS_EmptySet
  <2> QED
    BY <2>2, PowerCounts
<1> DEFINE Bad == {m \in Nat : ~ (m < 2^m)}
<1>2. Bad = {}
  <2> SUFFICES ASSUME Bad # {} PROVE FALSE
    OBVIOUS
  <2>1. PICK m \in Bad : \A k \in Bad : m <= k
    BY LeastNatural
  <2>2. m # 0
    <3>1. m \in Nat /\ ~ (m < 2^m) /\ 2^m \in Nat \ {0}
      BY <1>1, <2>1
    <3> QED
      BY <3>1
  <2>3. m \in Nat /\ m - 1 \in Nat /\ m - 1 \notin Bad
    BY <2>1, <2>2
  <2>4. 2^m = 2 * 2^(m - 1)
    <3>1. (m - 1) + 1 = m
      BY <2>3
    <3> QED
      BY <3>1, <2>3, PowerDoubles
  <2>5. m - 1 < 2^(m - 1) /\ 2^(m - 1) \in Nat
    BY <2>3, PowerCounts
  <2>6. ~ (m < 2^m)
    BY <2>1
  <2> QED
    BY <2>3, <2>4, <2>5, <2>6
<1> QED
  BY <1>1, <1>2

LEMMA PowersMultiply ==
  ASSUME NEW n \in Nat, NEW k \in Nat
  PROVE  2^(n + k) = 2^n * 2^k
<1> DEFINE Bad == {m \in Nat : 2^(n + m) # 2^n * 2^m}
<1>1. Bad = {}
  <2> SUFFICES ASSUME Bad # {} PROVE FALSE
    OBVIOUS
  <2>1. PICK m \in Bad : \A j \in Bad : m <= j
    BY LeastNatural
  <2>2. 2^n \in Nat
    BY PowerCounts
  <2>3. m # 0
    <3>1. 2^0 = 1 /\ n + 0 = n
      OBVIOUS
    <3>2. 2^(n + 0) = 2^n * 2^0
      BY <3>1, <2>2
    <3> QED
      BY <3>2, <2>1
  <2>4. m \in Nat /\ m - 1 \in Nat /\ m - 1 \notin Bad
    BY <2>1, <2>3
  <2>5. 2^m = 2 * 2^(m - 1)
    <3>1. (m - 1) + 1 = m
      BY <2>4
    <3> QED
      BY <3>1, <2>4, PowerDoubles
  <2>6. 2^(n + m) = 2 * 2^(n + (m - 1))
    <3>1. (n + (m - 1)) + 1 = n + m /\ n + (m - 1) \in Nat
      BY <2>4
    <3> QED
      BY <3>1, <2>4, PowerDoubles
  <2>7. 2^(m - 1) \in Nat /\ 2^(n + (m - 1)) = 2^n * 2^(m - 1)
    BY <2>4, PowerCounts
  <2>8. 2^n * 2^m = 2 * (2^n * 2^(m - 1))
    BY <2>2, <2>5, <2>7
  <2> QED
    BY <2>1, <2>6, <2>7, <2>8
<1> QED
  BY <1>1

LEMMA Quotient ==
  ASSUME NEW d \in Nat \ {0}, NEW q \in Nat, NEW r \in 0..(d - 1)
  PROVE  (d * q + r) \div d = q /\ (d * q + r) % d = r
OBVIOUS

LEMMA QuotientRemainder ==
  ASSUME NEW d \in Nat \ {0}, NEW a \in Nat
  PROVE  /\ a \div d \in Nat /\ a % d \in 0..(d - 1)
         /\ a = d * (a \div d) + (a % d)
         /\ a < d => a \div d = 0 /\ a % d = a
OBVIOUS

-----------------------------------------------------------------------------
(* The sum of a set of numbers.                                            *)

LEMMA SumOfSet ==
  ASSUME NEW S \in SUBSET Int, IsFiniteSet(S)
  PROVE  /\ SumSet(S) \in Int
         /\ S = {} => SumSet(S) = 0
         /\ \A x \in S : SumSet(S) = x + SumSet(S \ {x})
<1> DEFINE f == [x \in S |-> x]
           g == PartialSums(f, S)
           Value(h, s) == IF s = {} THEN 0 ELSE Some(s) + h[s \ {Some(s)}]
           iter(U) == CHOOSE h : h = [s \in SUBSET U |-> Value(h, s)]
<1>1. f \in [S -> Int] /\ \A x \in S : f[x] = x
  OBVIOUS
<1>2. /\ g \in [SUBSET S -> Int] /\ g[{}] = 0
      /\ \A s \in SUBSET S : s # {} => g[s] = f[Some(s)] + g[s \ {Some(s)}]
      /\ \A s \in SUBSET S : \A x \in s : g[s] = f[x] + g[s \ {x}]
  <2> HIDE DEF f
  <2>1. /\ g \in [SUBSET S -> Int] /\ g[{}] = 0
        /\ \A s \in SUBSET S : s # {} => g[s] = f[Some(s)] + g[s \ {Some(s)}]
    BY <1>1, PartialSumsExist
  <2>2. \A s \in SUBSET S : \A x \in s : g[s] = f[x] + g[s \ {x}]
    BY <1>1, PartialSumsRemove
  <2> QED
    BY <2>1, <2>2
<1> HIDE DEF f, g
<1>3. \A s \in SUBSET S : g[s] = Value(g, s)
  <2> SUFFICES ASSUME NEW s \in SUBSET S PROVE g[s] = Value(g, s)
    OBVIOUS
  <2>1. s # {} => Some(s) \in S
    BY DEF Some
  <2> QED
    BY <2>1, <1>1, <1>2
<1>4. ASSUME NEW U \in SUBSET S
      PROVE  SumSet(U) = g[U]
  <2> DEFINE it == iter(U)
             k == [s \in SUBSET U |-> g[s]]
  <2>1. SumSet(U) = it[U]
    BY DEF SumSet, FoldSet, MapThenFoldSet, Some
  <2>2. k = [s \in SUBSET U |-> Value(k, s)]
    <3>1. ASSUME NEW s \in SUBSET U PROVE Value(g, s) = Value(k, s)
      OBVIOUS
    <3>2. \A s \in SUBSET U : g[s] = Value(k, s)
      BY <3>1, <1>3
    <3> HIDE DEF Value
    <3> QED
      BY <3>2
  <2>3. it = [s \in SUBSET U |-> Value(it, s)]
    <3> HIDE DEF k, Value
    <3> QED
      BY <2>2
  <2> HIDE DEF it, k
  <2> DEFINE Bad == {n \in Nat : \E s \in SUBSET U : Cardinality(s) = n /\ it[s] # g[s]}
  <2>4. ASSUME NEW s \in SUBSET U
        PROVE  Cardinality(s) \in Nat /\ \A x \in s : Cardinality(s \ {x}) = Cardinality(s) - 1
    <3>1. IsFiniteSet(s)
      BY FS_Subset
    <3> QED
      BY <3>1, FS_CardinalityType, FS_RemoveElement
  <2>5. Bad = {}
    <3> SUFFICES ASSUME Bad # {} PROVE FALSE
      OBVIOUS
    <3>1. PICK n \in Bad : \A m \in Bad : n <= m
      BY LeastNatural
    <3>2. PICK s \in SUBSET U : Cardinality(s) = n /\ it[s] # g[s]
      BY <3>1
    <3>3. it[s] = Value(it, s) /\ g[s] = Value(g, s)
      <4> HIDE DEF Value
      <4> QED
        BY <2>3, <1>3
    <3>4. s # {}
      BY <3>2, <3>3
    <3>5. Some(s) \in s
      BY <3>4 DEF Some
    <3>6. s \ {Some(s)} \in SUBSET U /\ Cardinality(s \ {Some(s)}) = n - 1 /\ n - 1 \in Nat
      BY <3>5, <3>2, <2>4
    <3>7. it[s \ {Some(s)}] = g[s \ {Some(s)}]
      BY <3>6, <3>1
    <3> QED
      BY <3>7, <3>3, <3>4, <3>2
  <2> QED
    BY <2>1, <2>4, <2>5
<1>5. S \in SUBSET S /\ \A x \in S : S \ {x} \in SUBSET S
  OBVIOUS
<1>6. SumSet(S) = g[S] /\ g[S] \in Int
  BY <1>2, <1>4, <1>5
<1>7. ASSUME NEW x \in S PROVE SumSet(S) = x + SumSet(S \ {x})
  <2>1. SumSet(S \ {x}) = g[S \ {x}] /\ g[S] = f[x] + g[S \ {x}] /\ f[x] = x
    BY <1>1, <1>2, <1>4, <1>5
  <2> QED
    BY <1>6, <2>1
<1>8. S = {} => SumSet(S) = 0
  BY <1>2, <1>6
<1> QED
  BY <1>6, <1>7, <1>8

-----------------------------------------------------------------------------
(* Folds over the places of a sequence, from the first to the last.        *)

\* What holds at 0, and at each number after one that it holds at, holds up to n.
LEMMA PrefixInduction ==
  ASSUME NEW n \in Nat, NEW S, 0 \in S, \A k \in 1..n : k - 1 \in S => k \in S
  PROVE  \A k \in 0..n : k \in S
<1> DEFINE Bad == {k \in 0..n : k \notin S}
<1> SUFFICES ASSUME Bad # {} PROVE FALSE
  OBVIOUS
<1>1. PICK k \in Bad : \A m \in Bad : k <= m
  <2>1. Bad \subseteq Nat
    OBVIOUS
  <2> HIDE DEF Bad
  <2> QED
    BY <2>1, LeastNatural
<1>2. k \in 1..n /\ k - 1 \in 0..n
  OBVIOUS
<1>3. k - 1 \in S
  BY <1>1, <1>2
<1> QED
  BY <1>2, <1>3

\* The values of a fold, one for each prefix, by what an operation G[k] makes of the last.
IsFold(fold, n, T, base, G) ==
  /\ fold[{}] = base
  /\ \A k \in 1..n : fold[1..(k - 1)] \in T => fold[1..k] = G[k][fold[1..(k - 1)]]
FoldsUpTo(f, n, T, base, G, result) ==
  /\ f \in [0..n -> T] /\ f[0] = base /\ f[n] = result
  /\ \A k \in 1..n : f[k] = G[k][f[k - 1]]

LEMMA FoldPrefixes ==
  ASSUME NEW n \in Nat, NEW T, NEW base \in T, NEW G \in [1..n -> [T -> T]], NEW fold,
         IsFold(fold, n, T, base, G)
  PROVE  \E f : FoldsUpTo(f, n, T, base, G, fold[1..n])
<1> DEFINE f == [k \in 0..n |-> fold[1..k]]
           S == {k \in 0..n : f[k] \in T}
<1>1. 0 \in 0..n /\ 1..0 = {}
  OBVIOUS
<1>2. f[0] = base /\ 0 \in S
  BY <1>1 DEF IsFold
<1>3. ASSUME NEW k \in 1..n, k - 1 \in S
      PROVE  k \in S /\ f[k] = G[k][f[k - 1]]
  <2>1. k \in 0..n /\ k - 1 \in 0..n
    OBVIOUS
  <2>2. f[k] = fold[1..k] /\ f[k - 1] = fold[1..(k - 1)]
    BY <2>1
  <2>3. f[k - 1] \in T
    BY <1>3
  <2>4. f[k] = G[k][f[k - 1]]
    BY <2>2, <2>3 DEF IsFold
  <2>5. G[k][f[k - 1]] \in T
    BY <2>3
  <2> QED
    BY <2>1, <2>4, <2>5
<1>4. \A k \in 0..n : k \in S
  <2> HIDE DEF S, f
  <2> QED
    BY <1>2, <1>3, PrefixInduction
<1>5. f \in [0..n -> T]
  BY <1>4
<1>6. \A k \in 1..n : f[k] = G[k][f[k - 1]]
  <2> SUFFICES ASSUME NEW k \in 1..n PROVE f[k] = G[k][f[k - 1]]
    OBVIOUS
  <2>1. k - 1 \in S
    BY <1>4
  <2> QED
    BY <1>3, <2>1
<1>7. n \in 0..n
  OBVIOUS
<1>8. f[n] = fold[1..n]
  BY <1>7
<1> HIDE DEF S, f
<1>9. FoldsUpTo(f, n, T, base, G, fold[1..n])
  BY <1>2, <1>5, <1>6, <1>8 DEF FoldsUpTo
<1> QED
  BY <1>9
=============================================================================
