---------------------------- MODULE QueryProofs ----------------------------
(***************************************************************************)
(* Queries match what was written and own their conditions, for any tests, *)
(* records and queries.                                                    *)
(*                                                                         *)
(* First what each operation on bucket lists does to the memory and to     *)
(* what a list says: a bucket is copied, a list is copied, two are added,  *)
(* two are multiplied.  Each is a fold, of which the proof follows one     *)
(* step at a time (CopiedUpTo, DeepUpTo, RowUpTo, ProductUpTo).  Then who  *)
(* owns which conditions (QueryInv), through each call of a client.        *)
(***************************************************************************)
EXTENDS Query, DataLemmas, TLAPS

-----------------------------------------------------------------------------
(* Memory.                                                                 *)

Memory == [conds : [Cells -> Comparisons \cup {Freed}], used : SUBSET Cells, stopped : BOOLEAN]

\* t is s with the cells in new allocated.
Allocated(s, t, new) ==
  /\ t \in Memory /\ t.used = s.used /\ new \subseteq Unused(s)
  /\ \A i \in Cells : IF i \in new THEN t.conds[i] # Freed ELSE t.conds[i] = s.conds[i]

\* What was allocated still is.
Grows(s, t) == t \in Memory /\ \A i \in Cells : s.conds[i] # Freed => t.conds[i] # Freed

LEMMA MemoryIs ==
  ASSUME NEW s \in Memory
  PROVE  /\ s.conds \in [Cells -> Comparisons \cup {Freed}] /\ s.used \in SUBSET Cells /\ s.stopped \in BOOLEAN
         /\ s = [conds |-> s.conds, used |-> s.used, stopped |-> s.stopped]
         /\ \A i \in Cells : s.conds[i] # Freed => s.conds[i] \in Comparisons
BY DEF Memory

LEMMA UnusedIs ==
  ASSUME NEW s \in Memory
  PROVE  /\ Unused(s) \subseteq Cells /\ IsFiniteSet(Unused(s)) /\ Cardinality(Unused(s)) \in Nat
         /\ \A i \in Cells : i \in Unused(s) <=> i \notin s.used /\ s.conds[i] = Freed
<1>1. Unused(s) \subseteq Cells
  BY DEF Unused
<1>2. IsFiniteSet(Unused(s))
  BY <1>1, ConditionAssumption, FS_Subset
<1> QED
  BY <1>1, <1>2, FS_CardinalityType DEF Unused

\* Cells that have been allocated are not available any more.
LEMMA UnusedAfter ==
  ASSUME NEW s \in Memory, NEW t, NEW new, Allocated(s, t, new)
  PROVE  /\ Unused(t) = Unused(s) \ new
         /\ Cardinality(Unused(t)) = Cardinality(Unused(s)) - Cardinality(new)
         /\ IsFiniteSet(new) /\ Cardinality(new) \in Nat
<1>1. Unused(t) = Unused(s) \ new
  BY UnusedIs DEF Allocated, Unused
<1>2. new \subseteq Unused(s) /\ IsFiniteSet(Unused(s))
  BY UnusedIs DEF Allocated
<1>3. IsFiniteSet(new) /\ Unused(s) \cap new = new
  BY <1>2, FS_Subset
<1>4. Cardinality(Unused(s) \ new) = Cardinality(Unused(s)) - Cardinality(Unused(s) \cap new)
  BY <1>2, FS_Difference
<1> QED
  BY <1>1, <1>3, <1>4, FS_CardinalityType

LEMMA AllocatedTwice ==
  ASSUME NEW s \in Memory, NEW t, NEW u, NEW a, NEW b, Allocated(s, t, a), Allocated(t, u, b)
  PROVE  Allocated(s, u, a \cup b) /\ a \cap b = {}
<1>1. Unused(t) = Unused(s) \ a
  BY UnusedAfter
<1>2. b \subseteq Unused(s) /\ a \cap b = {}
  BY <1>1 DEF Allocated
<1> QED
  BY <1>2 DEF Allocated

LEMMA AllocatedNothing ==
  ASSUME NEW s \in Memory
  PROVE  Allocated(s, s, {})
BY DEF Allocated

LEMMA AllocatedGrows ==
  ASSUME NEW s \in Memory, NEW t, NEW new, Allocated(s, t, new)
  PROVE  Grows(s, t)
BY UnusedIs DEF Allocated, Grows

LEMMA GrowsTwice ==
  ASSUME NEW s, NEW t, NEW u, Grows(s, t), Grows(t, u)
  PROVE  Grows(s, u)
BY DEF Grows

LEMMA NewCellIs ==
  ASSUME NEW s \in Memory
  PROVE  NewCell(s) \in Cells /\ (Unused(s) # {} => NewCell(s) \in Unused(s))
<1>1. \E i \in Cells : Unused(s) # {} => i \in Unused(s)
  BY UnusedIs, ConditionAssumption
<1> QED
  BY <1>1 DEF NewCell

LEMMA PutIs ==
  ASSUME NEW s \in Memory, NEW c \in Comparisons
  PROVE  /\ Put(s, c) \in Memory /\ Put(s, c).used = s.used /\ Put(s, c).stopped = s.stopped
         /\ Put(s, c).conds[NewCell(s)] = c
         /\ \A i \in Cells : i # NewCell(s) => Put(s, c).conds[i] = s.conds[i]
<1> DEFINE n == NewCell(s)
           f == [s.conds EXCEPT ![n] = c]
<1>1. n \in Cells
  BY NewCellIs
<1>2. s.conds \in [Cells -> Comparisons \cup {Freed}]
  BY MemoryIs
<1>3. Put(s, c) = [s EXCEPT !.conds = f]
  BY DEF Put, Memory
<1> HIDE DEF n
<1>4. f \in [Cells -> Comparisons \cup {Freed}] /\ f[n] = c /\ \A i \in Cells : i # n => f[i] = s.conds[i]
  BY <1>1, <1>2
<1> HIDE DEF f
<1>5. Put(s, c) \in Memory /\ Put(s, c).used = s.used /\ Put(s, c).stopped = s.stopped /\ Put(s, c).conds = f
  BY <1>3, <1>4 DEF Memory
<1> QED
  BY <1>4, <1>5 DEF n

\* A new condition is in a cell that nothing uses, and every other is as before.
LEMMA PutAllocates ==
  ASSUME NEW s \in Memory, NEW c \in Comparisons
  PROVE  /\ Grows(s, Put(s, c)) /\ Put(s, c).conds[NewCell(s)] = c /\ NewCell(s) \in Cells
         /\ Cardinality(Unused(s)) >= 1 => Allocated(s, Put(s, c), {NewCell(s)})
<1>1. /\ Put(s, c) \in Memory /\ Put(s, c).used = s.used
      /\ Put(s, c).conds[NewCell(s)] = c
      /\ \A i \in Cells : i # NewCell(s) => Put(s, c).conds[i] = s.conds[i]
  BY PutIs
<1>2. c # Freed
  BY ConditionAssumption
<1>3. Cardinality(Unused(s)) >= 1 => Unused(s) # {}
  BY FS_EmptySet
<1>4. NewCell(s) \in Cells /\ (Unused(s) # {} => NewCell(s) \in Unused(s))
  BY NewCellIs
<1> QED
  BY <1>1, <1>2, <1>3, <1>4 DEF Grows, Allocated

-----------------------------------------------------------------------------
(* Copies.                                                                 *)

\* A copy says the same as the original.
LEMMA CopySays ==
  ASSUME NEW c \in Comparisons
  PROVE  /\ CopyOf(c) \in Comparisons /\ CopyOf(c) = Test(c) /\ Test(CopyOf(c)) = Test(c)
         /\ Test(c) \in Comparisons
BY DEF CopyOf, Test, Comparisons

LEMMA PutCopyIs ==
  ASSUME NEW s \in Memory, NEW i \in Cells, s.conds[i] # Freed
  PROVE  /\ Grows(s, PutCopy(s, i)) /\ NewCell(s) \in Cells
         /\ PutCopy(s, i).conds[NewCell(s)] # Freed
         /\ Test(PutCopy(s, i).conds[NewCell(s)]) = Test(s.conds[i])
         /\ Cardinality(Unused(s)) >= 1 => Allocated(s, PutCopy(s, i), {NewCell(s)})
<1> DEFINE c == CopyOf(s.conds[i])
           p == Put(s, c)
<1>1. s.conds[i] \in Comparisons
  BY MemoryIs
<1>2. c \in Comparisons /\ Test(c) = Test(s.conds[i])
  BY <1>1, CopySays
<1> HIDE DEF c
<1>3. /\ Grows(s, p) /\ p.conds[NewCell(s)] = c /\ NewCell(s) \in Cells
      /\ Cardinality(Unused(s)) >= 1 => Allocated(s, p, {NewCell(s)})
  BY <1>2, PutAllocates
<1>4. PutCopy(s, i) = [p EXCEPT !.stopped = Asserts]
  BY DEF PutCopy, c
<1> HIDE DEF p
<1>5. p \in Memory
  BY <1>3 DEF Grows
<1>6. PutCopy(s, i) \in Memory /\ PutCopy(s, i).conds = p.conds /\ PutCopy(s, i).used = p.used
  BY <1>4, <1>5, ConditionAssumption DEF Memory
<1>7. c # Freed
  BY <1>2, ConditionAssumption
<1> QED
  BY <1>2, <1>3, <1>6, <1>7 DEF Grows, Allocated

-----------------------------------------------------------------------------
(* Buckets.                                                                *)

Once(b) == \A j, k \in DOMAIN b : b[j] = b[k] => j = k
Present(s, b) == \A i \in Range(b) : s.conds[i] # Freed
Said(cs, b) == {Test(cs[i]) : i \in Range(b)}

LEMMA Appended ==
  ASSUME NEW S, NEW b \in Seq(S), NEW i \in S
  PROVE  /\ Append(b, i) \in Seq(S) /\ Len(Append(b, i)) = Len(b) + 1 /\ Len(b) \in Nat
         /\ \A j \in 1..Len(b) : Append(b, i)[j] = b[j]
         /\ Append(b, i)[Len(b) + 1] = i
         /\ Range(Append(b, i)) = Range(b) \cup {i}
         /\ Once(b) /\ i \notin Range(b) => Once(Append(b, i))
<1> DEFINE a == Append(b, i)
<1>1. a \in Seq(S) /\ Len(a) = Len(b) + 1 /\ Len(b) \in Nat /\ DOMAIN a = 1..(Len(b) + 1) /\ DOMAIN b = 1..Len(b)
  BY AppendProperties, LenProperties
<1>2. (\A j \in 1..Len(b) : a[j] = b[j]) /\ a[Len(b) + 1] = i
  BY AppendProperties
<1> HIDE DEF a
<1>3. Range(a) = Range(b) \cup {i}
  <2>1. \A j \in DOMAIN a : j \in DOMAIN b \/ j = Len(b) + 1
    BY <1>1
  <2>2. \A j \in DOMAIN b : j \in DOMAIN a
    BY <1>1
  <2>3. Len(b) + 1 \in DOMAIN a
    BY <1>1
  <2> QED
    BY <1>1, <1>2, <2>1, <2>2, <2>3 DEF Range
<1>4. Once(b) /\ i \notin Range(b) => Once(a)
  <2> SUFFICES ASSUME Once(b), i \notin Range(b), NEW j \in DOMAIN a, NEW k \in DOMAIN a, a[j] = a[k]
               PROVE  j = k
    BY DEF Once
  <2>1. \A m \in DOMAIN b : b[m] # i
    BY DEF Range
  <2> QED
    BY <1>1, <1>2, <2>1 DEF Once
<1> QED
  BY <1>1, <1>2, <1>3, <1>4 DEF a

LEMMA Concatenated ==
  ASSUME NEW S, NEW b \in Seq(S), NEW c \in Seq(S)
  PROVE  /\ b \o c \in Seq(S) /\ Len(b \o c) = Len(b) + Len(c) /\ Len(b) \in Nat /\ Len(c) \in Nat
         /\ \A j \in 1..Len(b) : (b \o c)[j] = b[j]
         /\ \A j \in 1..Len(c) : (b \o c)[Len(b) + j] = c[j]
         /\ Range(b \o c) = Range(b) \cup Range(c)
         /\ Once(b) /\ Once(c) /\ Range(b) \cap Range(c) = {} => Once(b \o c)
<1> DEFINE a == b \o c
<1>1. /\ a \in Seq(S) /\ Len(a) = Len(b) + Len(c) /\ Len(b) \in Nat /\ Len(c) \in Nat
      /\ DOMAIN a = 1..(Len(b) + Len(c)) /\ DOMAIN b = 1..Len(b) /\ DOMAIN c = 1..Len(c)
  BY ConcatProperties, LenProperties
<1>2. \A j \in DOMAIN a : a[j] = IF j <= Len(b) THEN b[j] ELSE c[j - Len(b)]
  BY <1>1, ConcatProperties
<1> HIDE DEF a
<1>3. (\A j \in 1..Len(b) : a[j] = b[j]) /\ (\A j \in 1..Len(c) : a[Len(b) + j] = c[j])
  <2> DEFINE p == Len(b)
             q == Len(c)
  <2>1. /\ p \in Nat /\ q \in Nat /\ DOMAIN a = 1..(p + q)
        /\ \A j \in DOMAIN a : a[j] = IF j <= p THEN b[j] ELSE c[j - p]
    BY <1>1, <1>2
  <2> HIDE DEF p, q
  <2>2. \A j \in 1..p : j \in DOMAIN a /\ j <= p
    BY <2>1
  <2>3. \A j \in 1..q : p + j \in DOMAIN a /\ ~(p + j <= p) /\ (p + j) - p = j
    BY <2>1
  <2>4. \A j \in 1..q : a[p + j] = c[j]
    <3> TAKE j \in 1..q
    <3>1. a[p + j] = c[(p + j) - p]
      BY <2>1, <2>3
    <3> QED
      BY <2>3, <3>1
  <2> QED
    BY <2>1, <2>2, <2>4 DEF p, q
<1>4. Range(a) = Range(b) \cup Range(c)
  <2>1. \A j \in DOMAIN a : j \in DOMAIN b \/ (j - Len(b) \in DOMAIN c /\ j > Len(b))
    <3> DEFINE p == Len(b)
               q == Len(c)
    <3>1. p \in Nat /\ q \in Nat /\ DOMAIN a = 1..(p + q) /\ DOMAIN b = 1..p /\ DOMAIN c = 1..q
      BY <1>1
    <3> HIDE DEF p, q
    <3>2. \A j \in DOMAIN a : j \in DOMAIN b \/ (j - p \in DOMAIN c /\ j > p)
      BY <3>1
    <3> QED
      BY <3>2 DEF p
  <2>2. \A j \in DOMAIN b : j \in DOMAIN a /\ a[j] = b[j]
    BY <1>1, <1>3
  <2>3. \A j \in DOMAIN c : Len(b) + j \in DOMAIN a /\ a[Len(b) + j] = c[j]
    BY <1>1, <1>3
  <2>4. \A j \in DOMAIN a : a[j] \in Range(b) \cup Range(c)
    <3> TAKE j \in DOMAIN a
    <3>1. CASE j <= Len(b)
      BY <1>1, <1>2, <2>1, <3>1 DEF Range
    <3>2. CASE ~(j <= Len(b))
      BY <1>1, <1>2, <2>1, <3>2 DEF Range
    <3> QED
      BY <3>1, <3>2
  <2> QED
    BY <2>2, <2>3, <2>4 DEF Range
<1>5. Once(b) /\ Once(c) /\ Range(b) \cap Range(c) = {} => Once(a)
  <2> SUFFICES ASSUME Once(b), Once(c), Range(b) \cap Range(c) = {},
                      NEW j \in DOMAIN a, NEW k \in DOMAIN a, a[j] = a[k]
               PROVE  j = k
    BY DEF Once
  <2>1. \A m \in DOMAIN b, n \in DOMAIN c : b[m] # c[n]
    BY DEF Range
  <2> QED
    BY <1>1, <1>2, <2>1 DEF Once
<1> QED
  BY <1>1, <1>3, <1>4, <1>5 DEF a

\* c holds copies of the first k conditions of b, made in unused cells if there are enough.
CopiedUpTo(s, t, b, c, k) ==
  /\ c \in Seq(Cells) /\ Len(c) = k /\ Grows(s, t) /\ t.used = s.used /\ Present(t, c)
  /\ Cardinality(Unused(s)) >= k =>
       /\ Allocated(s, t, Range(c)) /\ Once(c)
       /\ Cardinality(Unused(t)) = Cardinality(Unused(s)) - k
       /\ \A j \in 1..k : Test(t.conds[c[j]]) = Test(s.conds[b[j]])

\* One more copy.
LEMMA CopiesOneMore ==
  ASSUME NEW s \in Memory, NEW t \in Memory, NEW b \in Seq(Cells), NEW c, NEW k \in Nat,
         k + 1 \in 1..Len(b), Present(s, b), CopiedUpTo(s, t, b, c, k)
  PROVE  CopiedUpTo(s, PutCopy(t, b[k + 1]), b, Append(c, NewCell(t)), k + 1)
<1> DEFINE i == b[k + 1]
           u == PutCopy(t, i)
           n == NewCell(t)
           a == Append(c, n)
<1>1. i \in Cells /\ s.conds[i] # Freed /\ c \in Seq(Cells) /\ Len(c) = k /\ Grows(s, t) /\ Present(t, c)
  <2>1. i \in Cells /\ i \in Range(b)
    BY LenProperties, ElementOfSeq DEF Range
  <2> QED
    BY <2>1 DEF Present, CopiedUpTo
<1>2. t.conds[i] # Freed
  BY <1>1 DEF Grows
<1> HIDE DEF i
<1>3. /\ Grows(t, u) /\ n \in Cells /\ u.conds[n] # Freed /\ Test(u.conds[n]) = Test(t.conds[i])
      /\ Cardinality(Unused(t)) >= 1 => Allocated(t, u, {n})
      /\ u.used = t.used
  <2>1. u.used = t.used
    BY DEF PutCopy, Put, Memory
  <2> HIDE DEF u, n
  <2> QED
    BY <1>1, <1>2, <2>1, PutCopyIs DEF u, n
<1> HIDE DEF u, n
<1>4. /\ a \in Seq(Cells) /\ Len(a) = k + 1 /\ Range(a) = Range(c) \cup {n}
      /\ Once(c) /\ n \notin Range(c) => Once(a)
      /\ (\A j \in 1..k : a[j] = c[j]) /\ a[k + 1] = n
  BY <1>1, <1>3, Appended
<1> HIDE DEF a
<1>5. Range(c) \subseteq Cells /\ \A j \in 1..k : c[j] \in Range(c)
  BY <1>1, RangeOfSequence
<1>6. Grows(s, u) /\ Present(u, a) /\ u.used = s.used
  <2>1. Grows(s, u)
    BY <1>1, <1>3, GrowsTwice
  <2>2. Present(u, a)
    BY <1>1, <1>3, <1>4, <1>5 DEF Present, Grows
  <2> QED
    BY <1>3, <2>1, <2>2 DEF CopiedUpTo
<1>7. ASSUME Cardinality(Unused(s)) >= k + 1
      PROVE  /\ Allocated(s, u, Range(a)) /\ Once(a)
             /\ Cardinality(Unused(u)) = Cardinality(Unused(s)) - (k + 1)
             /\ \A j \in 1..(k + 1) : Test(u.conds[a[j]]) = Test(s.conds[b[j]])
  <2>1. Cardinality(Unused(s)) \in Nat /\ Cardinality(Unused(t)) \in Nat
    BY UnusedIs
  <2>2. /\ Allocated(s, t, Range(c)) /\ Once(c)
        /\ Cardinality(Unused(t)) = Cardinality(Unused(s)) - k
        /\ \A j \in 1..k : Test(t.conds[c[j]]) = Test(s.conds[b[j]])
    BY <1>7, <2>1 DEF CopiedUpTo
  <2>3. Allocated(t, u, {n})
    BY <1>3, <1>7, <2>1, <2>2
  <2>4. Allocated(s, u, Range(c) \cup {n}) /\ Range(c) \cap {n} = {}
    BY <2>2, <2>3, AllocatedTwice
  <2>5. Cardinality(Unused(u)) = Cardinality(Unused(t)) - 1
    <3>1. Cardinality({n}) = 1
      BY FS_Singleton
    <3>2. Cardinality(Unused(u)) = Cardinality(Unused(t)) - Cardinality({n})
      BY <2>3, UnusedAfter
    <3> QED
      BY <3>1, <3>2
  <2>6. \A j \in 1..(k + 1) : Test(u.conds[a[j]]) = Test(s.conds[b[j]])
    <3> TAKE j \in 1..(k + 1)
    <3>1. CASE j = k + 1
      <4>1. t.conds[i] = s.conds[i]
        BY <1>1, <2>2, UnusedIs DEF Allocated
      <4> QED
        BY <1>3, <1>4, <3>1, <4>1 DEF i
    <3>2. CASE j \in 1..k
      <4>1. a[j] = c[j] /\ c[j] \in Cells /\ c[j] # n
        BY <1>4, <1>5, <2>4, <3>2
      <4>2. u.conds[c[j]] = t.conds[c[j]]
        BY <2>3, <4>1 DEF Allocated
      <4> QED
        BY <2>2, <3>2, <4>1, <4>2
    <3> QED
      BY <3>1, <3>2
  <2> QED
    BY <1>4, <2>1, <2>2, <2>4, <2>5, <2>6
<1> QED
  BY <1>4, <1>6, <1>7 DEF CopiedUpTo, u, n, a, i

\* A bucket is copied condition by condition.
LEMMA CopyBucketIs ==
  ASSUME NEW s \in Memory, NEW b \in Seq(Cells), Present(s, b)
  PROVE  CopiedUpTo(s, CopyBucket(s, b).s, b, CopyBucket(s, b).b, Len(b))
<1> DEFINE n == Len(b)
           base == [s |-> s, b |-> << >>]
           T == {x \in [s : Memory, b : Seq(Cells)] : \A k \in 1..n : x.s.conds[b[k]] # Freed}
           Step(x, e) == [s |-> PutCopy(x.s, e), b |-> Append(x.b, NewCell(x.s))]
           Value(h, S) == IF S = {} THEN base ELSE Step(h[S \ {Max(S)}], b[Max(S)])
           fold == CHOOSE h : h = [S \in SUBSET (DOMAIN b) |-> Value(h, S)]
<1>1. n \in Nat /\ DOMAIN b = 1..n /\ \A k \in 1..n : b[k] \in Cells /\ s.conds[b[k]] # Freed
  <2>1. \A k \in 1..Len(b) : b[k] \in Cells /\ b[k] \in Range(b)
    BY RangeOfSequence
  <2> QED
    BY <2>1, LenProperties DEF Present
<1>2. CopyBucket(s, b) = fold[DOMAIN b]
  BY DEF CopyBucket, FoldLeft, MapThenFoldSet
<1> HIDE DEF n
<1>3. base \in T /\ \A k \in 1..n, x \in T : Step(x, b[k]) \in T
  <2>1. base \in T
    BY <1>1
  <2>2. ASSUME NEW k \in 1..n, NEW x \in T
        PROVE  Step(x, b[k]) \in T
    <3>1. x.s \in Memory /\ x.b \in Seq(Cells) /\ b[k] \in Cells /\ x.s.conds[b[k]] # Freed
      BY <1>1
    <3>2. Grows(x.s, PutCopy(x.s, b[k])) /\ NewCell(x.s) \in Cells
      BY <3>1, PutCopyIs
    <3>3. Append(x.b, NewCell(x.s)) \in Seq(Cells)
      BY <3>1, <3>2, Appended
    <3> QED
      BY <1>1, <3>2, <3>3 DEF Grows
  <2> QED
    BY <2>1, <2>2
<1> HIDE DEF base
<1> HIDE DEF n, Step, T
<1> DEFINE G == [k \in 1..n |-> [x \in T |-> Step(x, b[k])]]
<1>4. G \in [1..n -> [T -> T]]
  BY <1>3
<1>5. PICK h \in [SUBSET (1..n) -> T] :
        \A S \in SUBSET (1..n) : h[S] = IF S = {} THEN base ELSE G[Max(S)][h[S \ {Max(S)}]]
  <2> HIDE DEF G
  <2>1. \E h : FoldsFrom(h, n, T, base, G)
    BY <1>1, <1>3, <1>4, FoldExists
  <2> QED
    BY <2>1 DEF FoldsFrom
<1>6. \A S \in SUBSET (1..n) : h[S] = Value(h, S)
  <2> SUFFICES ASSUME NEW S \in SUBSET (1..n), S # {}
               PROVE  h[S] = Step(h[S \ {Max(S)}], b[Max(S)])
    BY <1>5
  <2>1. Max(S) \in 1..n /\ S \ {Max(S)} \in SUBSET (1..n)
    BY <1>1, MaxOfPlaces
  <2> QED
    BY <1>5, <2>1
<1>7. fold = [S \in SUBSET (1..n) |-> Value(fold, S)]
  <2> HIDE DEF Value
  <2>1. h = [S \in SUBSET (DOMAIN b) |-> Value(h, S)]
    BY <1>1, <1>5, <1>6
  <2> QED
    BY <1>1, <2>1
<1> HIDE DEF fold
<1>8. fold[{}] = base
  BY <1>7
<1>9. ASSUME NEW k \in 1..n, fold[1..(k - 1)] \in T
      PROVE  fold[1..k] = G[k][fold[1..(k - 1)]]
  <2>1. 1..k # {} /\ Max(1..k) = k /\ (1..k) \ {k} = 1..(k - 1) /\ 1..k \in SUBSET (1..n)
    <3>1. k \in Nat /\ k # 0 /\ 1..k \in SUBSET (1..n)
      BY <1>1
    <3> QED
      BY <3>1, MaxOfInterval
  <2>2. fold[1..k] = Value(fold, 1..k)
    <3> HIDE DEF Value
    <3> QED
      BY <1>7, <2>1
  <2>3. fold[1..k] = Step(fold[1..(k - 1)], b[k])
    BY <2>1, <2>2
  <2> QED
    BY <1>9, <2>3
<1>10. \E f : FoldsUpTo(f, n, T, base, G, fold[1..n])
  <2>1. n \in Nat /\ base \in T
    BY <1>1, <1>3
  <2> HIDE DEF G
  <2>2. IsFold(fold, n, T, base, G)
    BY <1>8, <1>9 DEF IsFold
  <2> QED
    BY <1>4, <2>1, <2>2, FoldPrefixes
<1>11. PICK f \in [0..n -> T] : /\ f[0] = base /\ f[n] = fold[1..n]
                                /\ \A k \in 1..n : f[k] = G[k][f[k - 1]]
  BY <1>10 DEF FoldsUpTo
<1>12. \A k \in 1..n : k - 1 \in 0..n /\ f[k - 1] \in T /\ f[k] = Step(f[k - 1], b[k])
  <2> TAKE k \in 1..n
  <2>1. k - 1 \in 0..n
    BY <1>1
  <2> QED
    BY <1>11, <2>1
<1> HIDE DEF G, Value
<1> DEFINE R == {k \in 0..n : CopiedUpTo(s, f[k].s, b, f[k].b, k)}
<1>13. 0 \in R
  <2>1. 0 \in 0..n /\ f[0].s = s /\ f[0].b = << >>
    BY <1>1, <1>11 DEF base
  <2>2. << >> \in Seq(Cells) /\ Len(<< >>) = 0 /\ Range(<< >>) = {} /\ Once(<< >>)
    BY DEF Range, Once
  <2>3. Cardinality(Unused(s)) \in Nat
    BY UnusedIs
  <2>4. CopiedUpTo(s, s, b, << >>, 0)
    <3> DEFINE e == << >>
    <3>1. e \in Seq(Cells) /\ Len(e) = 0 /\ Range(e) = {} /\ Once(e)
      BY <2>2
    <3> HIDE DEF e
    <3>2. Grows(s, s) /\ Present(s, e)
      BY <3>1 DEF Grows, Present
    <3>3. Allocated(s, s, Range(e))
      BY <3>1, AllocatedNothing
    <3>4. Cardinality(Unused(s)) = Cardinality(Unused(s)) - 0 /\ 1..0 = {}
      BY <2>3
    <3>5. CopiedUpTo(s, s, b, e, 0)
      BY <3>1, <3>2, <3>3, <3>4 DEF CopiedUpTo
    <3> QED
      BY <3>5 DEF e
  <2> QED
    BY <2>1, <2>4
<1>14. ASSUME NEW k \in 1..n, k - 1 \in R
       PROVE  k \in R
  <2>1. k - 1 \in Nat /\ (k - 1) + 1 = k /\ k \in 0..n /\ k \in 1..Len(b)
    BY <1>1 DEF n
  <2>2. f[k - 1].s \in Memory /\ CopiedUpTo(s, f[k - 1].s, b, f[k - 1].b, k - 1)
    BY <1>12, <1>14 DEF T
  <2>3. f[k].s = PutCopy(f[k - 1].s, b[k]) /\ f[k].b = Append(f[k - 1].b, NewCell(f[k - 1].s))
    <3>1. f[k] = Step(f[k - 1], b[k])
      BY <1>12
    <3> DEFINE x == f[k - 1]
    <3>2. f[k] = [s |-> PutCopy(x.s, b[k]), b |-> Append(x.b, NewCell(x.s))]
      BY <3>1 DEF Step
    <3> HIDE DEF x
    <3>3. f[k].s = PutCopy(x.s, b[k]) /\ f[k].b = Append(x.b, NewCell(x.s))
      BY <3>2
    <3> QED
      BY <3>3 DEF x
  <2> DEFINE m == k - 1
  <2>4. CopiedUpTo(s, PutCopy(f[m].s, b[m + 1]), b, Append(f[m].b, NewCell(f[m].s)), m + 1)
    <3>1. m \in Nat /\ m + 1 \in 1..Len(b)
      BY <2>1
    <3> HIDE DEF m
    <3>2. f[m].s \in Memory /\ CopiedUpTo(s, f[m].s, b, f[m].b, m)
      BY <2>2 DEF m
    <3> QED
      BY <3>1, <3>2, CopiesOneMore
  <2>5. CopiedUpTo(s, f[k].s, b, f[k].b, k)
    BY <2>1, <2>3, <2>4
  <2> QED
    BY <2>1, <2>5
<1>15. n \in R
  <2>1. \A k \in 1..n : k - 1 \in R => k \in R
    BY <1>14
  <2>2. n \in 0..n /\ n \in Nat
    BY <1>1
  <2> HIDE DEF R
  <2> QED
    BY <1>13, <2>1, <2>2, PrefixInduction
<1>16. CopyBucket(s, b) = f[n]
  BY <1>1, <1>2, <1>11
<1> QED
  BY <1>15, <1>16 DEF n

LEMMA BucketCopied ==
  ASSUME NEW s \in Memory, NEW b \in Seq(Cells), Present(s, b), NEW t, NEW c,
         t = CopyBucket(s, b).s, c = CopyBucket(s, b).b
  PROVE  /\ c \in Seq(Cells) /\ Len(c) = Len(b) /\ Len(b) \in Nat
         /\ Grows(s, t) /\ t.used = s.used /\ Present(t, c)
         /\ Cardinality(Unused(s)) >= Len(b) =>
              /\ Allocated(s, t, Range(c)) /\ Once(c)
              /\ Cardinality(Unused(t)) = Cardinality(Unused(s)) - Len(b)
              /\ Said(t.conds, c) = Said(s.conds, b)
<1>1. CopiedUpTo(s, t, b, c, Len(b))
  BY CopyBucketIs
<1>2. c \in Seq(Cells) /\ Len(c) = Len(b) /\ Len(b) \in Nat
  BY <1>1, LenProperties DEF CopiedUpTo
<1>3. ASSUME \A j \in 1..Len(b) : Test(t.conds[c[j]]) = Test(s.conds[b[j]])
      PROVE  Said(t.conds, c) = Said(s.conds, b)
  <2>1. \A x : x \in Range(c) <=> \E j \in 1..Len(b) : c[j] = x
    BY <1>2, RangeOfSequence
  <2>2. \A x : x \in Range(b) <=> \E j \in 1..Len(b) : b[j] = x
    BY RangeOfSequence
  <2>3. \A v : v \in Said(t.conds, c) <=> \E j \in 1..Len(b) : v = Test(t.conds[c[j]])
    BY <2>1 DEF Said
  <2>4. \A v : v \in Said(s.conds, b) <=> \E j \in 1..Len(b) : v = Test(s.conds[b[j]])
    BY <2>2 DEF Said
  <2>5. \A v : v \in Said(t.conds, c) <=> v \in Said(s.conds, b)
    BY <1>3, <2>3, <2>4
  <2> QED
    BY <2>5
<1> QED
  BY <1>1, <1>2, <1>3 DEF CopiedUpTo

LEMMA TailIs ==
  ASSUME NEW b \in Seq(Cells), b # << >>
  PROVE  /\ Head(b) = b[1] /\ b[1] \in Range(b) /\ Tail(b) \in Seq(Cells)
         /\ Len(b) \in Nat /\ Len(b) >= 1 /\ Len(Tail(b)) = Len(b) - 1
         /\ Range(b) = {b[1]} \cup Range(Tail(b))
         /\ Once(b) => Once(Tail(b)) /\ b[1] \notin Range(Tail(b))
<1> DEFINE n == Len(b)
           t == Tail(b)
<1>1. n \in Nat /\ n >= 1 /\ t \in Seq(Cells) /\ Len(t) = n - 1 /\ Head(b) = b[1]
      /\ \A j \in 1..(n - 1) : t[j] = b[j + 1]
  BY HeadTailProperties, LenProperties, EmptySeq
<1>2. DOMAIN b = 1..n /\ DOMAIN t = 1..(n - 1)
  BY <1>1, LenProperties
<1> HIDE DEF n, t
<1>3. /\ \A j \in 1..(n - 1) : j + 1 \in 1..n /\ j + 1 # 1
      /\ \A j \in 1..n : j = 1 \/ (j - 1 \in 1..(n - 1) /\ (j - 1) + 1 = j)
      /\ 1 \in 1..n
  BY <1>1
<1>4. Range(b) = {b[1]} \cup Range(t)
  <2>1. \A x : x \in Range(t) <=> \E j \in 1..(n - 1) : t[j] = x
    BY <1>2 DEF Range
  <2>2. \A x : x \in Range(b) <=> \E j \in 1..n : b[j] = x
    BY <1>2 DEF Range
  <2>3. ASSUME NEW x \in Range(b)
        PROVE  x = b[1] \/ x \in Range(t)
    <3>1. PICK j \in 1..n : b[j] = x
      BY <2>2
    <3>2. CASE j = 1
      BY <3>1, <3>2
    <3>3. CASE j # 1
      <4>1. j - 1 \in 1..(n - 1) /\ t[j - 1] = x
        BY <1>1, <1>3, <3>1, <3>3
      <4> QED
        BY <2>1, <4>1
    <3> QED
      BY <3>2, <3>3
  <2>4. \A x \in Range(t) : x \in Range(b)
    BY <1>1, <1>3, <2>1, <2>2
  <2>5. b[1] \in Range(b)
    BY <1>3, <2>2
  <2> QED
    BY <2>3, <2>4, <2>5
<1>5. Once(b) => Once(t) /\ b[1] \notin Range(t)
  <2> SUFFICES ASSUME Once(b)
               PROVE  Once(t) /\ b[1] \notin Range(t)
    OBVIOUS
  <2>1. ASSUME NEW j \in 1..(n - 1), NEW k \in 1..(n - 1), t[j] = t[k]
        PROVE  j = k
    <3>1. b[j + 1] = b[k + 1] /\ j + 1 \in DOMAIN b /\ k + 1 \in DOMAIN b
      BY <1>1, <1>2, <1>3, <2>1
    <3>2. j + 1 = k + 1
      BY <3>1 DEF Once
    <3> QED
      BY <3>2
  <2>2. \A j \in 1..(n - 1) : t[j] # b[1]
    BY <1>1, <1>2, <1>3 DEF Once
  <2> QED
    BY <1>2, <2>1, <2>2 DEF Once, Range
<1> QED
  BY <1>1, <1>4, <1>5 DEF n, t

-----------------------------------------------------------------------------
(* Lists of buckets.                                                       *)

Buckets == {bs \in Seq(Seq(Cells)) : \A j \in DOMAIN bs : bs[j] # << >>}
In(bs) == UNION {Range(bs[j]) : j \in DOMAIN bs}
Distinct(bs) ==
  \A j \in DOMAIN bs : Once(bs[j]) /\ \A k \in DOMAIN bs : Range(bs[j]) \cap Range(bs[k]) # {} => j = k
Saids(cs, bs) == {Said(cs, bs[j]) : j \in DOMAIN bs}
AllPresent(s, bs) == \A i \in In(bs) : s.conds[i] # Freed

LEMMA BucketsAre ==
  ASSUME NEW bs \in Buckets
  PROVE  /\ bs \in Seq(Seq(Cells)) /\ Len(bs) \in Nat /\ DOMAIN bs = 1..Len(bs)
         /\ \A j \in 1..Len(bs) : bs[j] \in Seq(Cells) /\ bs[j] # << >> /\ Range(bs[j]) \subseteq Cells
         /\ In(bs) \subseteq Cells
         /\ \A i : i \in In(bs) <=> \E j \in 1..Len(bs) : i \in Range(bs[j])
<1>1. bs \in Seq(Seq(Cells)) /\ Len(bs) \in Nat /\ DOMAIN bs = 1..Len(bs)
  BY LenProperties DEF Buckets
<1>2. \A j \in 1..Len(bs) : bs[j] \in Seq(Cells) /\ bs[j] # << >>
  BY <1>1, ElementOfSeq DEF Buckets
<1>3. \A j \in 1..Len(bs) : Range(bs[j]) \subseteq Cells
  BY <1>2, RangeOfSequence
<1>4. \A i : i \in In(bs) <=> \E j \in 1..Len(bs) : i \in Range(bs[j])
  BY <1>1 DEF In
<1> QED
  BY <1>1, <1>2, <1>3, <1>4

\* A bucket is added at the end.
LEMMA BucketAppended ==
  ASSUME NEW bs \in Buckets, NEW b \in Seq(Cells), b # << >>
  PROVE  /\ Append(bs, b) \in Buckets /\ Len(Append(bs, b)) = Len(bs) + 1 /\ Len(bs) \in Nat
         /\ (\A j \in 1..Len(bs) : Append(bs, b)[j] = bs[j]) /\ Append(bs, b)[Len(bs) + 1] = b
         /\ In(Append(bs, b)) = In(bs) \cup Range(b)
         /\ Distinct(bs) /\ Once(b) /\ In(bs) \cap Range(b) = {} => Distinct(Append(bs, b))
         /\ \A cs : Saids(cs, Append(bs, b)) = Saids(cs, bs) \cup {Said(cs, b)}
<1> DEFINE a == Append(bs, b)
           n == Len(bs)
<1>0. bs \in Seq(Seq(Cells)) /\ n \in Nat /\ DOMAIN bs = 1..n
      /\ \A i : i \in In(bs) <=> \E j \in 1..n : i \in Range(bs[j])
  BY BucketsAre
<1>1. a \in Seq(Seq(Cells)) /\ Len(a) = n + 1 /\ (\A j \in 1..n : a[j] = bs[j]) /\ a[n + 1] = b
  BY <1>0, Appended
<1>2. DOMAIN a = 1..(n + 1)
  BY <1>1, LenProperties
<1> HIDE DEF a, n
<1>3. \A j \in 1..(n + 1) : j \in 1..n \/ j = n + 1
  BY <1>0
<1>4. \A j \in 1..n : j \in 1..(n + 1) /\ j # n + 1
  BY <1>0
<1>5. n + 1 \in 1..(n + 1)
  BY <1>0
<1>6. a \in Buckets
  BY <1>0, <1>1, <1>2, <1>3 DEF Buckets
<1>7. \A i : i \in In(a) <=> i \in In(bs) \/ i \in Range(b)
  <2>1. \A i : i \in In(a) <=> \E j \in 1..(n + 1) : i \in Range(a[j])
    BY <1>2 DEF In
  <2> QED
    BY <1>0, <1>1, <1>3, <1>4, <1>5, <2>1
<1>8. Distinct(bs) /\ Once(b) /\ In(bs) \cap Range(b) = {} => Distinct(a)
  <2> SUFFICES ASSUME Distinct(bs), Once(b), In(bs) \cap Range(b) = {},
                      NEW j \in 1..(n + 1)
               PROVE  Once(a[j]) /\ \A k \in 1..(n + 1) : Range(a[j]) \cap Range(a[k]) # {} => j = k
    BY <1>2 DEF Distinct
  <2>1. \A k \in 1..n : Range(bs[k]) \cap Range(b) = {}
    BY <1>0
  <2>2. Once(a[j])
    BY <1>0, <1>1, <1>3 DEF Distinct
  <2>3. ASSUME NEW k \in 1..(n + 1), Range(a[j]) \cap Range(a[k]) # {}
        PROVE  j = k
    <3>1. CASE j \in 1..n /\ k \in 1..n
      BY <1>0, <1>1, <2>3, <3>1 DEF Distinct
    <3>2. CASE j = n + 1 /\ k = n + 1
      BY <3>2
    <3>3. CASE j \in 1..n /\ k = n + 1
      BY <1>1, <2>1, <2>3, <3>3
    <3>4. CASE j = n + 1 /\ k \in 1..n
      BY <1>1, <2>1, <2>3, <3>4
    <3> QED
      BY <1>3, <3>1, <3>2, <3>3, <3>4
  <2> QED
    BY <2>2, <2>3
<1>9. ASSUME NEW cs PROVE Saids(cs, a) = Saids(cs, bs) \cup {Said(cs, b)}
  <2>1. \A x : x \in Saids(cs, a) <=> \E j \in 1..(n + 1) : x = Said(cs, a[j])
    BY <1>2 DEF Saids
  <2>2. \A x : x \in Saids(cs, bs) <=> \E j \in 1..n : x = Said(cs, bs[j])
    BY <1>0 DEF Saids
  <2>3. \A x : x \in Saids(cs, a) <=> x \in Saids(cs, bs) \/ x = Said(cs, b)
    BY <1>1, <1>3, <1>4, <1>5, <2>1, <2>2
  <2> QED
    BY <2>3
<1> QED
  BY <1>0, <1>1, <1>6, <1>7, <1>8, <1>9 DEF a, n

\* Two lists that have nothing in common are put together.
LEMMA BucketsConcatenated ==
  ASSUME NEW p \in Buckets, NEW q \in Buckets
  PROVE  /\ p \o q \in Buckets /\ Len(p \o q) = Len(p) + Len(q) /\ Len(p) \in Nat /\ Len(q) \in Nat
         /\ \A j \in 1..Len(p) : (p \o q)[j] = p[j]
         /\ In(p \o q) = In(p) \cup In(q)
         /\ Distinct(p) /\ Distinct(q) /\ In(p) \cap In(q) = {} => Distinct(p \o q)
         /\ \A cs : Saids(cs, p \o q) = Saids(cs, p) \cup Saids(cs, q)
<1> DEFINE a == p \o q
           m == Len(p)
           n == Len(q)
<1>0. /\ p \in Seq(Seq(Cells)) /\ m \in Nat /\ DOMAIN p = 1..m
      /\ \A i : i \in In(p) <=> \E j \in 1..m : i \in Range(p[j])
  BY BucketsAre
<1>00. /\ q \in Seq(Seq(Cells)) /\ n \in Nat /\ DOMAIN q = 1..n
       /\ \A i : i \in In(q) <=> \E j \in 1..n : i \in Range(q[j])
  BY BucketsAre
<1>1. /\ a \in Seq(Seq(Cells)) /\ Len(a) = m + n
      /\ (\A j \in 1..m : a[j] = p[j]) /\ (\A j \in 1..n : a[m + j] = q[j])
  BY <1>0, <1>00, Concatenated
<1>2. DOMAIN a = 1..(m + n)
  BY <1>1, LenProperties
<1> HIDE DEF a, m, n
<1>3. \A j \in 1..(m + n) : j \in 1..m \/ \E k \in 1..n : j = m + k
  <2> TAKE j \in 1..(m + n)
  <2>1. CASE j <= m
    BY <1>0, <1>00, <2>1
  <2>2. CASE ~(j <= m)
    <3>1. j - m \in 1..n /\ j = m + (j - m)
      BY <1>0, <1>00, <2>2
    <3> QED
      BY <3>1
  <2> QED
    BY <2>1, <2>2
<1>4. /\ \A j \in 1..m : j \in 1..(m + n)
      /\ \A k \in 1..n : m + k \in 1..(m + n)
  BY <1>0, <1>00
<1>5. a \in Buckets
  <2>1. \A j \in 1..(m + n) : a[j] # << >>
    <3> TAKE j \in 1..(m + n)
    <3>1. CASE j \in 1..m
      BY <1>0, <1>1, <3>1 DEF Buckets
    <3>2. CASE \E k \in 1..n : j = m + k
      BY <1>00, <1>1, <3>2 DEF Buckets
    <3> QED
      BY <1>3, <3>1, <3>2
  <2> QED
    BY <1>1, <1>2, <2>1 DEF Buckets
<1>6. In(a) = In(p) \cup In(q)
  <2>1. \A i : i \in In(a) <=> \E j \in 1..(m + n) : i \in Range(a[j])
    BY <1>2 DEF In
  <2>2. \A i : i \in In(a) => i \in In(p) \/ i \in In(q)
    BY <1>0, <1>00, <1>1, <1>3, <2>1
  <2>3. \A i : i \in In(p) \/ i \in In(q) => i \in In(a)
    BY <1>0, <1>00, <1>1, <1>4, <2>1
  <2> QED
    BY <2>2, <2>3
<1>7. Distinct(p) /\ Distinct(q) /\ In(p) \cap In(q) = {} => Distinct(a)
  <2> SUFFICES ASSUME Distinct(p), Distinct(q), In(p) \cap In(q) = {},
                      NEW j \in 1..(m + n)
               PROVE  Once(a[j]) /\ \A k \in 1..(m + n) : Range(a[j]) \cap Range(a[k]) # {} => j = k
    BY <1>2 DEF Distinct
  <2>1. \A k \in 1..m, l \in 1..n : Range(p[k]) \cap Range(q[l]) = {}
    BY <1>0, <1>00
  <2>2. Once(a[j])
    <3>1. CASE j \in 1..m
      BY <1>0, <1>1, <3>1 DEF Distinct
    <3>2. CASE \E k \in 1..n : j = m + k
      BY <1>00, <1>1, <3>2, ZenonT(100) DEF Distinct
    <3> QED
      BY <1>3, <3>1, <3>2
  <2>3. ASSUME NEW k \in 1..(m + n), Range(a[j]) \cap Range(a[k]) # {}
        PROVE  j = k
    <3>1. CASE j \in 1..m /\ k \in 1..m
      BY <1>0, <1>1, <2>3, <3>1 DEF Distinct
    <3>2. ASSUME NEW u \in 1..n, NEW v \in 1..n, j = m + u, k = m + v
          PROVE  j = k
      <4>1. a[j] = q[u] /\ a[k] = q[v]
        BY <1>1, <3>2
      <4>2. u = v
        BY <1>00, <2>3, <4>1 DEF Distinct
      <4> QED
        BY <3>2, <4>2
    <3>3. ASSUME j \in 1..m, NEW v \in 1..n, k = m + v
          PROVE  FALSE
      BY <1>1, <2>1, <2>3, <3>3
    <3>4. ASSUME k \in 1..m, NEW u \in 1..n, j = m + u
          PROVE  FALSE
      BY <1>1, <2>1, <2>3, <3>4
    <3> QED
      BY <1>3, <3>1, <3>2, <3>3, <3>4
  <2> QED
    BY <2>2, <2>3
<1>8. ASSUME NEW cs PROVE Saids(cs, a) = Saids(cs, p) \cup Saids(cs, q)
  <2>1. \A x : x \in Saids(cs, a) <=> \E j \in 1..(m + n) : x = Said(cs, a[j])
    BY <1>2 DEF Saids
  <2>2. \A x : x \in Saids(cs, p) <=> \E j \in 1..m : x = Said(cs, p[j])
    BY <1>0 DEF Saids
  <2>3. \A x : x \in Saids(cs, q) <=> \E j \in 1..n : x = Said(cs, q[j])
    BY <1>00 DEF Saids
  <2>4. ASSUME NEW x, x \in Saids(cs, a)
        PROVE  x \in Saids(cs, p) \/ x \in Saids(cs, q)
    <3>1. PICK j \in 1..(m + n) : x = Said(cs, a[j])
      BY <2>1, <2>4
    <3>2. CASE j \in 1..m
      BY <1>1, <2>2, <3>1, <3>2
    <3>3. CASE \E k \in 1..n : j = m + k
      BY <1>1, <2>3, <3>1, <3>3
    <3> QED
      BY <1>3, <3>2, <3>3
  <2>5. \A x : x \in Saids(cs, p) \/ x \in Saids(cs, q) => x \in Saids(cs, a)
    BY <1>1, <1>4, <2>1, <2>2, <2>3
  <2> QED
    BY <2>4, <2>5
<1> QED
  BY <1>0, <1>00, <1>1, <1>5, <1>6, <1>7, <1>8 DEF a, m, n

\* The same in one formula.
Joined(p, q, a) ==
  /\ a \in Buckets /\ Len(a) = Len(p) + Len(q) /\ Len(p) \in Nat /\ Len(q) \in Nat
  /\ \A j \in 1..Len(p) : a[j] = p[j]
  /\ In(a) = In(p) \cup In(q)
  /\ Distinct(p) /\ Distinct(q) /\ In(p) \cap In(q) = {} => Distinct(a)
  /\ \A cs : Saids(cs, a) = Saids(cs, p) \cup Saids(cs, q)

LEMMA BucketsJoined ==
  ASSUME NEW p \in Buckets, NEW q \in Buckets
  PROVE  Joined(p, q, p \o q)
BY BucketsConcatenated DEF Joined

\* What a bucket or a list says depends on its own conditions only.
LEMMA SaidDepends ==
  ASSUME NEW b, NEW cs, NEW ds, \A i \in Range(b) : cs[i] = ds[i]
  PROVE  Said(cs, b) = Said(ds, b)
BY DEF Said

LEMMA SaidsDepend ==
  ASSUME NEW bs, NEW cs, NEW ds, \A i \in In(bs) : cs[i] = ds[i]
  PROVE  Saids(cs, bs) = Saids(ds, bs)
<1>1. \A j \in DOMAIN bs : Said(cs, bs[j]) = Said(ds, bs[j])
  BY SaidDepends DEF In
<1> QED
  BY <1>1 DEF Saids

\* What allocation leaves as it was.
LEMMA PresentStays ==
  ASSUME NEW s \in Memory, NEW t, NEW new, Allocated(s, t, new), NEW S \in SUBSET Cells,
         \A i \in S : s.conds[i] # Freed
  PROVE  /\ \A i \in S : t.conds[i] = s.conds[i] /\ t.conds[i] # Freed
         /\ S \cap new = {}
BY UnusedIs DEF Allocated

\* bs holds copies of the first k buckets of b, of which the first conditions are new.
DeepUpTo(s, t, b, bs, k) ==
  /\ bs \in Buckets /\ Len(bs) = k /\ Grows(s, t) /\ t.used = s.used /\ AllPresent(t, bs)
  /\ Cardinality(Unused(s)) >= k =>
       /\ Allocated(s, t, In(bs) \ In(b)) /\ Distinct(bs)
       /\ Cardinality(Unused(t)) = Cardinality(Unused(s)) - k
       /\ \A j \in 1..k : Range(bs[j]) \subseteq (In(bs) \ In(b)) \cup Range(Tail(b[j]))
       /\ \A j \in 1..k : Said(t.conds, bs[j]) = Said(s.conds, b[j])

LEMMA DeepOneMore ==
  ASSUME NEW s \in Memory, NEW t \in Memory, NEW b \in Buckets, NEW bs, NEW k \in Nat,
         k + 1 \in 1..Len(b), AllPresent(s, b), Distinct(b), DeepUpTo(s, t, b, bs, k)
  PROVE  DeepUpTo(s, PutCopy(t, Head(b[k + 1])), b,
                  Append(bs, <<NewCell(t)>> \o Tail(b[k + 1])), k + 1)
<1> DEFINE o == b[k + 1]
           i == o[1]
           u == PutCopy(t, i)
           n == NewCell(t)
           c == <<n>> \o Tail(o)
           a == Append(bs, c)
<1>1. /\ o \in Seq(Cells) /\ o # << >> /\ Range(o) \subseteq In(b) /\ Once(o)
      /\ \A j \in 1..k : j \in 1..Len(b) /\ Range(b[j]) \cap Range(o) = {}
                         /\ b[j] \in Seq(Cells) /\ b[j] # << >>
  <2>1. o \in Seq(Cells) /\ o # << >> /\ Range(o) \subseteq In(b) /\ k + 1 \in DOMAIN b
    BY BucketsAre
  <2>2. \A j \in 1..k : j \in 1..Len(b) /\ j # k + 1
    BY BucketsAre
  <2> HIDE DEF o
  <2>3. \A j \in 1..k : b[j] \in Seq(Cells) /\ b[j] # << >> /\ j \in DOMAIN b
    BY <2>2, BucketsAre
  <2> QED
    BY <2>1, <2>2, <2>3 DEF Distinct, o
<1>2. /\ Head(o) = i /\ i \in Range(o) /\ Tail(o) \in Seq(Cells)
      /\ Range(o) = {i} \cup Range(Tail(o)) /\ Once(Tail(o)) /\ i \notin Range(Tail(o))
  BY <1>1, TailIs
<1> HIDE DEF o
<1>3. In(b) \subseteq Cells /\ i \in Cells /\ s.conds[i] # Freed /\ i \in In(b)
  BY <1>1, <1>2, BucketsAre DEF AllPresent
<1>4. /\ bs \in Buckets /\ Len(bs) = k /\ Grows(s, t) /\ t.used = s.used /\ AllPresent(t, bs)
      /\ In(bs) \subseteq Cells
  BY BucketsAre DEF DeepUpTo
<1>5. t.conds[i] # Freed
  BY <1>3, <1>4 DEF Grows
<1> HIDE DEF i
<1>6. /\ Grows(t, u) /\ n \in Cells /\ u.conds[n] # Freed /\ Test(u.conds[n]) = Test(t.conds[i])
      /\ Cardinality(Unused(t)) >= 1 => Allocated(t, u, {n})
      /\ u.used = t.used
  <2>1. u.used = t.used
    BY DEF PutCopy, Put, Memory
  <2> HIDE DEF u, n
  <2> QED
    BY <1>3, <1>5, <2>1, PutCopyIs DEF u, n
<1> HIDE DEF u, n
<1>7. /\ c \in Seq(Cells) /\ c # << >> /\ Range(c) = {n} \cup Range(Tail(o))
      /\ n \notin Range(Tail(o)) => Once(c)
  <2>1. /\ <<n>> \in Seq(Cells) /\ Range(<<n>>) = {n} /\ Once(<<n>>)
    BY <1>6 DEF Range, Once
  <2>2. /\ c \in Seq(Cells) /\ Len(c) = Len(<<n>>) + Len(Tail(o)) /\ Len(Tail(o)) \in Nat
        /\ Range(c) = {n} \cup Range(Tail(o))
        /\ n \notin Range(Tail(o)) => Once(c)
    <3> DEFINE e == <<n>>
               r == Tail(o)
    <3>1. e \in Seq(Cells) /\ Range(e) = {n} /\ Once(e) /\ r \in Seq(Cells) /\ Once(r)
      BY <1>2, <2>1
    <3> HIDE DEF e, r
    <3>2. /\ e \o r \in Seq(Cells) /\ Len(e \o r) = Len(e) + Len(r) /\ Len(r) \in Nat
          /\ Range(e \o r) = Range(e) \cup Range(r)
          /\ Once(e) /\ Once(r) /\ Range(e) \cap Range(r) = {} => Once(e \o r)
      BY <3>1, Concatenated
    <3>3. n \notin Range(r) => Range(e) \cap Range(r) = {}
      BY <3>1
    <3> QED
      BY <3>1, <3>2, <3>3 DEF e, r
  <2>3. Len(<<n>>) = 1 /\ Len(<< >>) = 0
    OBVIOUS
  <2> HIDE DEF c
  <2>4. Len(c) # 0
    BY <2>2, <2>3
  <2> QED
    BY <2>2, <2>3, <2>4
<1> HIDE DEF c
<1>8. /\ a \in Buckets /\ Len(a) = k + 1 /\ In(a) = In(bs) \cup Range(c)
      /\ (\A j \in 1..k : a[j] = bs[j]) /\ a[k + 1] = c
      /\ Distinct(bs) /\ Once(c) /\ In(bs) \cap Range(c) = {} => Distinct(a)
  BY <1>4, <1>7, BucketAppended
<1> HIDE DEF a
<1>9. Grows(s, u) /\ AllPresent(u, a) /\ u.used = s.used
  <2>1. Grows(s, u)
    BY <1>4, <1>6, GrowsTwice
  <2>2. \A m \in Range(Tail(o)) : m \in Cells /\ s.conds[m] # Freed
    BY <1>1, <1>2, <1>3 DEF AllPresent
  <2>3. AllPresent(u, a)
    BY <1>4, <1>6, <1>7, <1>8, <2>1, <2>2 DEF AllPresent, Grows
  <2> QED
    BY <1>4, <1>6, <2>1, <2>3
<1>10. ASSUME Cardinality(Unused(s)) >= k + 1
       PROVE  /\ Allocated(s, u, In(a) \ In(b)) /\ Distinct(a)
              /\ Cardinality(Unused(u)) = Cardinality(Unused(s)) - (k + 1)
              /\ \A j \in 1..(k + 1) : Range(a[j]) \subseteq (In(a) \ In(b)) \cup Range(Tail(b[j]))
              /\ \A j \in 1..(k + 1) : Said(u.conds, a[j]) = Said(s.conds, b[j])
  <2>1. Cardinality(Unused(s)) \in Nat /\ Cardinality(Unused(t)) \in Nat
    BY UnusedIs
  <2> DEFINE new == In(bs) \ In(b)
  <2>2. /\ Allocated(s, t, new) /\ Distinct(bs)
        /\ Cardinality(Unused(t)) = Cardinality(Unused(s)) - k
        /\ \A j \in 1..k : Range(bs[j]) \subseteq new \cup Range(Tail(b[j]))
        /\ \A j \in 1..k : Said(t.conds, bs[j]) = Said(s.conds, b[j])
    BY <1>10, <2>1 DEF DeepUpTo
  <2>3. Allocated(t, u, {n})
    BY <1>6, <1>10, <2>1, <2>2
  <2>4. Allocated(s, u, new \cup {n}) /\ new \cap {n} = {}
    BY <2>2, <2>3, AllocatedTwice, ZenonT(60)
  <2>5. Cardinality(Unused(u)) = Cardinality(Unused(t)) - 1
    <3>1. Cardinality({n}) = 1
      BY FS_Singleton
    <3>2. Cardinality(Unused(u)) = Cardinality(Unused(t)) - Cardinality({n})
      BY <2>3, UnusedAfter
    <3> QED
      BY <3>1, <3>2
  <2>6. n \notin In(b) /\ n \notin In(bs)
    <3>1. In(b) \cap (new \cup {n}) = {}
      BY <1>3, <2>4, PresentStays DEF AllPresent
    <3> QED
      BY <2>4, <3>1
  <2>7. n \notin Range(Tail(o)) /\ Range(Tail(o)) \subseteq In(b)
    BY <1>1, <1>2, <2>6
  <2>8. In(a) \ In(b) = new \cup {n}
    BY <1>7, <1>8, <2>6, <2>7
  <2>9. In(bs) \cap Range(Tail(o)) = {}
    <3> SUFFICES ASSUME NEW x \in In(bs), x \in Range(Tail(o)) PROVE FALSE
      OBVIOUS
    <3>1. PICK j \in 1..k : x \in Range(bs[j])
      BY <1>4, BucketsAre
    <3>2. x \in Range(Tail(b[j]))
      BY <2>2, <2>7, <3>1
    <3>3. x \in Range(b[j])
      BY <1>1, <3>2, TailIs
    <3> QED
      BY <1>1, <1>2, <3>3
  <2>10. Distinct(a)
    BY <1>7, <1>8, <2>2, <2>6, <2>7, <2>9
  <2>11. \A j \in 1..(k + 1) : j \in 1..k \/ j = k + 1
    OBVIOUS
  <2>12. \A j \in 1..(k + 1) : Range(a[j]) \subseteq (new \cup {n}) \cup Range(Tail(b[j]))
    BY <1>7, <1>8, <2>2, <2>11 DEF o
  <2>13. ASSUME NEW j \in 1..k
         PROVE  Said(u.conds, a[j]) = Said(s.conds, b[j])
    <3>1. Range(bs[j]) \subseteq In(bs)
      BY <1>4, BucketsAre
    <3>2. \A x \in Range(bs[j]) : u.conds[x] = t.conds[x]
      BY <1>4, <2>3, <2>6, <3>1 DEF Allocated
    <3> QED
      BY <1>8, <2>2, <3>2, SaidDepends
  <2>14. Said(u.conds, c) = Said(s.conds, o)
    <3>1. t.conds[i] = s.conds[i]
      BY <1>3, <2>2, PresentStays DEF AllPresent
    <3>2. \A x \in Range(Tail(o)) : u.conds[x] = s.conds[x]
      <4>1. \A x \in In(b) : u.conds[x] = s.conds[x]
        BY <1>3, <2>4, PresentStays DEF AllPresent
      <4> QED
        BY <2>7, <4>1
    <3>3. Said(u.conds, c) = {Test(u.conds[n])} \cup {Test(u.conds[x]) : x \in Range(Tail(o))}
      BY <1>7 DEF Said
    <3>4. Said(s.conds, o) = {Test(s.conds[i])} \cup {Test(s.conds[x]) : x \in Range(Tail(o))}
      BY <1>2 DEF Said
    <3> QED
      BY <1>6, <3>1, <3>2, <3>3, <3>4
  <2>15. \A j \in 1..(k + 1) : Said(u.conds, a[j]) = Said(s.conds, b[j])
    BY <1>8, <2>11, <2>13, <2>14 DEF o
  <2>16. Cardinality(Unused(u)) = Cardinality(Unused(s)) - (k + 1)
    BY <2>1, <2>2, <2>5
  <2> HIDE DEF new
  <2> QED
    BY <2>4, <2>8, <2>10, <2>12, <2>15, <2>16
<1>11. DeepUpTo(s, u, b, a, k + 1)
  BY <1>8, <1>9, <1>10 DEF DeepUpTo
<1> QED
  BY <1>2, <1>11 DEF u, a, c, n, o

\* CopyDeep copies bucket by bucket.
LEMMA CopyDeepIs ==
  ASSUME NEW s \in Memory, NEW bl, bl.bkts \in Buckets, AllPresent(s, bl.bkts), Distinct(bl.bkts)
  PROVE  \E bs : /\ CopyDeep(s, bl).bl = ListOf(bs)
                 /\ DeepUpTo(s, CopyDeep(s, bl).s, bl.bkts, bs, Len(bl.bkts))
<1> DEFINE b == bl.bkts
           n == Len(b)
           base == [s |-> s, bs |-> << >>]
           T == {x \in [s : Memory, bs : Seq(Seq(Cells))] : \A k \in 1..n : x.s.conds[b[k][1]] # Freed}
           Step(x, e) == [s |-> PutCopy(x.s, Head(e)), bs |-> Append(x.bs, <<NewCell(x.s)>> \o Tail(e))]
           Value(h, S) == IF S = {} THEN base ELSE Step(h[S \ {Max(S)}], b[Max(S)])
           fold == CHOOSE h : h = [S \in SUBSET (DOMAIN b) |-> Value(h, S)]
           deep == fold[DOMAIN b]
<1>2. CopyDeep(s, bl) = [s |-> deep.s, bl |-> ListOf(deep.bs)]
  BY DEF CopyDeep, FoldLeft, MapThenFoldSet
<1>0. CopyDeep(s, bl).s = deep.s /\ CopyDeep(s, bl).bl = ListOf(deep.bs)
  <2> HIDE DEF deep
  <2> QED
    BY <1>2
<1>00. b \in Buckets /\ AllPresent(s, b) /\ Distinct(b)
  OBVIOUS
<1> HIDE DEF b
<1>1. /\ n \in Nat /\ DOMAIN b = 1..n
      /\ \A k \in 1..n : /\ b[k] \in Seq(Cells) /\ b[k] # << >>
                         /\ Head(b[k]) = b[k][1] /\ b[k][1] \in Cells /\ Tail(b[k]) \in Seq(Cells)
                         /\ s.conds[b[k][1]] # Freed
  <2>1. n \in Nat /\ DOMAIN b = 1..n
    BY <1>00, BucketsAre
  <2>2. ASSUME NEW k \in 1..n
        PROVE  /\ b[k] \in Seq(Cells) /\ b[k] # << >>
               /\ Head(b[k]) = b[k][1] /\ b[k][1] \in Cells /\ Tail(b[k]) \in Seq(Cells)
               /\ s.conds[b[k][1]] # Freed
    <3>1. b[k] \in Seq(Cells) /\ b[k] # << >> /\ Range(b[k]) \subseteq Cells
      BY <1>00, BucketsAre
    <3>2. Head(b[k]) = b[k][1] /\ b[k][1] \in Range(b[k]) /\ Tail(b[k]) \in Seq(Cells)
      BY <3>1, TailIs
    <3>3. b[k][1] \in In(b)
      BY <1>00, <3>2, BucketsAre
    <3> QED
      BY <1>00, <3>1, <3>2, <3>3 DEF AllPresent
  <2> QED
    BY <2>1, <2>2
<1> HIDE DEF n
<1>3. base \in T /\ \A k \in 1..n, x \in T : Step(x, b[k]) \in T
  <2>1. base \in T
    BY <1>1
  <2>2. ASSUME NEW k \in 1..n, NEW x \in T
        PROVE  Step(x, b[k]) \in T
    <3>1. x.s \in Memory /\ x.bs \in Seq(Seq(Cells)) /\ Head(b[k]) \in Cells /\ x.s.conds[Head(b[k])] # Freed
      BY <1>1
    <3>2. Grows(x.s, PutCopy(x.s, Head(b[k]))) /\ NewCell(x.s) \in Cells
      BY <3>1, PutCopyIs
    <3>3. <<NewCell(x.s)>> \o Tail(b[k]) \in Seq(Cells)
      <4> DEFINE e == <<NewCell(x.s)>>
                 r == Tail(b[k])
      <4>1. e \in Seq(Cells) /\ r \in Seq(Cells)
        BY <1>1, <3>2
      <4> HIDE DEF e, r
      <4>2. e \o r \in Seq(Cells)
        BY <4>1, Concatenated
      <4> QED
        BY <4>2 DEF e, r
    <3>4. Append(x.bs, <<NewCell(x.s)>> \o Tail(b[k])) \in Seq(Seq(Cells))
      BY <3>1, <3>3, Appended
    <3> QED
      BY <1>1, <3>1, <3>2, <3>4 DEF Grows
  <2> QED
    BY <2>1, <2>2
<1> HIDE DEF base
<1> HIDE DEF n, Step, T
<1> DEFINE G == [k \in 1..n |-> [x \in T |-> Step(x, b[k])]]
<1>4. G \in [1..n -> [T -> T]]
  BY <1>3
<1>5. PICK h \in [SUBSET (1..n) -> T] :
        \A S \in SUBSET (1..n) : h[S] = IF S = {} THEN base ELSE G[Max(S)][h[S \ {Max(S)}]]
  <2> HIDE DEF G
  <2>1. \E h : FoldsFrom(h, n, T, base, G)
    BY <1>1, <1>3, <1>4, FoldExists
  <2> QED
    BY <2>1 DEF FoldsFrom
<1>6. \A S \in SUBSET (1..n) : h[S] = Value(h, S)
  <2> SUFFICES ASSUME NEW S \in SUBSET (1..n), S # {}
               PROVE  h[S] = Step(h[S \ {Max(S)}], b[Max(S)])
    BY <1>5
  <2>1. Max(S) \in 1..n /\ S \ {Max(S)} \in SUBSET (1..n)
    BY <1>1, MaxOfPlaces
  <2> QED
    BY <1>5, <2>1
<1>7. fold = [S \in SUBSET (1..n) |-> Value(fold, S)]
  <2> HIDE DEF Value
  <2>1. h = [S \in SUBSET (DOMAIN b) |-> Value(h, S)]
    BY <1>1, <1>5, <1>6
  <2> QED
    BY <1>1, <2>1
<1> HIDE DEF fold
<1>8. fold[{}] = base
  BY <1>7
<1>9. ASSUME NEW k \in 1..n, fold[1..(k - 1)] \in T
      PROVE  fold[1..k] = G[k][fold[1..(k - 1)]]
  <2>1. 1..k # {} /\ Max(1..k) = k /\ (1..k) \ {k} = 1..(k - 1) /\ 1..k \in SUBSET (1..n)
    <3>1. k \in Nat /\ k # 0 /\ 1..k \in SUBSET (1..n)
      BY <1>1
    <3> QED
      BY <3>1, MaxOfInterval
  <2>2. fold[1..k] = Value(fold, 1..k)
    <3> HIDE DEF Value
    <3> QED
      BY <1>7, <2>1
  <2>3. fold[1..k] = Step(fold[1..(k - 1)], b[k])
    BY <2>1, <2>2
  <2> QED
    BY <1>9, <2>3
<1>10. \E f : FoldsUpTo(f, n, T, base, G, fold[1..n])
  <2>1. n \in Nat /\ base \in T
    BY <1>1, <1>3
  <2> HIDE DEF G
  <2>2. IsFold(fold, n, T, base, G)
    BY <1>8, <1>9 DEF IsFold
  <2> QED
    BY <1>4, <2>1, <2>2, FoldPrefixes
<1>11. PICK f \in [0..n -> T] : /\ f[0] = base /\ f[n] = fold[1..n]
                                /\ \A k \in 1..n : f[k] = G[k][f[k - 1]]
  BY <1>10 DEF FoldsUpTo
<1>12. \A k \in 1..n : k - 1 \in 0..n /\ f[k - 1] \in T /\ f[k] = Step(f[k - 1], b[k])
  <2> TAKE k \in 1..n
  <2>1. k - 1 \in 0..n
    BY <1>1
  <2> QED
    BY <1>11, <2>1
<1> HIDE DEF G, Value
<1> DEFINE R == {k \in 0..n : DeepUpTo(s, f[k].s, b, f[k].bs, k)}
<1>13. 0 \in R
  <2>1. 0 \in 0..n /\ f[0].s = s /\ f[0].bs = << >>
    BY <1>1, <1>11 DEF base
  <2>2. DeepUpTo(s, s, b, << >>, 0)
    <3> DEFINE e == << >>
    <3>1. e \in Buckets /\ Len(e) = 0 /\ In(e) = {} /\ Distinct(e)
      BY DEF Buckets, In, Distinct
    <3> HIDE DEF e
    <3>2. Grows(s, s) /\ AllPresent(s, e)
      BY <3>1 DEF Grows, AllPresent
    <3>3. Allocated(s, s, In(e) \ In(b))
      BY <3>1, AllocatedNothing
    <3>4. Cardinality(Unused(s)) \in Nat /\ 1..0 = {}
      BY UnusedIs
    <3>5. DeepUpTo(s, s, b, e, 0)
      BY <3>1, <3>2, <3>3, <3>4 DEF DeepUpTo
    <3> QED
      BY <3>5 DEF e
  <2> QED
    BY <2>1, <2>2
<1>14. ASSUME NEW k \in 1..n, k - 1 \in R
       PROVE  k \in R
  <2> DEFINE m == k - 1
  <2>1. m \in Nat /\ m + 1 = k /\ k \in 0..n /\ m + 1 \in 1..Len(b)
    BY <1>1 DEF n
  <2>2. f[m].s \in Memory /\ DeepUpTo(s, f[m].s, b, f[m].bs, m)
    BY <1>12, <1>14 DEF T
  <2>3. f[k].s = PutCopy(f[m].s, Head(b[k])) /\ f[k].bs = Append(f[m].bs, <<NewCell(f[m].s)>> \o Tail(b[k]))
    <3>1. f[k] = Step(f[m], b[k])
      BY <1>12
    <3> DEFINE x == f[m]
    <3>2. f[k] = [s |-> PutCopy(x.s, Head(b[k])), bs |-> Append(x.bs, <<NewCell(x.s)>> \o Tail(b[k]))]
      BY <3>1 DEF Step
    <3> HIDE DEF x
    <3>3. f[k].s = PutCopy(x.s, Head(b[k])) /\ f[k].bs = Append(x.bs, <<NewCell(x.s)>> \o Tail(b[k]))
      BY <3>2
    <3> QED
      BY <3>3 DEF x
  <2> HIDE DEF m
  <2>4. DeepUpTo(s, PutCopy(f[m].s, Head(b[m + 1])), b,
                 Append(f[m].bs, <<NewCell(f[m].s)>> \o Tail(b[m + 1])), m + 1)
    BY <1>00, <2>1, <2>2, DeepOneMore
  <2>5. DeepUpTo(s, f[k].s, b, f[k].bs, k)
    BY <2>1, <2>3, <2>4
  <2> QED
    BY <2>1, <2>5
<1>15. n \in R
  <2>1. \A k \in 1..n : k - 1 \in R => k \in R
    BY <1>14
  <2>2. n \in 0..n /\ n \in Nat
    BY <1>1
  <2> HIDE DEF R
  <2> QED
    BY <1>13, <2>1, <2>2, PrefixInduction
<1>16. deep = f[n]
  BY <1>1, <1>11
<1>17. DeepUpTo(s, f[n].s, b, f[n].bs, n)
  BY <1>15
<1>18. CopyDeep(s, bl).bl = ListOf(f[n].bs) /\ CopyDeep(s, bl).s = f[n].s
  BY <1>0, <1>16
<1> QED
  BY <1>17, <1>18 DEF n, b

\* A deep copy says the same, and needs none of the conditions that head the original's buckets.
LEMMA DeepCopied ==
  ASSUME NEW s \in Memory, NEW bl, bl.bkts \in Buckets, AllPresent(s, bl.bkts), Distinct(bl.bkts),
         Cardinality(Unused(s)) >= Len(bl.bkts), NEW t, NEW copy,
         t = CopyDeep(s, bl).s, copy = CopyDeep(s, bl).bl
  PROVE  /\ copy = ListOf(copy.bkts) /\ copy.bkts \in Buckets /\ Len(copy.bkts) = Len(bl.bkts)
         /\ Allocated(s, t, In(copy.bkts) \ In(bl.bkts)) /\ Distinct(copy.bkts) /\ AllPresent(t, copy.bkts)
         /\ Saids(t.conds, copy.bkts) = Saids(s.conds, bl.bkts)
         /\ bl.bkts # << >> => bl.bkts[1][1] \notin In(copy.bkts)
         /\ SingleLinks(bl) => In(copy.bkts) \cap In(bl.bkts) = {}
<1> DEFINE b == bl.bkts
           n == Len(b)
<1>1. PICK bs : copy = ListOf(bs) /\ DeepUpTo(s, t, b, bs, n)
  BY CopyDeepIs
<1>2. copy.bkts = bs /\ copy = ListOf(copy.bkts)
  BY <1>1 DEF ListOf
<1>3. b \in Buckets /\ AllPresent(s, b) /\ Distinct(b) /\ Cardinality(Unused(s)) >= n
  OBVIOUS
<1>4. SingleLinks(bl) => \A j \in DOMAIN b : Len(b[j]) = 1
  BY DEF SingleLinks
<1> HIDE DEF b
<1>5. n \in Nat /\ DOMAIN b = 1..n /\ \A j \in 1..n : b[j] \in Seq(Cells) /\ b[j] # << >>
  BY <1>3, BucketsAre
<1> HIDE DEF n
<1> DEFINE new == In(bs) \ In(b)
<1>6. /\ bs \in Buckets /\ Len(bs) = n /\ AllPresent(t, bs)
      /\ Allocated(s, t, new) /\ Distinct(bs)
      /\ \A j \in 1..n : Range(bs[j]) \subseteq new \cup Range(Tail(b[j]))
      /\ \A j \in 1..n : Said(t.conds, bs[j]) = Said(s.conds, b[j])
  BY <1>1, <1>3 DEF DeepUpTo
<1>7. DOMAIN bs = 1..n /\ \A i : i \in In(bs) <=> \E j \in 1..n : i \in Range(bs[j])
  BY <1>6, BucketsAre
<1>8. Saids(t.conds, bs) = Saids(s.conds, b)
  BY <1>5, <1>6, <1>7 DEF Saids
<1>9. b # << >> => b[1][1] \notin In(bs)
  <2> SUFFICES ASSUME b # << >>, b[1][1] \in In(bs) PROVE FALSE
    OBVIOUS
  <2>1. 1 \in 1..n
    <3>1. n # 0
      BY <1>3, EmptySeq DEF n, Buckets
    <3> QED
      BY <1>5, <3>1
  <2> DEFINE i == b[1][1]
  <2>2. i \in Range(b[1]) /\ (Once(b[1]) => i \notin Range(Tail(b[1])))
    BY <1>5, <2>1, TailIs
  <2> HIDE DEF i
  <2>3. i \in In(b) /\ Once(b[1])
    BY <1>3, <1>5, <2>1, <2>2, BucketsAre DEF Distinct
  <2>4. PICK j \in 1..n : i \in Range(bs[j])
    BY <1>7 DEF i
  <2>5. i \in Range(Tail(b[j]))
    BY <1>6, <2>3, <2>4
  <2>6. i \in Range(b[j])
    BY <1>5, <2>5, TailIs
  <2>7. j = 1
    BY <1>3, <1>5, <2>1, <2>2, <2>6 DEF Distinct
  <2> QED
    BY <2>2, <2>3, <2>5, <2>7
<1>10. SingleLinks(bl) => In(bs) \cap In(b) = {}
  <2> SUFFICES ASSUME \A j \in 1..n : Len(b[j]) = 1, NEW i \in In(bs), i \in In(b)
               PROVE  FALSE
    BY <1>4, <1>5
  <2>1. PICK j \in 1..n : i \in Range(bs[j])
    BY <1>7
  <2>2. i \in Range(Tail(b[j]))
    BY <1>6, <2>1
  <2>3. Tail(b[j]) \in Seq(Cells) /\ Len(Tail(b[j])) = 0
    BY <1>5, TailIs
  <2> QED
    BY <2>2, <2>3, EmptySeq DEF Range
<1> QED
  BY <1>2, <1>6, <1>8, <1>9, <1>10 DEF n, b

-----------------------------------------------------------------------------
(* Sums and products of lists.                                             *)

Lists == {l \in [bkts : Buckets, last : Nat, total : Nat] : l.last \in 0..Len(l.bkts)}

\* A list that owns what it links, in memory s.
Sound(s, bl) == bl \in Lists /\ Distinct(bl.bkts) /\ AllPresent(s, bl.bkts)

\* out is made in t of conditions of bl1 and bl2 and of new ones, and is headed as bl1 was.
Made2(s, t, bl1, bl2, out) ==
  /\ Sound(t, out) /\ out.bkts # << >> /\ out.bkts[1][1] = bl1.bkts[1][1]
  /\ \E new : Allocated(s, t, new) /\ In(out.bkts) \subseteq In(bl1.bkts) \cup In(bl2.bkts) \cup new

LEMMA ListOfIs ==
  ASSUME NEW bs \in Buckets
  PROVE  /\ ListOf(bs) \in Lists /\ ListOf(bs).bkts = bs /\ Accurate(ListOf(bs))
         /\ ListOf(bs).last = Len(bs) /\ ListOf(bs).total = Len(bs)
<1>1. Len(bs) \in Nat
  BY BucketsAre
<1> DEFINE n == Len(bs)
<1> HIDE DEF n
<1>2. ListOf(bs) = [bkts |-> bs, last |-> n, total |-> n]
  BY DEF ListOf, n
<1>3. n \in Nat /\ n \in 0..n
  BY <1>1 DEF n
<1> QED
  BY <1>2, <1>3 DEF Lists, Accurate, n

LEMMA HeadOf ==
  ASSUME NEW bs \in Buckets, bs # << >>
  PROVE  /\ 1 \in 1..Len(bs) /\ bs[1][1] \in In(bs) /\ bs[1] \in Seq(Cells) /\ bs[1] # << >>
         /\ bs[1][1] \in Cells
<1>1. Len(bs) # 0 /\ Len(bs) \in Nat
  BY EmptySeq, BucketsAre
<1>2. 1 \in 1..Len(bs)
  BY <1>1
<1>3. bs[1] \in Seq(Cells) /\ bs[1] # << >>
  BY <1>2, BucketsAre
<1>4. bs[1][1] \in Range(bs[1])
  BY <1>3, TailIs
<1> QED
  BY <1>2, <1>3, <1>4, BucketsAre

\* The sum of two lists: the second one is copied and put after the first.
LEMMA SumIs ==
  ASSUME NEW s \in Memory, NEW bl1, NEW bl2, Sound(s, bl1), Sound(s, bl2), Accurate(bl1),
         bl1.bkts # << >>, bl2.bkts # << >>, In(bl1.bkts) \cap In(bl2.bkts) = {},
         Cardinality(Unused(s)) >= Len(bl2.bkts), NEW t, NEW out,
         t = OperationOr(s, bl1, bl2).s, out = OperationOr(s, bl1, bl2).bl
  PROVE  /\ Made2(s, t, bl1, bl2, out)
         /\ Saids(t.conds, out.bkts) = Saids(s.conds, bl1.bkts) \cup Saids(s.conds, bl2.bkts)
         /\ bl2.bkts[1][1] \notin In(out.bkts)
         /\ SingleLinks(bl2) => In(out.bkts) \cap In(bl2.bkts) = {}
<1> DEFINE b1 == bl1.bkts
           b2 == bl2.bkts
           copy == CopyDeep(s, bl2)
           c == copy.bl
           n == Len(b1)
           m == Len(c.bkts)
           new == In(c.bkts) \ In(b2)
<1>1. /\ b1 \in Buckets /\ b2 \in Buckets /\ Distinct(b1) /\ Distinct(b2) /\ AllPresent(s, b1)
      /\ AllPresent(s, b2) /\ bl1.last = n /\ bl1.total \in Nat
  BY DEF Sound, Lists, Accurate
<1>2. t = copy.s /\ out = AttachDestroy(bl1, c)
  BY DEF OperationOr
<1>3. /\ c = ListOf(c.bkts) /\ c.bkts \in Buckets /\ Len(c.bkts) = Len(b2)
      /\ Allocated(s, t, new) /\ Distinct(c.bkts) /\ AllPresent(t, c.bkts)
      /\ Saids(t.conds, c.bkts) = Saids(s.conds, b2)
      /\ b2[1][1] \notin In(c.bkts)
      /\ SingleLinks(bl2) => In(c.bkts) \cap In(b2) = {}
  <2> DEFINE l == CopyDeep(s, bl2).bl
  <2>1. t = CopyDeep(s, bl2).s /\ Cardinality(Unused(s)) >= Len(bl2.bkts)
    BY <1>2
  <2> HIDE DEF l
  <2>2. /\ l = ListOf(l.bkts) /\ l.bkts \in Buckets /\ Len(l.bkts) = Len(bl2.bkts)
        /\ Allocated(s, t, In(l.bkts) \ In(bl2.bkts)) /\ Distinct(l.bkts) /\ AllPresent(t, l.bkts)
        /\ Saids(t.conds, l.bkts) = Saids(s.conds, bl2.bkts)
        /\ bl2.bkts # << >> => bl2.bkts[1][1] \notin In(l.bkts)
        /\ SingleLinks(bl2) => In(l.bkts) \cap In(bl2.bkts) = {}
    BY <1>1, <2>1, DeepCopied DEF l
  <2> QED
    BY <2>2 DEF l
<1>4. n \in Nat /\ n # 0 /\ m \in Nat /\ m # 0 /\ Len(b2) \in Nat
  <2>1. n \in Nat /\ n # 0 /\ Len(b2) \in Nat /\ Len(b2) # 0
    BY <1>1, EmptySeq, BucketsAre DEF Buckets
  <2> QED
    BY <1>3, <2>1
<1>5. c.last = m /\ c.total = m
  <2> DEFINE cs == c.bkts
  <2>1. c = ListOf(cs) /\ cs \in Buckets
    BY <1>3
  <2> HIDE DEF cs, c
  <2>2. ListOf(cs).last = Len(cs) /\ ListOf(cs).total = Len(cs)
    BY <2>1, ListOfIs
  <2>3. c.last = Len(cs) /\ c.total = Len(cs)
    BY <2>1, <2>2
  <2> QED
    BY <2>3 DEF cs
<1> DEFINE d == b1 \o c.bkts
<1> HIDE DEF c, copy
<1>6. out = [bkts |-> d, last |-> n + m, total |-> bl1.total + m]
  <2>1. SubSeq(b1, 1, n) = b1
    BY <1>1 DEF Buckets
  <2> QED
    BY <1>1, <1>2, <1>4, <1>5, <2>1 DEF AttachDestroy
<1> HIDE DEF b1, b2
<1>7. /\ d \in Buckets /\ Len(d) = n + m
      /\ (\A j \in 1..n : d[j] = b1[j])
      /\ In(d) = In(b1) \cup In(c.bkts)
      /\ Distinct(b1) /\ Distinct(c.bkts) /\ In(b1) \cap In(c.bkts) = {} => Distinct(d)
      /\ \A cs : Saids(cs, d) = Saids(cs, b1) \cup Saids(cs, c.bkts)
  BY <1>1, <1>3, BucketsConcatenated
<1> HIDE DEF d, n, m
<1>8. out.bkts = d /\ out \in Lists
  <2> DEFINE l == n + m
             k == bl1.total + m
  <2>1. l \in Nat /\ k \in Nat /\ l \in 0..Len(d)
    BY <1>1, <1>4, <1>7
  <2>2. out = [bkts |-> d, last |-> l, total |-> k]
    BY <1>6
  <2> HIDE DEF l, k
  <2> QED
    BY <1>7, <2>1, <2>2 DEF Lists
<1>9. In(b1) \subseteq Cells /\ In(b2) \subseteq Cells
  BY <1>1, BucketsAre
<1>10. (\A i \in In(b1) : t.conds[i] = s.conds[i] /\ t.conds[i] # Freed) /\ In(b1) \cap new = {}
  BY <1>1, <1>3, <1>9, PresentStays DEF AllPresent
<1>11. In(b1) \cap In(b2) = {}
  BY DEF b1, b2
<1>12. In(b1) \cap In(c.bkts) = {} /\ In(c.bkts) \subseteq In(b2) \cup new
  BY <1>10, <1>11
<1>13. AllPresent(t, d)
  BY <1>3, <1>7, <1>10 DEF AllPresent
<1>14. Saids(t.conds, d) = Saids(s.conds, b1) \cup Saids(s.conds, b2)
  <2>1. Saids(t.conds, b1) = Saids(s.conds, b1)
    BY <1>10, SaidsDepend
  <2> QED
    BY <1>3, <1>7, <2>1
<1>15. d # << >> /\ d[1][1] = b1[1][1]
  <2>1. Len(d) # 0 /\ 1 \in 1..n
    BY <1>4, <1>7
  <2> QED
    BY <1>7, <2>1, EmptySeq
<1>16. Made2(s, t, bl1, bl2, out)
  <2>1. Sound(t, out)
    BY <1>1, <1>3, <1>7, <1>8, <1>12, <1>13 DEF Sound
  <2>2. Allocated(s, t, new) /\ In(out.bkts) \subseteq In(bl1.bkts) \cup In(bl2.bkts) \cup new
    BY <1>3, <1>7, <1>8, <1>12 DEF b1, b2
  <2> HIDE DEF new
  <2> QED
    BY <1>8, <1>15, <2>1, <2>2 DEF Made2, b1
<1>17. b2[1][1] \notin In(d)
  <2>1. b2 \in Buckets /\ b2 # << >>
    BY <1>1 DEF b2
  <2>2. b2[1][1] \in In(b2)
    BY <2>1, HeadOf
  <2> QED
    BY <1>3, <1>7, <1>11, <2>2
<1>18. SingleLinks(bl2) => In(d) \cap In(b2) = {}
  BY <1>3, <1>7, <1>11
<1> QED
  BY <1>8, <1>14, <1>16, <1>17, <1>18 DEF b1, b2

\* The conditions of the first buckets, counted: g[k] of the first k.
Counts(g, bs, size) ==
  /\ g \in [0..Len(bs) -> Nat] /\ g[0] = 0 /\ g[Len(bs)] = size
  /\ \A k \in 1..Len(bs) : k - 1 \in 0..Len(bs) /\ g[k] = g[k - 1] + Len(bs[k])
  /\ \A k \in 0..Len(bs) : g[k] <= size

LEMMA SizeIs ==
  ASSUME NEW bl, bl.bkts \in Buckets
  PROVE  \E g : Counts(g, bl.bkts, Size(bl))
<1> DEFINE b == bl.bkts
           n == Len(b)
           base == 0
           T == Nat
           Step(x, e) == x + Len(e)
           Value(h, S) == IF S = {} THEN base ELSE Step(h[S \ {Max(S)}], b[Max(S)])
           fold == CHOOSE h : h = [S \in SUBSET (DOMAIN b) |-> Value(h, S)]
<1>2. Size(bl) = fold[DOMAIN b]
  BY DEF Size, FoldLeft, MapThenFoldSet
<1>00. b \in Buckets
  OBVIOUS
<1> HIDE DEF b
<1>1. n \in Nat /\ DOMAIN b = 1..n /\ \A k \in 1..n : b[k] \in Seq(Cells) /\ Len(b[k]) \in Nat
  <2>1. n \in Nat /\ DOMAIN b = 1..n /\ \A k \in 1..n : b[k] \in Seq(Cells)
    BY <1>00, BucketsAre
  <2> QED
    BY <2>1, LenProperties
<1> HIDE DEF n
<1>3. base \in T /\ \A k \in 1..n, x \in T : Step(x, b[k]) \in T
  BY <1>1
<1> HIDE DEF base
<1> HIDE DEF n, Step, T
<1> DEFINE G == [k \in 1..n |-> [x \in T |-> Step(x, b[k])]]
<1>4. G \in [1..n -> [T -> T]]
  BY <1>3
<1>5. PICK h \in [SUBSET (1..n) -> T] :
        \A S \in SUBSET (1..n) : h[S] = IF S = {} THEN base ELSE G[Max(S)][h[S \ {Max(S)}]]
  <2> HIDE DEF G
  <2>1. \E h : FoldsFrom(h, n, T, base, G)
    BY <1>1, <1>3, <1>4, FoldExists
  <2> QED
    BY <2>1 DEF FoldsFrom
<1>6. \A S \in SUBSET (1..n) : h[S] = Value(h, S)
  <2> SUFFICES ASSUME NEW S \in SUBSET (1..n), S # {}
               PROVE  h[S] = Step(h[S \ {Max(S)}], b[Max(S)])
    BY <1>5
  <2>1. Max(S) \in 1..n /\ S \ {Max(S)} \in SUBSET (1..n)
    BY <1>1, MaxOfPlaces
  <2> QED
    BY <1>5, <2>1
<1>7. fold = [S \in SUBSET (1..n) |-> Value(fold, S)]
  <2> HIDE DEF Value
  <2>1. h = [S \in SUBSET (DOMAIN b) |-> Value(h, S)]
    BY <1>1, <1>5, <1>6
  <2> QED
    BY <1>1, <2>1
<1> HIDE DEF fold
<1>8. fold[{}] = base
  BY <1>7
<1>9. ASSUME NEW k \in 1..n, fold[1..(k - 1)] \in T
      PROVE  fold[1..k] = G[k][fold[1..(k - 1)]]
  <2>1. 1..k # {} /\ Max(1..k) = k /\ (1..k) \ {k} = 1..(k - 1) /\ 1..k \in SUBSET (1..n)
    <3>1. k \in Nat /\ k # 0 /\ 1..k \in SUBSET (1..n)
      BY <1>1
    <3> QED
      BY <3>1, MaxOfInterval
  <2>2. fold[1..k] = Value(fold, 1..k)
    <3> HIDE DEF Value
    <3> QED
      BY <1>7, <2>1
  <2>3. fold[1..k] = Step(fold[1..(k - 1)], b[k])
    BY <2>1, <2>2
  <2> QED
    BY <1>9, <2>3
<1>10. \E f : FoldsUpTo(f, n, T, base, G, fold[1..n])
  <2>1. n \in Nat /\ base \in T
    BY <1>1, <1>3
  <2> HIDE DEF G
  <2>2. IsFold(fold, n, T, base, G)
    BY <1>8, <1>9 DEF IsFold
  <2> QED
    BY <1>4, <2>1, <2>2, FoldPrefixes
<1>11. PICK f \in [0..n -> T] : /\ f[0] = base /\ f[n] = fold[1..n]
                                /\ \A k \in 1..n : f[k] = G[k][f[k - 1]]
  BY <1>10 DEF FoldsUpTo
<1>12. \A k \in 1..n : k - 1 \in 0..n /\ f[k - 1] \in T /\ f[k] = Step(f[k - 1], b[k])
  <2> TAKE k \in 1..n
  <2>1. k - 1 \in 0..n
    BY <1>1
  <2> QED
    BY <1>11, <2>1
<1> HIDE DEF G, Value
<1>13. /\ f[0] = 0 /\ f[n] = Size(bl)
       /\ \A k \in 0..n : f[k] \in Nat
       /\ \A k \in 1..n : k - 1 \in 0..n /\ f[k] = f[k - 1] + Len(b[k])
  <2>1. Size(bl) = fold[1..n]
    BY <1>1, <1>2
  <2>2. \A k \in 0..n : f[k] \in Nat
    BY <1>11 DEF T
  <2> QED
    BY <1>11, <1>12, <2>1, <2>2 DEF base, Step
<1> DEFINE R == {k \in 0..n : \A i \in 0..k : f[i] <= f[k]}
<1>14. ASSUME NEW k \in 1..n, k - 1 \in R
       PROVE  k \in R
  <2>1. f[k] = f[k - 1] + Len(b[k]) /\ f[k - 1] \in Nat /\ Len(b[k]) \in Nat
    BY <1>1, <1>13
  <2>2. \A i \in 0..(k - 1) : i \in 0..n /\ f[i] \in Nat /\ f[i] <= f[k - 1]
    BY <1>1, <1>13, <1>14
  <2>3. ASSUME NEW i \in 0..k PROVE f[i] <= f[k]
    <3>1. CASE i = k
      BY <1>1, <1>13, <3>1
    <3>2. CASE i # k
      <4>1. i \in 0..(k - 1)
        BY <1>1, <3>2
      <4>2. f[i] \in Nat /\ f[i] <= f[k - 1]
        BY <2>2, <4>1
      <4> QED
        BY <2>1, <4>2
    <3> QED
      BY <3>1, <3>2
  <2> QED
    BY <1>1, <2>3
<1>17. 0 \in R
  BY <1>1, <1>13
<1>15. n \in R
  <2>1. \A k \in 1..n : k - 1 \in R => k \in R
    BY <1>14
  <2>2. n \in 0..n /\ n \in Nat
    BY <1>1
  <2> HIDE DEF R
  <2> QED
    BY <1>17, <2>1, <2>2, PrefixInduction
<1>16. Counts(f, b, Size(bl))
  <2>1. f \in [0..n -> Nat]
    BY <1>11 DEF T
  <2>2. \A k \in 0..n : f[k] <= f[n]
    BY <1>15
  <2> QED
    BY <1>13, <2>1, <2>2 DEF Counts, n
<1> QED
  BY <1>16 DEF b

\* The conditions of a bucket are as many as its links.
LEMMA OnceCounted ==
  ASSUME NEW b \in Seq(Cells), Once(b)
  PROVE  IsFiniteSet(Range(b)) /\ Cardinality(Range(b)) = Len(b)
<1>1. Len(b) \in Nat /\ DOMAIN b = 1..Len(b)
  BY LenProperties
<1> DEFINE n == Len(b)
<1>2. IsFiniteSet(1..n) /\ Cardinality(1..n) = n
  <2> HIDE DEF n
  <2>1. n \in Nat
    BY <1>1 DEF n
  <2> QED
    BY <2>1, FS_Interval
<1>3. b \in [1..n -> Range(b)] /\ \A i \in Range(b) : \E j \in 1..n : b[j] = i
  <2>1. \A i : i \in Range(b) <=> \E j \in 1..Len(b) : b[j] = i
    BY RangeOfSequence
  <2>2. b = [j \in 1..n |-> b[j]]
    BY LenProperties, <1>1
  <2> QED
    BY <2>1, <2>2
<1>4. \A j, k \in 1..n : b[j] = b[k] => j = k
  BY <1>1 DEF Once
<1> HIDE DEF n
<1>5. ExistsBijection(1..n, Range(b))
  <2>1. b \in Injection(1..n, Range(b))
    BY <1>3, <1>4 DEF Injection, IsInjective
  <2>2. b \in Surjection(1..n, Range(b))
    BY <1>3 DEF Surjection
  <2> QED
    BY <2>1, <2>2 DEF ExistsBijection, Bijection
<1>6. IsFiniteSet(Range(b)) /\ Cardinality(Range(b)) = Cardinality(1..n)
  BY <1>2, <1>5, FS_Bijection
<1> QED
  BY <1>2, <1>6 DEF n

LEMMA DistinctCounted ==
  ASSUME NEW bl, bl.bkts \in Buckets, Distinct(bl.bkts)
  PROVE  Elements(bl) = In(bl.bkts) /\ Size(bl) = Cardinality(Elements(bl))
<1> DEFINE b == bl.bkts
           n == Len(b)
           Upto(k) == {i \in Cells : \E j \in 1..k : i \in Range(b[j])}
<1>0. b \in Buckets /\ Distinct(b) /\ Elements(bl) = In(b)
  BY DEF Elements, In
<1>1. PICK g : Counts(g, b, Size(bl))
  BY SizeIs
<1> HIDE DEF b
<1>2. /\ n \in Nat /\ DOMAIN b = 1..n
      /\ \A j \in 1..n : b[j] \in Seq(Cells) /\ Range(b[j]) \subseteq Cells
      /\ In(b) \subseteq Cells
      /\ \A i : i \in In(b) <=> \E j \in 1..n : i \in Range(b[j])
  BY <1>0, BucketsAre
<1>3. /\ g[0] = 0 /\ g[n] = Size(bl)
      /\ \A k \in 1..n : g[k] = g[k - 1] + Len(b[k])
  BY <1>1 DEF Counts
<1> HIDE DEF n
<1> DEFINE R == {k \in 0..n : IsFiniteSet(Upto(k)) /\ Cardinality(Upto(k)) = g[k]}
<1>4. 0 \in R
  <2>1. Upto(0) = {}
    OBVIOUS
  <2> HIDE DEF Upto
  <2>2. IsFiniteSet(Upto(0)) /\ Cardinality(Upto(0)) = g[0]
    BY <1>3, <2>1, FS_EmptySet
  <2> QED
    BY <1>2, <2>2
<1>5. ASSUME NEW k \in 1..n, k - 1 \in R
      PROVE  k \in R
  <2>1. Upto(k) = Upto(k - 1) \cup Range(b[k])
    <3>1. \A j \in 1..k : j \in 1..(k - 1) \/ j = k
      BY <1>2
    <3>2. \A j \in 1..(k - 1) : j \in 1..k
      BY <1>2
    <3>3. k \in 1..k /\ Range(b[k]) \subseteq Cells
      BY <1>2
    <3>4. \A i \in Cells : (\E j \in 1..k : i \in Range(b[j]))
                              <=> (\E j \in 1..(k - 1) : i \in Range(b[j])) \/ i \in Range(b[k])
      BY <3>1, <3>2, <3>3
    <3> QED
      BY <3>3, <3>4
  <2>2. Upto(k - 1) \cap Range(b[k]) = {}
    <3>1. \A j \in 1..(k - 1) : j \in 1..n /\ j # k
      BY <1>2
    <3>2. \A j \in 1..(k - 1) : Range(b[j]) \cap Range(b[k]) = {}
      BY <1>0, <1>2, <3>1 DEF Distinct
    <3> QED
      BY <3>2
  <2>3. IsFiniteSet(Range(b[k])) /\ Cardinality(Range(b[k])) = Len(b[k]) /\ Len(b[k]) \in Nat
    <3>1. b[k] \in Seq(Cells) /\ Once(b[k])
      BY <1>0, <1>2 DEF Distinct
    <3> QED
      BY <3>1, OnceCounted, LenProperties
  <2> DEFINE p == Upto(k - 1)
             r == Range(b[k])
  <2>4. IsFiniteSet(p) /\ Cardinality(p) = g[k - 1] /\ IsFiniteSet(r) /\ Cardinality(r) = Len(b[k]) /\ p \cap r = {}
    BY <1>5, <2>2, <2>3
  <2>5. IsFiniteSet(p \cup r) /\ Cardinality(p \cup r) = Cardinality(p) + Cardinality(r)
    <3> HIDE DEF p, r
    <3>1. /\ IsFiniteSet(p \cup r)
          /\ Cardinality(p \cup r) = Cardinality(p) + Cardinality(r) - Cardinality(p \cap r)
      BY <2>4, FS_Union
    <3>2. Cardinality(p \cap r) = 0 /\ Cardinality(p) \in Nat /\ Cardinality(r) \in Nat
      BY <2>4, FS_EmptySet, FS_CardinalityType
    <3> QED
      BY <3>1, <3>2
  <2> HIDE DEF Upto
  <2>6. IsFiniteSet(Upto(k)) /\ Cardinality(Upto(k)) = g[k - 1] + Len(b[k])
    BY <2>1, <2>4, <2>5
  <2> QED
    BY <1>3, <2>6
<1>6. n \in R
  <2>1. \A k \in 1..n : k - 1 \in R => k \in R
    BY <1>5
  <2>2. n \in 0..n /\ n \in Nat
    BY <1>2
  <2> HIDE DEF R
  <2> QED
    BY <1>4, <2>1, <2>2, PrefixInduction
<1>7. In(b) = Upto(n)
  BY <1>2
<1>8. Cardinality(Upto(n)) = g[n]
  BY <1>6
<1> HIDE DEF Upto, R
<1>9. Size(bl) = Cardinality(In(b))
  BY <1>3, <1>7, <1>8
<1> QED
  BY <1>0, <1>9 DEF b

\* One bucket of a product: base with a copy of b after it.
CanAdd(s, t, new, base, b, rows) ==
  /\ s \in Memory /\ t \in Memory /\ Allocated(s, t, new)
  /\ base \in Seq(Cells) /\ b \in Seq(Cells) /\ b # << >> /\ rows \in Buckets
  /\ Once(base) /\ Present(t, base) /\ Distinct(rows) /\ AllPresent(t, rows)
  /\ Range(base) \cap In(rows) = {} /\ Present(s, b) /\ Cardinality(Unused(t)) >= Len(b)

Adds(s, t, new, base, b, rows, u, c) ==
  /\ Allocated(t, u, Range(c)) /\ Allocated(s, u, new \cup Range(c))
  /\ Cardinality(Unused(u)) = Cardinality(Unused(t)) - Len(b)
  /\ base \o c \in Seq(Cells) /\ base \o c # << >>
  /\ \A j \in 1..Len(base) : (base \o c)[j] = base[j]
  /\ Range(base \o c) = Range(base) \cup Range(c) /\ Once(base \o c) /\ Present(u, base \o c)
  /\ Append(rows, base \o c) \in Buckets /\ Len(Append(rows, base \o c)) = Len(rows) + 1
  /\ Distinct(Append(rows, base \o c)) /\ AllPresent(u, Append(rows, base \o c))
  /\ In(Append(rows, base \o c)) = In(rows) \cup Range(base) \cup Range(c)
  /\ Said(u.conds, base \o c) = Said(t.conds, base) \cup Said(s.conds, b)
  /\ \A j \in 1..Len(rows) : /\ Append(rows, base \o c)[j] = rows[j]
                             /\ Said(u.conds, rows[j]) = Said(t.conds, rows[j])
  /\ Append(rows, base \o c)[Len(rows) + 1] = base \o c

LEMMA RowAdded ==
  ASSUME NEW s, NEW t, NEW new, NEW base, NEW b, NEW rows, CanAdd(s, t, new, base, b, rows),
         NEW u, NEW c, u = CopyBucket(t, b).s, c = CopyBucket(t, b).b
  PROVE  Adds(s, t, new, base, b, rows, u, c)
<1>0. /\ s \in Memory /\ t \in Memory /\ Allocated(s, t, new)
      /\ base \in Seq(Cells) /\ b \in Seq(Cells) /\ b # << >> /\ rows \in Buckets
      /\ Once(base) /\ Present(t, base) /\ Distinct(rows) /\ AllPresent(t, rows)
      /\ Range(base) \cap In(rows) = {} /\ Present(s, b) /\ Cardinality(Unused(t)) >= Len(b)
  BY DEF CanAdd
<1>1. Range(b) \subseteq Cells /\ Range(base) \subseteq Cells /\ In(rows) \subseteq Cells
      /\ \A j \in 1..Len(rows) : Range(rows[j]) \subseteq In(rows)
  BY <1>0, RangeOfSequence, BucketsAre
<1>2. (\A i \in Range(b) : t.conds[i] = s.conds[i] /\ t.conds[i] # Freed)
  BY <1>0, <1>1, PresentStays DEF Present
<1>3. Present(t, b)
  BY <1>2 DEF Present
<1>4. /\ c \in Seq(Cells) /\ Len(c) = Len(b) /\ Len(b) \in Nat
      /\ Allocated(t, u, Range(c)) /\ Once(c) /\ Present(u, c)
      /\ Cardinality(Unused(u)) = Cardinality(Unused(t)) - Len(b)
      /\ Said(u.conds, c) = Said(t.conds, b)
  BY <1>0, <1>3, BucketCopied
<1>5. Said(u.conds, c) = Said(s.conds, b)
  BY <1>2, <1>4, SaidDepends
<1>6. Allocated(s, u, new \cup Range(c))
  BY <1>0, <1>4, AllocatedTwice
<1>7. (\A i \in Range(base) : u.conds[i] = t.conds[i] /\ u.conds[i] # Freed) /\ Range(base) \cap Range(c) = {}
  BY <1>0, <1>1, <1>4, PresentStays DEF Present
<1>8. (\A i \in In(rows) : u.conds[i] = t.conds[i] /\ u.conds[i] # Freed) /\ In(rows) \cap Range(c) = {}
  BY <1>0, <1>1, <1>4, PresentStays DEF AllPresent
<1> DEFINE d == base \o c
<1>9. /\ d \in Seq(Cells) /\ Len(d) = Len(base) + Len(c) /\ Len(base) \in Nat /\ Len(c) \in Nat
      /\ \A j \in 1..Len(base) : d[j] = base[j]
      /\ Range(d) = Range(base) \cup Range(c) /\ Once(d)
  <2>1. c \in Seq(Cells) /\ Once(base) /\ Once(c) /\ Range(base) \cap Range(c) = {}
    BY <1>0, <1>4, <1>7
  <2>2. /\ d \in Seq(Cells) /\ Len(d) = Len(base) + Len(c) /\ Len(base) \in Nat /\ Len(c) \in Nat
        /\ \A j \in 1..Len(base) : d[j] = base[j]
        /\ Range(d) = Range(base) \cup Range(c)
        /\ Once(base) /\ Once(c) /\ Range(base) \cap Range(c) = {} => Once(d)
    BY <1>0, <2>1, Concatenated
  <2> QED
    BY <2>1, <2>2
<1>10. Len(b) # 0
  BY <1>0, EmptySeq
<1> HIDE DEF d
<1>11. d # << >>
  <2>1. Len(d) # 0
    BY <1>4, <1>9, <1>10
  <2> QED
    BY <2>1, EmptySeq
<1>12. Said(u.conds, d) = Said(t.conds, base) \cup Said(s.conds, b)
  <2>1. Said(u.conds, base) = Said(t.conds, base)
    BY <1>7, SaidDepends
  <2>2. Said(u.conds, d) = Said(u.conds, base) \cup Said(u.conds, c)
    BY <1>9 DEF Said
  <2> QED
    BY <1>5, <2>1, <2>2
<1> DEFINE a == Append(rows, d)
<1>13. /\ a \in Buckets /\ Len(a) = Len(rows) + 1
       /\ (\A j \in 1..Len(rows) : a[j] = rows[j]) /\ a[Len(rows) + 1] = d
       /\ In(a) = In(rows) \cup Range(d) /\ Distinct(a)
  <2>1. In(rows) \cap Range(d) = {}
    BY <1>0, <1>8, <1>9
  <2> QED
    BY <1>0, <1>9, <1>11, <2>1, BucketAppended
<1> HIDE DEF a
<1>14. Present(u, d)
  BY <1>4, <1>7, <1>9 DEF Present
<1>15. AllPresent(u, a)
  BY <1>8, <1>13, <1>14 DEF AllPresent, Present
<1>16. \A j \in 1..Len(rows) : Said(u.conds, rows[j]) = Said(t.conds, rows[j])
  BY <1>1, <1>8, SaidDepends
<1> QED
  BY <1>4, <1>6, <1>9, <1>11, <1>12, <1>13, <1>14, <1>15, <1>16 DEF a, d, Adds

\* What stays of a memory when more is allocated.
LEMMA RowKept ==
  ASSUME NEW t \in Memory, NEW u, NEW new, Allocated(t, u, new), NEW b \in Seq(Cells), Present(t, b)
  PROVE  Present(u, b) /\ Said(u.conds, b) = Said(t.conds, b) /\ Range(b) \cap new = {} /\ Range(b) \subseteq Cells
<1>1. Range(b) \subseteq Cells
  BY RangeOfSequence
<1>2. (\A i \in Range(b) : u.conds[i] = t.conds[i] /\ u.conds[i] # Freed) /\ Range(b) \cap new = {}
  BY <1>1, PresentStays DEF Present
<1> QED
  BY <1>1, <1>2, SaidDepends DEF Present

\* The first j buckets of the product of row and b2, with a copy of row for the next.
RowUpTo(s, row, b2, t, rows, kept, j, used) ==
  /\ rows \in Buckets /\ Len(rows) = j /\ Distinct(rows) /\ AllPresent(t, rows)
  /\ used \in Nat /\ Cardinality(Unused(t)) = Cardinality(Unused(s)) - used
  /\ \E new : /\ Allocated(s, t, new) /\ In(rows) \subseteq Range(row) \cup new
              /\ j < Len(b2) => Range(kept) \subseteq new
  /\ j < Len(b2) => /\ kept \in Seq(Cells) /\ Len(kept) = Len(row) /\ Once(kept) /\ Present(t, kept)
                    /\ Range(kept) \cap In(rows) = {} /\ Said(t.conds, kept) = Said(s.conds, row)
  /\ rows[1][1] = row[1]
  /\ \A i \in 1..j : Said(t.conds, rows[i]) = Said(s.conds, row) \cup Said(s.conds, b2[i])

\* How many copies of the row the first j buckets of n take.
Copies(j, n) == IF j < n THEN j ELSE n - 1

LEMMA RowFirst ==
  ASSUME NEW s \in Memory, NEW row \in Seq(Cells), row # << >>, NEW b2 \in Buckets, b2 # << >>,
         Once(row), Present(s, row), AllPresent(s, b2),
         Cardinality(Unused(s)) >= (IF Len(b2) > 1 THEN Len(row) ELSE 0) + Len(b2[1]),
         NEW x, x.s = s, NEW r, r = TimesFirst(x, row, b2[1], Len(b2) > 1)
  PROVE  RowUpTo(s, row, b2, r.s, r.rows, r.kept, 1,
                 (IF Len(b2) > 1 THEN Len(row) ELSE 0) + Len(b2[1]))
<1> DEFINE b == b2[1]
           more == Len(b2) > 1
           kept == IF more THEN CopyBucket(s, row) ELSE [s |-> s, b |-> << >>]
           t == kept.s
           k == kept.b
           w == IF more THEN Len(row) ELSE 0
           u == CopyBucket(t, b).s
           c == CopyBucket(t, b).b
           e == << >>
           d == row \o c
<1>1. /\ r.s = u /\ r.rows = <<d>> /\ r.kept = k
  <2> HIDE DEF u, c
  <2>1. r = [s |-> u, rows |-> <<row \o c>>, kept |-> k]
    BY DEF TimesFirst, u, c
  <2> HIDE DEF k
  <2> QED
    BY <2>1
<1>2. /\ b \in Seq(Cells) /\ b # << >> /\ Present(s, b) /\ Len(b) \in Nat /\ Len(row) \in Nat
  <2>1. 1 \in 1..Len(b2)
    BY HeadOf
  <2>2. b \in Seq(Cells) /\ b # << >> /\ Range(b) \subseteq In(b2)
    BY <2>1, BucketsAre
  <2> QED
    BY <2>2, LenProperties DEF AllPresent, Present
<1>3. Cardinality(Unused(s)) \in Nat /\ Cardinality(Unused(s)) >= w + Len(b) /\ w \in Nat
  BY <1>2, UnusedIs
<1>4. /\ k \in Seq(Cells) /\ Allocated(s, t, Range(k)) /\ Once(k) /\ Present(t, k)
      /\ Cardinality(Unused(t)) = Cardinality(Unused(s)) - w
      /\ more => Len(k) = Len(row) /\ Said(t.conds, k) = Said(s.conds, row)
  <2>1. CASE more
    <3>1. k = CopyBucket(s, row).b /\ t = CopyBucket(s, row).s /\ w = Len(row)
      BY <2>1
    <3> HIDE DEF k, t, more, w
    <3>2. Cardinality(Unused(s)) >= Len(row)
      <4> DEFINE p == Cardinality(Unused(s))
                 l == Len(b)
      <4>1. p \in Nat /\ l \in Nat /\ w \in Nat /\ p >= w + l
        BY <1>2, <1>3
      <4> HIDE DEF p, l
      <4>2. p >= w
        BY <4>1
      <4> QED
        BY <3>1, <4>2 DEF p
    <3>3. /\ k \in Seq(Cells) /\ Len(k) = Len(row) /\ Present(t, k) /\ Allocated(s, t, Range(k)) /\ Once(k)
          /\ Cardinality(Unused(t)) = Cardinality(Unused(s)) - Len(row)
          /\ Said(t.conds, k) = Said(s.conds, row)
      BY <3>1, <3>2, BucketCopied
    <3> QED
      BY <3>1, <3>3
  <2>2. CASE ~more
    <3>1. k = e /\ t = s /\ w = 0
      BY <2>2
    <3>2. e \in Seq(Cells) /\ Range(e) = {} /\ Once(e)
      BY DEF Range, Once
    <3> HIDE DEF k, t, more, w, e
    <3>3. Allocated(s, s, {})
      BY AllocatedNothing
    <3> QED
      BY <1>3, <2>2, <3>1, <3>2, <3>3 DEF Present
  <2> QED
    BY <2>1, <2>2
<1>5. Present(t, row) /\ Said(t.conds, row) = Said(s.conds, row) /\ Range(row) \cap Range(k) = {} /\ t \in Memory
  <2> HIDE DEF t, k
  <2>1. t \in Memory
    BY <1>4 DEF Allocated
  <2> QED
    BY <1>4, <2>1, RowKept
<1> DEFINE a == Append(e, d)
<1>6. a = <<d>> /\ e \in Buckets /\ Len(e) = 0 /\ In(e) = {} /\ Distinct(e)
  BY DEF Buckets, In, Distinct
<1> HIDE DEF k, t, b, w, kept, e, more
<1>7. AllPresent(t, e)
  BY <1>6 DEF AllPresent
<1>8. Cardinality(Unused(t)) >= Len(b)
  BY <1>2, <1>3, <1>4
<1>9. u = CopyBucket(t, b).s /\ c = CopyBucket(t, b).b
  OBVIOUS
<1> HIDE DEF u, c
<1>10. /\ Allocated(t, u, Range(c)) /\ Allocated(s, u, Range(k) \cup Range(c))
       /\ Cardinality(Unused(u)) = Cardinality(Unused(t)) - Len(b)
       /\ (\A j \in 1..Len(row) : d[j] = row[j])
       /\ a \in Buckets /\ Len(a) = Len(e) + 1 /\ Distinct(a) /\ AllPresent(u, a)
       /\ In(a) = In(e) \cup Range(row) \cup Range(c)
       /\ Said(u.conds, d) = Said(t.conds, row) \cup Said(s.conds, b)
       /\ a[Len(e) + 1] = d
  <2> DEFINE new == Range(k)
  <2>1. Allocated(s, t, new) /\ Range(row) \cap In(e) = {}
    BY <1>4, <1>6
  <2> HIDE DEF new
  <2>2. CanAdd(s, t, new, row, b, e)
    BY <1>2, <1>5, <1>6, <1>7, <1>8, <2>1 DEF CanAdd
  <2>3. Adds(s, t, new, row, b, e, u, c)
    BY <1>9, <2>2, RowAdded
  <2> QED
    BY <2>3 DEF new, Adds
<1> HIDE DEF d, a
<1>11. Present(u, k) /\ Said(u.conds, k) = Said(t.conds, k) /\ Range(k) \cap Range(c) = {}
  BY <1>4, <1>5, <1>10, RowKept
<1>12. a[1] = d /\ d[1] = row[1]
  <2>1. 1 \in 1..Len(row)
    <3>1. Len(row) # 0
      BY EmptySeq
    <3> QED
      BY <1>2, <3>1
  <2> QED
    BY <1>6, <1>10, <2>1
<1>13. Len(a) = 1 /\ Cardinality(Unused(u)) = Cardinality(Unused(s)) - (w + Len(b)) /\ w + Len(b) \in Nat
  BY <1>2, <1>3, <1>4, <1>6, <1>10
<1>14. \A i \in 1..1 : Said(u.conds, a[i]) = Said(s.conds, row) \cup Said(s.conds, b2[i])
  BY <1>5, <1>10, <1>12 DEF b
<1>15. Range(k) \cap In(a) = {} /\ In(a) \subseteq Range(row) \cup (Range(k) \cup Range(c))
  BY <1>5, <1>6, <1>10, <1>11
<1>16. 1 < Len(b2) => more
  <2>1. Len(b2) \in Nat
    BY BucketsAre
  <2> QED
    BY <2>1 DEF more
<1>17. RowUpTo(s, row, b2, u, a, k, 1, w + Len(b))
  BY <1>4, <1>10, <1>11, <1>12, <1>13, <1>14, <1>15, <1>16 DEF RowUpTo
<1> QED
  BY <1>1, <1>6, <1>17 DEF w, b, more

\* Once base is a copy of the row that nothing else links, a bucket more is a row more.
LEMMA RowGrows ==
  ASSUME NEW s \in Memory, NEW row \in Seq(Cells), NEW b2 \in Buckets, AllPresent(s, b2),
         NEW j \in Nat, j # 0, j + 1 \in 1..Len(b2), NEW used \in Nat, NEW t, NEW rows, NEW kept, NEW new,
         rows \in Buckets, Len(rows) = j, Distinct(rows), AllPresent(t, rows),
         Cardinality(Unused(t)) = Cardinality(Unused(s)) - used,
         Allocated(s, t, new), In(rows) \subseteq Range(row) \cup new, rows[1][1] = row[1],
         \A i \in 1..j : Said(t.conds, rows[i]) = Said(s.conds, row) \cup Said(s.conds, b2[i]),
         NEW base \in Seq(Cells), Once(base), Present(t, base), Range(base) \subseteq new,
         Range(base) \cap In(rows) = {}, Said(t.conds, base) = Said(s.conds, row),
         j + 1 < Len(b2) => /\ kept \in Seq(Cells) /\ Len(kept) = Len(row) /\ Once(kept) /\ Present(t, kept)
                            /\ Range(kept) \subseteq new /\ Said(t.conds, kept) = Said(s.conds, row)
                            /\ Range(kept) \cap (In(rows) \cup Range(base)) = {},
         Cardinality(Unused(s)) >= used + Len(b2[j + 1]),
         NEW u, NEW c, u = CopyBucket(t, b2[j + 1]).s, c = CopyBucket(t, b2[j + 1]).b,
         NEW k, j + 1 < Len(b2) => k = kept
  PROVE  RowUpTo(s, row, b2, u, Append(rows, base \o c), k, j + 1, used + Len(b2[j + 1]))
<1> DEFINE b == b2[j + 1]
           d == base \o c
           a == Append(rows, d)
           l == Len(b)
<1>1. /\ b \in Seq(Cells) /\ b # << >> /\ Present(s, b) /\ l \in Nat
  <2>1. b \in Seq(Cells) /\ b # << >> /\ Range(b) \subseteq In(b2)
    BY BucketsAre
  <2> QED
    BY <2>1, LenProperties DEF AllPresent, Present
<1>2. t \in Memory
  BY DEF Allocated
<1>3. Cardinality(Unused(s)) \in Nat /\ Cardinality(Unused(t)) \in Nat
  BY <1>2, UnusedIs
<1>4. Cardinality(Unused(t)) >= l
  <2> DEFINE p == Cardinality(Unused(s))
             q == Cardinality(Unused(t))
  <2>1. p \in Nat /\ q = p - used /\ p >= used + l
    BY <1>3
  <2> HIDE DEF p, q, l
  <2>2. q >= l
    BY <1>1, <2>1
  <2> QED
    BY <2>2 DEF q
<1>5. u = CopyBucket(t, b).s /\ c = CopyBucket(t, b).b
  OBVIOUS
<1> HIDE DEF b
<1>6. CanAdd(s, t, new, base, b, rows)
  BY <1>1, <1>2, <1>4 DEF CanAdd
<1>7. Adds(s, t, new, base, b, rows, u, c)
  BY <1>5, <1>6, RowAdded
<1>8. /\ Allocated(t, u, Range(c)) /\ Allocated(s, u, new \cup Range(c))
      /\ Cardinality(Unused(u)) = Cardinality(Unused(t)) - l
      /\ a \in Buckets /\ Len(a) = Len(rows) + 1 /\ Distinct(a) /\ AllPresent(u, a)
      /\ In(a) = In(rows) \cup Range(base) \cup Range(c)
      /\ Said(u.conds, d) = Said(t.conds, base) \cup Said(s.conds, b)
      /\ (\A i \in 1..Len(rows) : a[i] = rows[i] /\ Said(u.conds, rows[i]) = Said(t.conds, rows[i]))
      /\ a[Len(rows) + 1] = d
  BY <1>7 DEF Adds
<1> HIDE DEF a, d
<1>9. j + 1 < Len(b2) => /\ k \in Seq(Cells) /\ Len(k) = Len(row) /\ Once(k) /\ Present(u, k)
                         /\ Range(k) \subseteq new \cup Range(c) /\ Said(u.conds, k) = Said(s.conds, row)
                         /\ Range(k) \cap In(a) = {}
  <2> SUFFICES ASSUME j + 1 < Len(b2)
               PROVE  /\ k \in Seq(Cells) /\ Len(k) = Len(row) /\ Once(k) /\ Present(u, k)
                      /\ Range(k) \subseteq new \cup Range(c) /\ Said(u.conds, k) = Said(s.conds, row)
                      /\ Range(k) \cap In(a) = {}
    OBVIOUS
  <2>1. /\ k \in Seq(Cells) /\ Len(k) = Len(row) /\ Once(k) /\ Present(t, k)
        /\ Range(k) \subseteq new /\ Said(t.conds, k) = Said(s.conds, row)
        /\ Range(k) \cap (In(rows) \cup Range(base)) = {}
    OBVIOUS
  <2>2. Present(u, k) /\ Said(u.conds, k) = Said(t.conds, k) /\ Range(k) \cap Range(c) = {}
    BY <1>2, <1>8, <2>1, RowKept
  <2> QED
    BY <1>8, <2>1, <2>2
<1>10. In(a) \subseteq Range(row) \cup (new \cup Range(c))
  BY <1>8
<1>11. a[1][1] = row[1]
  <2>1. 1 \in 1..Len(rows)
    OBVIOUS
  <2> QED
    BY <1>8, <2>1
<1>12. ASSUME NEW i \in 1..(j + 1)
       PROVE  Said(u.conds, a[i]) = Said(s.conds, row) \cup Said(s.conds, b2[i])
  <2>1. CASE i \in 1..j
    BY <1>8, <2>1
  <2>2. CASE i = j + 1
    BY <1>8, <2>2 DEF b
  <2> QED
    BY <2>1, <2>2
<1>13. Cardinality(Unused(u)) = Cardinality(Unused(s)) - (used + l) /\ used + l \in Nat /\ Len(a) = j + 1
  <2> HIDE DEF l
  <2> QED
    BY <1>1, <1>3, <1>8
<1> HIDE DEF l
<1>14. RowUpTo(s, row, b2, u, a, k, j + 1, used + l)
  BY <1>8, <1>9, <1>10, <1>11, <1>12, <1>13 DEF RowUpTo
<1> QED
  BY <1>14 DEF a, d, l, b

LEMMA RowNext ==
  ASSUME NEW s \in Memory, NEW row \in Seq(Cells), NEW b2 \in Buckets, AllPresent(s, b2),
         NEW j \in Nat, j # 0, j + 1 \in 1..Len(b2), j + 1 < Len(b2), NEW used, NEW x,
         RowUpTo(s, row, b2, x.s, x.rows, x.kept, j, used),
         Cardinality(Unused(s)) >= used + Len(row) + Len(b2[j + 1]),
         NEW r, r = TimesNext(x, b2[j + 1])
  PROVE  RowUpTo(s, row, b2, r.s, r.rows, r.kept, j + 1, used + Len(row) + Len(b2[j + 1]))
<1> DEFINE b == b2[j + 1]
           t == x.s
           rows == x.rows
           k == x.kept
           t1 == CopyBucket(t, k).s
           p == CopyBucket(t, k).b
           u == CopyBucket(t1, b).s
           c == CopyBucket(t1, b).b
           l == Len(row)
<1>1. r.s = u /\ r.rows = Append(rows, p \o c) /\ r.kept = k
  <2> HIDE DEF u, c, p
  <2>1. r = [s |-> u, rows |-> Append(x.rows, p \o c), kept |-> x.kept]
    BY DEF TimesNext, u, c, p
  <2> QED
    BY <2>1
<1>2. u = CopyBucket(t1, b).s /\ c = CopyBucket(t1, b).b /\ p = CopyBucket(t, k).b /\ t1 = CopyBucket(t, k).s
  OBVIOUS
<1> HIDE DEF u, c, p, t1, t, rows, k
<1>3. RowUpTo(s, row, b2, t, rows, k, j, used)
  BY DEF t, rows, k
<1>4. /\ rows \in Buckets /\ Len(rows) = j /\ Distinct(rows) /\ AllPresent(t, rows)
      /\ used \in Nat /\ Cardinality(Unused(t)) = Cardinality(Unused(s)) - used
      /\ k \in Seq(Cells) /\ Len(k) = l /\ Once(k) /\ Present(t, k)
      /\ Range(k) \cap In(rows) = {} /\ Said(t.conds, k) = Said(s.conds, row)
      /\ rows[1][1] = row[1]
      /\ \A i \in 1..j : Said(t.conds, rows[i]) = Said(s.conds, row) \cup Said(s.conds, b2[i])
  <2>1. j < Len(b2)
    BY BucketsAre
  <2> QED
    BY <1>3, <2>1 DEF RowUpTo
<1>5. PICK new : Allocated(s, t, new) /\ In(rows) \subseteq Range(row) \cup new /\ Range(k) \subseteq new
  <2>1. j < Len(b2)
    BY BucketsAre
  <2> QED
    BY <1>3, <2>1 DEF RowUpTo
<1>6. t \in Memory
  BY <1>5 DEF Allocated
<1>7. b \in Seq(Cells) /\ Len(b) \in Nat /\ l \in Nat
  <2>1. b \in Seq(Cells)
    BY BucketsAre
  <2> QED
    BY <2>1, LenProperties
<1> HIDE DEF l
<1>8. Cardinality(Unused(t)) >= l
  <2> DEFINE m == Len(b)
             q == Cardinality(Unused(s))
  <2>1. q \in Nat /\ m \in Nat /\ q >= used + l + m
    BY <1>7, UnusedIs DEF l
  <2> HIDE DEF m, q
  <2>2. q - used >= l
    BY <1>4, <1>7, <2>1
  <2> QED
    BY <1>4, <2>2 DEF q
<1>9. /\ p \in Seq(Cells) /\ Len(p) = l
      /\ Present(t1, p) /\ Allocated(t, t1, Range(p)) /\ Once(p)
      /\ Cardinality(Unused(t1)) = Cardinality(Unused(t)) - l
      /\ Said(t1.conds, p) = Said(t.conds, k)
  BY <1>2, <1>4, <1>6, <1>8, BucketCopied
<1>10. Allocated(s, t1, new \cup Range(p))
  BY <1>5, <1>9, AllocatedTwice
<1>11. /\ \A i \in In(rows) : t1.conds[i] = t.conds[i] /\ t1.conds[i] # Freed
       /\ In(rows) \cap Range(p) = {}
  <2>1. In(rows) \subseteq Cells
    BY <1>4, BucketsAre
  <2> QED
    BY <1>4, <1>6, <1>9, <2>1, PresentStays, SMTT(60) DEF AllPresent
<1>12. Present(t1, k) /\ Said(t1.conds, k) = Said(t.conds, k) /\ Range(k) \cap Range(p) = {}
  BY <1>4, <1>6, <1>9, RowKept
<1>13. ASSUME NEW i \in 1..j
       PROVE  Said(t1.conds, rows[i]) = Said(s.conds, row) \cup Said(s.conds, b2[i])
  <2>1. Range(rows[i]) \subseteq In(rows)
    BY <1>4, BucketsAre
  <2>2. Said(t1.conds, rows[i]) = Said(t.conds, rows[i])
    BY <1>11, <2>1, SaidDepends
  <2> QED
    BY <1>4, <2>2
<1> DEFINE all == new \cup Range(p)
           spent == used + l
<1>14. AllPresent(t1, rows)
  BY <1>11 DEF AllPresent
<1>15. /\ spent \in Nat /\ Cardinality(Unused(t1)) = Cardinality(Unused(s)) - spent
       /\ Cardinality(Unused(s)) >= spent + Len(b)
  <2> DEFINE m == Len(b)
             q == Cardinality(Unused(s))
             q1 == Cardinality(Unused(t1))
  <2>1. q \in Nat /\ m \in Nat /\ q >= used + l + m /\ q1 = q - used - l
    BY <1>4, <1>7, <1>9, UnusedIs DEF l
  <2> HIDE DEF m, q, q1
  <2>2. spent \in Nat /\ q1 = q - spent /\ q >= spent + m
    BY <1>4, <1>7, <2>1, SMTT(60)
  <2> QED
    BY <2>2 DEF m, q, q1
<1>16. /\ Allocated(s, t1, all) /\ In(rows) \subseteq Range(row) \cup all /\ Range(p) \subseteq all
       /\ Range(p) \cap In(rows) = {} /\ Said(t1.conds, p) = Said(s.conds, row)
       /\ Range(k) \subseteq all /\ Said(t1.conds, k) = Said(s.conds, row)
       /\ Range(k) \cap (In(rows) \cup Range(p)) = {} /\ Len(k) = Len(row)
  BY <1>4, <1>5, <1>9, <1>10, <1>11, <1>12 DEF l
<1> HIDE DEF all, spent
<1>17. RowUpTo(s, row, b2, u, Append(rows, p \o c), k, j + 1, spent + Len(b))
  BY <1>2, <1>4, <1>9, <1>12, <1>13, <1>14, <1>15, <1>16, RowGrows
<1> QED
  BY <1>1, <1>17 DEF spent, l

\* The last bucket takes the copy itself.
LEMMA RowLast ==
  ASSUME NEW s \in Memory, NEW row \in Seq(Cells), NEW b2 \in Buckets, AllPresent(s, b2),
         NEW j \in Nat, j # 0, j + 1 = Len(b2), NEW used, NEW x,
         RowUpTo(s, row, b2, x.s, x.rows, x.kept, j, used),
         Cardinality(Unused(s)) >= used + Len(b2[j + 1]),
         NEW r, r = TimesLast(x, b2[j + 1])
  PROVE  RowUpTo(s, row, b2, r.s, r.rows, r.kept, j + 1, used + Len(b2[j + 1]))
<1> DEFINE b == b2[j + 1]
           t == x.s
           rows == x.rows
           k == x.kept
           u == CopyBucket(t, b).s
           c == CopyBucket(t, b).b
<1>1. r.s = u /\ r.rows = Append(rows, k \o c)
  <2> HIDE DEF u, c
  <2>1. r = [s |-> u, rows |-> Append(x.rows, x.kept \o c), kept |-> x.kept \o c]
    BY DEF TimesLast, u, c
  <2> QED
    BY <2>1
<1>2. u = CopyBucket(t, b).s /\ c = CopyBucket(t, b).b
  OBVIOUS
<1> HIDE DEF u, c, t, rows, k
<1>3. RowUpTo(s, row, b2, t, rows, k, j, used) /\ j < Len(b2) /\ j + 1 \in 1..Len(b2) /\ ~(j + 1 < Len(b2))
  BY BucketsAre DEF t, rows, k
<1>4. /\ rows \in Buckets /\ Len(rows) = j /\ Distinct(rows) /\ AllPresent(t, rows)
      /\ used \in Nat /\ Cardinality(Unused(t)) = Cardinality(Unused(s)) - used
      /\ k \in Seq(Cells) /\ Once(k) /\ Present(t, k)
      /\ Range(k) \cap In(rows) = {} /\ Said(t.conds, k) = Said(s.conds, row)
      /\ rows[1][1] = row[1]
      /\ \A i \in 1..j : Said(t.conds, rows[i]) = Said(s.conds, row) \cup Said(s.conds, b2[i])
  BY <1>3 DEF RowUpTo
<1>5. PICK new : Allocated(s, t, new) /\ In(rows) \subseteq Range(row) \cup new /\ Range(k) \subseteq new
  BY <1>3 DEF RowUpTo
<1>6. RowUpTo(s, row, b2, u, Append(rows, k \o c), r.kept, j + 1, used + Len(b))
  BY <1>2, <1>3, <1>4, <1>5, RowGrows
<1> QED
  BY <1>1, <1>6

LEMMA GrowsPresent ==
  ASSUME NEW s, NEW t, Grows(s, t), NEW b \in Seq(Cells), Present(s, b)
  PROVE  Present(t, b)
BY RangeOfSequence DEF Present, Grows

LEMMA CopyTyped ==
  ASSUME NEW s \in Memory, NEW b \in Seq(Cells), Present(s, b), NEW t, NEW c,
         t = CopyBucket(s, b).s, c = CopyBucket(s, b).b
  PROVE  t \in Memory /\ Grows(s, t) /\ c \in Seq(Cells) /\ Present(t, c)
BY BucketCopied DEF Grows

\* The buckets of a product so far: x is [s, rows, kept], made from the memory s.
Rows(s) == {x \in [s : Memory, rows : Seq(Seq(Cells)), kept : Seq(Cells)] :
              Grows(s, x.s) /\ Present(x.s, x.kept)}

LEMMA TimesTyped ==
  ASSUME NEW s \in Memory, NEW row \in Seq(Cells), Present(s, row), NEW b \in Seq(Cells), Present(s, b),
         NEW x \in Rows(s), NEW more \in BOOLEAN
  PROVE  TimesFirst(x, row, b, more) \in Rows(s) /\ TimesNext(x, b) \in Rows(s) /\ TimesLast(x, b) \in Rows(s)
<1> DEFINE e == << >>
<1>1. /\ x.s \in Memory /\ x.rows \in Seq(Seq(Cells)) /\ x.kept \in Seq(Cells)
      /\ Grows(s, x.s) /\ Present(x.s, x.kept) /\ x = [s |-> x.s, rows |-> x.rows, kept |-> x.kept]
  BY DEF Rows
<1>2. Present(x.s, row) /\ Present(x.s, b)
  BY <1>1, GrowsPresent
<1>3. TimesFirst(x, row, b, more) \in Rows(s)
  <2> DEFINE kept == IF more THEN CopyBucket(x.s, row) ELSE [s |-> x.s, b |-> << >>]
             t == kept.s
             k == kept.b
             u == CopyBucket(t, b).s
             c == CopyBucket(t, b).b
             d == row \o c
  <2>1. Grows(x.s, t) /\ t \in Memory /\ k \in Seq(Cells) /\ Present(t, k)
    <3>1. CASE more
      <4>1. t = CopyBucket(x.s, row).s /\ k = CopyBucket(x.s, row).b
        BY <3>1
      <4> HIDE DEF t, k
      <4> QED
        BY <1>1, <1>2, <4>1, CopyTyped
    <3>2. CASE ~more
      <4>1. t = x.s /\ k = e
        BY <3>2
      <4>2. e \in Seq(Cells) /\ Range(e) = {}
        BY DEF Range
      <4> HIDE DEF t, k, e
      <4> QED
        BY <1>1, <4>1, <4>2 DEF Grows, Present
    <3> QED
      BY <3>1, <3>2
  <2> HIDE DEF t, k
  <2>2. Present(t, b)
    BY <1>2, <2>1, GrowsPresent
  <2>3. u \in Memory /\ Grows(t, u) /\ c \in Seq(Cells)
    BY <2>1, <2>2, CopyTyped
  <2>4. TimesFirst(x, row, b, more) = [s |-> u, rows |-> <<d>>, kept |-> k]
    BY DEF TimesFirst, t, k
  <2> HIDE DEF u, c
  <2>5. d \in Seq(Cells)
    BY <2>3, Concatenated
  <2>6. Grows(x.s, u) /\ Present(u, k)
    BY <2>1, <2>3, GrowsTwice, GrowsPresent
  <2>7. Grows(s, u)
    BY <1>1, <2>6, GrowsTwice
  <2> HIDE DEF d
  <2>8. <<d>> \in Seq(Seq(Cells))
    BY <2>5
  <2> QED
    BY <2>1, <2>3, <2>4, <2>6, <2>7, <2>8 DEF Rows
<1>4. TimesNext(x, b) \in Rows(s)
  <2> DEFINE t == CopyBucket(x.s, x.kept).s
             p == CopyBucket(x.s, x.kept).b
             u == CopyBucket(t, b).s
             c == CopyBucket(t, b).b
             d == p \o c
             a == Append(x.rows, d)
  <2>1. TimesNext(x, b) = [s |-> u, rows |-> a, kept |-> x.kept]
    BY DEF TimesNext
  <2>2. t \in Memory /\ Grows(x.s, t) /\ p \in Seq(Cells)
    BY <1>1, CopyTyped
  <2> HIDE DEF t, p
  <2>3. Present(t, b)
    BY <1>2, <2>2, GrowsPresent
  <2>4. u \in Memory /\ Grows(t, u) /\ c \in Seq(Cells)
    BY <2>2, <2>3, CopyTyped
  <2> HIDE DEF u, c
  <2>5. d \in Seq(Cells)
    BY <2>2, <2>4, Concatenated
  <2> HIDE DEF d
  <2>6. a \in Seq(Seq(Cells))
    BY <1>1, <2>5, Appended
  <2>7. Grows(x.s, u)
    BY <2>2, <2>4, GrowsTwice
  <2>8. Grows(s, u) /\ Present(u, x.kept)
    BY <1>1, <2>7, GrowsTwice, GrowsPresent
  <2> HIDE DEF a
  <2> QED
    BY <1>1, <2>1, <2>4, <2>6, <2>8 DEF Rows
<1>5. TimesLast(x, b) \in Rows(s)
  <2> DEFINE u == CopyBucket(x.s, b).s
             c == CopyBucket(x.s, b).b
             d == x.kept \o c
             a == Append(x.rows, d)
  <2>1. TimesLast(x, b) = [s |-> u, rows |-> a, kept |-> d]
    BY DEF TimesLast
  <2>2. u \in Memory /\ Grows(x.s, u) /\ c \in Seq(Cells) /\ Present(u, c)
    BY <1>1, <1>2, CopyTyped
  <2> HIDE DEF u, c
  <2>3. Grows(s, u) /\ Present(u, x.kept)
    BY <1>1, <2>2, GrowsTwice, GrowsPresent
  <2>4. d \in Seq(Cells) /\ Range(d) = Range(x.kept) \cup Range(c)
    BY <1>1, <2>2, Concatenated
  <2> HIDE DEF d
  <2>5. Present(u, d)
    BY <2>2, <2>3, <2>4 DEF Present
  <2>6. a \in Seq(Seq(Cells))
    BY <1>1, <2>4, Appended
  <2> HIDE DEF a
  <2> QED
    BY <2>1, <2>2, <2>3, <2>4, <2>5, <2>6 DEF Rows
<1> QED
  BY <1>3, <1>4, <1>5

LEMMA ProductsGrow ==
  ASSUME NEW a \in Nat, NEW b \in Nat, NEW l \in Nat
  PROVE  a * l \in Nat /\ (a + 1) * l = a * l + l /\ (a <= b => a * l <= b * l) /\ 0 * l = 0 /\ 1 * l = l
OBVIOUS

\* What the product of a row and a list takes of the memory.
RowSize(row, bl2) == (Len(bl2.bkts) - 1) * Len(row) + Size(bl2)

\* The product of a row and a list is made bucket by bucket.
LEMMA RowAndIs ==
  ASSUME NEW s \in Memory, NEW row \in Seq(Cells), row # << >>, NEW bl2, bl2.bkts \in Buckets,
         bl2.bkts # << >>, Accurate(bl2), Once(row), Present(s, row), AllPresent(s, bl2.bkts),
         NEW r, r = RowAnd(s, row, bl2)
  PROVE  /\ r \in Rows(s)
         /\ RowSize(row, bl2) \in Nat
         /\ Cardinality(Unused(s)) >= RowSize(row, bl2) =>
              RowUpTo(s, row, bl2.bkts, r.s, r.rows, r.kept, Len(bl2.bkts), RowSize(row, bl2))
<1> DEFINE b == bl2.bkts
           n == Len(b)
           l == Len(row)
           ids == [j \in DOMAIN b |-> j]
           base == [s |-> s, rows |-> << >>, kept |-> << >>]
           T == Rows(s)
           Step(x, j) == CASE PositionOf(bl2, j) = "First" -> TimesFirst(x, row, b[j], bl2.total > 1)
                           [] PositionOf(bl2, j) = "Last" /\ bl2.total > 1 -> TimesLast(x, b[j])
                           [] OTHER -> TimesNext(x, b[j])
           Value(h, S) == IF S = {} THEN base ELSE Step(h[S \ {Max(S)}], ids[Max(S)])
           fold == CHOOSE h : h = [S \in SUBSET (DOMAIN ids) |-> Value(h, S)]
<1>2. r = fold[DOMAIN ids]
  BY DEF RowAnd, FoldLeft, MapThenFoldSet
<1>00. b \in Buckets /\ b # << >> /\ AllPresent(s, b) /\ bl2.last = n /\ bl2.total = n
  BY DEF Accurate
<1>01. PICK g : Counts(g, b, Size(bl2))
  BY SizeIs
<1>02. RowSize(row, bl2) = (n - 1) * l + Size(bl2)
  BY DEF RowSize
<1> HIDE DEF b
<1>1. /\ n \in Nat /\ DOMAIN ids = 1..n /\ 1 \in 1..n /\ n # 0 /\ l \in Nat
      /\ \A k \in 1..n : /\ ids[k] = k /\ b[k] \in Seq(Cells) /\ Present(s, b[k]) /\ Len(b[k]) \in Nat
  <2>1. n \in Nat /\ DOMAIN b = 1..n /\ 1 \in 1..n /\ l \in Nat
    BY <1>00, BucketsAre, HeadOf, LenProperties
  <2>2. ASSUME NEW k \in 1..n PROVE b[k] \in Seq(Cells) /\ Present(s, b[k]) /\ Len(b[k]) \in Nat
    <3>1. b[k] \in Seq(Cells) /\ Range(b[k]) \subseteq In(b)
      BY <1>00, BucketsAre
    <3> QED
      BY <1>00, <3>1, LenProperties DEF AllPresent, Present
  <2> QED
    BY <2>1, <2>2
<1> HIDE DEF n, l, ids
<1>20. /\ \A x : Step(x, 1) = TimesFirst(x, row, b[1], n > 1)
       /\ \A x : \A k \in 1..n : k # 1 /\ k # n => Step(x, k) = TimesNext(x, b[k])
       /\ \A x : \A k \in 1..n : k # 1 /\ k = n => Step(x, k) = TimesLast(x, b[k])
  <2>1. PositionOf(bl2, 1) = "First"
    BY DEF PositionOf
  <2>2. \A k \in 1..n : k # 1 /\ k # n => PositionOf(bl2, k) = "Next"
    BY <1>00 DEF PositionOf
  <2>3. \A k \in 1..n : k # 1 /\ k = n => PositionOf(bl2, k) = "Last" /\ bl2.total > 1
    BY <1>00, <1>1 DEF PositionOf
  <2> QED
    BY <1>00, <2>1, <2>2, <2>3
<1>3. base \in T /\ \A k \in 1..n, x \in T : Step(x, ids[k]) \in T
  <2>1. base \in T
    <3> DEFINE e == << >>
    <3>1. e \in Seq(Seq(Cells)) /\ e \in Seq(Cells) /\ Range(e) = {} /\ base = [s |-> s, rows |-> e, kept |-> e]
      BY DEF Range
    <3> HIDE DEF e, base
    <3> QED
      BY <3>1 DEF Rows, Grows, Present
  <2>2. ASSUME NEW k \in 1..n, NEW x \in T
        PROVE  Step(x, k) \in T
    <3> HIDE DEF Step, base
    <3>1. b[k] \in Seq(Cells) /\ Present(s, b[k]) /\ (n > 1) \in BOOLEAN
      BY <1>1
    <3>2. TimesFirst(x, row, b[k], n > 1) \in T /\ TimesNext(x, b[k]) \in T /\ TimesLast(x, b[k]) \in T
      BY <3>1, TimesTyped
    <3> QED
      BY <1>20, <3>2
  <2> QED
    BY <1>1, <2>1, <2>2
<1> HIDE DEF base
<1> HIDE DEF n, Step, T
<1> DEFINE G == [k \in 1..n |-> [x \in T |-> Step(x, ids[k])]]
<1>4. G \in [1..n -> [T -> T]]
  BY <1>3
<1>5. PICK h \in [SUBSET (1..n) -> T] :
        \A S \in SUBSET (1..n) : h[S] = IF S = {} THEN base ELSE G[Max(S)][h[S \ {Max(S)}]]
  <2> HIDE DEF G
  <2>1. \E h : FoldsFrom(h, n, T, base, G)
    BY <1>1, <1>3, <1>4, FoldExists
  <2> QED
    BY <2>1 DEF FoldsFrom
<1>6. \A S \in SUBSET (1..n) : h[S] = Value(h, S)
  <2> SUFFICES ASSUME NEW S \in SUBSET (1..n), S # {}
               PROVE  h[S] = Step(h[S \ {Max(S)}], ids[Max(S)])
    BY <1>5
  <2>1. Max(S) \in 1..n /\ S \ {Max(S)} \in SUBSET (1..n)
    BY <1>1, MaxOfPlaces
  <2> QED
    BY <1>5, <2>1
<1>7. fold = [S \in SUBSET (1..n) |-> Value(fold, S)]
  <2> HIDE DEF Value
  <2>1. h = [S \in SUBSET (DOMAIN ids) |-> Value(h, S)]
    BY <1>1, <1>5, <1>6
  <2> QED
    BY <1>1, <2>1
<1> HIDE DEF fold
<1>8. fold[{}] = base
  BY <1>7
<1>9. ASSUME NEW k \in 1..n, fold[1..(k - 1)] \in T
      PROVE  fold[1..k] = G[k][fold[1..(k - 1)]]
  <2>1. 1..k # {} /\ Max(1..k) = k /\ (1..k) \ {k} = 1..(k - 1) /\ 1..k \in SUBSET (1..n)
    <3>1. k \in Nat /\ k # 0 /\ 1..k \in SUBSET (1..n)
      BY <1>1
    <3> QED
      BY <3>1, MaxOfInterval
  <2>2. fold[1..k] = Value(fold, 1..k)
    <3> HIDE DEF Value
    <3> QED
      BY <1>7, <2>1
  <2>3. fold[1..k] = Step(fold[1..(k - 1)], ids[k])
    BY <2>1, <2>2
  <2> QED
    BY <1>9, <2>3
<1>10. \E f : FoldsUpTo(f, n, T, base, G, fold[1..n])
  <2>1. n \in Nat /\ base \in T
    BY <1>1, <1>3
  <2> HIDE DEF G
  <2>2. IsFold(fold, n, T, base, G)
    BY <1>8, <1>9 DEF IsFold
  <2> QED
    BY <1>4, <2>1, <2>2, FoldPrefixes
<1>11. PICK f \in [0..n -> T] : /\ f[0] = base /\ f[n] = fold[1..n]
                                /\ \A k \in 1..n : f[k] = G[k][f[k - 1]]
  BY <1>10 DEF FoldsUpTo
<1>12. \A k \in 1..n : k - 1 \in 0..n /\ f[k - 1] \in T /\ f[k] = Step(f[k - 1], ids[k])
  <2> TAKE k \in 1..n
  <2>1. k - 1 \in 0..n
    BY <1>1
  <2> QED
    BY <1>11, <2>1
<1> HIDE DEF G, Value
<1>16. r = f[n] /\ f[n] \in T
  BY <1>1, <1>2, <1>11
<1> DEFINE need == (n - 1) * l + Size(bl2)
<1>21. /\ g[0] = 0 /\ g[n] = Size(bl2) /\ (\A k \in 0..n : g[k] \in Nat /\ g[k] <= g[n])
       /\ \A k \in 1..n : g[k] = g[k - 1] + Len(b[k])
  BY <1>01 DEF Counts, n
<1>22. (n - 1) * l \in Nat /\ need \in Nat
  <2> DEFINE m == n - 1
  <2>1. m \in Nat /\ Size(bl2) \in Nat
    BY <1>1, <1>21
  <2> HIDE DEF m
  <2>2. m * l \in Nat
    BY <1>1, <2>1, ProductsGrow
  <2> QED
    BY <2>1, <2>2 DEF m
<1>23. f[0].s = s
  BY <1>11 DEF base
<1>30. ASSUME Cardinality(Unused(s)) >= need
       PROVE  RowUpTo(s, row, b, r.s, r.rows, r.kept, n, need)
  <2>0. Cardinality(Unused(s)) \in Nat
    BY UnusedIs
  <2> DEFINE W(k) == Copies(k, n) * l + g[k]
             R == {k \in 0..n : k = 0 \/ RowUpTo(s, row, b, f[k].s, f[k].rows, f[k].kept, k, W(k))}
  <2>1. ASSUME NEW k \in 1..n
        PROVE  /\ W(k) \in Nat /\ W(k) <= need
               /\ k = 1 => W(k) = (IF n > 1 THEN l ELSE 0) + Len(b[1])
               /\ k # 1 /\ k # n => W(k) = W(k - 1) + l + Len(b[k])
               /\ k # 1 /\ k = n => W(k) = W(k - 1) + Len(b[k])
    <3> DEFINE m == n - 1
               c == Copies(k, n)
               d == Copies(k - 1, n)
               q == Len(b[k])
    <3>1. /\ c \in Nat /\ c <= m /\ m \in Nat /\ d \in Nat
          /\ k = 1 => c = IF n > 1 THEN 1 ELSE 0
          /\ k # 1 /\ k # n => c = d + 1
          /\ k # 1 /\ k = n => c = d
      BY <1>1 DEF Copies
    <3>2. k - 1 \in 0..n /\ k \in 0..n
      BY <1>1
    <3>3. g[k] \in Nat /\ g[k - 1] \in Nat /\ g[k] <= Size(bl2) /\ g[k] = g[k - 1] + q /\ q \in Nat /\ Size(bl2) \in Nat
      BY <1>1, <1>21, <3>2
    <3> HIDE DEF m, c, d, q
    <3>4. c * l \in Nat /\ c * l <= m * l /\ m * l \in Nat /\ (d + 1) * l = d * l + l /\ d * l \in Nat
          /\ 1 * l = l /\ 0 * l = 0
      BY <1>1, <3>1, ProductsGrow
    <3>5. c * l + g[k] \in Nat /\ c * l + g[k] <= m * l + Size(bl2)
      BY <3>3, <3>4, SMTT(60)
    <3>6. k = 1 => c * l + g[k] = (IF n > 1 THEN l ELSE 0) + q
      <4> SUFFICES ASSUME k = 1 PROVE c * l + g[k] = (IF n > 1 THEN l ELSE 0) + q
        OBVIOUS
      <4>1. g[k] = q
        BY <1>21, <3>3
      <4>2. c * l = IF n > 1 THEN l ELSE 0
        BY <3>1, <3>4
      <4> QED
        BY <1>1, <3>3, <4>1, <4>2
    <3>7. k # 1 /\ k # n => c * l + g[k] = d * l + g[k - 1] + l + q
      <4> SUFFICES ASSUME k # 1, k # n PROVE c * l + g[k] = d * l + g[k - 1] + l + q
        OBVIOUS
      <4>1. c * l = d * l + l
        BY <3>1, <3>4
      <4> QED
        BY <1>1, <3>3, <3>4, <4>1, SMTT(60)
    <3>8. k # 1 /\ k = n => c * l + g[k] = d * l + g[k - 1] + q
      <4> SUFFICES ASSUME k # 1, k = n PROVE c * l + g[k] = d * l + g[k - 1] + q
        OBVIOUS
      <4>1. c * l = d * l
        BY <3>1
      <4> QED
        BY <3>3, <3>4, <4>1
    <3> QED
      BY <3>5, <3>6, <3>7, <3>8 DEF m, c, d, q
  <2> HIDE DEF W, need
  <2>2. ASSUME NEW k \in 1..n, k - 1 \in R
        PROVE  k \in R
    <3> DEFINE x == f[k - 1]
               y == f[k]
    <3>1. k \in 0..n /\ x \in T /\ y = Step(x, k)
      BY <1>1, <1>12
    <3>2. CASE k = 1
      <4>1. y = TimesFirst(x, row, b[1], n > 1) /\ x.s = s
        BY <1>20, <1>23, <3>1, <3>2
      <4>2. W(1) = (IF n > 1 THEN l ELSE 0) + Len(b[1]) /\ Cardinality(Unused(s)) >= W(1)
        BY <1>30, <1>22, <2>0, <2>1, <3>2 DEF need
      <4> HIDE DEF x, y
      <4>3. RowUpTo(s, row, b, y.s, y.rows, y.kept, 1, (IF n > 1 THEN l ELSE 0) + Len(b[1]))
        BY <1>00, <4>1, <4>2, RowFirst DEF n, l
      <4>4. RowUpTo(s, row, b, y.s, y.rows, y.kept, 1, W(1))
        BY <4>2, <4>3
      <4> QED
        BY <3>1, <3>2, <4>4 DEF y
    <3>3. CASE k # 1
      <4> DEFINE m == k - 1
      <4>1. m \in Nat /\ m # 0 /\ m + 1 = k /\ m + 1 \in 1..n
        BY <1>1, <3>3
      <4>2. RowUpTo(s, row, b, f[m].s, f[m].rows, f[m].kept, m, W(m))
        BY <2>2, <4>1
      <4>3. Cardinality(Unused(s)) >= W(k)
        BY <1>30, <1>22, <2>0, <2>1 DEF need
      <4> HIDE DEF m, y, x
      <4>4. y = Step(f[m], k)
        BY <3>1 DEF m, x
      <4>5. CASE k # n
        <5>1. y = TimesNext(f[m], b[m + 1]) /\ m + 1 < n
          BY <1>1, <1>20, <3>3, <4>1, <4>4, <4>5
        <5>2. W(k) = W(m) + l + Len(b[m + 1])
          BY <2>1, <3>3, <4>1, <4>5 DEF m
        <5>3. RowUpTo(s, row, b, y.s, y.rows, y.kept, m + 1, W(m) + l + Len(b[m + 1]))
          BY <1>00, <4>1, <4>2, <4>3, <5>1, <5>2, RowNext DEF n, l
        <5> QED
          BY <3>1, <4>1, <5>2, <5>3 DEF y
      <4>6. CASE k = n
        <5>1. y = TimesLast(f[m], b[m + 1]) /\ m + 1 = n
          BY <1>1, <1>20, <3>3, <4>1, <4>4, <4>6
        <5>2. W(k) = W(m) + Len(b[m + 1])
          BY <2>1, <3>3, <4>1, <4>6 DEF m
        <5>3. RowUpTo(s, row, b, y.s, y.rows, y.kept, m + 1, W(m) + Len(b[m + 1]))
          BY <1>00, <4>1, <4>2, <4>3, <5>1, <5>2, RowLast DEF n
        <5> QED
          BY <3>1, <4>1, <5>2, <5>3 DEF y
      <4> QED
        BY <4>5, <4>6
    <3> QED
      BY <3>2, <3>3
  <2>3. 0 \in R
    BY <1>1
  <2>4. n \in R
    <3>1. n \in 0..n /\ n \in Nat
      BY <1>1
    <3>2. \A k \in 1..n : k - 1 \in R => k \in R
      BY <2>2
    <3> HIDE DEF R
    <3> QED
      BY <2>3, <3>1, <3>2, PrefixInduction
  <2>5. RowUpTo(s, row, b, f[n].s, f[n].rows, f[n].kept, n, W(n))
    BY <1>1, <2>4
  <2>6. W(n) = need
    BY <1>1, <1>21 DEF W, Copies, need
  <2> QED
    BY <1>16, <2>5, <2>6
<1>31. RowSize(row, bl2) = need
  BY <1>02
<1> HIDE DEF need
<1> QED
  BY <1>16, <1>22, <1>30, <1>31 DEF n, b

LEMMA GrowsAllPresent ==
  ASSUME NEW s, NEW t, Grows(s, t), NEW bs \in Buckets, AllPresent(s, bs)
  PROVE  AllPresent(t, bs)
BY BucketsAre DEF AllPresent, Grows

\* The product of the first k buckets of b1 and b2.
ProductUpTo(s, b1, b2, t, rows, k, used) ==
  /\ rows \in Buckets /\ Len(rows) = k * Len(b2) /\ Distinct(rows) /\ AllPresent(t, rows)
  /\ used \in Nat /\ Cardinality(Unused(t)) = Cardinality(Unused(s)) - used
  /\ \E new : /\ Allocated(s, t, new)
              /\ \A i \in In(rows) : i \in new \/ \E m \in 1..k : i \in Range(b1[m])
  /\ k # 0 => rows # << >> /\ rows[1][1] = b1[1][1]
  /\ \A x : x \in Saids(t.conds, rows) <=>
              \E i \in 1..k, j \in 1..Len(b2) : x = Said(s.conds, b1[i]) \cup Said(s.conds, b2[j])

LEMMA ProductNext ==
  ASSUME NEW s \in Memory, NEW b1 \in Buckets, AllPresent(s, b1), Distinct(b1),
         NEW bl2, bl2.bkts \in Buckets, bl2.bkts # << >>, Accurate(bl2), AllPresent(s, bl2.bkts),
         NEW k \in Nat, k + 1 \in 1..Len(b1), NEW used, NEW t, NEW rows,
         ProductUpTo(s, b1, bl2.bkts, t, rows, k, used),
         Cardinality(Unused(s)) >= used + RowSize(b1[k + 1], bl2),
         NEW r, r = RowAnd(t, b1[k + 1], bl2)
  PROVE  ProductUpTo(s, b1, bl2.bkts, r.s, rows \o r.rows, k + 1, used + RowSize(b1[k + 1], bl2))
<1> DEFINE b2 == bl2.bkts
           row == b1[k + 1]
           n == Len(b2)
           size == RowSize(row, bl2)
           u == r.s
           a == rows \o r.rows
<1>0. b2 \in Buckets /\ b2 # << >> /\ AllPresent(s, b2) /\ ProductUpTo(s, b1, b2, t, rows, k, used)
  OBVIOUS
<1>1. /\ row \in Seq(Cells) /\ row # << >> /\ Range(row) \subseteq In(b1) /\ Once(row)
      /\ \A m \in 1..k : Range(b1[m]) \cap Range(row) = {}
  <2>1. row \in Seq(Cells) /\ row # << >> /\ Range(row) \subseteq In(b1) /\ k + 1 \in DOMAIN b1
    BY BucketsAre
  <2>2. \A m \in 1..k : m \in DOMAIN b1 /\ m # k + 1
    BY BucketsAre
  <2> HIDE DEF row
  <2> QED
    BY <2>1, <2>2 DEF Distinct, row
<1>2. /\ rows \in Buckets /\ Len(rows) = k * n /\ Distinct(rows) /\ AllPresent(t, rows)
      /\ used \in Nat /\ Cardinality(Unused(t)) = Cardinality(Unused(s)) - used
      /\ k # 0 => rows # << >> /\ rows[1][1] = b1[1][1]
      /\ \A x : x \in Saids(t.conds, rows) <=>
                  \E i \in 1..k, j \in 1..n : x = Said(s.conds, b1[i]) \cup Said(s.conds, b2[j])
  BY <1>0 DEF ProductUpTo
<1>3. PICK new : /\ Allocated(s, t, new)
                 /\ \A i \in In(rows) : i \in new \/ \E m \in 1..k : i \in Range(b1[m])
  BY <1>0 DEF ProductUpTo
<1>4. t \in Memory /\ Grows(s, t)
  <2>1. t \in Memory
    BY <1>3 DEF Allocated
  <2> QED
    BY <1>3, <2>1, AllocatedGrows
<1>5. r \in Rows(t) /\ size \in Nat
      /\ (Cardinality(Unused(t)) >= size => RowUpTo(t, row, b2, u, r.rows, r.kept, n, size))
  <2>1. Present(t, row) /\ AllPresent(t, b2)
    <3>1. Present(s, row)
      BY <1>1 DEF AllPresent, Present
    <3> QED
      BY <1>0, <1>1, <1>4, <3>1, GrowsPresent, GrowsAllPresent
  <2>2. r = RowAnd(t, row, bl2)
    OBVIOUS
  <2> HIDE DEF row
  <2> QED
    BY <1>0, <1>1, <1>4, <2>1, <2>2, RowAndIs
<1> HIDE DEF size, b2
<1>6. Cardinality(Unused(t)) >= size
  <2>1. Cardinality(Unused(s)) \in Nat /\ Cardinality(Unused(s)) >= used + size
    BY UnusedIs DEF size
  <2> DEFINE p == Cardinality(Unused(s))
             q == Cardinality(Unused(t))
  <2>2. p \in Nat /\ p >= used + size /\ q = p - used
    BY <1>2, <2>1
  <2> HIDE DEF p, q
  <2>3. q >= size
    BY <1>2, <1>5, <2>2
  <2> QED
    BY <2>3 DEF q
<1> HIDE DEF n, row
<1>7. RowUpTo(t, row, b2, u, r.rows, r.kept, n, size)
  BY <1>5, <1>6
<1> HIDE DEF u
<1>8. /\ r.rows \in Buckets /\ Len(r.rows) = n /\ Distinct(r.rows) /\ AllPresent(u, r.rows)
      /\ Cardinality(Unused(u)) = Cardinality(Unused(t)) - size
      /\ r.rows[1][1] = row[1]
      /\ \A i \in 1..n : Said(u.conds, r.rows[i]) = Said(t.conds, row) \cup Said(t.conds, b2[i])
  BY <1>7 DEF RowUpTo
<1>9. PICK more : Allocated(t, u, more) /\ In(r.rows) \subseteq Range(row) \cup more
  BY <1>7 DEF RowUpTo
<1>10. Allocated(s, u, new \cup more)
  BY <1>3, <1>9, AllocatedTwice
<1>11. In(rows) \subseteq Cells /\ In(b1) \subseteq Cells /\ In(b2) \subseteq Cells
       /\ \A j \in 1..n : Range(b2[j]) \subseteq In(b2)
  BY <1>0, <1>2, BucketsAre DEF n
<1>12. (\A i \in In(b1) : t.conds[i] = s.conds[i]) /\ In(b1) \cap new = {}
  BY <1>3, <1>11, PresentStays DEF AllPresent
<1>13. \A i \in In(b2) : t.conds[i] = s.conds[i]
  BY <1>0, <1>3, <1>11, PresentStays DEF AllPresent
<1>14. (\A i \in In(rows) : u.conds[i] = t.conds[i] /\ u.conds[i] # Freed) /\ In(rows) \cap more = {}
  BY <1>2, <1>4, <1>9, <1>11, PresentStays DEF AllPresent
<1>15. In(rows) \cap In(r.rows) = {}
  <2>1. In(rows) \cap Range(row) = {}
    BY <1>1, <1>3, <1>12
  <2> QED
    BY <1>9, <1>14, <2>1
<1> DEFINE extra == r.rows
<1> HIDE DEF extra
<1>16. /\ a \in Buckets /\ Len(a) = Len(rows) + Len(extra) /\ Len(rows) \in Nat /\ Len(extra) \in Nat
       /\ (\A j \in 1..Len(rows) : a[j] = rows[j])
       /\ In(a) = In(rows) \cup In(extra) /\ Distinct(a)
       /\ \A cs : Saids(cs, a) = Saids(cs, rows) \cup Saids(cs, extra)
  <2>1. extra \in Buckets /\ a = rows \o extra /\ Distinct(extra) /\ In(rows) \cap In(extra) = {}
    BY <1>8, <1>15 DEF extra
  <2>2. Joined(rows, extra, a)
    BY <1>2, <2>1, BucketsJoined
  <2> HIDE DEF a
  <2> QED
    BY <1>2, <2>1, <2>2 DEF Joined
<1>17. AllPresent(u, a)
  BY <1>8, <1>14, <1>16 DEF AllPresent, extra
<1>18. \A x : x \in Saids(u.conds, extra) <=> \E j \in 1..n : x = Said(s.conds, row) \cup Said(s.conds, b2[j])
  <2>1. Said(t.conds, row) = Said(s.conds, row)
    BY <1>1, <1>12, SaidDepends
  <2>2. \A j \in 1..n : Said(t.conds, b2[j]) = Said(s.conds, b2[j])
    BY <1>11, <1>13, SaidDepends
  <2>3. DOMAIN extra = 1..n
    BY <1>8, BucketsAre DEF extra
  <2>4. \A j \in 1..n : Said(u.conds, extra[j]) = Said(s.conds, row) \cup Said(s.conds, b2[j])
    BY <1>8, <2>1, <2>2 DEF extra
  <2> QED
    BY <2>3, <2>4 DEF Saids
<1>19. Saids(u.conds, rows) = Saids(t.conds, rows)
  BY <1>14, SaidsDepend
<1>20. \A x : x \in Saids(u.conds, a) <=>
                \E i \in 1..(k + 1), j \in 1..n : x = Said(s.conds, b1[i]) \cup Said(s.conds, b2[j])
  <2>1. \A i \in 1..(k + 1) : i \in 1..k \/ i = k + 1
    OBVIOUS
  <2>2. (\A i \in 1..k : i \in 1..(k + 1)) /\ k + 1 \in 1..(k + 1)
    OBVIOUS
  <2>3. \A x : x \in Saids(u.conds, a) <=> x \in Saids(t.conds, rows) \/ x \in Saids(u.conds, extra)
    BY <1>16, <1>19
  <2>4. \A x : x \in Saids(u.conds, a) <=>
                 \/ \E i \in 1..k, j \in 1..n : x = Said(s.conds, b1[i]) \cup Said(s.conds, b2[j])
                 \/ \E j \in 1..n : x = Said(s.conds, row) \cup Said(s.conds, b2[j])
    BY <1>2, <1>18, <2>3
  <2> QED
    BY <2>1, <2>2, <2>4 DEF row
<1>21. a # << >> /\ a[1][1] = b1[1][1]
  <2>1. n # 0 /\ 1 \in 1..n
    <3>1. 1 \in 1..n
      BY <1>0, HeadOf DEF n
    <3> QED
      BY <3>1
  <2>2. Len(a) # 0
    BY <1>8, <1>16, <2>1 DEF extra
  <2>3. a # << >>
    BY <2>2, EmptySeq
  <2>4. CASE k # 0
    <3>1. rows # << >> /\ rows[1][1] = b1[1][1]
      BY <1>2, <2>4
    <3>2. 1 \in 1..Len(rows)
      BY <1>2, <3>1, HeadOf
    <3> QED
      BY <1>16, <2>3, <3>1, <3>2
  <2>5. CASE k = 0
    <3>1. Len(rows) = 0
      BY <1>2, <2>5, <1>8
    <3>2. rows = << >>
      BY <1>2, <3>1, EmptySeq DEF Buckets
    <3>3. extra \in Seq(Seq(Cells)) /\ a = << >> \o extra
      BY <1>8, <3>2 DEF Buckets, extra
    <3>4. a = extra
      BY <3>3
    <3> QED
      BY <1>8, <2>3, <2>5, <3>4 DEF extra, row
  <2> QED
    BY <2>4, <2>5
<1>22. /\ Len(a) = (k + 1) * n /\ used + size \in Nat
       /\ Cardinality(Unused(u)) = Cardinality(Unused(s)) - (used + size)
  <2>1. n \in Nat
    BY <1>8, <1>16 DEF extra
  <2>2. (k + 1) * n = k * n + n
    BY <2>1, ProductsGrow
  <2>3. Len(a) = (k + 1) * n
    BY <1>2, <1>8, <1>16, <2>2 DEF extra
  <2>4. Cardinality(Unused(s)) \in Nat
    BY UnusedIs
  <2> DEFINE p == Cardinality(Unused(s))
             q == Cardinality(Unused(t))
             v == Cardinality(Unused(u))
  <2>5. p \in Nat /\ q = p - used /\ v = q - size
    BY <1>2, <1>8, <2>4
  <2> HIDE DEF p, q, v
  <2>6. used + size \in Nat /\ v = p - (used + size)
    BY <1>2, <1>5, <2>5
  <2> QED
    BY <2>3, <2>6 DEF p, v
<1>23. \A i \in In(a) : i \in new \cup more \/ \E m \in 1..(k + 1) : i \in Range(b1[m])
  <2>1. (\A m \in 1..k : m \in 1..(k + 1)) /\ k + 1 \in 1..(k + 1)
    OBVIOUS
  <2>2. In(a) = In(rows) \cup In(extra) /\ In(extra) \subseteq Range(row) \cup more
    BY <1>9, <1>16 DEF extra
  <2> QED
    BY <1>3, <2>1, <2>2 DEF row
<1> HIDE DEF a
<1>24. ProductUpTo(s, b1, b2, u, a, k + 1, used + size)
  BY <1>10, <1>16, <1>17, <1>20, <1>21, <1>22, <1>23 DEF ProductUpTo, n
<1> QED
  BY <1>24 DEF u, a, size, b2, row

\* The product of two lists is made row by row.
LEMMA OperationAndIs ==
  ASSUME NEW s \in Memory, NEW bl1, NEW bl2, bl1.bkts \in Buckets, bl2.bkts \in Buckets,
         bl2.bkts # << >>, Accurate(bl2), Distinct(bl1.bkts),
         AllPresent(s, bl1.bkts), AllPresent(s, bl2.bkts),
         Cardinality(Unused(s)) >= ProductSize(bl1, bl2),
         NEW op, op = OperationAnd(s, bl1, bl2)
  PROVE  /\ ProductUpTo(s, bl1.bkts, bl2.bkts, op.s, op.bl.bkts, Len(bl1.bkts), ProductSize(bl1, bl2))
         /\ op.bl.total = bl1.total
         /\ op.bl.last = IF bl1.last = 0 THEN 0 ELSE (bl1.last - 1) * Len(bl2.bkts) + 1
         /\ op.bl = [bkts |-> op.bl.bkts, last |-> op.bl.last, total |-> op.bl.total]
<1> DEFINE b == bl1.bkts
           b2 == bl2.bkts
           n == Len(b)
           n2 == Len(b2)
           base == [s |-> s, rows |-> << >>]
           T == {x \in [s : Memory, rows : Seq(Seq(Cells))] : Grows(s, x.s)}
           Step(x, row) == [s |-> RowAnd(x.s, row, bl2).s, rows |-> x.rows \o RowAnd(x.s, row, bl2).rows]
           Value(h, S) == IF S = {} THEN base ELSE Step(h[S \ {Max(S)}], b[Max(S)])
           fold == CHOOSE h : h = [S \in SUBSET (DOMAIN b) |-> Value(h, S)]
           product == fold[DOMAIN b]
           last == IF bl1.last = 0 THEN 0 ELSE (bl1.last - 1) * n2 + 1
<1>00. /\ b \in Buckets /\ b2 \in Buckets /\ b2 # << >> /\ Distinct(b)
       /\ AllPresent(s, b) /\ AllPresent(s, b2)
  OBVIOUS
<1>0. n2 # 0 /\ n2 \in Nat
  <2>1. 1 \in 1..n2
    BY <1>00, HeadOf, SMTT(60)
  <2> QED
    BY <2>1, BucketsAre
<1>2. op = [s |-> product.s, bl |-> [bkts |-> product.rows, last |-> last, total |-> bl1.total]]
  BY <1>0 DEF OperationAnd, FoldLeft, MapThenFoldSet
<1>3a. /\ op.s = product.s /\ op.bl.bkts = product.rows /\ op.bl.last = last /\ op.bl.total = bl1.total
       /\ op.bl = [bkts |-> op.bl.bkts, last |-> op.bl.last, total |-> op.bl.total]
  <2> HIDE DEF product, last
  <2> QED
    BY <1>2
<1>01. PICK g : Counts(g, b, Size(bl1))
  BY SizeIs
<1>02. PICK g2 : Counts(g2, b2, Size(bl2))
  BY SizeIs
<1> DEFINE z == Size(bl2)
<1>03. z \in Nat
  BY <1>0, <1>02 DEF Counts
<1> HIDE DEF b, n2, z
<1>1. /\ n \in Nat /\ DOMAIN b = 1..n
      /\ \A k \in 1..n : /\ b[k] \in Seq(Cells) /\ b[k] # << >> /\ Present(s, b[k]) /\ Len(b[k]) \in Nat
                         /\ Once(b[k])
  <2>1. n \in Nat /\ DOMAIN b = 1..n
    BY <1>00, BucketsAre
  <2>2. ASSUME NEW k \in 1..n
        PROVE  /\ b[k] \in Seq(Cells) /\ b[k] # << >> /\ Present(s, b[k]) /\ Len(b[k]) \in Nat /\ Once(b[k])
    <3>1. b[k] \in Seq(Cells) /\ b[k] # << >> /\ Range(b[k]) \subseteq In(b)
      BY <1>00, BucketsAre
    <3> QED
      BY <1>00, <2>1, <3>1, LenProperties DEF AllPresent, Present, Distinct
  <2> QED
    BY <2>1, <2>2
<1> HIDE DEF n
<1>3. base \in T /\ \A k \in 1..n, x \in T : Step(x, b[k]) \in T
  <2>1. base \in T
    <3> DEFINE e == << >>
    <3>1. e \in Seq(Seq(Cells)) /\ base = [s |-> s, rows |-> e]
      OBVIOUS
    <3> HIDE DEF e, base
    <3> QED
      BY <3>1 DEF Grows
  <2>2. ASSUME NEW k \in 1..n, NEW x \in T
        PROVE  Step(x, b[k]) \in T
    <3> DEFINE r == RowAnd(x.s, b[k], bl2)
    <3>1. x.s \in Memory /\ x.rows \in Seq(Seq(Cells)) /\ Grows(s, x.s)
      OBVIOUS
    <3>2. Present(x.s, b[k]) /\ AllPresent(x.s, b2)
      BY <1>00, <1>1, <3>1, GrowsPresent, GrowsAllPresent
    <3>3. r \in Rows(x.s)
      BY <1>1, <3>1, <3>2, RowAndIs
    <3> HIDE DEF r
    <3>4. r.s \in Memory /\ r.rows \in Seq(Seq(Cells)) /\ Grows(x.s, r.s)
      BY <3>3 DEF Rows
    <3>5. Grows(s, r.s) /\ x.rows \o r.rows \in Seq(Seq(Cells))
      <4>1. Grows(s, r.s)
        BY <3>1, <3>4, GrowsTwice
      <4>2. x.rows \o r.rows \in Seq(Seq(Cells))
        BY <3>1, <3>4, Concatenated
      <4> QED
        BY <4>1, <4>2
    <3>6. Step(x, b[k]) = [s |-> r.s, rows |-> x.rows \o r.rows]
      BY DEF r
    <3> HIDE DEF Step
    <3> QED
      BY <3>4, <3>5, <3>6
  <2> QED
    BY <2>1, <2>2
<1> HIDE DEF base
<1> HIDE DEF n, Step, T
<1> DEFINE G == [k \in 1..n |-> [x \in T |-> Step(x, b[k])]]
<1>4. G \in [1..n -> [T -> T]]
  BY <1>3
<1>5. PICK h \in [SUBSET (1..n) -> T] :
        \A S \in SUBSET (1..n) : h[S] = IF S = {} THEN base ELSE G[Max(S)][h[S \ {Max(S)}]]
  <2> HIDE DEF G
  <2>1. \E h : FoldsFrom(h, n, T, base, G)
    BY <1>1, <1>3, <1>4, FoldExists
  <2> QED
    BY <2>1 DEF FoldsFrom
<1>6. \A S \in SUBSET (1..n) : h[S] = Value(h, S)
  <2> SUFFICES ASSUME NEW S \in SUBSET (1..n), S # {}
               PROVE  h[S] = Step(h[S \ {Max(S)}], b[Max(S)])
    BY <1>5
  <2>1. Max(S) \in 1..n /\ S \ {Max(S)} \in SUBSET (1..n)
    BY <1>1, MaxOfPlaces
  <2> QED
    BY <1>5, <2>1
<1>7. fold = [S \in SUBSET (1..n) |-> Value(fold, S)]
  <2> HIDE DEF Value
  <2>1. h = [S \in SUBSET (DOMAIN b) |-> Value(h, S)]
    BY <1>1, <1>5, <1>6
  <2> QED
    BY <1>1, <2>1
<1> HIDE DEF fold
<1>8. fold[{}] = base
  BY <1>7
<1>9. ASSUME NEW k \in 1..n, fold[1..(k - 1)] \in T
      PROVE  fold[1..k] = G[k][fold[1..(k - 1)]]
  <2>1. 1..k # {} /\ Max(1..k) = k /\ (1..k) \ {k} = 1..(k - 1) /\ 1..k \in SUBSET (1..n)
    <3>1. k \in Nat /\ k # 0 /\ 1..k \in SUBSET (1..n)
      BY <1>1
    <3> QED
      BY <3>1, MaxOfInterval
  <2>2. fold[1..k] = Value(fold, 1..k)
    <3> HIDE DEF Value
    <3> QED
      BY <1>7, <2>1
  <2>3. fold[1..k] = Step(fold[1..(k - 1)], b[k])
    BY <2>1, <2>2
  <2> QED
    BY <1>9, <2>3
<1>10. \E f : FoldsUpTo(f, n, T, base, G, fold[1..n])
  <2>1. n \in Nat /\ base \in T
    BY <1>1, <1>3
  <2> HIDE DEF G
  <2>2. IsFold(fold, n, T, base, G)
    BY <1>8, <1>9 DEF IsFold
  <2> QED
    BY <1>4, <2>1, <2>2, FoldPrefixes
<1>11. PICK f \in [0..n -> T] : /\ f[0] = base /\ f[n] = fold[1..n]
                                /\ \A k \in 1..n : f[k] = G[k][f[k - 1]]
  BY <1>10 DEF FoldsUpTo
<1>12. \A k \in 1..n : k - 1 \in 0..n /\ f[k - 1] \in T /\ f[k] = Step(f[k - 1], b[k])
  <2> TAKE k \in 1..n
  <2>1. k - 1 \in 0..n
    BY <1>1
  <2> QED
    BY <1>11, <2>1
<1> HIDE DEF G, Value
<1>16. product = f[n]
  BY <1>1, <1>11
<1>21. /\ g[0] = 0 /\ g[n] = Size(bl1) /\ (\A k \in 0..n : g[k] \in Nat /\ g[k] <= g[n])
       /\ \A k \in 1..n : g[k] = g[k - 1] + Len(b[k])
  BY <1>01 DEF Counts, n
<1> DEFINE m == n2 - 1
           W(k) == m * g[k] + k * z
           need == m * g[n] + n * z
<1>22. need = ProductSize(bl1, bl2) /\ m \in Nat
  BY <1>0, <1>21 DEF ProductSize, b, n, n2, z
<1>23. ASSUME NEW k \in 1..n
       PROVE  W(k) = W(k - 1) + RowSize(b[k], bl2) /\ W(k) \in Nat /\ W(k) <= need /\ RowSize(b[k], bl2) \in Nat
  <2> DEFINE l == Len(b[k])
             p == g[k - 1]
             c == g[k]
             d == k - 1
             all == g[n]
  <2>1. k \in 0..n /\ d \in 0..n /\ n \in 0..n
    BY <1>1
  <2>2. c \in Nat /\ p \in Nat /\ l \in Nat /\ c = p + l /\ c <= all /\ all \in Nat /\ d \in Nat /\ k = d + 1 /\ k <= n /\ n \in Nat
    BY <1>1, <1>21, <2>1
  <2>3. RowSize(b[k], bl2) = m * l + z
    BY DEF RowSize, z, n2
  <2>4. W(k) = m * c + k * z /\ W(k - 1) = m * p + d * z /\ need = m * all + n * z
    OBVIOUS
  <2> HIDE DEF l, p, c, d, m, W, need, all
  <2>5. m * c = m * p + m * l /\ m * c \in Nat /\ m * p \in Nat /\ m * l \in Nat /\ m * c <= m * all /\ m * all \in Nat
    <3>1. m \in Nat
      BY <1>22
    <3>2. c * m \in Nat /\ c * m <= all * m /\ all * m \in Nat /\ p * m \in Nat /\ l * m \in Nat
      BY <2>2, <3>1, ProductsGrow
    <3>3. m * c = c * m /\ m * all = all * m /\ m * p = p * m /\ m * l = l * m
      BY <2>2, <3>1
    <3>4. m * c = m * p + m * l
      BY <2>2, <3>1
    <3> QED
      BY <3>2, <3>3, <3>4
  <2>6. k * z = d * z + z /\ k * z \in Nat /\ d * z \in Nat /\ k * z <= n * z /\ n * z \in Nat
    <3>1. k \in Nat
      BY <2>2
    <3> QED
      BY <1>03, <2>2, <3>1, ProductsGrow
  <2> DEFINE mc == m * c
             mp == m * p
             ml == m * l
             ma == m * all
             kz == k * z
             dz == d * z
             nz == n * z
  <2>7. /\ mc = mp + ml /\ mc \in Nat /\ mp \in Nat /\ ml \in Nat /\ ma \in Nat /\ mc <= ma
        /\ kz = dz + z /\ kz \in Nat /\ dz \in Nat /\ nz \in Nat /\ kz <= nz /\ z \in Nat
    BY <1>03, <2>5, <2>6
  <2> HIDE DEF mc, mp, ml, ma, kz, dz, nz
  <2>8. mc + kz = mp + dz + (ml + z) /\ mc + kz \in Nat /\ mc + kz <= ma + nz /\ ml + z \in Nat
    BY <2>7
  <2> QED
    BY <2>3, <2>4, <2>8 DEF mc, mp, ml, ma, kz, dz, nz, d, l
<1>24. Cardinality(Unused(s)) >= need /\ Cardinality(Unused(s)) \in Nat /\ need \in Nat /\ W(0) = 0 /\ W(n) = need
  <2>1. W(0) = 0
    BY <1>03, <1>21, <1>22
  <2>2. W(n) = need /\ need \in Nat
    <3>1. CASE n = 0
      BY <2>1, <3>1
    <3>2. CASE n # 0
      <4>1. n \in 1..n
        BY <1>1, <3>2
      <4> QED
        BY <1>23, <4>1
    <3> QED
      BY <3>1, <3>2
  <2> QED
    BY <1>22, <2>1, <2>2, UnusedIs
<1> HIDE DEF W, need, m
<1> DEFINE R == {k \in 0..n : ProductUpTo(s, b, b2, f[k].s, f[k].rows, k, W(k))}
<1>13. 0 \in R
  <2>1. 0 \in 0..n /\ f[0].s = s /\ f[0].rows = << >>
    BY <1>1, <1>11 DEF base
  <2> DEFINE e == << >>
  <2>2. e \in Buckets /\ Len(e) = 0 /\ In(e) = {} /\ Distinct(e) /\ (\A cs : Saids(cs, e) = {})
    BY DEF Buckets, In, Distinct, Saids
  <2> HIDE DEF e
  <2>3. AllPresent(s, e)
    BY <2>2 DEF AllPresent
  <2>4. Allocated(s, s, {})
    BY AllocatedNothing
  <2>5. Len(e) = 0 * Len(b2)
    <3>1. Len(b2) \in Nat
      BY <1>00, BucketsAre
    <3> QED
      BY <2>2, <3>1, ProductsGrow
  <2>6. 1..0 = {} /\ Cardinality(Unused(s)) = Cardinality(Unused(s)) - W(0) /\ W(0) \in Nat
    BY <1>24
  <2>7. ProductUpTo(s, b, b2, s, e, 0, W(0))
    BY <2>2, <2>3, <2>4, <2>5, <2>6 DEF ProductUpTo
  <2> QED
    BY <2>1, <2>7 DEF e
<1>14. ASSUME NEW k \in 1..n, k - 1 \in R
       PROVE  k \in R
  <2> DEFINE j == k - 1
             x == f[j]
             r == RowAnd(x.s, b[k], bl2)
  <2>1. j \in Nat /\ j + 1 = k /\ k \in 0..n /\ j + 1 \in 1..Len(b)
    BY <1>1 DEF n
  <2>2. ProductUpTo(s, b, b2, x.s, x.rows, j, W(j))
    BY <1>14
  <2>3. f[k] = [s |-> r.s, rows |-> x.rows \o r.rows]
    BY <1>12 DEF Step
  <2>4. W(k) = W(j) + RowSize(b[k], bl2) /\ Cardinality(Unused(s)) >= W(j) + RowSize(b[k], bl2)
    <3>1. W(k) = W(j) + RowSize(b[k], bl2) /\ W(k) \in Nat /\ W(k) <= need
      BY <1>23
    <3> HIDE DEF j
    <3> QED
      BY <1>24, <3>1
  <2>5. r = RowAnd(x.s, b[j + 1], bl2)
    BY <2>1
  <2> HIDE DEF x, r, j
  <2>6. f[k].s = r.s /\ f[k].rows = x.rows \o r.rows
    <3> DEFINE y == f[k]
               a == x.rows \o r.rows
    <3>1. y = [s |-> r.s, rows |-> a]
      BY <2>3
    <3> HIDE DEF y, a
    <3>2. y.s = r.s /\ y.rows = a
      BY <3>1
    <3> QED
      BY <3>2 DEF y, a
  <2>7. ProductUpTo(s, b, b2, r.s, x.rows \o r.rows, j + 1, W(j) + RowSize(b[j + 1], bl2))
    BY <1>00, <2>1, <2>2, <2>4, <2>5, ProductNext
  <2>8. ProductUpTo(s, b, b2, f[k].s, f[k].rows, k, W(k))
    BY <2>1, <2>4, <2>6, <2>7
  <2> QED
    BY <2>1, <2>8
<1>15. n \in R
  <2>1. \A k \in 1..n : k - 1 \in R => k \in R
    BY <1>14
  <2>2. n \in 0..n /\ n \in Nat
    BY <1>1
  <2> HIDE DEF R
  <2> QED
    BY <1>13, <2>1, <2>2, PrefixInduction
<1>17. ProductUpTo(s, b, b2, product.s, product.rows, n, need)
  BY <1>15, <1>16, <1>24
<1> HIDE DEF product, last
<1>18. ProductUpTo(s, b, b2, op.s, op.bl.bkts, n, ProductSize(bl1, bl2))
  BY <1>3a, <1>17, <1>22
<1> QED
  BY <1>3a, <1>18 DEF last, n, n2, b

LEMMA ProductIs ==
  ASSUME NEW s \in Memory, NEW bl1, NEW bl2, Sound(s, bl1), Sound(s, bl2), Accurate(bl2),
         bl1.bkts # << >>, bl2.bkts # << >>, In(bl1.bkts) \cap In(bl2.bkts) = {},
         Cardinality(Unused(s)) >= ProductSize(bl1, bl2), NEW t, NEW out,
         t = OperationAnd(s, bl1, bl2).s, out = OperationAnd(s, bl1, bl2).bl
  PROVE  /\ Made2(s, t, bl1, bl2, out)
         /\ Saids(t.conds, out.bkts) = ProductOf(Saids(s.conds, bl1.bkts), Saids(s.conds, bl2.bkts))
         /\ In(out.bkts) \cap In(bl2.bkts) = {}
<1> DEFINE op == OperationAnd(s, bl1, bl2)
           b1 == bl1.bkts
           b2 == bl2.bkts
           n1 == Len(b1)
           n2 == Len(b2)
           d == out.bkts
           size == ProductSize(bl1, bl2)
<1>1. /\ b1 \in Buckets /\ b2 \in Buckets /\ Distinct(b1) /\ Distinct(b2) /\ AllPresent(s, b1)
      /\ AllPresent(s, b2) /\ bl1.last \in 0..n1 /\ bl1.total \in Nat /\ b1 # << >> /\ b2 # << >>
      /\ In(b1) \cap In(b2) = {}
  BY DEF Sound, Lists
<1>2. /\ ProductUpTo(s, b1, b2, t, d, n1, size)
      /\ out.total = bl1.total
      /\ out.last = IF bl1.last = 0 THEN 0 ELSE (bl1.last - 1) * n2 + 1
      /\ out = [bkts |-> d, last |-> out.last, total |-> out.total]
  <2>1. Cardinality(Unused(s)) >= size
    OBVIOUS
  <2>2. /\ ProductUpTo(s, b1, b2, op.s, op.bl.bkts, n1, size)
        /\ op.bl.total = bl1.total
        /\ op.bl.last = IF bl1.last = 0 THEN 0 ELSE (bl1.last - 1) * n2 + 1
        /\ op.bl = [bkts |-> op.bl.bkts, last |-> op.bl.last, total |-> op.bl.total]
    BY <1>1, OperationAndIs
  <2>3. t = op.s /\ out = op.bl
    OBVIOUS
  <2> HIDE DEF op
  <2> QED
    BY <2>2, <2>3
<1> HIDE DEF b1, b2, n1, n2, d, size
<1>3. /\ d \in Buckets /\ Len(d) = n1 * n2 /\ Distinct(d) /\ AllPresent(t, d)
      /\ n1 # 0 => d # << >> /\ d[1][1] = b1[1][1]
      /\ \A x : x \in Saids(t.conds, d) <=>
                  \E i \in 1..n1, j \in 1..n2 : x = Said(s.conds, b1[i]) \cup Said(s.conds, b2[j])
  BY <1>2 DEF ProductUpTo, n2
<1>4. PICK new : /\ Allocated(s, t, new)
                 /\ \A i \in In(d) : i \in new \/ \E m \in 1..n1 : i \in Range(b1[m])
  BY <1>2 DEF ProductUpTo
<1>5. n1 \in Nat /\ n2 \in Nat /\ n1 # 0 /\ n2 # 0 /\ DOMAIN b1 = 1..n1 /\ DOMAIN b2 = 1..n2
  <2>1. 1 \in 1..n1 /\ 1 \in 1..n2
    BY <1>1, HeadOf DEF n1, n2
  <2> QED
    BY <1>1, <2>1, BucketsAre DEF n1, n2
<1>6. out.last \in 0..Len(d) /\ out.last \in Nat
  <2> DEFINE k == bl1.last
             a == k - 1
             b == n1 - 1
             v == out.last
  <2>1. CASE k = 0
    <3>1. Len(d) \in Nat /\ v = 0
      BY <1>2, <1>3, <2>1, BucketsAre
    <3> QED
      BY <3>1
  <2>2. CASE k # 0
    <3>1. a \in Nat /\ b \in Nat /\ a <= b /\ b + 1 = n1
      BY <1>1, <1>5, <2>2
    <3>2. v = a * n2 + 1
      BY <1>2, <2>2
    <3> HIDE DEF a, b, k, v
    <3>3. a * n2 \in Nat /\ a * n2 <= b * n2 /\ n1 * n2 = b * n2 + n2 /\ b * n2 \in Nat
      BY <1>5, <3>1, ProductsGrow
    <3> DEFINE p == a * n2
               q == b * n2
               r == n1 * n2
    <3>4. p \in Nat /\ q \in Nat /\ p <= q /\ r = q + n2 /\ v = p + 1 /\ n2 \in Nat /\ n2 # 0 /\ Len(d) = r
      BY <1>3, <1>5, <3>2, <3>3
    <3> HIDE DEF p, q, r
    <3> QED
      BY <3>4 DEF v
  <2> QED
    BY <2>1, <2>2
<1>7. out \in Lists
  <2> DEFINE k == out.last
             n == out.total
  <2>1. out = [bkts |-> d, last |-> k, total |-> n] /\ k \in Nat /\ n \in Nat /\ k \in 0..Len(d)
    BY <1>1, <1>2, <1>6
  <2> HIDE DEF k, n
  <2> QED
    BY <1>3, <2>1 DEF Lists
<1>8. \A i : i \in In(b1) <=> \E m \in 1..n1 : i \in Range(b1[m])
  BY <1>1, BucketsAre DEF n1
<1>9. In(d) \subseteq In(b1) \cup new
  BY <1>4, <1>8
<1>10. In(b2) \cap new = {}
  <2>1. In(b2) \subseteq Cells
    BY <1>1, BucketsAre
  <2> QED
    BY <1>1, <1>4, <2>1, PresentStays DEF AllPresent
<1>11. In(d) \cap In(b2) = {}
  BY <1>1, <1>9, <1>10
<1>12. Saids(t.conds, d) = ProductOf(Saids(s.conds, b1), Saids(s.conds, b2))
  <2>1. \A x : x \in Saids(s.conds, b1) <=> \E i \in 1..n1 : x = Said(s.conds, b1[i])
    BY <1>5 DEF Saids
  <2>2. \A x : x \in Saids(s.conds, b2) <=> \E j \in 1..n2 : x = Said(s.conds, b2[j])
    BY <1>5 DEF Saids
  <2>3. \A x : x \in ProductOf(Saids(s.conds, b1), Saids(s.conds, b2)) <=>
                 \E i \in 1..n1, j \in 1..n2 : x = Said(s.conds, b1[i]) \cup Said(s.conds, b2[j])
    BY <2>1, <2>2, SMTT(60) DEF ProductOf
  <2> QED
    BY <1>3, <2>3
<1>13. Made2(s, t, bl1, bl2, out)
  <2>1. Sound(t, out)
    BY <1>3, <1>7 DEF Sound, d
  <2>2. In(out.bkts) \subseteq In(bl1.bkts) \cup In(bl2.bkts) \cup new
    BY <1>9 DEF d, b1
  <2>3. out.bkts # << >> /\ out.bkts[1][1] = bl1.bkts[1][1]
    BY <1>3, <1>5 DEF d, b1
  <2> QED
    BY <1>4, <2>1, <2>2, <2>3 DEF Made2
<1> QED
  BY <1>11, <1>12, <1>13 DEF b1, b2, d
-----------------------------------------------------------------------------
(* What the holders of lists own.                                          *)

Saying(cs, bs) == IF bs = << >> THEN True ELSE Saids(cs, bs)

\* The list bl is well formed, its conditions are allocated, and it says m.
Says(cs, bl, m) ==
  /\ bl \in Lists /\ Distinct(bl.bkts) /\ \A i \in In(bl.bkts) : cs[i] # Freed
  /\ m = Saying(cs, bl.bkts)

Apart(l, owners) == \A o, p \in owners : o # p => In(l[o].bkts) \cap In(l[p].bkts) = {}
Heads(l, h) == \A c \in h : l[c].bkts # << >> /\ l[c].bkts[1][1] = c

Owned(cs, l, h, v, m) ==
  /\ cs \in [Cells -> Comparisons \cup {Freed}] /\ h \subseteq Cells /\ v \subseteq Queries
  /\ \A o \in h \cup v : Says(cs, l[o], m[o])
  /\ Apart(l, h \cup v) /\ Heads(l, h)

OnHandles(f) == f = [o \in Handles |-> f[o]]

\* The inductive invariant: each condition a client holds and each query has a list of its own,
\* of conditions that are allocated, that says what was written; the first condition of
\* the list of a condition is that condition, which is why deleting it hurts no other list.
QueryInv ==
  /\ Owned(conds, list, held, live, meaning)
  /\ OnHandles(list) /\ OnHandles(meaning)
  /\ \A o \in Handles \ Owners : list[o] = Empty
  /\ value \in [Aggregates -> Nat] /\ stopped \in BOOLEAN

\* Of the owners only o may have another list, and the conditions of the others are as before.
Changes(cs, l, h, v, ds, o, bl, h2, v2) ==
  /\ ds \in [Cells -> Comparisons \cup {Freed}] /\ o \in Handles /\ h2 \subseteq Cells /\ v2 \subseteq Queries
  /\ \A p \in (h2 \cup v2) \ {o} :
       p \in h \cup v /\ (p \in h2 => p \in h) /\ In(bl.bkts) \cap In(l[p].bkts) = {}
  /\ \A p \in (h2 \cup v2) \ {o} : \A i \in In(l[p].bkts) : ds[i] = cs[i]
  /\ o \in h2 => bl.bkts # << >> /\ bl.bkts[1][1] = o

LEMMA SaysStays ==
  ASSUME NEW cs, NEW ds, NEW bl, NEW m, Says(cs, bl, m), \A i \in In(bl.bkts) : ds[i] = cs[i]
  PROVE  Says(ds, bl, m)
<1>1. Saids(ds, bl.bkts) = Saids(cs, bl.bkts)
  BY SaidsDepend
<1> QED
  BY <1>1 DEF Says, Saying

LEMMA OwnedChanges ==
  ASSUME NEW cs, NEW l, NEW h, NEW v, NEW m, Owned(cs, l, h, v, m), OnHandles(l), OnHandles(m),
         NEW ds, NEW o, NEW bl, NEW h2, NEW v2, Changes(cs, l, h, v, ds, o, bl, h2, v2),
         NEW n, Says(ds, bl, n)
  PROVE  Owned(ds, [l EXCEPT ![o] = bl], h2, v2, [m EXCEPT ![o] = n])
<1> DEFINE l2 == [l EXCEPT ![o] = bl]
           m2 == [m EXCEPT ![o] = n]
<1>1. /\ o \in Handles /\ l2[o] = bl /\ m2[o] = n
      /\ \A p \in Handles : p # o => l2[p] = l[p] /\ m2[p] = m[p]
  BY DEF OnHandles, Changes
<1> HIDE DEF l2, m2
<1>2. h2 \cup v2 \subseteq Handles
  BY DEF Changes, Handles
<1>3. ASSUME NEW p \in h2 \cup v2 PROVE Says(ds, l2[p], m2[p])
  <2>1. CASE p = o
    BY <1>1, <2>1
  <2>2. CASE p # o
    <3>1. p \in h \cup v /\ \A i \in In(l[p].bkts) : ds[i] = cs[i]
      BY <2>2 DEF Changes
    <3>2. Says(cs, l[p], m[p])
      BY <3>1 DEF Owned
    <3>3. Says(ds, l[p], m[p])
      BY <3>1, <3>2, SaysStays
    <3> QED
      BY <1>1, <1>2, <2>2, <3>3
  <2> QED
    BY <2>1, <2>2
<1>4. ASSUME NEW p \in h2 \cup v2, NEW r \in h2 \cup v2, p # r
      PROVE  In(l2[p].bkts) \cap In(l2[r].bkts) = {}
  <2>1. \A x \in (h2 \cup v2) \ {o} : x \in h \cup v /\ In(bl.bkts) \cap In(l[x].bkts) = {}
    BY DEF Changes
  <2>2. CASE p = o
    <3>1. l2[p] = bl /\ l2[r] = l[r] /\ In(bl.bkts) \cap In(l[r].bkts) = {}
      BY <1>1, <1>2, <1>4, <2>1, <2>2
    <3> QED
      BY <3>1
  <2>3. CASE r = o
    <3>1. l2[r] = bl /\ l2[p] = l[p] /\ In(bl.bkts) \cap In(l[p].bkts) = {}
      BY <1>1, <1>2, <1>4, <2>1, <2>3
    <3> QED
      BY <3>1
  <2>4. CASE p # o /\ r # o
    <3>1. l2[r] = l[r] /\ l2[p] = l[p] /\ p \in h \cup v /\ r \in h \cup v
      BY <1>1, <1>2, <2>1, <2>4
    <3> QED
      BY <1>4, <3>1 DEF Owned, Apart
  <2> QED
    BY <2>2, <2>3, <2>4
<1>5. ASSUME NEW c \in h2 PROVE l2[c].bkts # << >> /\ l2[c].bkts[1][1] = c
  <2>1. CASE c = o
    <3>1. l2[c] = bl /\ bl.bkts # << >> /\ bl.bkts[1][1] = o
      BY <1>1, <2>1 DEF Changes
    <3> QED
      BY <2>1, <3>1
  <2>2. CASE c # o
    <3>1. c \in h /\ l2[c] = l[c]
      BY <1>1, <1>2, <2>2 DEF Changes
    <3> QED
      BY <3>1 DEF Owned, Heads
  <2> QED
    BY <2>1, <2>2
<1>6. Apart(l2, h2 \cup v2) /\ Heads(l2, h2)
  BY <1>4, <1>5 DEF Apart, Heads
<1>7. ds \in [Cells -> Comparisons \cup {Freed}] /\ h2 \subseteq Cells /\ v2 \subseteq Queries
  BY DEF Changes
<1>8. Owned(ds, l2, h2, v2, m2)
  BY <1>3, <1>6, <1>7 DEF Owned
<1> QED
  BY <1>8 DEF l2, m2

\* The same when an owner goes and the conditions of the others are as before.
LEMMA OwnedShrinks ==
  ASSUME NEW cs, NEW l, NEW h, NEW v, NEW m, Owned(cs, l, h, v, m),
         NEW ds \in [Cells -> Comparisons \cup {Freed}], NEW h2 \in SUBSET h, NEW v2 \in SUBSET v,
         \A p \in h2 \cup v2 : \A i \in In(l[p].bkts) : ds[i] = cs[i]
  PROVE  Owned(ds, l, h2, v2, m)
<1>1. \A p \in h2 \cup v2 : Says(ds, l[p], m[p])
  BY SaysStays DEF Owned
<1>2. Apart(l, h2 \cup v2) /\ Heads(l, h2)
  BY DEF Owned, Apart, Heads
<1> QED
  BY <1>1, <1>2 DEF Owned

\* What an operation leaves is owned in the next state.
LEMMA BecomesKeeps ==
  ASSUME QueryInv, NEW s, s.stopped \in BOOLEAN, NEW l, NEW h, NEW v, NEW m, Owned(s.conds, l, h, v, m),
         Becomes(s, l, h, v, m), UNCHANGED value
  PROVE  QueryInv'
<1> USE DEF OnHandles
<1>1. stopped' = s.stopped /\ stopped' \in BOOLEAN /\ value' \in [Aggregates -> Nat]
  BY DEF Becomes, QueryInv
<1>2. CASE s.stopped
  <2>1. UNCHANGED <<conds, list, held, live, meaning>>
    BY <1>2 DEF Becomes
  <2> QED
    BY <1>1, <2>1 DEF QueryInv, Owners
<1>3. CASE ~s.stopped
  <2> DEFINE refs == h \cup Referred(l, h \cup v)
  <2>1. /\ conds' = [i \in Cells |-> IF i \in refs THEN s.conds[i] ELSE Freed]
        /\ list' = [o \in Handles |-> IF o \in h \cup v THEN l[o] ELSE Empty]
        /\ held' = h /\ live' = v
        /\ meaning' = [o \in Handles |-> IF o \in h \cup v THEN m[o] ELSE {}]
    BY <1>3 DEF Becomes
  <2>2. \A o \in h \cup v : In(l[o].bkts) \subseteq refs
    BY DEF Referred, Elements, In
  <2> HIDE DEF refs
  <2>3. s.conds \in [Cells -> Comparisons \cup {Freed}] /\ h \subseteq Cells /\ v \subseteq Queries
    BY DEF Owned
  <2>4. conds' \in [Cells -> Comparisons \cup {Freed}] /\ \A i \in refs \cap Cells : conds'[i] = s.conds[i]
    BY <2>1, <2>3
  <2>5. h \cup v \subseteq Handles
    BY <2>3 DEF Handles
  <2>6. \A o \in h \cup v : list'[o] = l[o] /\ meaning'[o] = m[o]
    BY <2>1, <2>5
  <2>7. ASSUME NEW o \in h \cup v PROVE Says(conds', list'[o], meaning'[o])
    <3>1. Says(s.conds, l[o], m[o])
      BY DEF Owned
    <3>2. l[o].bkts \in Buckets
      BY <3>1 DEF Says, Lists
    <3>3. In(l[o].bkts) \subseteq refs \cap Cells
      BY <2>2, <3>2, BucketsAre
    <3>4. \A i \in In(l[o].bkts) : conds'[i] = s.conds[i]
      BY <2>4, <3>3
    <3>5. Says(conds', l[o], m[o])
      BY <3>1, <3>4, SaysStays
    <3> QED
      BY <2>6, <3>5
  <2>8. Apart(list', held' \cup live') /\ Heads(list', held')
    BY <2>1, <2>6 DEF Owned, Apart, Heads
  <2>9. Owned(conds, list, held, live, meaning)'
    BY <2>1, <2>3, <2>4, <2>7, <2>8 DEF Owned
  <2>10. /\ list' = [o \in Handles |-> list'[o]] /\ meaning' = [o \in Handles |-> meaning'[o]]
         /\ \A o \in Handles \ (h \cup v) : list'[o] = Empty
    BY <2>1
  <2> QED
    BY <1>1, <2>1, <2>9, <2>10 DEF QueryInv, Owners
<1> QED
  BY <1>2, <1>3
-----------------------------------------------------------------------------
(* The state that an operation starts from.                                *)

LEMMA StateIs ==
  ASSUME QueryInv
  PROVE  /\ State \in Memory /\ State.conds = conds /\ State.stopped = FALSE
         /\ \A o \in Owners : /\ o \in Handles /\ Sound(State, list[o]) /\ list[o] \in Lists
                              /\ list[o].bkts \in Buckets /\ AllPresent(State, list[o].bkts)
                              /\ In(list[o].bkts) \subseteq Cells /\ In(list[o].bkts) \subseteq State.used
                              /\ Distinct(list[o].bkts)
                              /\ meaning[o] = Saying(conds, list[o].bkts)
         /\ Apart(list, Owners) /\ Heads(list, held) /\ held \subseteq Cells /\ live \subseteq Queries
         /\ conds \in [Cells -> Comparisons \cup {Freed}]
<1>1. /\ \A o \in Owners : Says(conds, list[o], meaning[o])
      /\ Apart(list, Owners) /\ Heads(list, held) /\ held \subseteq Cells /\ live \subseteq Queries
      /\ conds \in [Cells -> Comparisons \cup {Freed}]
  BY DEF QueryInv, Owned, Owners
<1>2. Owners \subseteq Handles
  BY <1>1 DEF Owners, Handles
<1>3. ASSUME NEW o \in Owners
      PROVE  /\ list[o] \in Lists /\ list[o].bkts \in Buckets /\ In(list[o].bkts) \subseteq Cells
             /\ Distinct(list[o].bkts) /\ meaning[o] = Saying(conds, list[o].bkts)
             /\ \A i \in In(list[o].bkts) : conds[i] # Freed
  <2>1. Says(conds, list[o], meaning[o])
    BY <1>1
  <2>2. list[o].bkts \in Buckets
    BY <2>1 DEF Says, Lists
  <2> QED
    BY <2>1, <2>2, BucketsAre DEF Says
<1>4. \A o \in Owners : Elements(list[o]) = In(list[o].bkts)
  BY DEF Elements, In
<1>5. Referred(list, Owners) \subseteq Cells /\ \A o \in Owners : In(list[o].bkts) \subseteq Referred(list, Owners)
  BY <1>3, <1>4 DEF Referred
<1>6. State \in Memory /\ State.conds = conds /\ State.stopped = FALSE /\ State.used = held \cup Referred(list, Owners)
  BY <1>1, <1>5 DEF State, Memory
<1>7. \A o \in Owners : AllPresent(State, list[o].bkts)
  BY <1>3, <1>6 DEF AllPresent
<1>8. \A o \in Owners : Sound(State, list[o])
  BY <1>3, <1>7 DEF Sound
<1>9. \A o \in Owners : In(list[o].bkts) \subseteq State.used
  BY <1>5, <1>6
<1> QED
  BY <1>1, <1>2, <1>3, <1>6, <1>7, <1>8, <1>9

\* A handle is a cell or a query.
LEMMA HandleIs ==
  ASSUME QueryInv
  PROVE  /\ \A q \in Queries : q \notin Cells /\ q \notin held /\ q \in Handles
         /\ \A c \in held : c \in Cells /\ c \notin live /\ c \in Owners /\ c \in Handles
         /\ \A q \in live : q \in Queries /\ q \in Owners /\ q \in Handles
         /\ held \cup live = Owners
BY StateIs, QueryAssumption DEF Owners, Handles

\* A list made of the cells of two owners and of new ones: what is true of it.
Combined(c, d, t, out) ==
  /\ t.conds \in [Cells -> Comparisons \cup {Freed}] /\ out.bkts # << >>
  /\ In(out.bkts) \subseteq Cells /\ t \in Memory
  /\ Says(t.conds, out, Saids(t.conds, out.bkts))
  /\ c \in held => out.bkts[1][1] = c
  /\ \A p \in Owners \ {c, d} : In(out.bkts) \cap In(list[p].bkts) = {}
  /\ \A p \in Owners : \A i \in In(list[p].bkts) : t.conds[i] = conds[i]

Combines(c, d, t, out) == c \in Owners /\ d \in Owners /\ Made2(State, t, list[c], list[d], out)

LEMMA CombinedIs ==
  ASSUME QueryInv, NEW c, NEW d, NEW t, NEW out, Combines(c, d, t, out)
  PROVE  Combined(c, d, t, out)
<1> USE DEF Combines
<1>1. Sound(t, out) /\ out.bkts # << >> /\ out.bkts[1][1] = list[c].bkts[1][1]
  BY DEF Made2
<1>2. PICK new : Allocated(State, t, new) /\ In(out.bkts) \subseteq (In(list[c].bkts) \cup In(list[d].bkts)) \cup new
  BY DEF Made2
<1>3. t \in Memory
  BY <1>2 DEF Allocated
<1>4. t.conds \in [Cells -> Comparisons \cup {Freed}]
  BY <1>3, MemoryIs
<1>5. out \in Lists /\ Distinct(out.bkts) /\ \A i \in In(out.bkts) : t.conds[i] # Freed
  BY <1>1 DEF Sound, AllPresent
<1>6. Says(t.conds, out, Saids(t.conds, out.bkts))
  BY <1>1, <1>5 DEF Says, Saying
<1>7. c \in held => out.bkts[1][1] = c
  BY <1>1, StateIs DEF Heads
<1>8. State \in Memory /\ State.conds = conds /\ \A p \in Owners : In(list[p].bkts) \subseteq State.used /\ In(list[p].bkts) \subseteq Cells
  BY StateIs
<1>9. \A p \in Owners : new \cap In(list[p].bkts) = {}
  BY <1>2, <1>8, UnusedIs DEF Allocated
<1>10. ASSUME NEW p \in Owners \ {c, d} PROVE In(out.bkts) \cap In(list[p].bkts) = {}
  <2>1. In(list[c].bkts) \cap In(list[p].bkts) = {} /\ In(list[d].bkts) \cap In(list[p].bkts) = {}
    BY StateIs DEF Apart
  <2> QED
    BY <1>2, <1>9, <2>1
<1>11. \A p \in Owners : \A i \in In(list[p].bkts) : t.conds[i] = conds[i]
  BY <1>2, <1>8, <1>9 DEF Allocated
<1>12. In(out.bkts) \subseteq Cells
  BY <1>5, BucketsAre DEF Lists
<1> QED
  BY <1>1, <1>3, <1>4, <1>6, <1>7, <1>10, <1>11, <1>12 DEF Combined

\* When both lists stay, the result shares nothing with the second.
LEMMA CombinedStays ==
  ASSUME QueryInv, NEW c \in Owners, NEW d \in Owners, NEW t, NEW out,
         Made2(State, t, list[c], list[d], out), In(out.bkts) \cap In(list[d].bkts) = {}
  PROVE  Owned(t.conds, [list EXCEPT ![c] = out], held, live,
               [meaning EXCEPT ![c] = Saids(t.conds, out.bkts)])
<1>1. /\ t.conds \in [Cells -> Comparisons \cup {Freed}] /\ out.bkts # << >>
      /\ Says(t.conds, out, Saids(t.conds, out.bkts))
      /\ c \in held => out.bkts[1][1] = c
      /\ \A p \in Owners \ {c, d} : In(out.bkts) \cap In(list[p].bkts) = {}
      /\ \A p \in Owners : \A i \in In(list[p].bkts) : t.conds[i] = conds[i]
  <2>1. Combines(c, d, t, out)
    BY DEF Combines
  <2>2. Combined(c, d, t, out)
    BY <2>1, CombinedIs
  <2> QED
    BY <2>2 DEF Combined
<1>2. c \in Handles /\ held \subseteq Cells /\ live \subseteq Queries /\ held \cup live = Owners
  BY StateIs, HandleIs
<1>3. Changes(conds, list, held, live, t.conds, c, out, held, live)
  BY <1>1, <1>2 DEF Changes
<1>4. Owned(conds, list, held, live, meaning) /\ OnHandles(list) /\ OnHandles(meaning)
  BY DEF QueryInv
<1> QED
  BY <1>1, <1>3, <1>4, OwnedChanges

\* The second condition can be deleted, for the result does not link it.
LEMMA CombinedGoes ==
  ASSUME QueryInv, NEW c \in held, NEW d \in held, c # d, NEW t, NEW out,
         Made2(State, t, list[c], list[d], out), d \notin In(out.bkts)
  PROVE  Owned(Delete(t, {d}).conds, [list EXCEPT ![c] = out], held \ {d}, live,
               [meaning EXCEPT ![c] = Saids(t.conds, out.bkts)])
<1> DEFINE ds == Delete(t, {d}).conds
<1>1. c \in Owners /\ d \in Owners /\ c \in Handles /\ d \in Cells
  BY HandleIs
<1>2. /\ t.conds \in [Cells -> Comparisons \cup {Freed}] /\ out.bkts # << >>
      /\ In(out.bkts) \subseteq Cells /\ t \in Memory
      /\ Says(t.conds, out, Saids(t.conds, out.bkts))
      /\ out.bkts[1][1] = c
      /\ \A p \in Owners \ {c, d} : In(out.bkts) \cap In(list[p].bkts) = {}
      /\ \A p \in Owners : \A i \in In(list[p].bkts) : t.conds[i] = conds[i]
  <2>1. Combines(c, d, t, out)
    BY <1>1 DEF Combines
  <2>2. Combined(c, d, t, out)
    BY <2>1, CombinedIs
  <2> QED
    BY <2>2 DEF Combined
<1>3. ds = [i \in Cells |-> IF i \in {d} THEN Freed ELSE t.conds[i]]
  BY <1>2 DEF Delete, Memory
<1> HIDE DEF ds
<1>4. ds \in [Cells -> Comparisons \cup {Freed}] /\ \A i \in Cells : i # d => ds[i] = t.conds[i]
  BY <1>2, <1>3
<1>5. held \subseteq Cells /\ live \subseteq Queries /\ held \cup live = Owners
  BY StateIs, HandleIs
<1>6. d \in In(list[d].bkts)
  <2>1. list[d].bkts \in Buckets /\ list[d].bkts # << >> /\ list[d].bkts[1][1] = d
    BY <1>1, StateIs DEF Heads
  <2> QED
    BY <2>1, HeadOf
<1>7. \A p \in Owners \ {d} : d \notin In(list[p].bkts) /\ In(list[p].bkts) \subseteq Cells
  BY <1>1, <1>6, StateIs DEF Apart
<1>8. \A p \in Owners \ {d} : \A i \in In(list[p].bkts) : ds[i] = conds[i]
  BY <1>2, <1>4, <1>7
<1>9. \A i \in In(out.bkts) : ds[i] = t.conds[i]
  BY <1>2, <1>4
<1>10. Says(ds, out, Saids(t.conds, out.bkts))
  BY <1>2, <1>9, SaysStays
<1>11. d \notin live
  BY HandleIs
<1>12. Changes(conds, list, held, live, ds, c, out, held \ {d}, live)
  <2>1. (((held \ {d}) \cup live) \ {c}) \subseteq Owners \ {c, d}
    BY <1>5, <1>11
  <2> QED
    BY <1>1, <1>2, <1>4, <1>5, <1>8, <2>1 DEF Changes
<1>13. Owned(conds, list, held, live, meaning) /\ OnHandles(list) /\ OnHandles(meaning)
  BY DEF QueryInv
<1>14. Owned(ds, [list EXCEPT ![c] = out], held \ {d}, live, [meaning EXCEPT ![c] = Saids(t.conds, out.bkts)])
  BY <1>10, <1>12, <1>13, OwnedChanges
<1> QED
  BY <1>14 DEF ds
-----------------------------------------------------------------------------
(* && and ||.                                                              *)

\* Clients do not go on with a list that && made of buckets, do not copy a list with
\* products that outlives its copy, and combine no query that has no condition.
CarefulQueries == ~ReusesProducts /\ ~SharesTerms /\ ~EmptyOperands

\* What && and || leave to be owned.
Leaves(c, d, t, out, says) ==
  Combines(c, d, t, out) /\ t \in Memory /\ Saids(t.conds, out.bkts) = says

LEMMA AndLeaves ==
  ASSUME QueryInv, CarefulQueries, NEW c \in Owners, NEW d \in Owners, c # d, MayAnd(c, d),
         NEW t, NEW out,
         t = OperationAnd(State, list[c], list[d]).s, out = OperationAnd(State, list[c], list[d]).bl
  PROVE  /\ Leaves(c, d, t, out, ProductOf(meaning[c], meaning[d]))
         /\ In(out.bkts) \cap In(list[d].bkts) = {}
<1> DEFINE bl1 == list[c]
           bl2 == list[d]
<1>1. /\ State \in Memory /\ State.conds = conds /\ Sound(State, bl1) /\ Sound(State, bl2)
      /\ In(bl1.bkts) \cap In(bl2.bkts) = {}
      /\ meaning[c] = Saying(conds, bl1.bkts) /\ meaning[d] = Saying(conds, bl2.bkts)
  BY StateIs DEF Apart
<1>2. /\ bl1.bkts # << >> /\ bl2.bkts # << >> /\ Accurate(bl2)
      /\ Cardinality(Unused(State)) >= ProductSize(bl1, bl2)
  BY DEF MayAnd, Combinable, CarefulQueries, Room
<1>3. meaning[c] = Saids(conds, bl1.bkts) /\ meaning[d] = Saids(conds, bl2.bkts)
  BY <1>1, <1>2 DEF Saying
<1>4. t = OperationAnd(State, bl1, bl2).s /\ out = OperationAnd(State, bl1, bl2).bl
  OBVIOUS
<1> HIDE DEF bl1, bl2
<1>5. /\ Made2(State, t, bl1, bl2, out)
      /\ Saids(t.conds, out.bkts) = ProductOf(Saids(State.conds, bl1.bkts), Saids(State.conds, bl2.bkts))
      /\ In(out.bkts) \cap In(bl2.bkts) = {}
  BY <1>1, <1>2, <1>4, ProductIs
<1>6. t \in Memory
  BY <1>5 DEF Made2, Allocated
<1>7. Saids(t.conds, out.bkts) = ProductOf(meaning[c], meaning[d])
  BY <1>1, <1>3, <1>5
<1> QED
  BY <1>5, <1>6, <1>7 DEF Leaves, Combines, bl1, bl2

LEMMA OrLeaves ==
  ASSUME QueryInv, CarefulQueries, NEW c \in Owners, NEW d \in Owners, c # d, MayOr(c, d),
         NEW t, NEW out,
         t = OperationOr(State, list[c], list[d]).s, out = OperationOr(State, list[c], list[d]).bl
  PROVE  /\ Leaves(c, d, t, out, meaning[c] \cup meaning[d])
         /\ list[d].bkts[1][1] \notin In(out.bkts)
         /\ Lasting(d) => In(out.bkts) \cap In(list[d].bkts) = {}
<1> DEFINE bl1 == list[c]
           bl2 == list[d]
<1>1. /\ State \in Memory /\ State.conds = conds /\ Sound(State, bl1) /\ Sound(State, bl2)
      /\ In(bl1.bkts) \cap In(bl2.bkts) = {}
      /\ meaning[c] = Saying(conds, bl1.bkts) /\ meaning[d] = Saying(conds, bl2.bkts)
  BY StateIs DEF Apart
<1>2. /\ bl1.bkts # << >> /\ bl2.bkts # << >> /\ Accurate(bl1)
      /\ Cardinality(Unused(State)) >= Len(bl2.bkts)
      /\ Lasting(d) => SingleLinks(bl2)
  BY DEF MayOr, Combinable, CarefulQueries, Room
<1>3. meaning[c] = Saids(conds, bl1.bkts) /\ meaning[d] = Saids(conds, bl2.bkts)
  BY <1>1, <1>2 DEF Saying
<1>4. t = OperationOr(State, bl1, bl2).s /\ out = OperationOr(State, bl1, bl2).bl
  OBVIOUS
<1> HIDE DEF bl1, bl2
<1>5. /\ Made2(State, t, bl1, bl2, out)
      /\ Saids(t.conds, out.bkts) = Saids(State.conds, bl1.bkts) \cup Saids(State.conds, bl2.bkts)
      /\ bl2.bkts[1][1] \notin In(out.bkts)
      /\ SingleLinks(bl2) => In(out.bkts) \cap In(bl2.bkts) = {}
  BY <1>1, <1>2, <1>4, SumIs
<1>6. t \in Memory
  BY <1>5 DEF Made2, Allocated
<1>7. Saids(t.conds, out.bkts) = meaning[c] \cup meaning[d]
  BY <1>1, <1>3, <1>5
<1>8. Lasting(d) => In(out.bkts) \cap In(bl2.bkts) = {}
  BY <1>2, <1>5
<1> QED
  BY <1>5, <1>6, <1>7, <1>8 DEF Leaves, Combines, bl1, bl2

\* c && d and c || d leave what their clients own to them.
LEMMA ConditionsCombined ==
  ASSUME QueryInv, NEW c \in held, NEW d \in held, c # d, NEW t, NEW out, NEW says,
         Leaves(c, d, t, out, says), d \notin In(out.bkts),
         Lasting(d) => In(out.bkts) \cap In(list[d].bkts) = {},
         Becomes(DeleteIfAuto(t, d), [list EXCEPT ![c] = out], Unheld(d), live,
                 [meaning EXCEPT ![c] = says]),
         UNCHANGED value
  PROVE  QueryInv'
<1>1. /\ Made2(State, t, list[c], list[d], out) /\ t \in Memory /\ Saids(t.conds, out.bkts) = says
      /\ c \in Owners /\ d \in Owners
  BY HandleIs DEF Leaves, Combines
<1>2. t.stopped \in BOOLEAN
  BY <1>1, MemoryIs
<1>3. CASE conds[d].auto
  <2> DEFINE s == Delete(t, {d})
  <2>1. Owned(s.conds, [list EXCEPT ![c] = out], held \ {d}, live, [meaning EXCEPT ![c] = says])
    BY <1>1, CombinedGoes
  <2>2. s.stopped \in BOOLEAN
    BY <1>1, <1>2 DEF Delete, Memory
  <2>3. Becomes(s, [list EXCEPT ![c] = out], held \ {d}, live, [meaning EXCEPT ![c] = says])
    BY <1>3 DEF DeleteIfAuto, Unheld
  <2> HIDE DEF s
  <2> QED
    BY <2>1, <2>2, <2>3, BecomesKeeps
<1>4. CASE ~conds[d].auto
  <2>1. In(out.bkts) \cap In(list[d].bkts) = {}
    BY <1>4 DEF Lasting
  <2>2. Owned(t.conds, [list EXCEPT ![c] = out], held, live, [meaning EXCEPT ![c] = says])
    BY <1>1, <2>1, CombinedStays
  <2>3. Becomes(t, [list EXCEPT ![c] = out], held, live, [meaning EXCEPT ![c] = says])
    BY <1>4 DEF DeleteIfAuto, Unheld
  <2> QED
    BY <1>2, <2>2, <2>3, BecomesKeeps
<1> QED
  BY <1>3, <1>4

LEMMA QueriesCombined ==
  ASSUME QueryInv, NEW c \in Owners, NEW d \in Owners, NEW t, NEW out, NEW says,
         Leaves(c, d, t, out, says), In(out.bkts) \cap In(list[d].bkts) = {},
         Becomes(t, [list EXCEPT ![c] = out], held, live, [meaning EXCEPT ![c] = says]),
         UNCHANGED value
  PROVE  QueryInv'
<1>1. /\ Made2(State, t, list[c], list[d], out) /\ t \in Memory /\ Saids(t.conds, out.bkts) = says
  BY DEF Leaves, Combines
<1>2. t.stopped \in BOOLEAN
  BY <1>1, MemoryIs
<1>3. Owned(t.conds, [list EXCEPT ![c] = out], held, live, [meaning EXCEPT ![c] = says])
  BY <1>1, CombinedStays
<1> QED
  BY <1>2, <1>3, BecomesKeeps

LEMMA AndConditionsKeeps ==
  ASSUME QueryInv, CarefulQueries, NEW c, NEW d, AndConditions(c, d)
  PROVE  QueryInv'
<1> DEFINE t == OperationAnd(State, list[c], list[d]).s
           out == OperationAnd(State, list[c], list[d]).bl
           says == ProductOf(meaning[c], meaning[d])
<1>1. /\ c # d /\ c \in held /\ d \in held /\ MayAnd(c, d) /\ UNCHANGED value
      /\ Becomes(DeleteIfAuto(t, d), [list EXCEPT ![c] = out], Unheld(d), live, [meaning EXCEPT ![c] = says])
  BY DEF AndConditions
<1>2. c \in Owners /\ d \in Owners
  BY <1>1, HandleIs
<1>3. Leaves(c, d, t, out, says) /\ In(out.bkts) \cap In(list[d].bkts) = {}
  BY <1>1, <1>2, AndLeaves
<1>4. d \in In(list[d].bkts)
  <2>1. list[d].bkts \in Buckets /\ list[d].bkts # << >> /\ list[d].bkts[1][1] = d
    BY <1>1, <1>2, StateIs DEF Heads
  <2> QED
    BY <2>1, HeadOf
<1> HIDE DEF t, out, says
<1>5. d \notin In(out.bkts)
  BY <1>3, <1>4
<1> QED
  BY <1>1, <1>3, <1>5, ConditionsCombined

LEMMA OrConditionsKeeps ==
  ASSUME QueryInv, CarefulQueries, NEW c, NEW d, OrConditions(c, d)
  PROVE  QueryInv'
<1> DEFINE t == OperationOr(State, list[c], list[d]).s
           out == OperationOr(State, list[c], list[d]).bl
           says == meaning[c] \cup meaning[d]
<1>1. /\ c # d /\ c \in held /\ d \in held /\ MayOr(c, d) /\ UNCHANGED value
      /\ Becomes(DeleteIfAuto(t, d), [list EXCEPT ![c] = out], Unheld(d), live, [meaning EXCEPT ![c] = says])
  BY DEF OrConditions
<1>2. c \in Owners /\ d \in Owners
  BY <1>1, HandleIs
<1>3. /\ Leaves(c, d, t, out, says) /\ list[d].bkts[1][1] \notin In(out.bkts)
      /\ Lasting(d) => In(out.bkts) \cap In(list[d].bkts) = {}
  BY <1>1, <1>2, OrLeaves
<1>4. list[d].bkts[1][1] = d
  BY <1>1, StateIs DEF Heads
<1> HIDE DEF t, out, says
<1> QED
  BY <1>1, <1>3, <1>4, ConditionsCombined

LEMMA AndQueriesKeeps ==
  ASSUME QueryInv, CarefulQueries, NEW q, NEW r, AndQueries(q, r)
  PROVE  QueryInv'
<1> DEFINE t == OperationAnd(State, list[q], list[r]).s
           out == OperationAnd(State, list[q], list[r]).bl
           says == ProductOf(meaning[q], meaning[r])
<1>1. /\ q # r /\ q \in live /\ r \in live /\ MayAnd(q, r) /\ UNCHANGED value
      /\ Becomes(t, [list EXCEPT ![q] = out], held, live, [meaning EXCEPT ![q] = says])
  BY DEF AndQueries
<1>2. q \in Owners /\ r \in Owners
  BY <1>1, HandleIs
<1>3. Leaves(q, r, t, out, says) /\ In(out.bkts) \cap In(list[r].bkts) = {}
  BY <1>1, <1>2, AndLeaves
<1> HIDE DEF t, out, says
<1> QED
  BY <1>1, <1>2, <1>3, QueriesCombined

LEMMA OrQueriesKeeps ==
  ASSUME QueryInv, CarefulQueries, NEW q, NEW r, OrQueries(q, r)
  PROVE  QueryInv'
<1> DEFINE t == OperationOr(State, list[q], list[r]).s
           out == OperationOr(State, list[q], list[r]).bl
           says == meaning[q] \cup meaning[r]
<1>1. /\ q # r /\ q \in live /\ r \in live /\ MayOr(q, r) /\ UNCHANGED value
      /\ Becomes(t, [list EXCEPT ![q] = out], held, live, [meaning EXCEPT ![q] = says])
  BY DEF OrQueries
<1>2. q \in Owners /\ r \in Owners /\ r \in Queries
  BY <1>1, HandleIs
<1>3. /\ Leaves(q, r, t, out, says)
      /\ Lasting(r) => In(out.bkts) \cap In(list[r].bkts) = {}
  BY <1>1, <1>2, OrLeaves
<1>4. Lasting(r)
  BY <1>2 DEF Lasting
<1> HIDE DEF t, out, says
<1> QED
  BY <1>1, <1>2, <1>3, <1>4, QueriesCombined
-----------------------------------------------------------------------------
(* Making and destroying conditions.                                       *)

LEMMA SingleIs ==
  ASSUME NEW i \in Cells
  PROVE  /\ <<<<i>>>> \in Buckets /\ In(<<<<i>>>>) = {i} /\ Distinct(<<<<i>>>>) /\ <<<<i>>>> # << >>
         /\ <<<<i>>>>[1][1] = i
         /\ \A cs : Saids(cs, <<<<i>>>>) = {{Test(cs[i])}}
<1> DEFINE b == <<i>>
           bs == <<b>>
<1>1. b \in Seq(Cells) /\ b # << >> /\ DOMAIN b = {1} /\ b[1] = i
  OBVIOUS
<1>2. Range(b) = {i} /\ Once(b)
  BY <1>1 DEF Range, Once
<1> HIDE DEF b
<1>3. bs \in Seq(Seq(Cells)) /\ DOMAIN bs = {1} /\ bs[1] = b /\ bs # << >>
  BY <1>1
<1> HIDE DEF bs
<1>4. bs \in Buckets /\ In(bs) = {i} /\ Distinct(bs)
  BY <1>1, <1>2, <1>3 DEF Buckets, In, Distinct
<1>5. \A cs : Saids(cs, bs) = {{Test(cs[i])}}
  BY <1>2, <1>3 DEF Saids, Said
<1>6. bs[1][1] = i
  BY <1>1, <1>3
<1> QED
  BY <1>3, <1>4, <1>5, <1>6 DEF b, bs

LEMMA SingleSays ==
  ASSUME NEW i \in Cells, NEW cs, cs[i] # Freed
  PROVE  Says(cs, ListOf(<<<<i>>>>), {{Test(cs[i])}}) /\ ListOf(<<<<i>>>>).bkts = <<<<i>>>>
<1> DEFINE bs == <<<<i>>>>
<1>1. /\ bs \in Buckets /\ In(bs) = {i} /\ Distinct(bs) /\ bs # << >>
      /\ Saids(cs, bs) = {{Test(cs[i])}}
  BY SingleIs
<1> HIDE DEF bs
<1>2. ListOf(bs) \in Lists /\ ListOf(bs).bkts = bs
  BY <1>1, ListOfIs
<1>3. Says(cs, ListOf(bs), {{Test(cs[i])}})
  BY <1>1, <1>2 DEF Says, Saying
<1> QED
  BY <1>2, <1>3 DEF bs

LEMMA MadeIs ==
  ASSUME NEW test \in Tests
  PROVE  Made(test) \in Comparisons /\ Made(test) # Freed /\ Test(Made(test)) = Test(test)
<1>1. test \in Comparisons
  BY QueryAssumption
<1>2. Made(test) = test \/ Made(test) = CopyOf(test)
  BY DEF Made
<1> QED
  BY <1>1, <1>2, CopySays, ConditionAssumption

LEMMA CompareKeeps ==
  ASSUME QueryInv, NEW test \in Tests, Compare(test)
  PROVE  QueryInv'
<1> DEFINE i == NewCell(State)
           s == Put(State, Made(test))
           bs == <<<<i>>>>
           says == {{Test(test)}}
<1>1. /\ Cardinality(Unused(State)) >= 1 /\ UNCHANGED value
      /\ Becomes(s, [list EXCEPT ![i] = ListOf(bs)], held \cup {i}, live, [meaning EXCEPT ![i] = says])
  BY DEF Compare, Room
<1>2. Made(test) \in Comparisons /\ Made(test) # Freed /\ Test(Made(test)) = Test(test)
  BY MadeIs
<1>3. State \in Memory /\ State.conds = conds /\ State.stopped = FALSE
  BY StateIs
<1>4. s.conds[i] = Made(test) /\ i \in Cells /\ Allocated(State, s, {i})
  BY <1>1, <1>2, <1>3, PutAllocates
<1>5. s \in Memory
  BY <1>4 DEF Allocated
<1>6. s.conds \in [Cells -> Comparisons \cup {Freed}] /\ s.stopped \in BOOLEAN
  BY <1>5, MemoryIs
<1> HIDE DEF i, s
<1>7. Says(s.conds, ListOf(bs), says) /\ ListOf(bs).bkts = bs /\ In(bs) = {i} /\ bs # << >> /\ bs[1][1] = i
  <2>1. Says(s.conds, ListOf(<<<<i>>>>), {{Test(s.conds[i])}}) /\ ListOf(<<<<i>>>>).bkts = <<<<i>>>>
    BY <1>2, <1>4, SingleSays
  <2> QED
    BY <1>2, <1>4, <2>1, SingleIs
<1>8. \A p \in Owners : In(list[p].bkts) \subseteq State.used /\ In(list[p].bkts) \subseteq Cells
  BY StateIs
<1>9. \A p \in Owners : {i} \cap In(list[p].bkts) = {}
  BY <1>3, <1>4, <1>8, UnusedIs DEF Allocated
<1>10. \A p \in Owners : \A e \in In(list[p].bkts) : s.conds[e] = conds[e]
  BY <1>3, <1>4, <1>8, <1>9 DEF Allocated
<1>11. held \subseteq Cells /\ live \subseteq Queries /\ held \cup live = Owners /\ i \in Handles
  BY <1>4, StateIs, HandleIs DEF Handles
<1> HIDE DEF bs, says
<1>12. Changes(conds, list, held, live, s.conds, i, ListOf(bs), held \cup {i}, live)
  BY <1>4, <1>6, <1>7, <1>9, <1>10, <1>11 DEF Changes
<1>13. Owned(conds, list, held, live, meaning) /\ OnHandles(list) /\ OnHandles(meaning)
  BY DEF QueryInv
<1>14. Owned(s.conds, [list EXCEPT ![i] = ListOf(bs)], held \cup {i}, live, [meaning EXCEPT ![i] = says])
  BY <1>7, <1>12, <1>13, OwnedChanges
<1> QED
  BY <1>1, <1>6, <1>14, BecomesKeeps

\* What is left when the conditions of one owner are deleted, all or some of them.
Deleted(o, s) ==
  /\ s \in Memory /\ s.stopped = FALSE /\ s.stopped \in BOOLEAN /\ s.used = State.used
  /\ s.conds \in [Cells -> Comparisons \cup {Freed}]
  /\ \A p \in Owners \ {o} : \A i \in In(list[p].bkts) : s.conds[i] = conds[i]
  /\ Unused(s) = Unused(State)

LEMMA DeletedIs ==
  ASSUME QueryInv, NEW o \in Owners, NEW ids, ids \subseteq In(list[o].bkts)
  PROVE  Deleted(o, Delete(State, ids))
<1> DEFINE s == Delete(State, ids)
<1>1. /\ State \in Memory /\ State.conds = conds /\ State.stopped = FALSE
      /\ \A p \in Owners : In(list[p].bkts) \subseteq State.used /\ In(list[p].bkts) \subseteq Cells
      /\ Apart(list, Owners)
  BY StateIs
<1> DEFINE f == [i \in Cells |-> IF i \in ids THEN Freed ELSE conds[i]]
<1>2. s = [State EXCEPT !.conds = f]
  BY <1>1 DEF Delete, Memory
<1> HIDE DEF s
<1>3. conds \in [Cells -> Comparisons \cup {Freed}]
  BY StateIs
<1>4. f \in [Cells -> Comparisons \cup {Freed}] /\ \A i \in Cells : f[i] = IF i \in ids THEN Freed ELSE conds[i]
  BY <1>3
<1> HIDE DEF f
<1>5. s \in Memory /\ s.stopped = FALSE /\ s.used = State.used /\ s.conds = f
  BY <1>1, <1>2, <1>4 DEF Memory
<1>6. ASSUME NEW p \in Owners \ {o}, NEW i \in In(list[p].bkts) PROVE s.conds[i] = conds[i]
  <2>1. i \in Cells /\ i \notin ids
    BY <1>1 DEF Apart
  <2> QED
    BY <1>4, <1>5, <2>1
<1>7. ids \subseteq State.used
  BY <1>1
<1>8. Unused(s) = Unused(State)
  BY <1>1, <1>4, <1>5, <1>7 DEF Unused
<1> QED
  BY <1>4, <1>5, <1>6, <1>8 DEF Deleted, s

LEMMA DestroyConditionKeeps ==
  ASSUME QueryInv, NEW c, DestroyCondition(c)
  PROVE  QueryInv'
<1> DEFINE s == Delete(State, {c})
<1>1. c \in held /\ Becomes(s, list, held \ {c}, live, meaning) /\ UNCHANGED value
  BY DEF DestroyCondition
<1>2. c \in Owners /\ c \in Cells /\ c \notin live
  BY <1>1, HandleIs
<1>3. c \in In(list[c].bkts)
  <2>1. list[c].bkts \in Buckets /\ list[c].bkts # << >> /\ list[c].bkts[1][1] = c
    BY <1>1, <1>2, StateIs DEF Heads
  <2> QED
    BY <2>1, HeadOf
<1>4. Deleted(c, s)
  BY <1>2, <1>3, DeletedIs
<1> HIDE DEF s
<1>5. (held \ {c}) \cup live \subseteq Owners \ {c}
  BY <1>2, HandleIs
<1>6. Owned(s.conds, list, held \ {c}, live, meaning)
  BY <1>4, <1>5, OwnedShrinks DEF QueryInv, Deleted
<1> QED
  BY <1>1, <1>4, <1>6, BecomesKeeps DEF Deleted

-----------------------------------------------------------------------------
(* Queries.                                                                *)

LEMMA EmptySays ==
  ASSUME NEW cs
  PROVE  Says(cs, Empty, True) /\ In(Empty.bkts) = {}
<1>1. << >> \in Buckets /\ In(<< >>) = {} /\ Distinct(<< >>) /\ Len(<< >>) = 0
  BY DEF Buckets, In, Distinct
<1>2. Empty.bkts = << >> /\ Empty.last = 0 /\ Empty \in Lists
  BY <1>1 DEF Empty, Lists
<1> QED
  BY <1>1, <1>2 DEF Says, Saying

LEMMA NewQueryKeeps ==
  ASSUME QueryInv, NEW q \in Queries, Query_(q)
  PROVE  QueryInv'
<1>1. /\ q \notin live /\ UNCHANGED value
      /\ Becomes(State, [list EXCEPT ![q] = Empty], held, live \cup {q}, [meaning EXCEPT ![q] = True])
  BY DEF Query_
<1>2. Says(conds, Empty, True) /\ In(Empty.bkts) = {}
  BY EmptySays
<1>3. /\ held \subseteq Cells /\ live \subseteq Queries /\ held \cup live = Owners /\ q \in Handles
      /\ q \notin held /\ conds \in [Cells -> Comparisons \cup {Freed}]
      /\ State.conds = conds /\ State.stopped = FALSE
  BY StateIs, HandleIs
<1>4. Changes(conds, list, held, live, conds, q, Empty, held, live \cup {q})
  BY <1>2, <1>3 DEF Changes
<1>5. Owned(conds, list, held, live, meaning) /\ OnHandles(list) /\ OnHandles(meaning)
  BY DEF QueryInv
<1>6. Owned(conds, [list EXCEPT ![q] = Empty], held, live \cup {q}, [meaning EXCEPT ![q] = True])
  BY <1>2, <1>4, <1>5, OwnedChanges
<1>7. State.stopped \in BOOLEAN
  BY <1>3
<1> QED
  BY <1>1, <1>3, <1>6, <1>7, BecomesKeeps

\* A copy of a list without products has conditions of its own and says the same.
LEMMA CopyIs ==
  ASSUME NEW s \in Memory, NEW bl, Sound(s, bl), SingleLinks(bl),
         Cardinality(Unused(s)) >= Len(bl.bkts), NEW t, NEW copy,
         t = CopyDeep(s, bl).s, copy = CopyDeep(s, bl).bl
  PROVE  /\ Allocated(s, t, In(copy.bkts)) /\ t \in Memory
         /\ Says(t.conds, copy, Saying(s.conds, bl.bkts))
<1> DEFINE l == CopyDeep(s, bl).bl
<1>1. bl.bkts \in Buckets /\ AllPresent(s, bl.bkts) /\ Distinct(bl.bkts)
  BY DEF Sound, Lists
<1>2. /\ copy = ListOf(copy.bkts) /\ copy.bkts \in Buckets /\ Len(copy.bkts) = Len(bl.bkts)
      /\ Allocated(s, t, In(copy.bkts) \ In(bl.bkts)) /\ Distinct(copy.bkts) /\ AllPresent(t, copy.bkts)
      /\ Saids(t.conds, copy.bkts) = Saids(s.conds, bl.bkts)
      /\ bl.bkts # << >> => bl.bkts[1][1] \notin In(copy.bkts)
      /\ SingleLinks(bl) => In(copy.bkts) \cap In(bl.bkts) = {}
  <2>1. t = CopyDeep(s, bl).s /\ Cardinality(Unused(s)) >= Len(bl.bkts) /\ copy = l
    OBVIOUS
  <2> HIDE DEF l
  <2>2. /\ l = ListOf(l.bkts) /\ l.bkts \in Buckets /\ Len(l.bkts) = Len(bl.bkts)
        /\ Allocated(s, t, In(l.bkts) \ In(bl.bkts)) /\ Distinct(l.bkts) /\ AllPresent(t, l.bkts)
        /\ Saids(t.conds, l.bkts) = Saids(s.conds, bl.bkts)
        /\ bl.bkts # << >> => bl.bkts[1][1] \notin In(l.bkts)
        /\ SingleLinks(bl) => In(l.bkts) \cap In(bl.bkts) = {}
    BY <1>1, <2>1, DeepCopied DEF l
  <2> QED
    BY <2>1, <2>2
<1>3. In(copy.bkts) \ In(bl.bkts) = In(copy.bkts)
  BY <1>2
<1>4. Allocated(s, t, In(copy.bkts)) /\ t \in Memory
  BY <1>2, <1>3 DEF Allocated
<1>5. copy \in Lists
  BY <1>2, ListOfIs
<1>6. copy.bkts = << >> <=> bl.bkts = << >>
  BY <1>1, <1>2, BucketsAre
<1>7. Saying(t.conds, copy.bkts) = Saying(s.conds, bl.bkts)
  BY <1>2, <1>6 DEF Saying
<1> QED
  BY <1>2, <1>4, <1>5, <1>7 DEF Says, AllPresent

LEMMA CopyQueryKeeps ==
  ASSUME QueryInv, CarefulQueries, NEW q \in Queries, NEW r, CopyQuery(q, r)
  PROVE  QueryInv'
<1> DEFINE t == CopyDeep(State, list[r]).s
           copy == CopyDeep(State, list[r]).bl
<1>1. /\ q \notin live /\ r \in live /\ q # r /\ SingleLinks(list[r]) /\ UNCHANGED value
      /\ Cardinality(Unused(State)) >= Len(list[r].bkts)
      /\ Becomes(t, [list EXCEPT ![q] = copy], held, live \cup {q}, [meaning EXCEPT ![q] = meaning[r]])
  BY DEF CopyQuery, CarefulQueries, Room
<1>2. /\ State \in Memory /\ State.conds = conds /\ r \in Owners /\ q \notin held /\ q \in Handles
      /\ held \cup live = Owners /\ held \subseteq Cells /\ live \subseteq Queries
  BY <1>1, StateIs, HandleIs
<1>3. Sound(State, list[r]) /\ meaning[r] = Saying(conds, list[r].bkts)
  BY <1>2, StateIs
<1>4. /\ Allocated(State, t, In(copy.bkts)) /\ t \in Memory
      /\ Says(t.conds, copy, meaning[r])
  BY <1>1, <1>2, <1>3, CopyIs
<1>5. t.conds \in [Cells -> Comparisons \cup {Freed}] /\ t.stopped \in BOOLEAN
  BY <1>4, MemoryIs
<1> HIDE DEF t, copy
<1>6. \A p \in Owners : In(list[p].bkts) \subseteq State.used /\ In(list[p].bkts) \subseteq Cells
  BY StateIs
<1>7. \A p \in Owners : In(copy.bkts) \cap In(list[p].bkts) = {}
  BY <1>2, <1>4, <1>6, UnusedIs DEF Allocated
<1>8. \A p \in Owners : \A i \in In(list[p].bkts) : t.conds[i] = conds[i]
  BY <1>2, <1>4, <1>6, <1>7 DEF Allocated
<1>9. Changes(conds, list, held, live, t.conds, q, copy, held, live \cup {q})
  BY <1>2, <1>5, <1>7, <1>8 DEF Changes
<1>10. Owned(conds, list, held, live, meaning) /\ OnHandles(list) /\ OnHandles(meaning)
  BY DEF QueryInv
<1>11. Owned(t.conds, [list EXCEPT ![q] = copy], held, live \cup {q}, [meaning EXCEPT ![q] = meaning[r]])
  BY <1>4, <1>9, <1>10, OwnedChanges
<1> QED
  BY <1>1, <1>5, <1>11, BecomesKeeps

LEMMA DestroyQueryKeeps ==
  ASSUME QueryInv, NEW q, DestroyQuery(q)
  PROVE  QueryInv'
<1> DEFINE s == Delete(State, Elements(list[q]))
<1>1. q \in live /\ Becomes(s, list, held, live \ {q}, meaning) /\ UNCHANGED value
  BY DEF DestroyQuery
<1>2. q \in Owners /\ q \notin held
  BY <1>1, HandleIs
<1>3. Elements(list[q]) = In(list[q].bkts)
  BY DEF Elements, In
<1>4. Deleted(q, s)
  BY <1>2, <1>3, DeletedIs
<1> HIDE DEF s
<1>5. held \cup (live \ {q}) \subseteq Owners \ {q}
  BY <1>2, HandleIs
<1>6. Owned(s.conds, list, held, live \ {q}, meaning)
  BY <1>4, <1>5, OwnedShrinks DEF QueryInv, Deleted
<1> QED
  BY <1>1, <1>4, <1>6, BecomesKeeps DEF Deleted

\* The query takes the conditions of an expression, which leaves them to it, or copies of
\* those of a condition of the client's own.
LEMMA AssignKeeps ==
  ASSUME QueryInv, CarefulQueries, NEW q, NEW c, Assign(q, c)
  PROVE  QueryInv'
<1> DEFINE s == Delete(State, Elements(list[q]))
           t == CopyDeep(s, list[c]).s
           copy == CopyDeep(s, list[c]).bl
<1>1. /\ q \in live /\ c \in held /\ UNCHANGED value
      /\ conds[c].auto \/ SingleLinks(list[c])
      /\ Cardinality(Unused(State)) >= Len(list[c].bkts)
  BY DEF Assign, CarefulQueries, Room
<1>2. /\ q \in Owners /\ c \in Owners /\ q # c /\ q \in Handles /\ q \notin held /\ c \notin live
      /\ held \cup live = Owners /\ held \subseteq Cells /\ live \subseteq Queries
  BY <1>1, StateIs, HandleIs
<1>3. Elements(list[q]) = In(list[q].bkts)
  BY DEF Elements, In
<1>4. /\ s \in Memory /\ s.stopped \in BOOLEAN /\ s.used = State.used
      /\ s.conds \in [Cells -> Comparisons \cup {Freed}]
      /\ \A p \in Owners \ {q} : \A i \in In(list[p].bkts) : s.conds[i] = conds[i]
      /\ Unused(s) = Unused(State)
  <2>1. Deleted(q, s)
    BY <1>2, <1>3, DeletedIs
  <2> HIDE DEF s
  <2> QED
    BY <2>1 DEF Deleted
<1>5. Owned(conds, list, held, live, meaning) /\ OnHandles(list) /\ OnHandles(meaning)
  BY DEF QueryInv
<1>6. \A i \in In(list[c].bkts) : s.conds[i] = conds[i]
  BY <1>2, <1>4
<1>7. Says(s.conds, list[c], meaning[c])
  BY <1>2, <1>5, <1>6, SaysStays DEF Owned
<1>8. \A p \in Owners : /\ In(list[p].bkts) \subseteq State.used /\ In(list[p].bkts) \subseteq Cells
                        /\ p # c => In(list[c].bkts) \cap In(list[p].bkts) = {}
  BY <1>2, StateIs DEF Apart
<1>9. CASE conds[c].auto
  <2> DEFINE bl == ListOf(list[c].bkts)
  <2>1. Becomes(s, [list EXCEPT ![q] = bl], held \ {c}, live, [meaning EXCEPT ![q] = meaning[c]])
    BY <1>9 DEF Assign, CopyShallow, Unheld
  <2>2. list[c].bkts \in Buckets
    BY <1>2, StateIs
  <2>3. bl \in Lists /\ bl.bkts = list[c].bkts
    BY <2>2, ListOfIs
  <2>4. Says(s.conds, bl, meaning[c])
    BY <1>7, <2>3 DEF Says
  <2> HIDE DEF s, bl
  <2>5. ((held \ {c}) \cup live) \ {q} \subseteq Owners \ {c, q}
    BY <1>2
  <2>6. \A p \in ((held \ {c}) \cup live) \ {q} : In(bl.bkts) \cap In(list[p].bkts) = {}
    BY <1>8, <2>3, <2>5
  <2>7. Changes(conds, list, held, live, s.conds, q, bl, held \ {c}, live)
    BY <1>2, <1>4, <2>5, <2>6 DEF Changes
  <2>8. Owned(s.conds, [list EXCEPT ![q] = bl], held \ {c}, live, [meaning EXCEPT ![q] = meaning[c]])
    BY <1>5, <2>4, <2>7, OwnedChanges
  <2> QED
    BY <1>1, <1>4, <2>1, <2>8, BecomesKeeps
<1>10. CASE ~conds[c].auto
  <2>1. Becomes(t, [list EXCEPT ![q] = copy], held, live, [meaning EXCEPT ![q] = meaning[c]])
    BY <1>10 DEF Assign, Unheld
  <2>2. SingleLinks(list[c]) /\ Cardinality(Unused(s)) >= Len(list[c].bkts)
    BY <1>1, <1>4, <1>10
  <2>3. Sound(s, list[c]) /\ meaning[c] = Saying(s.conds, list[c].bkts)
    BY <1>7 DEF Says, Sound, AllPresent
  <2> HIDE DEF s
  <2>4. /\ Allocated(s, t, In(copy.bkts)) /\ t \in Memory
        /\ Says(t.conds, copy, meaning[c])
    BY <1>4, <2>2, <2>3, CopyIs
  <2>5. t.conds \in [Cells -> Comparisons \cup {Freed}] /\ t.stopped \in BOOLEAN
    BY <2>4, MemoryIs
  <2> HIDE DEF t, copy
  <2>6. \A p \in Owners : In(copy.bkts) \cap In(list[p].bkts) = {}
    BY <1>4, <1>8, <2>4, UnusedIs DEF Allocated
  <2>7. \A p \in Owners : \A i \in In(list[p].bkts) : t.conds[i] = s.conds[i]
    BY <1>8, <2>4, <2>6 DEF Allocated
  <2>8. \A p \in Owners \ {q} : \A i \in In(list[p].bkts) : t.conds[i] = conds[i]
    BY <1>4, <2>7
  <2>9. Changes(conds, list, held, live, t.conds, q, copy, held, live)
    BY <1>2, <2>5, <2>6, <2>8 DEF Changes
  <2>10. Owned(t.conds, [list EXCEPT ![q] = copy], held, live, [meaning EXCEPT ![q] = meaning[c]])
    BY <1>5, <2>4, <2>9, OwnedChanges
  <2> QED
    BY <1>1, <2>1, <2>5, <2>10, BecomesKeeps
<1> QED
  BY <1>9, <1>10
-----------------------------------------------------------------------------
(* Edits.                                                                  *)

EditedTest(t, index, v) == IF t.index = index THEN [t EXCEPT !.value = v] ELSE t

LEMMA EditedTestIs ==
  ASSUME NEW c \in Comparisons, NEW index, NEW v \in Nat
  PROVE  /\ [c EXCEPT !.value = v] \in Comparisons
         /\ Test(EditedTest(c, index, v)) = EditedTest(Test(c), index, v)
<1>1. [c EXCEPT !.value = v] \in Comparisons
  BY DEF Comparisons
<1>2. Test(c) \in Comparisons /\ Test(c).index = c.index
  BY DEF Test, Comparisons
<1>3. Test([c EXCEPT !.value = v]) = [Test(c) EXCEPT !.value = v]
  BY DEF Test, Comparisons
<1> QED
  BY <1>1, <1>2, <1>3 DEF EditedTest

LEMMA EditedSaids ==
  ASSUME NEW bs \in Buckets, NEW cs, NEW ds, NEW index, NEW v \in Nat,
         \A i \in In(bs) : cs[i] \in Comparisons /\ ds[i] = EditedTest(cs[i], index, v)
  PROVE  Saids(ds, bs) = Edited(Saids(cs, bs), index, v)
<1>1. \A i \in In(bs) : Test(ds[i]) = EditedTest(Test(cs[i]), index, v)
  BY EditedTestIs
<1>2. ASSUME NEW j \in DOMAIN bs
      PROVE  Said(ds, bs[j]) = {EditedTest(t, index, v) : t \in Said(cs, bs[j])}
  <2>1. Range(bs[j]) \subseteq In(bs)
    BY DEF In
  <2>2. Said(ds, bs[j]) = {EditedTest(Test(cs[i]), index, v) : i \in Range(bs[j])}
    BY <1>1, <2>1 DEF Said
  <2> QED
    BY <2>2 DEF Said
<1>3. Edited(Saids(cs, bs), index, v) = {{EditedTest(t, index, v) : t \in term} : term \in Saids(cs, bs)}
  BY DEF Edited, EditedTest
<1>4. Edited(Saids(cs, bs), index, v) = {{EditedTest(t, index, v) : t \in Said(cs, bs[j])} : j \in DOMAIN bs}
  BY <1>3 DEF Saids
<1> QED
  BY <1>2, <1>4 DEF Saids

LEMMA QueryEditKeeps ==
  ASSUME QueryInv, NEW q, NEW index, NEW v \in Values, QueryEdit(q, index, v)
  PROVE  QueryInv'
<1> DEFINE bs == list[q].bkts
           hit == {i \in Elements(list[q]) : conds[i].index = index}
           ds == [i \in Cells |-> IF i \in hit THEN [conds[i] EXCEPT !.value = v] ELSE conds[i]]
           says == Edited(meaning[q], index, v)
<1>1. /\ q \in live /\ hit # {} /\ conds' = ds
      /\ meaning' = [meaning EXCEPT ![q] = says]
      /\ UNCHANGED <<list, held, live, value, stopped>>
  BY DEF QueryEdit
<1>2. /\ q \in Owners /\ q \notin held /\ q \in Handles /\ held \cup live = Owners
      /\ held \subseteq Cells /\ live \subseteq Queries /\ conds \in [Cells -> Comparisons \cup {Freed}]
      /\ Apart(list, Owners)
  BY <1>1, StateIs, HandleIs
<1>3. /\ list[q] \in Lists /\ bs \in Buckets /\ Distinct(bs) /\ In(bs) \subseteq Cells
      /\ meaning[q] = Saying(conds, bs) /\ \A i \in In(bs) : conds[i] # Freed
  BY <1>2, StateIs DEF AllPresent
<1>4. Elements(list[q]) = In(bs)
  BY DEF Elements, In
<1>5. v \in Nat
  BY QueryAssumption
<1>6. \A i \in In(bs) : conds[i] \in Comparisons /\ ds[i] = EditedTest(conds[i], index, v)
  BY <1>2, <1>3, <1>4 DEF EditedTest
<1>7. bs # << >>
  <2>1. In(<< >>) = {}
    BY DEF In
  <2> QED
    BY <1>1, <1>4, <2>1
<1>8. Saids(ds, bs) = Edited(Saids(conds, bs), index, v)
  <2> HIDE DEF ds, bs
  <2> QED
    BY <1>3, <1>5, <1>6, EditedSaids
<1>9. says = Saying(ds, bs)
  BY <1>3, <1>7, <1>8 DEF Saying
<1>10. \A i \in hit : [conds[i] EXCEPT !.value = v] \in Comparisons
  BY <1>4, <1>5, <1>6, EditedTestIs
<1>11. ds \in [Cells -> Comparisons \cup {Freed}]
  BY <1>2, <1>10
<1>12. \A i \in In(bs) : ds[i] # Freed
  <2>1. \A i \in In(bs) : ds[i] \in Comparisons
    BY <1>3, <1>4, <1>6, <1>10
  <2> QED
    BY <2>1, ConditionAssumption
<1>13. \A i \in Cells : i \notin In(bs) => ds[i] = conds[i]
  BY <1>4
<1> HIDE DEF ds, says, hit
<1>14. Says(ds, list[q], says)
  BY <1>3, <1>9, <1>12 DEF Says
<1>15. \A p \in Owners \ {q} : In(bs) \cap In(list[p].bkts) = {} /\ In(list[p].bkts) \subseteq Cells
  BY <1>2, StateIs DEF Apart
<1>16. Changes(conds, list, held, live, ds, q, list[q], held, live)
  BY <1>2, <1>11, <1>13, <1>15 DEF Changes
<1>17. Owned(conds, list, held, live, meaning) /\ OnHandles(list) /\ OnHandles(meaning)
  BY DEF QueryInv
<1>18. Owned(ds, [list EXCEPT ![q] = list[q]], held, live, [meaning EXCEPT ![q] = says])
  BY <1>14, <1>16, <1>17, OwnedChanges
<1>19. [list EXCEPT ![q] = list[q]] = list
  BY <1>17 DEF OnHandles
<1>20. Owned(conds', list', held', live', meaning')
  BY <1>1, <1>18, <1>19
<1>21. meaning' = [o \in Handles |-> meaning'[o]]
  BY <1>1, <1>17 DEF OnHandles
<1> QED
  BY <1>1, <1>20, <1>21 DEF QueryInv, Owners, OnHandles

LEMMA AggregateKeeps ==
  ASSUME QueryInv, NEW g \in Aggregates, NEW v \in Values, AggregateUpdated(g, v)
  PROVE  QueryInv'
<1>1. v \in Nat
  BY QueryAssumption
<1> QED
  BY <1>1 DEF AggregateUpdated, QueryInv, Owners, OnHandles

-----------------------------------------------------------------------------
(* The invariant.                                                          *)

LEMMA InitHolds == Init => QueryInv
<1> SUFFICES ASSUME Init PROVE QueryInv
  OBVIOUS
<1>1. /\ Written \in Seq(Tests) /\ DOMAIN Written \subseteq Cells /\ Created \subseteq Queries
      /\ Cells \cap Queries = {}
  BY QueryAssumption
<1>2. /\ conds = [i \in Cells |-> IF i \in DOMAIN Written THEN Made(Written[i]) ELSE Freed]
      /\ held = DOMAIN Written /\ live = Created
      /\ list = [h \in Handles |-> IF h \in held THEN ListOf(<<<<h>>>>) ELSE Empty]
      /\ meaning = [h \in Handles |-> IF h \in held THEN {{Test(Written[h])}}
                                      ELSE IF h \in live THEN True ELSE {}]
      /\ value = [g \in Aggregates |-> 0] /\ stopped = FALSE
  BY DEF Init
<1>3. \A i \in held : Written[i] \in Tests
  BY <1>1, <1>2
<1>4. \A i \in held : /\ i \in Cells /\ i \in Handles /\ conds[i] = Made(Written[i]) /\ conds[i] # Freed
                      /\ conds[i] \in Comparisons /\ Test(conds[i]) = Test(Written[i])
  BY <1>1, <1>2, <1>3, MadeIs DEF Handles
<1>5. conds \in [Cells -> Comparisons \cup {Freed}]
  BY <1>2, <1>4
<1>6. ASSUME NEW i \in held
      PROVE  /\ Says(conds, list[i], meaning[i]) /\ In(list[i].bkts) = {i}
             /\ list[i].bkts # << >> /\ list[i].bkts[1][1] = i
  <2>1. list[i] = ListOf(<<<<i>>>>) /\ meaning[i] = {{Test(conds[i])}}
    BY <1>2, <1>4
  <2>2. Says(conds, ListOf(<<<<i>>>>), {{Test(conds[i])}}) /\ ListOf(<<<<i>>>>).bkts = <<<<i>>>>
    BY <1>4, SingleSays
  <2>3. In(<<<<i>>>>) = {i} /\ <<<<i>>>> # << >> /\ <<<<i>>>>[1][1] = i
    BY <1>4, SingleIs
  <2> QED
    BY <2>1, <2>2, <2>3
<1>7. ASSUME NEW q \in live PROVE Says(conds, list[q], meaning[q]) /\ In(list[q].bkts) = {}
  <2>1. q \in Handles /\ q \notin held
    BY <1>1, <1>2 DEF Handles
  <2>2. list[q] = Empty /\ meaning[q] = True
    BY <1>2, <2>1
  <2> QED
    BY <2>2, EmptySays
<1>8. Apart(list, held \cup live) /\ Heads(list, held)
  <2>1. ASSUME NEW o \in held \cup live, NEW p \in held \cup live, o # p
        PROVE  In(list[o].bkts) \cap In(list[p].bkts) = {}
    <3>1. CASE o \in live \/ p \in live
      BY <1>7, <3>1
    <3>2. CASE o \in held /\ p \in held
      <4>1. In(list[o].bkts) = {o} /\ In(list[p].bkts) = {p}
        BY <1>6, <3>2
      <4> QED
        BY <2>1, <4>1
    <3> QED
      BY <3>1, <3>2
  <2> QED
    BY <1>6, <2>1 DEF Apart, Heads
<1>9. held \subseteq Cells /\ live \subseteq Queries
  BY <1>1, <1>2
<1>10. Owned(conds, list, held, live, meaning)
  BY <1>5, <1>6, <1>7, <1>8, <1>9 DEF Owned
<1>11. OnHandles(list) /\ OnHandles(meaning)
  BY <1>2 DEF OnHandles
<1>12. \A o \in Handles \ Owners : list[o] = Empty
  BY <1>2 DEF Owners
<1> QED
  BY <1>2, <1>10, <1>11, <1>12 DEF QueryInv

LEMMA NextKeeps ==
  ASSUME CarefulQueries, QueryInv, [Next]_vars
  PROVE  QueryInv'
<1>1. CASE UNCHANGED vars
  BY <1>1 DEF vars, QueryInv, Owners, OnHandles
<1>2. ASSUME NEW test \in Tests, Compare(test) PROVE QueryInv'
  BY <1>2, CompareKeeps
<1>3. ASSUME NEW c \in Cells, NEW d \in Cells, AndConditions(c, d) \/ OrConditions(c, d) PROVE QueryInv'
  BY <1>3, AndConditionsKeeps, OrConditionsKeeps
<1>4. ASSUME NEW c \in Cells, DestroyCondition(c) PROVE QueryInv'
  BY <1>4, DestroyConditionKeeps
<1>5. ASSUME NEW q \in Queries, Query_(q) \/ DestroyQuery(q) PROVE QueryInv'
  BY <1>5, NewQueryKeeps, DestroyQueryKeeps
<1>6. ASSUME NEW q \in Queries, NEW c \in Cells, Assign(q, c) PROVE QueryInv'
  BY <1>6, AssignKeeps
<1>7. ASSUME NEW q \in Queries, NEW r \in Queries, CopyQuery(q, r) \/ AndQueries(q, r) \/ OrQueries(q, r)
      PROVE  QueryInv'
  BY <1>7, CopyQueryKeeps, AndQueriesKeeps, OrQueriesKeeps
<1>8. ASSUME NEW q \in Queries, NEW index, NEW v \in Values, QueryEdit(q, index, v) PROVE QueryInv'
  BY <1>8, QueryEditKeeps
<1>9. ASSUME NEW g \in Aggregates, NEW v \in Values, AggregateUpdated(g, v) PROVE QueryInv'
  BY <1>9, AggregateKeeps
<1> QED
  BY <1>1, <1>2, <1>3, <1>4, <1>5, <1>6, <1>7, <1>8, <1>9 DEF Next

\* The invariant holds of whatever clients write.
LEMMA QueryInvHolds ==
  ASSUME CarefulQueries
  PROVE  Spec => []QueryInv
<1>1. QueryInv /\ [Next]_vars => QueryInv'
  BY NextKeeps
<1> QED
  BY <1>1, InitHolds, PTL DEF Spec

-----------------------------------------------------------------------------
(* What follows.                                                           *)

\* The state is well typed.
LEMMA TypesFollow == QueryInv => QueryTypeOK
<1> SUFFICES ASSUME QueryInv PROVE QueryTypeOK
  OBVIOUS
<1>1. /\ conds \in [Cells -> Comparisons \cup {Freed}] /\ held \subseteq Cells /\ live \subseteq Queries
      /\ stopped \in BOOLEAN /\ value \in [Aggregates -> Nat]
  BY DEF QueryInv, Owned
<1>2. ASSUME NEW h \in Handles
      PROVE  /\ Elements(list[h]) \subseteq Cells
             /\ list[h].last \in 0..Len(list[h].bkts) /\ list[h].total \in Nat
  <2>1. Elements(list[h]) = In(list[h].bkts)
    BY DEF Elements, In
  <2>2. CASE h \in Owners
    BY <2>1, <2>2, StateIs DEF Lists
  <2>3. CASE h \notin Owners
    <3>1. list[h] = Empty
      BY <2>3 DEF QueryInv
    <3> QED
      BY <2>1, <3>1, EmptySays DEF Empty
  <2> QED
    BY <2>2, <2>3
<1> QED
  BY <1>1, <1>2 DEF QueryTypeOK

LEMMA OwnershipFollows == QueryInv => OwnedOnce
<1> SUFFICES ASSUME QueryInv PROVE OwnedOnce
  OBVIOUS
<1>1. \A o \in Owners : Elements(list[o]) = In(list[o].bkts)
  BY DEF Elements, In
<1>2. ASSUME NEW q \in live
      PROVE  /\ \A i \in Elements(list[q]) : conds[i] # Freed
             /\ Size(list[q]) = Cardinality(Elements(list[q]))
  <2>1. q \in Owners
    BY DEF Owners
  <2>2. list[q].bkts \in Buckets /\ Distinct(list[q].bkts) /\ AllPresent(State, list[q].bkts) /\ State.conds = conds
    BY <2>1, StateIs
  <2> QED
    BY <1>1, <2>1, <2>2, DistinctCounted DEF AllPresent
<1>3. ASSUME NEW q \in live, NEW h \in Owners, q # h
      PROVE  Elements(list[q]) \cap Elements(list[h]) = {}
  <2>1. q \in Owners
    BY DEF Owners
  <2> QED
    BY <1>1, <1>3, <2>1, StateIs DEF Apart
<1> QED
  BY <1>2, <1>3 DEF OwnedOnce

\* Whether a condition is auto does not matter to what it compares.
LEMMA TestEvaluates ==
  ASSUME NEW c \in Comparisons, NEW rec
  PROVE  Evaluate(Test(c), rec, value) <=> Evaluate(c, rec, value)
<1>1. /\ Test(c).lhs = c.lhs /\ Test(c).type = c.type /\ Test(c).oper = c.oper
      /\ Test(c).value = c.value /\ Test(c).ref = c.ref
  BY DEF Test, Comparisons
<1> QED
  BY <1>1 DEF Evaluate

LEMMA MeaningFollows == QueryInv => MatchMeans
<1> SUFFICES ASSUME QueryInv, NEW q \in live, NEW rec \in Records
             PROVE  Match(q, rec) <=> Satisfied(meaning[q], rec)
  BY DEF MatchMeans
<1> DEFINE bs == list[q].bkts
<1>1. /\ bs \in Buckets /\ meaning[q] = Saying(conds, bs)
      /\ \A i \in In(bs) : conds[i] # Freed /\ conds[i] \in Comparisons
  <2>1. q \in Owners
    BY DEF Owners
  <2>2. /\ bs \in Buckets /\ In(bs) \subseteq Cells /\ meaning[q] = Saying(conds, bs)
        /\ AllPresent(State, bs) /\ State.conds = conds
        /\ conds \in [Cells -> Comparisons \cup {Freed}]
    BY <2>1, StateIs
  <2> QED
    BY <2>2 DEF AllPresent
<1>2. CASE bs = << >>
  <2>1. meaning[q] = {{}}
    BY <1>1, <1>2 DEF Saying, True
  <2> QED
    BY <1>2, <2>1 DEF Match, Satisfied
<1>3. CASE bs # << >>
  <2>1. meaning[q] = {Said(conds, bs[j]) : j \in DOMAIN bs}
    BY <1>1, <1>3 DEF Saying, Saids
  <2>2. ASSUME NEW j \in DOMAIN bs
        PROVE  (\A i \in Range(bs[j]) : Holds(i, rec))
               <=> (\A t \in Said(conds, bs[j]) : Evaluate(t, rec, value))
    <3>1. Range(bs[j]) \subseteq In(bs)
      BY DEF In
    <3>2. \A i \in Range(bs[j]) : Holds(i, rec) <=> Evaluate(Test(conds[i]), rec, value)
      BY <1>1, <3>1, TestEvaluates DEF Holds
    <3> QED
      BY <3>2 DEF Said
  <2>3. Match(q, rec) <=> \E j \in DOMAIN bs : \A i \in Range(bs[j]) : Holds(i, rec)
    BY <1>3 DEF Match
  <2>4. Satisfied(meaning[q], rec)
        <=> \E j \in DOMAIN bs : \A t \in Said(conds, bs[j]) : Evaluate(t, rec, value)
    BY <2>1 DEF Satisfied
  <2> QED
    BY <2>2, <2>3, <2>4
<1> QED
  BY <1>2, <1>3

\* The state of the queries is well typed, whatever their clients write.
THEOREM QueriesTyped ==
  ASSUME CarefulQueries
  PROVE  Spec => []QueryTypeOK
BY QueryInvHolds, TypesFollow, PTL

\* Every condition of a query is its own, so that ~Query and operator= may delete them all.
THEOREM QueriesOwnTheirConditions ==
  ASSUME CarefulQueries
  PROVE  Spec => []OwnedOnce
BY QueryInvHolds, OwnershipFollows, PTL

\* A query matches the records that the expression it was assigned describes, whatever
\* expressions of && and || clients write and however they go on to use the query.
THEOREM QueriesMatchWhatIsWritten ==
  ASSUME CarefulQueries
  PROVE  Spec => []MatchMeans
BY QueryInvHolds, MeaningFollows, PTL
=============================================================================
