-------------------------- MODULE LinkedListProofs --------------------------
(***************************************************************************)
(* The lists of LinkedList.tla are well formed whatever a client calls     *)
(* that adds next to no cursor of 0 and unlinks no link whose position is  *)
(* saved: they are chains that implement the sequences of ListContents.tla,*)
(* for any lists, elements and iterators.                                  *)
(*                                                                         *)
(* The argument is about sequences.  Chain(s, l, o) says that the pointers *)
(* of list l are those of the sequence o, and that the walk over next is o *)
(* follows; linking puts an element into o, unlinking takes one out.       *)
(***************************************************************************)
EXTENDS LinkedListProperties, DataLemmas

Flags == [prev : BOOLEAN, next : BOOLEAN, done : BOOLEAN]
ListFields == [first : Links, last : Links, cur : Links, size : Int, flags : Flags,
               saved : Links, savedFlags : Flags]
IterFields == [list : (Lists \ Spare) \cup {Nil}, cur : Links, flags : Flags,
               valid : BOOLEAN, saved : Links, savedFlags : Flags]
States == [next : [Elems -> Links], prev : [Elems -> Links],
           list : [Lists -> ListFields], iter : [Iters -> IterFields]]

\* The pointer to the i-th element, 0 before the first and after the last.
At(o, i) == IF i \in 1..Len(o) THEN o[i] ELSE Nil

Injective(o) == \A i, j \in 1..Len(o) : o[i] = o[j] => i = j

\* A list that Split has filled has a first link with a pointer back.
Chain(s, l, o) ==
  /\ o \in Seq(Elems) /\ Injective(o)
  /\ Len(o) = s.list[l].size
  /\ s.list[l].first = At(o, 1) /\ s.list[l].last = At(o, Len(o))
  /\ \A i \in 1..Len(o) : s.next[o[i]] = At(o, i + 1)
  /\ \A i \in 1..Len(o) : i > 1 \/ l \notin Spare => s.prev[o[i]] = At(o, i - 1)

-----------------------------------------------------------------------------
(* The walk over a chain.                                                  *)

\* The first links that the walk finds are those of the chain it starts in.
LEMMA WalkOfChain ==
  ASSUME NEW nxt \in [Elems -> Links], NEW o \in Seq(Elems), Injective(o),
         IsFiniteSet(Elems), Nil \notin Elems,
         \A i \in 1..Len(o) : nxt[o[i]] = At(o, i + 1)
  PROVE  Walk(nxt, At(o, 1)) = o
<1> DEFINE N == Cardinality(Elems)
           x == At(o, 1)
           D == 1..N
           T == Links
           rank == [k \in D |-> k - 1]
           pred == [k \in D |-> IF k = 1 THEN 1 ELSE k - 1]
           base == [k \in D |-> x]
           G == [k \in D |-> [e \in Links |-> IF e = Nil THEN Nil ELSE nxt[e]]]
           Value(h, k) == IF k = 1 THEN x ELSE IF h[k - 1] = Nil THEN Nil ELSE nxt[h[k - 1]]
           link == CHOOSE h : h = [k \in D |-> Value(h, k)]
<1>1. Walk(nxt, x) = [k \in {n \in D : link[n] # Nil} |-> link[k]]
  BY DEF Walk
<1>2. /\ N \in Nat /\ Len(o) \in Nat /\ Len(o) <= N
      /\ \A i \in 1..Len(o) : o[i] \in Elems
      /\ DOMAIN o = 1..Len(o)
  <2>1. o \in [1..Len(o) -> Elems] /\ Len(o) \in Nat /\ N \in Nat
    BY LenProperties, FS_CardinalityType
  <2>2. o \in Injection(1..Len(o), Elems)
    BY <2>1 DEF Injection, Injective, IsInjective
  <2>3. Cardinality(1..Len(o)) <= N /\ Cardinality(1..Len(o)) = Len(o)
    BY <2>1, <2>2, FS_Injection, FS_Interval
  <2> QED
    BY <2>1, <2>3
<1>3. x \in Links
  BY <1>2 DEF At, Links
<1>4. Decreasing(D, T, rank, pred, base, G)
  <2>1. rank \in [D -> Nat] /\ base \in [D -> T] /\ pred \in [D -> D]
    BY <1>2, <1>3
  <2>2. G \in [D -> [T -> T]]
    BY DEF Links
  <2>3. \A d \in D : rank[d] > 0 => rank[pred[d]] < rank[d]
    BY <1>2
  <2> HIDE DEF D, T, rank, pred, base, G
  <2> QED
    BY <2>1, <2>2, <2>3 DEF Decreasing
<1>5. PICK h \in [D -> T] : \A d \in D : h[d] = IF rank[d] = 0 THEN base[d] ELSE G[d][h[pred[d]]]
  <2> HIDE DEF D, T, rank, pred, base, G
  <2>1. PICK h : Solves(h, D, T, rank, pred, base, G)
    BY <1>4, RankedRecursion
  <2> QED
    BY <2>1 DEF Solves
<1>6. ASSUME NEW k \in D PROVE h[k] = Value(h, k)
  <2>1. h[k] = IF rank[k] = 0 THEN base[k] ELSE G[k][h[pred[k]]]
    BY <1>5
  <2>2. CASE k = 1
    BY <2>1, <2>2
  <2>3. CASE k # 1
    <3>1. pred[k] = k - 1 /\ k - 1 \in D /\ rank[k] # 0
      BY <2>3, <1>2
    <3>2. h[k - 1] \in T
      BY <3>1, <1>5
    <3> HIDE DEF rank, pred
    <3> QED
      BY <2>1, <2>3, <3>1, <3>2
  <2> QED
    BY <2>2, <2>3
<1>7. h = [k \in D |-> Value(h, k)]
  BY <1>5, <1>6, SMTT(40)
<1>8. link = [k \in D |-> Value(link, k)]
  BY <1>7
<1> HIDE DEF link
<1>9. ASSUME NEW k \in D PROVE link[k] = At(o, k)
  <2> DEFINE Bad == {n \in Nat : n \in D /\ link[n] # At(o, n)}
  <2> SUFFICES ASSUME Bad # {} PROVE FALSE
    BY <1>2
  <2>1. PICK n \in Bad : \A m \in Bad : n <= m
    BY LeastNatural
  <2>2. link[n] = Value(link, n)
    BY <2>1, <1>8
  <2>3. n # 1
    BY <2>1, <2>2
  <2>4. n - 1 \in Nat /\ n - 1 \in D /\ n - 1 \notin Bad
    BY <2>1, <2>3, <1>2
  <2>5. link[n - 1] = At(o, n - 1)
    BY <2>4
  <2>6. CASE n - 1 \in 1..Len(o)
    <3>1. link[n - 1] = o[n - 1] /\ o[n - 1] \in Elems
      BY <2>5, <2>6, <1>2 DEF At
    <3>2. link[n] = At(o, n - 1 + 1)
      BY <2>2, <2>3, <2>6, <3>1
    <3> QED
      BY <2>1, <3>2, <1>2
  <2>7. CASE n - 1 \notin 1..Len(o)
    <3>1. link[n] = Nil
      BY <2>2, <2>3, <2>5, <2>7 DEF At
    <3>2. n \notin 1..Len(o)
      BY <2>4, <2>7, <1>2
    <3> QED
      BY <2>1, <3>1, <3>2 DEF At
  <2> QED
    BY <2>6, <2>7
<1>10. \A k \in D : link[k] # Nil <=> k \in 1..Len(o)
  BY <1>2, <1>9 DEF At
<1>11. {n \in D : link[n] # Nil} = 1..Len(o)
  BY <1>2, <1>10
<1>12. \A k \in 1..Len(o) : link[k] = o[k]
  BY <1>2, <1>9 DEF At
<1>13. Walk(nxt, x) = [k \in 1..Len(o) |-> o[k]]
  BY <1>1, <1>11, <1>12
<1> QED
  BY <1>2, <1>13

LEMMA ChainIsOrder ==
  ASSUME NEW s \in States, NEW l \in Lists, NEW o, Chain(s, l, o)
  PROVE  Order(s, l) = o
<1>1. s.next \in [Elems -> Links] /\ s.list[l].first = At(o, 1)
  BY DEF States, Chain
<1>2. Walk(s.next, At(o, 1)) = o
  BY <1>1, WalkOfChain, ListAssumption DEF Chain
<1> QED
  BY <1>1, <1>2 DEF Order

-----------------------------------------------------------------------------
(* Putting a link into a chain and taking one out.                         *)

LEMMA ChainKept ==
  ASSUME NEW s, NEW t, NEW l, NEW o, Chain(s, l, o),
         t.list[l].first = s.list[l].first, t.list[l].last = s.list[l].last,
         t.list[l].size = s.list[l].size,
         \A e \in Range(o) : t.next[e] = s.next[e] /\ t.prev[e] = s.prev[e]
  PROVE  Chain(t, l, o)
<1>1. \A i \in 1..Len(o) : o[i] \in Range(o)
  BY RangeOfSequence DEF Chain
<1> QED
  BY <1>1 DEF Chain

\* The pointers of a chain that has been opened at i to let x in.
Inserted(s, t, l, o, i, x) ==
  /\ \A e \in Range(o) \cup {x} :
       /\ t.next[e] = IF e = x THEN At(o, i) ELSE IF e = At(o, i - 1) THEN x ELSE s.next[e]
       /\ t.prev[e] = IF e = x THEN At(o, i - 1) ELSE IF e = At(o, i) THEN x ELSE s.prev[e]
  /\ t.list[l].first = IF At(o, i - 1) = Nil THEN x ELSE s.list[l].first
  /\ t.list[l].last = IF At(o, i) = Nil THEN x ELSE s.list[l].last
  /\ t.list[l].size = s.list[l].size + 1

\* The pointers of a chain that has been closed where x was.
Removed(s, t, l, o, i) ==
  /\ \A e \in Range(o) \ {o[i]} :
       /\ t.next[e] = IF e = At(o, i - 1) THEN At(o, i + 1) ELSE s.next[e]
       /\ t.prev[e] = IF e = At(o, i + 1) THEN At(o, i - 1) ELSE s.prev[e]
  /\ t.list[l].first = IF At(o, i - 1) = Nil THEN At(o, i + 1) ELSE s.list[l].first
  /\ t.list[l].last = IF At(o, i + 1) = Nil THEN At(o, i - 1) ELSE s.list[l].last
  /\ t.list[l].size = s.list[l].size - 1

LEMMA AtIsLink ==
  ASSUME NEW o \in Seq(Elems), Injective(o)
  PROVE  /\ Len(o) \in Nat
         /\ \A i \in 1..Len(o) : o[i] \in Elems /\ o[i] \in Range(o) /\ At(o, i) = o[i] /\ At(o, i) # Nil
         /\ \A i : At(o, i) \in Links
         /\ \A i : At(o, i) # Nil => i \in 1..Len(o)
         /\ \A i \in 1..Len(o), j \in Int : At(o, j) = o[i] => i = j
<1>1. Len(o) \in Nat /\ \A i \in 1..Len(o) : o[i] \in Elems /\ o[i] \in Range(o)
  BY LenProperties, RangeOfSequence
<1>2. \A i \in 1..Len(o) : o[i] # Nil
  BY <1>1, ListAssumption
<1> QED
  BY <1>1, <1>2 DEF At, Links, Injective

LEMMA ChainInsert ==
  ASSUME NEW s, NEW t, NEW l, NEW o, Chain(s, l, o),
         NEW i \in 1..Len(o) + 1, NEW x \in Elems \ Range(o), Inserted(s, t, l, o, i, x)
  PROVE  Chain(t, l, InsertAt(o, i, x))
<1> DEFINE d == InsertAt(o, i, x)
<1>1. o \in Seq(Elems) /\ Injective(o)
  BY DEF Chain
<1>2. /\ d \in Seq(Elems) /\ Len(d) = Len(o) + 1
      /\ \A j \in 1..Len(o) + 1 : d[j] = IF j < i THEN o[j] ELSE IF j = i THEN x ELSE o[j-1]
  BY <1>1, InsertAtProperties
<1> HIDE DEF d
<1>3. /\ Len(o) \in Nat /\ i \in Nat /\ 1 <= i /\ i <= Len(o) + 1
      /\ \A j \in 1..Len(o) : o[j] \in Elems /\ o[j] \in Range(o) /\ o[j] # x /\ o[j] # Nil
      /\ x # Nil
  BY <1>1, AtIsLink, ListAssumption
<1>4. \A j \in Int : At(d, j) = IF j < i THEN At(o, j) ELSE IF j = i THEN x ELSE At(o, j - 1)
  BY <1>2, <1>3 DEF At
<1>5. Injective(d)
  <2> SUFFICES ASSUME NEW j \in 1..Len(o) + 1, NEW k \in 1..Len(o) + 1, d[j] = d[k]
               PROVE  j = k
    BY <1>2 DEF Injective
  <2>1. \A m \in 1..Len(o) + 1 : /\ m < i => m \in 1..Len(o)
                                 /\ m > i => m - 1 \in 1..Len(o)
    BY <1>3
  <2>2. j \in Int /\ k \in Int
    BY <1>3
  <2>3. \A m, n \in 1..Len(o) : o[m] = o[n] => m = n
    BY <1>1 DEF Injective
  <2>4. CASE j = i
    BY <1>2, <1>3, <2>1, <2>2, <2>4, SMTT(40)
  <2>5. CASE k = i
    BY <1>2, <1>3, <2>1, <2>2, <2>5
  <2>6. CASE j # i /\ k # i
    <3>1. \A m \in 1..Len(o) + 1 : m # i => \E n \in 1..Len(o) :
            d[m] = o[n] /\ (m < i => n = m) /\ (m > i => n = m - 1)
      BY <1>2, <1>3, <2>1, SMTT(40)
    <3> QED
      BY <1>3, <2>2, <2>3, <2>6, <3>1
  <2> QED
    BY <2>4, <2>5, <2>6
<1>6. ASSUME NEW j \in 1..Len(d) PROVE t.next[d[j]] = At(d, j + 1)
  <2>0. j \in Int /\ j >= 1 /\ j <= Len(o) + 1
    BY <1>2, <1>3
  <2>1. CASE j = i
    <3>1. d[j] = x /\ t.next[x] = At(o, i)
      BY <1>2, <2>1 DEF Inserted
    <3> QED
      BY <1>3, <1>4, <2>1, <3>1
  <2>2. CASE j < i
    <3>1. d[j] = o[j] /\ j \in 1..Len(o)
      BY <1>2, <1>3, <2>0, <2>2
    <3>2. o[j] = At(o, i - 1) <=> j = i - 1
      BY <1>1, <1>3, <3>1, AtIsLink
    <3>3. t.next[o[j]] = IF j = i - 1 THEN x ELSE s.next[o[j]]
      BY <1>3, <3>1, <3>2 DEF Inserted
    <3>4. s.next[o[j]] = At(o, j + 1)
      BY <3>1 DEF Chain
    <3>5. At(d, j + 1) = IF j = i - 1 THEN x ELSE At(o, j + 1)
      BY <1>3, <1>4, <2>0, <2>2
    <3> QED
      BY <3>1, <3>3, <3>4, <3>5
  <2>3. CASE j > i
    <3>1. d[j] = o[j-1] /\ j-1 \in 1..Len(o)
      BY <1>2, <1>3, <2>0, <2>3
    <3>2. o[j-1] # At(o, i - 1)
      BY <1>1, <1>3, <2>3, <3>1, AtIsLink
    <3>3. t.next[o[j-1]] = s.next[o[j-1]]
      BY <1>3, <3>1, <3>2 DEF Inserted
    <3>4. s.next[o[j-1]] = At(o, j-1 + 1)
      BY <3>1 DEF Chain
    <3>5. At(d, j + 1) = At(o, j)
      BY <1>3, <1>4, <2>0, <2>3
    <3> QED
      BY <2>0, <3>1, <3>3, <3>4, <3>5
  <2> QED
    BY <1>3, <2>0, <2>1, <2>2, <2>3
<1>7. ASSUME NEW j \in 1..Len(d), j > 1 \/ l \notin Spare PROVE t.prev[d[j]] = At(d, j - 1)
  <2>0. j \in Int /\ j >= 1 /\ j <= Len(o) + 1
    BY <1>2, <1>3
  <2>1. CASE j = i
    <3>1. d[j] = x /\ t.prev[x] = At(o, i - 1)
      BY <1>2, <2>1 DEF Inserted
    <3> QED
      BY <1>3, <1>4, <2>1, <3>1
  <2>2. CASE j < i
    <3>1. d[j] = o[j] /\ j \in 1..Len(o)
      BY <1>2, <1>3, <2>0, <2>2
    <3>2. o[j] # At(o, i)
      BY <1>1, <1>3, <2>2, <3>1, AtIsLink
    <3>3. t.prev[o[j]] = s.prev[o[j]]
      BY <1>3, <3>1, <3>2 DEF Inserted
    <3>4. s.prev[o[j]] = At(o, j - 1)
      BY <1>7, <3>1 DEF Chain
    <3>5. At(d, j - 1) = At(o, j - 1)
      BY <1>3, <1>4, <2>0, <2>2
    <3> QED
      BY <3>1, <3>3, <3>4, <3>5
  <2>3. CASE j > i
    <3>1. d[j] = o[j-1] /\ j-1 \in 1..Len(o)
      BY <1>2, <1>3, <2>0, <2>3
    <3>2. o[j-1] = At(o, i) <=> j-1 = i
      BY <1>1, <1>3, <3>1, AtIsLink
    <3>3. t.prev[o[j-1]] = IF j-1 = i THEN x ELSE s.prev[o[j-1]]
      BY <1>3, <3>1, <3>2 DEF Inserted
    <3>4. j-1 # i => s.prev[o[j-1]] = At(o, j-1 - 1)
      BY <1>3, <2>0, <2>3, <3>1 DEF Chain
    <3>5. At(d, j - 1) = IF j-1 = i THEN x ELSE At(o, j-1 - 1)
      BY <1>3, <1>4, <2>0, <2>3
    <3> QED
      BY <3>1, <3>3, <3>4, <3>5
  <2> QED
    BY <1>3, <2>0, <2>1, <2>2, <2>3
<1>8. /\ Len(d) = t.list[l].size
      /\ t.list[l].first = At(d, 1) /\ t.list[l].last = At(d, Len(d))
  <2>1. /\ Len(o) = s.list[l].size
        /\ s.list[l].first = At(o, 1) /\ s.list[l].last = At(o, Len(o))
    BY DEF Chain
  <2>2. /\ At(o, i - 1) = Nil <=> i = 1
        /\ At(o, i) = Nil <=> i = Len(o) + 1
    BY <1>3 DEF At
  <2>3. /\ At(d, 1) = IF i = 1 THEN x ELSE At(o, 1)
        /\ At(d, Len(o) + 1) = IF i = Len(o) + 1 THEN x ELSE At(o, Len(o))
    BY <1>3, <1>4
  <2> QED
    BY <1>2, <2>1, <2>2, <2>3 DEF Inserted
<1> QED
  BY <1>2, <1>5, <1>6, <1>7, <1>8 DEF Chain, d

LEMMA ChainRemove ==
  ASSUME NEW s, NEW t, NEW l, NEW o, Chain(s, l, o),
         NEW i \in 1..Len(o), Removed(s, t, l, o, i)
  PROVE  Chain(t, l, RemoveAt(o, i))
<1> DEFINE d == RemoveAt(o, i)
<1>1. o \in Seq(Elems) /\ Injective(o) /\ i \in DOMAIN o
  BY LenProperties DEF Chain
<1>2. /\ d \in Seq(Elems) /\ Len(d) = Len(o) - 1
      /\ \A j \in 1..Len(o) - 1 : d[j] = IF j < i THEN o[j] ELSE o[j+1]
  BY <1>1, RemoveAtProperties
<1> HIDE DEF d
<1>3. /\ Len(o) \in Nat /\ i \in Nat /\ 1 <= i /\ i <= Len(o)
      /\ \A j \in 1..Len(o) : o[j] \in Elems /\ o[j] \in Range(o) /\ o[j] # Nil
  BY <1>1, AtIsLink
<1>4. \A j \in Int : At(d, j) = IF j < i THEN At(o, j) ELSE At(o, j + 1)
  BY <1>2, <1>3 DEF At
<1>5. \A m, n \in 1..Len(o) : o[m] = o[n] => m = n
  BY <1>1 DEF Injective
<1>6. Injective(d)
  <2> SUFFICES ASSUME NEW j \in 1..Len(o) - 1, NEW k \in 1..Len(o) - 1, d[j] = d[k]
               PROVE  j = k
    BY <1>2 DEF Injective
  <2>1. /\ j \in 1..Len(o) /\ j + 1 \in 1..Len(o) /\ k \in 1..Len(o) /\ k + 1 \in 1..Len(o)
        /\ j \in Int /\ k \in Int
    BY <1>3
  <2> QED
    BY <1>2, <1>3, <1>5, <2>1
<1>7. ASSUME NEW j \in 1..Len(d) PROVE t.next[d[j]] = At(d, j + 1)
  <2>0. j \in Int /\ j >= 1 /\ j <= Len(o) - 1
    BY <1>2, <1>3
  <2>1. CASE j < i
    <3>1. d[j] = o[j] /\ j \in 1..Len(o) /\ o[j] # o[i]
      BY <1>2, <1>3, <1>5, <2>0, <2>1
    <3>2. o[j] = At(o, i - 1) <=> j = i - 1
      BY <1>1, <1>3, <3>1, AtIsLink
    <3>3. t.next[o[j]] = IF j = i - 1 THEN At(o, i + 1) ELSE s.next[o[j]]
      BY <1>3, <3>1, <3>2 DEF Removed
    <3>4. s.next[o[j]] = At(o, j + 1)
      BY <3>1 DEF Chain
    <3>5. At(d, j + 1) = IF j = i - 1 THEN At(o, i + 1) ELSE At(o, j + 1)
      BY <1>3, <1>4, <2>0, <2>1, SMTT(40)
    <3> QED
      BY <3>1, <3>3, <3>4, <3>5
  <2>2. CASE j >= i
    <3>1. d[j] = o[j+1] /\ j+1 \in 1..Len(o) /\ o[j+1] # o[i]
      BY <1>2, <1>3, <1>5, <2>0, <2>2
    <3>2. o[j+1] # At(o, i - 1)
      BY <1>1, <1>3, <2>2, <3>1, AtIsLink
    <3>3. t.next[o[j+1]] = s.next[o[j+1]]
      BY <1>3, <3>1, <3>2 DEF Removed
    <3>4. s.next[o[j+1]] = At(o, j+1 + 1)
      BY <3>1 DEF Chain
    <3>5. At(d, j + 1) = At(o, j+1 + 1)
      BY <1>3, <1>4, <2>0, <2>2
    <3> QED
      BY <3>1, <3>3, <3>4, <3>5
  <2> QED
    BY <1>3, <2>0, <2>1, <2>2
<1>8. ASSUME NEW j \in 1..Len(d), j > 1 \/ l \notin Spare PROVE t.prev[d[j]] = At(d, j - 1)
  <2>0. j \in Int /\ j >= 1 /\ j <= Len(o) - 1
    BY <1>2, <1>3
  <2>1. CASE j < i
    <3>1. d[j] = o[j] /\ j \in 1..Len(o) /\ o[j] # o[i]
      BY <1>2, <1>3, <1>5, <2>0, <2>1
    <3>2. o[j] # At(o, i + 1)
      BY <1>1, <1>3, <2>1, <3>1, AtIsLink
    <3>3. t.prev[o[j]] = s.prev[o[j]]
      BY <1>3, <3>1, <3>2 DEF Removed
    <3>4. s.prev[o[j]] = At(o, j - 1)
      BY <1>8, <3>1 DEF Chain
    <3>5. At(d, j - 1) = At(o, j - 1)
      BY <1>3, <1>4, <2>0, <2>1
    <3> QED
      BY <3>1, <3>3, <3>4, <3>5
  <2>2. CASE j >= i
    <3>1. d[j] = o[j+1] /\ j+1 \in 1..Len(o) /\ o[j+1] # o[i]
      BY <1>2, <1>3, <1>5, <2>0, <2>2
    <3>2. o[j+1] = At(o, i + 1) <=> j = i
      BY <1>1, <1>3, <2>0, <3>1, AtIsLink
    <3>3. t.prev[o[j+1]] = IF j = i THEN At(o, i - 1) ELSE s.prev[o[j+1]]
      BY <1>3, <3>1, <3>2 DEF Removed
    <3>4. s.prev[o[j+1]] = At(o, j+1 - 1)
      BY <2>0, <3>1, SMTT(40) DEF Chain
    <3>5. j = i => At(d, j - 1) = At(o, i - 1)
      BY <1>3, <1>4
    <3>6. j # i => At(d, j - 1) = At(o, j - 1 + 1)
      BY <1>3, <1>4, <2>0, <2>2
    <3>7. j - 1 + 1 = j + 1 - 1
      BY <2>0
    <3> QED
      BY <3>1, <3>3, <3>4, <3>5, <3>6, <3>7
  <2> QED
    BY <1>3, <2>0, <2>1, <2>2
<1>9. /\ Len(d) = t.list[l].size
      /\ t.list[l].first = At(d, 1) /\ t.list[l].last = At(d, Len(d))
  <2>1. /\ Len(o) = s.list[l].size
        /\ s.list[l].first = At(o, 1) /\ s.list[l].last = At(o, Len(o))
    BY DEF Chain
  <2>2. /\ At(o, i - 1) = Nil <=> i = 1
        /\ At(o, i + 1) = Nil <=> i = Len(o)
    BY <1>3 DEF At
  <2>3. /\ At(d, 1) = IF i = 1 THEN At(o, 2) ELSE At(o, 1)
        /\ At(d, Len(o) - 1) = IF i = Len(o) THEN At(o, Len(o) - 1) ELSE At(o, Len(o))
    BY <1>3, <1>4, SMTT(40)
  <2> QED
    BY <1>2, <1>3, <2>1, <2>2, <2>3 DEF Removed
<1> QED
  BY <1>2, <1>6, <1>7, <1>8, <1>9 DEF Chain, d

-----------------------------------------------------------------------------
(* What a walk from the current link has still to come to.                 *)

Ahead(o, x) == {e \in Range(o) : \E i, j \in 1..Len(o) : i < j /\ o[i] = x /\ o[j] = e}

LEMMA AheadOfInsert ==
  ASSUME NEW o \in Seq(Elems), NEW i \in 1..Len(o) + 1, NEW x \in Elems, NEW y
  PROVE  Ahead(o, y) \subseteq Ahead(InsertAt(o, i, x), y)
<1> DEFINE d == InsertAt(o, i, x)
<1>1. /\ Len(d) = Len(o) + 1 /\ Range(d) = Range(o) \cup {x}
      /\ \A j \in 1..Len(o) + 1 : d[j] = IF j < i THEN o[j] ELSE IF j = i THEN x ELSE o[j-1]
  BY InsertAtProperties, RangeOfInsertAt
<1> HIDE DEF d
<1>2. Len(o) \in Nat /\ i \in Int
  BY LenProperties
<1> SUFFICES ASSUME NEW e \in Ahead(o, y) PROVE e \in Ahead(d, y)
  BY DEF d
<1>3. PICK j \in 1..Len(o), k \in 1..Len(o) : j < k /\ o[j] = y /\ o[k] = e
  BY DEF Ahead
<1> DEFINE place(m) == IF m < i THEN m ELSE m + 1
<1>4. place(j) \in 1..Len(d) /\ place(k) \in 1..Len(d) /\ place(j) < place(k)
  BY <1>1, <1>2, <1>3
<1>5. d[place(j)] = y /\ d[place(k)] = e
  BY <1>1, <1>2, <1>3
<1>6. e \in Range(d)
  BY <1>1 DEF Ahead
<1> QED
  BY <1>4, <1>5, <1>6 DEF Ahead

LEMMA AheadOfRemove ==
  ASSUME NEW o \in Seq(Elems), Injective(o), NEW i \in 1..Len(o), NEW y, NEW z,
         \/ y = z /\ y # o[i]
         \/ y = o[i] /\ z \in {At(o, i - 1), At(o, i + 1)} \ {Nil}
  PROVE  Ahead(o, y) \ {o[i], z} \subseteq Ahead(RemoveAt(o, i), z)
<1> DEFINE d == RemoveAt(o, i)
<1>0. i \in DOMAIN o /\ \A m, n \in 1..Len(o) : o[m] = o[n] => m = n
  BY LenProperties DEF Injective
<1>1. /\ Len(d) = Len(o) - 1 /\ Range(d) = Range(o) \ {o[i]}
      /\ \A j \in 1..Len(o) - 1 : d[j] = IF j < i THEN o[j] ELSE o[j+1]
  BY <1>0, RemoveAtProperties, RangeOfRemoveAt
<1> HIDE DEF d
<1>2. Len(o) \in Nat /\ i \in Int /\ 1 <= i /\ i <= Len(o)
  BY LenProperties
<1> SUFFICES ASSUME NEW e \in Ahead(o, y), e # o[i], e # z PROVE e \in Ahead(d, z)
  BY DEF d
<1>3. PICK j \in 1..Len(o), k \in 1..Len(o) : j < k /\ o[j] = y /\ o[k] = e
  BY DEF Ahead
<1>4. e \in Range(d) /\ k # i
  BY <1>1, <1>3 DEF Ahead
<1> DEFINE place(m) == IF m < i THEN m ELSE m - 1
<1>5. ASSUME NEW m \in 1..Len(o), m # i, m < k, o[m] = z
      PROVE  e \in Ahead(d, z)
  <2>1. place(m) \in 1..Len(d) /\ place(k) \in 1..Len(d) /\ place(m) < place(k)
    BY <1>1, <1>2, <1>4, <1>5
  <2>2. d[place(m)] = z /\ d[place(k)] = e
    <3>1. \A n \in 1..Len(o) : n # i => d[place(n)] = o[n]
      <4> SUFFICES ASSUME NEW n \in 1..Len(o), n # i PROVE d[place(n)] = o[n]
        OBVIOUS
      <4>1. n < i => n \in 1..Len(o) - 1
        BY <1>2
      <4>2. ~ (n < i) => n - 1 \in 1..Len(o) - 1 /\ ~ (n - 1 < i) /\ n - 1 + 1 = n
        BY <1>2
      <4> QED
        BY <1>1, <4>1, <4>2
    <3> HIDE DEF place
    <3> QED
      BY <1>3, <1>4, <1>5, <3>1
  <2> QED
    BY <1>4, <2>1, <2>2 DEF Ahead
<1>6. CASE y = z /\ y # o[i]
  BY <1>3, <1>5, <1>6
<1>7. CASE y = o[i] /\ z = At(o, i - 1) /\ z # Nil
  <2>1. j = i /\ i - 1 \in 1..Len(o) /\ z = o[i - 1]
    BY <1>0, <1>3, <1>7 DEF At
  <2>2. i - 1 # i /\ i - 1 < k
    BY <1>2, <1>3, <2>1
  <2> QED
    BY <2>1, <2>2, <1>5
<1>8. CASE y = o[i] /\ z = At(o, i + 1) /\ z # Nil
  <2>1. j = i /\ i + 1 \in 1..Len(o) /\ z = o[i + 1]
    BY <1>0, <1>3, <1>8 DEF At
  <2>2. i + 1 # k
    BY <1>3, <2>1
  <2>3. i + 1 # i /\ i + 1 < k
    BY <1>2, <1>3, <2>1, <2>2
  <2> QED
    BY <2>1, <2>3, <1>5
<1> QED
  BY <1>6, <1>7, <1>8

-----------------------------------------------------------------------------
(* Lists that hold given sequences.                                        *)

Apart(c) == \A l, k \in Lists : l # k => Range(c[l]) \cap Range(c[k]) = {}

ListPlaced(fields, o) ==
  /\ fields.cur \in Range(o) \cup {Nil}
  /\ fields.saved \in Range(o) \cup {Nil}

\* A valid iterator, and one that has saved a position, belongs to a list.
IterPlaced(it, c) ==
  /\ it.valid \/ it.saved # Nil => it.list # Nil
  /\ it.valid /\ it.cur # Nil => it.cur \in Range(c[it.list])
  /\ it.saved # Nil => it.saved \in Range(c[it.list])

\* The state s holds the sequences c.
Holds(s, c) ==
  /\ s \in States /\ c \in [Lists -> Seq(Elems)]
  /\ Apart(c)
  /\ \A l \in Lists : Chain(s, l, c[l]) /\ ListPlaced(s.list[l], c[l])
  /\ \A i \in Iters : IterPlaced(s.iter[i], c)

Unheld(c, x) == \A k \in Lists : x \notin Range(c[k])

LEMMA HeldFacts ==
  ASSUME NEW s, NEW c, Holds(s, c), NEW l \in Lists
  PROVE  /\ c[l] \in Seq(Elems) /\ Injective(c[l]) /\ Range(c[l]) \subseteq Elems
         /\ Len(c[l]) \in Nat
         /\ \A e : e \in Range(c[l]) <=> \E i \in 1..Len(c[l]) : c[l][i] = e
         /\ \A i : At(c[l], i) \in Range(c[l]) \cup {Nil}
         /\ \A i : At(c[l], i) \in Links
<1>1. c[l] \in Seq(Elems) /\ Injective(c[l])
  BY DEF Holds, Chain
<1> QED
  BY <1>1, RangeOfSequence, AtIsLink, LenProperties DEF At, Links

\* The pointers after a link has been put between two.
LEMMA AddBetweenFields ==
  ASSUME NEW s \in States, NEW l \in Lists, NEW x \in Elems, NEW p \in Links, NEW n \in Links,
         p # x, n # x, p = n => p = Nil, NEW cur \in Links
  PROVE  LET t == AddBetween(s, l, x, [p |-> p, n |-> n], cur)
         IN /\ t \in States /\ t.iter = s.iter
            /\ \A e \in Elems :
                 /\ t.next[e] = IF e = x THEN n ELSE IF e = p THEN x ELSE s.next[e]
                 /\ t.prev[e] = IF e = x THEN p ELSE IF e = n THEN x ELSE s.prev[e]
            /\ \A k \in Lists \ {l} : t.list[k] = s.list[k]
            /\ t.list[l].first = IF p = Nil THEN x ELSE s.list[l].first
            /\ t.list[l].last = IF n = Nil THEN x ELSE s.list[l].last
            /\ t.list[l].size = s.list[l].size + 1
            /\ t.list[l].cur = cur /\ t.list[l].saved = s.list[l].saved
<1> DEFINE g == [p |-> p, n |-> n]
           t == AddBetween(s, l, x, g, cur)
<1>1. Nil \notin Elems
  BY ListAssumption
<1>2. /\ s.next \in [Elems -> Links] /\ s.prev \in [Elems -> Links]
      /\ s.list \in [Lists -> ListFields] /\ s.iter \in [Iters -> IterFields]
  BY DEF States
<1>3. /\ t.next \in [Elems -> Links]
      /\ \A e \in Elems : t.next[e] = IF e = x THEN n ELSE IF e = p THEN x ELSE s.next[e]
  BY <1>1, <1>2 DEF AddBetween, SetLink, Links
<1>4. /\ t.prev \in [Elems -> Links]
      /\ \A e \in Elems : t.prev[e] = IF e = x THEN p ELSE IF e = n THEN x ELSE s.prev[e]
  BY <1>1, <1>2 DEF AddBetween, SetLink, Links
<1>5. PICK flags \in Flags :
        t.list = [s.list EXCEPT ![l] = Fields(s.list[l], IF p = Nil THEN x ELSE s.list[l].first,
                    IF n = Nil THEN x ELSE s.list[l].last, s.list[l].size + 1, cur, flags)]
  BY DEF AddBetween, Flags, States, ListFields
<1>6. t.iter = s.iter /\ DOMAIN t = {"next", "prev", "list", "iter"}
  BY DEF AddBetween
<1>7. t = [next |-> t.next, prev |-> t.prev, list |-> t.list, iter |-> t.iter]
  BY DEF AddBetween
<1> HIDE DEF t
<1> DEFINE fields == Fields(s.list[l], IF p = Nil THEN x ELSE s.list[l].first,
                    IF n = Nil THEN x ELSE s.list[l].last, s.list[l].size + 1, cur, flags)
<1>8. /\ fields \in ListFields
      /\ fields.first = IF p = Nil THEN x ELSE s.list[l].first
      /\ fields.last = IF n = Nil THEN x ELSE s.list[l].last
      /\ fields.size = s.list[l].size + 1
      /\ fields.cur = cur /\ fields.saved = s.list[l].saved
  <2>1. s.list[l] \in ListFields /\ x \in Links
    BY <1>2 DEF Links
  <2> QED
    BY <2>1 DEF ListFields, Fields
<1>9. t.list = [s.list EXCEPT ![l] = fields]
  BY <1>5
<1> HIDE DEF fields
<1>10. t.list[l] = fields /\ t.list \in [Lists -> ListFields] /\ \A k \in Lists \ {l} : t.list[k] = s.list[k]
  BY <1>2, <1>8, <1>9
<1>11. t \in States
  BY <1>2, <1>3, <1>4, <1>6, <1>7, <1>10 DEF States
<1> QED
  BY <1>3, <1>4, <1>6, <1>8, <1>10, <1>11 DEF t

\* Every element that was ahead of a cursor and is still in its list is ahead
\* of the cursor yet, but for those that the step is about.
Unskipped(s, c, t, d, gone) ==
  \A k \in Lists :
    (Ahead(c[k], s.list[k].cur) \cap Range(d[k])) \ (gone \cup {t.list[k].cur})
      \subseteq Ahead(d[k], t.list[k].cur)

LEMMA NothingAheadOfNil ==
  ASSUME NEW o \in Seq(Elems) PROVE Ahead(o, Nil) = {}
<1>1. \A i \in 1..Len(o) : o[i] \in Elems
  BY SMTT(40)
<1> QED
  BY <1>1, ListAssumption DEF Ahead

\* Putting a link between two is inserting an element.
LEMMA AddBetweenHolds ==
  ASSUME NEW s, NEW c, Holds(s, c), NEW l \in Lists, NEW i \in 1..Len(c[l]) + 1,
         NEW x \in Elems, Unheld(c, x), NEW cur \in {x, s.list[l].cur},
         cur = x => s.list[l].cur = Nil
  PROVE  LET t == AddBetween(s, l, x, [p |-> At(c[l], i - 1), n |-> At(c[l], i)], cur)
             d == [c EXCEPT ![l] = InsertAt(@, i, x)]
         IN /\ Holds(t, d) /\ Unskipped(s, c, t, d, {})
            /\ t.iter = s.iter
            /\ \A k \in Lists : /\ Range(c[k]) \subseteq Range(d[k])
                                /\ s.list[k].cur \in {Nil, t.list[k].cur}
<1> DEFINE p == At(c[l], i - 1)
           n == At(c[l], i)
           t == AddBetween(s, l, x, [p |-> p, n |-> n], cur)
           d == [c EXCEPT ![l] = InsertAt(@, i, x)]
<1>1. /\ s \in States /\ c \in [Lists -> Seq(Elems)] /\ Apart(c)
      /\ \A k \in Lists : Chain(s, k, c[k]) /\ ListPlaced(s.list[k], c[k])
      /\ \A j \in Iters : IterPlaced(s.iter[j], c)
  BY DEF Holds
<1>2. /\ c[l] \in Seq(Elems) /\ Injective(c[l])
      /\ p \in Range(c[l]) \cup {Nil} /\ n \in Range(c[l]) \cup {Nil}
      /\ p \in Links /\ n \in Links
  BY HeldFacts
<1>3. x \notin Range(c[l]) /\ x # Nil
  BY ListAssumption DEF Unheld
<1>4. p = n => p = Nil
  <2> SUFFICES ASSUME p = n, p # Nil PROVE FALSE
    OBVIOUS
  <2>1. /\ \A m : At(c[l], m) # Nil => m \in 1..Len(c[l])
        /\ \A m \in 1..Len(c[l]), j \in Int : At(c[l], j) = c[l][m] => m = j
    BY <1>2, AtIsLink
  <2>2. i \in 1..Len(c[l]) /\ i - 1 \in 1..Len(c[l])
    BY <2>1
  <2> QED
    BY <2>1, <2>2 DEF At
<1>5. cur \in Links
  BY <1>1 DEF States, ListFields, Links
<1>6. /\ t \in States /\ t.iter = s.iter
      /\ \A e \in Elems :
           /\ t.next[e] = IF e = x THEN n ELSE IF e = p THEN x ELSE s.next[e]
           /\ t.prev[e] = IF e = x THEN p ELSE IF e = n THEN x ELSE s.prev[e]
      /\ \A k \in Lists \ {l} : t.list[k] = s.list[k]
      /\ t.list[l].first = IF p = Nil THEN x ELSE s.list[l].first
      /\ t.list[l].last = IF n = Nil THEN x ELSE s.list[l].last
      /\ t.list[l].size = s.list[l].size + 1
      /\ t.list[l].cur = cur /\ t.list[l].saved = s.list[l].saved
  <2>1. p # x /\ n # x
    BY <1>2, <1>3
  <2> HIDE DEF p, n
  <2> QED
    BY <1>1, <1>2, <1>4, <1>5, <2>1, AddBetweenFields
<1>7. /\ d \in [Lists -> Seq(Elems)] /\ d[l] = InsertAt(c[l], i, x)
      /\ Range(d[l]) = Range(c[l]) \cup {x}
      /\ \A k \in Lists \ {l} : d[k] = c[k]
  <2>1. InsertAt(c[l], i, x) \in Seq(Elems)
    BY <1>2, InsertAtProperties
  <2>2. Range(InsertAt(c[l], i, x)) = Range(c[l]) \cup {x}
    <3> DEFINE o == c[l]
    <3>1. o \in Seq(Elems) /\ i \in 1..Len(o) + 1
      BY <1>2
    <3> HIDE DEF o
    <3>2. Range(InsertAt(o, i, x)) = Range(o) \cup {x}
      BY <3>1, RangeOfInsertAt
    <3> QED
      BY <3>2 DEF o
  <2> QED
    BY <1>1, <2>1, <2>2
<1> HIDE DEF t, d
<1>8. Chain(t, l, d[l])
  <2>1. Inserted(s, t, l, c[l], i, x)
    <3>1. Range(c[l]) \cup {x} \subseteq Elems
      BY HeldFacts
    <3> QED
      BY <1>6, <3>1 DEF Inserted
  <2> QED
    BY <1>1, <1>3, <1>7, <2>1, ChainInsert
<1>9. ASSUME NEW k \in Lists \ {l} PROVE Chain(t, k, d[k])
  <2>1. Range(c[k]) \subseteq Elems /\ Range(c[k]) \cap Range(c[l]) = {} /\ x \notin Range(c[k])
    BY <1>1, HeldFacts DEF Apart, Unheld
  <2>2. Nil \notin Range(c[k])
    BY <2>1, ListAssumption
  <2>3. \A e \in Range(c[k]) : t.next[e] = s.next[e] /\ t.prev[e] = s.prev[e]
    BY <1>2, <1>6, <2>1, <2>2
  <2>4. d[k] = c[k] /\ t.list[k] = s.list[k] /\ Chain(s, k, c[k])
    BY <1>1, <1>6, <1>7
  <2> QED
    BY <2>3, <2>4, ChainKept
<1>10. Apart(d)
  BY <1>1, <1>7, ZenonT(60) DEF Apart, Unheld
<1>11. ASSUME NEW k \in Lists PROVE ListPlaced(t.list[k], d[k])
  <2>1. ListPlaced(s.list[k], c[k])
    BY <1>1
  <2>2. CASE k = l
    BY <1>6, <1>7, <2>1, <2>2 DEF ListPlaced
  <2>3. CASE k # l
    BY <1>6, <1>7, <2>1, <2>3
  <2> QED
    BY <2>2, <2>3
<1>12. \A j \in Iters : IterPlaced(t.iter[j], d)
  <2>1. \A j \in Iters : s.iter[j].list \in Lists \cup {Nil}
    BY <1>1 DEF States, IterFields
  <2>2. \A k \in Lists : Range(c[k]) \subseteq Range(d[k])
    BY <1>7
  <2> QED
    BY <1>1, <1>6, <2>1, <2>2 DEF IterPlaced
<1>13. Holds(t, d)
  BY <1>6, <1>7, <1>8, <1>9, <1>10, <1>11, <1>12 DEF Holds
<1>14. ASSUME NEW k \in Lists PROVE Ahead(c[k], s.list[k].cur) \subseteq Ahead(d[k], t.list[k].cur)
  <2>1. CASE k # l
    BY <1>6, <1>7, <2>1
  <2>2. CASE k = l /\ s.list[l].cur = Nil
    BY <1>2, <2>2, NothingAheadOfNil
  <2>3. CASE k = l /\ s.list[l].cur # Nil
    <3>1. t.list[l].cur = s.list[l].cur
      BY <1>6, <2>3
    <3> QED
      BY <1>2, <1>7, <2>3, <3>1, AheadOfInsert
  <2> QED
    BY <2>1, <2>2, <2>3
<1>15. Unskipped(s, c, t, d, {})
  BY <1>14 DEF Unskipped
<1>16. \A k \in Lists : /\ Range(c[k]) \subseteq Range(d[k])
                        /\ s.list[k].cur \in {Nil, t.list[k].cur}
  BY <1>6, <1>7
<1> QED
  BY <1>6, <1>13, <1>15, <1>16 DEF t, d

\* Next to a current link, or to none in an empty list, there is a gap.
LEMMA GapIsPlace ==
  ASSUME NEW s, NEW c, Holds(s, c), NEW l \in Lists, NEW pos \in AddPositions,
         NEW cur \in Range(c[l]) \cup {Nil},
         pos \in {"First", "Last"} \/ cur # Nil \/ s.list[l].size = 0
  PROVE  \E i \in 1..Len(c[l]) + 1 :
           Gap(s, l, pos, cur) = [p |-> At(c[l], i - 1), n |-> At(c[l], i)]
<1> DEFINE o == c[l]
<1>1. Chain(s, l, o) /\ o \in Seq(Elems) /\ Injective(o) /\ Len(o) \in Nat
  BY HeldFacts DEF Holds
<1>2. /\ Len(o) = s.list[l].size
      /\ s.list[l].first = At(o, 1) /\ s.list[l].last = At(o, Len(o))
      /\ At(o, 0) = Nil /\ At(o, Len(o) + 1) = Nil
  BY <1>1 DEF Chain, At
<1>3. CASE pos = "First"
  <2>1. Gap(s, l, pos, cur) = [p |-> At(o, 1 - 1), n |-> At(o, 1)]
    BY <1>2, <1>3 DEF Gap
  <2> QED
    BY <1>1, <2>1
<1>4. CASE pos = "Last"
  <2>1. Gap(s, l, pos, cur) = [p |-> At(o, Len(o) + 1 - 1), n |-> At(o, Len(o) + 1)]
    <3>1. Len(o) + 1 - 1 = Len(o)
      BY <1>1
    <3> QED
      BY <1>2, <1>4, <3>1 DEF Gap
  <2>2. Len(o) + 1 \in 1..Len(c[l]) + 1
    BY <1>1
  <2> WITNESS Len(o) + 1 \in 1..Len(c[l]) + 1
  <2> QED
    BY <2>1
<1>5. CASE pos \in {"BeforeCurrent", "AfterCurrent"} /\ cur = Nil
  <2>1. Len(o) = 0
    BY <1>2, <1>5
  <2>2. Gap(s, l, pos, cur) = [p |-> At(o, 1 - 1), n |-> At(o, 1)]
    BY <1>5, <2>1 DEF Gap, At
  <2> QED
    BY <1>1, <2>2
<1>6. CASE pos \in {"BeforeCurrent", "AfterCurrent"} /\ cur # Nil
  <2>1. PICK j \in 1..Len(o) : o[j] = cur
    <3>1. cur \in Range(o)
      BY <1>6
    <3> QED
      BY <1>1, <3>1, RangeOfSequence
  <2>2. /\ cur = s.list[l].first <=> j = 1
        /\ cur = s.list[l].last <=> j = Len(o)
    BY <1>1, <1>2, <2>1, AtIsLink
  <2>3. /\ s.next[cur] = At(o, j + 1)
        /\ j # 1 => s.prev[cur] = At(o, j - 1)
    BY <1>1, <2>1, SMTT(40) DEF Chain
  <2>4. CASE pos = "BeforeCurrent"
    <3>1. Before(s, l, cur) = At(o, j - 1)
      BY <1>2, <2>2, <2>3 DEF Before
    <3>2. Gap(s, l, pos, cur) = [p |-> At(o, j - 1), n |-> At(o, j)]
      BY <1>6, <2>1, <2>4, <3>1 DEF Gap, At
    <3> QED
      BY <1>1, <3>2
  <2>5. CASE pos = "AfterCurrent"
    <3>1. After(s, l, cur) = At(o, j + 1)
      BY <1>2, <2>2, <2>3 DEF After
    <3>2. j + 1 - 1 = j /\ j + 1 \in 1..Len(o) + 1
      BY <1>1
    <3>3. Gap(s, l, pos, cur) = [p |-> At(o, j + 1 - 1), n |-> At(o, j + 1)]
      BY <1>6, <2>1, <2>5, <3>1, <3>2 DEF Gap, At
    <3> QED
      BY <3>2, <3>3
  <2> QED
    BY <1>6, <2>4, <2>5
<1> QED
  BY <1>3, <1>4, <1>5, <1>6 DEF AddPositions

\* The iterators after the unlinking of x from l.
LEMMA IteratorsInformed ==
  ASSUME NEW s \in States, NEW l \in Lists, NEW x \in Elems, NEW by, NEW after \in AfterUnlink,
         NEW j \in Iters
  PROVE  LET it == s.iter[j]
             new == InformIteratorsOfUnlink(s, l, x, by, after)[j]
         IN /\ new \in IterFields
            /\ new.list = it.list /\ new.saved = it.saved
            /\ j # by => new.cur = it.cur
            /\ new.valid => it.valid
            /\ it.list # l \/ it.cur # x => new.cur = it.cur
            /\ it.list = l /\ it.cur = x /\ new.valid =>
                 /\ j = by
                 /\ s.next[x] # Nil \/ s.prev[x] # Nil => new.cur \in {s.next[x], s.prev[x]} \ {Nil}
<1> DEFINE it == s.iter[j]
           new == InformIteratorsOfUnlink(s, l, x, by, after)[j]
<1>1. it \in IterFields /\ s.next[x] \in Links /\ s.prev[x] \in Links
  BY DEF States
<1>2. new = IF it.list # l \/ it.cur # x THEN it
            ELSE IF j = by THEN Moved(s, it, after) ELSE [it EXCEPT !.valid = FALSE]
  BY DEF InformIteratorsOfUnlink
<1> HIDE DEF new, it
<1>3. CASE it.list # l \/ it.cur # x
  BY <1>1, <1>2, <1>3 DEF new, it
<1>4. CASE it.list = l /\ it.cur = x /\ j # by
  BY <1>1, <1>2, <1>4 DEF new, it, IterFields
<1>5. CASE it.list = l /\ it.cur = x /\ j = by
  <2>1. new = Moved(s, it, after)
    BY <1>2, <1>5
  <2>2. PICK cur \in Links, flags \in Flags :
          /\ new = IterAt(it, cur, flags)
          /\ s.next[x] # Nil \/ s.prev[x] # Nil => cur \in {s.next[x], s.prev[x]} \ {Nil}
    <3> DEFINE n == s.next[x]
               p == s.prev[x]
               cur == IF after = "Next" /\ n # Nil THEN n
                      ELSE IF after = "Prev" /\ p # Nil THEN p
                      ELSE IF (IF after = "Next" THEN p ELSE n) # Nil
                           THEN IF after = "Next" THEN p ELSE n ELSE x
               flags == [prev |-> it.flags.prev \/ (p = Nil /\ (after = "Prev" \/ n = Nil)),
                         next |-> it.flags.next \/ (n = Nil /\ (after = "Next" \/ p = Nil)),
                         done |-> it.flags.done]
    <3>1. new = IterAt(it, cur, flags)
      BY <1>5, <2>1 DEF Moved
    <3>2. cur \in Links
      BY <1>1 DEF Links
    <3>3. n # Nil \/ p # Nil => cur \in {n, p} \ {Nil}
      BY DEF AfterUnlink
    <3>4. flags \in Flags
      BY <1>1 DEF IterFields, Flags
    <3> HIDE DEF cur, flags
    <3> QED
      BY <3>1, <3>2, <3>3, <3>4
  <2>3. /\ new \in IterFields /\ new.list = it.list /\ new.saved = it.saved
        /\ new.cur = cur /\ new.valid = it.valid
    BY <1>1, <2>2 DEF IterAt, IterFields
  <2> QED
    BY <1>5, <2>2, <2>3 DEF new, it
<1> QED
  BY <1>3, <1>4, <1>5

LEMMA UnlinkFields ==
  ASSUME NEW s \in States, NEW l \in Lists, NEW x \in Elems, NEW by, NEW after \in AfterUnlink,
         NEW p \in Links, NEW n \in Links, p = Before(s, l, x), n = After(s, l, x)
  PROVE  LET t == Unlink(s, l, x, by, after)
         IN /\ t \in States
            /\ t.iter = InformIteratorsOfUnlink(s, l, x, by, after)
            /\ \A e \in Elems :
                 /\ t.next[e] = IF e = p THEN n ELSE s.next[e]
                 /\ t.prev[e] = IF e = n THEN p ELSE s.prev[e]
            /\ \A k \in Lists \ {l} : t.list[k] = s.list[k]
            /\ t.list[l].first = IF p = Nil THEN n ELSE s.list[l].first
            /\ t.list[l].last = IF n = Nil THEN p ELSE s.list[l].last
            /\ t.list[l].size = s.list[l].size - 1
            /\ t.list[l].cur = IF s.list[l].cur = x THEN CursorAfter(p, n, after) ELSE s.list[l].cur
            /\ t.list[l].saved = s.list[l].saved
<1> DEFINE t == Unlink(s, l, x, by, after)
<1>1. Nil \notin Elems
  BY ListAssumption
<1>2. /\ s.next \in [Elems -> Links] /\ s.prev \in [Elems -> Links]
      /\ s.list \in [Lists -> ListFields] /\ s.iter \in [Iters -> IterFields]
  BY DEF States
<1>3. /\ t.next \in [Elems -> Links]
      /\ \A e \in Elems : t.next[e] = IF e = p THEN n ELSE s.next[e]
  BY <1>1, <1>2 DEF Unlink, SetLink, Links
<1>4. /\ t.prev \in [Elems -> Links]
      /\ \A e \in Elems : t.prev[e] = IF e = n THEN p ELSE s.prev[e]
  BY <1>1, <1>2 DEF Unlink, SetLink, Links
<1> DEFINE cur == IF s.list[l].cur = x THEN CursorAfter(p, n, after) ELSE s.list[l].cur
<1>5. PICK flags \in Flags :
        t.list = [s.list EXCEPT ![l] = Fields(s.list[l], IF p = Nil THEN n ELSE s.list[l].first,
                    IF n = Nil THEN p ELSE s.list[l].last, s.list[l].size - 1, cur, flags)]
  BY ZenonT(60) DEF Unlink, Flags, States, ListFields
<1>6. t.iter = InformIteratorsOfUnlink(s, l, x, by, after)
  BY DEF Unlink
<1>7. t = [next |-> t.next, prev |-> t.prev, list |-> t.list, iter |-> t.iter]
  BY DEF Unlink
<1> HIDE DEF t
<1>8. t.iter \in [Iters -> IterFields]
  <2>1. \A j \in Iters : InformIteratorsOfUnlink(s, l, x, by, after)[j] \in IterFields
    BY IteratorsInformed
  <2>2. DOMAIN t.iter = Iters /\ t.iter = [j \in Iters |-> t.iter[j]]
    BY <1>6 DEF InformIteratorsOfUnlink
  <2> QED
    BY <1>6, <2>1, <2>2
<1>9. cur \in Links
  BY <1>2 DEF CursorAfter, ListFields
<1> DEFINE fields == Fields(s.list[l], IF p = Nil THEN n ELSE s.list[l].first,
                    IF n = Nil THEN p ELSE s.list[l].last, s.list[l].size - 1, cur, flags)
<1> HIDE DEF cur
<1>10. /\ fields \in ListFields
       /\ fields.first = IF p = Nil THEN n ELSE s.list[l].first
       /\ fields.last = IF n = Nil THEN p ELSE s.list[l].last
       /\ fields.size = s.list[l].size - 1
       /\ fields.cur = cur /\ fields.saved = s.list[l].saved
  <2>1. s.list[l] \in ListFields
    BY <1>2
  <2> QED
    BY <1>9, <2>1 DEF ListFields, Fields
<1>11. t.list = [s.list EXCEPT ![l] = fields]
  BY <1>5
<1> HIDE DEF fields
<1>12. t.list[l] = fields /\ t.list \in [Lists -> ListFields] /\ \A k \in Lists \ {l} : t.list[k] = s.list[k]
  BY <1>2, <1>10, <1>11
<1>13. t \in States
  BY <1>3, <1>4, <1>7, <1>8, <1>12 DEF States
<1> QED
  BY <1>3, <1>4, <1>6, <1>10, <1>12, <1>13 DEF t, cur

\* No position of l that somebody has saved is that of x.
NotSaved(s, l, x) ==
  /\ s.list[l].saved # x
  /\ \A j \in Iters : s.iter[j].list = l => s.iter[j].saved # x

\* t holds d, which is what s holds without x of list l; only the cursors that
\* stood on x, and the iterator that unlinked, are elsewhere.
Unlinked(s, c, t, d, l, x, by) ==
  /\ Holds(t, d) /\ Unskipped(s, c, t, d, {x}) /\ Unheld(d, x)
  /\ x \in Elems
  /\ \A k \in Lists : /\ Range(d[k]) = Range(c[k]) \ {x}
                      /\ k # l => t.list[k] = s.list[k]
                      /\ s.list[k].cur # x => t.list[k].cur = s.list[k].cur
  /\ \A j \in Iters : /\ t.iter[j].list = s.iter[j].list
                      /\ j # by => t.iter[j].cur = s.iter[j].cur

\* Unlinking is taking an element out.  An iterator that unlinks its own link
\* has another one to go to.
LEMMA UnlinkHolds ==
  ASSUME NEW s, NEW c, Holds(s, c), NEW l \in Lists, NEW i \in 1..Len(c[l]),
         NEW by, NEW after \in AfterUnlink, NotSaved(s, l, c[l][i]),
         by \in Iters => Len(c[l]) > 1
  PROVE  Unlinked(s, c, Unlink(s, l, c[l][i], by, after),
                  [c EXCEPT ![l] = RemoveAt(@, i)], l, c[l][i], by)
<1> DEFINE o == c[l]
           x == o[i]
           p == At(o, i - 1)
           n == At(o, i + 1)
           t == Unlink(s, l, x, by, after)
           d == [c EXCEPT ![l] = RemoveAt(@, i)]
<1>1. /\ s \in States /\ c \in [Lists -> Seq(Elems)] /\ Apart(c)
      /\ \A k \in Lists : Chain(s, k, c[k]) /\ ListPlaced(s.list[k], c[k])
      /\ \A j \in Iters : IterPlaced(s.iter[j], c)
  BY DEF Holds
<1>2. /\ o \in Seq(Elems) /\ Injective(o) /\ Len(o) \in Nat /\ i \in 1..Len(o)
      /\ p \in Range(o) \cup {Nil} /\ n \in Range(o) \cup {Nil}
      /\ p \in Links /\ n \in Links
  BY HeldFacts
<1>3. /\ \A j \in 1..Len(o) : o[j] \in Elems /\ o[j] \in Range(o) /\ At(o, j) = o[j] /\ At(o, j) # Nil
      /\ \A j : At(o, j) # Nil => j \in 1..Len(o)
      /\ \A j \in 1..Len(o), k \in Int : At(o, k) = o[j] => j = k
  BY <1>2, AtIsLink
<1>4. /\ Len(o) = s.list[l].size
      /\ s.list[l].first = At(o, 1) /\ s.list[l].last = At(o, Len(o))
      /\ s.next[x] = n /\ (i > 1 \/ l \notin Spare => s.prev[x] = p)
  BY <1>1, <1>2 DEF Chain
<1>5. x \in Elems /\ x \in Range(o) /\ x # Nil
  BY <1>2, <1>3, ListAssumption
<1>6. p # x /\ n # x
  BY <1>2, <1>3
<1>7. p = Before(s, l, x) /\ n = After(s, l, x)
  <2>1. x = At(o, 1) <=> i = 1
    BY <1>2, <1>3
  <2>2. x = At(o, Len(o)) <=> i = Len(o)
    BY <1>2, <1>3
  <2>3. (i = 1 => p = Nil) /\ (i = Len(o) => n = Nil)
    BY <1>2 DEF At
  <2>4. i # 1 => i > 1
    BY <1>2
  <2> HIDE DEF p, n, x, o
  <2> QED
    BY <1>4, <2>1, <2>2, <2>3, <2>4 DEF Before, After
<1>8. /\ t \in States
      /\ t.iter = InformIteratorsOfUnlink(s, l, x, by, after)
      /\ \A e \in Elems :
           /\ t.next[e] = IF e = p THEN n ELSE s.next[e]
           /\ t.prev[e] = IF e = n THEN p ELSE s.prev[e]
      /\ \A k \in Lists \ {l} : t.list[k] = s.list[k]
      /\ t.list[l].first = IF p = Nil THEN n ELSE s.list[l].first
      /\ t.list[l].last = IF n = Nil THEN p ELSE s.list[l].last
      /\ t.list[l].size = s.list[l].size - 1
      /\ t.list[l].cur = IF s.list[l].cur = x THEN CursorAfter(p, n, after) ELSE s.list[l].cur
      /\ t.list[l].saved = s.list[l].saved
  <2> HIDE DEF p, n, x, o
  <2> QED
    BY <1>1, <1>2, <1>5, <1>7, UnlinkFields
<1>9. /\ d \in [Lists -> Seq(Elems)] /\ d[l] = RemoveAt(o, i)
      /\ Range(d[l]) = Range(o) \ {x}
      /\ \A k \in Lists \ {l} : d[k] = c[k]
  <2>1. RemoveAt(o, i) \in Seq(Elems) /\ Range(RemoveAt(o, i)) = Range(o) \ {o[i]}
    <3> HIDE DEF o
    <3>1. i \in DOMAIN o
      BY <1>2, LenProperties
    <3>2. \A j, k \in 1..Len(o) : o[j] = o[k] => j = k
      BY <1>2 DEF Injective
    <3> QED
      BY <1>2, <3>1, <3>2, RemoveAtProperties, RangeOfRemoveAt
  <2> QED
    BY <1>1, <2>1
<1>10. \A j \in Iters :
         LET it == s.iter[j]
             new == t.iter[j]
         IN /\ new.list = it.list /\ new.saved = it.saved
            /\ j # by => new.cur = it.cur
            /\ new.valid => it.valid
            /\ it.list # l \/ it.cur # x => new.cur = it.cur
            /\ it.list = l /\ it.cur = x /\ new.valid =>
                 /\ j = by
                 /\ s.next[x] # Nil \/ s.prev[x] # Nil => new.cur \in {s.next[x], s.prev[x]} \ {Nil}
  <2> HIDE DEF x
  <2> QED
    BY <1>1, <1>5, <1>8, IteratorsInformed
<1> HIDE DEF t, d
<1>11. Chain(t, l, d[l])
  <2>1. Range(o) \subseteq Elems
    BY HeldFacts
  <2>2. Removed(s, t, l, o, i)
    BY <1>8, <2>1 DEF Removed
  <2>3. Chain(t, l, RemoveAt(o, i))
    <3> HIDE DEF o
    <3>1. Chain(s, l, o)
      BY <1>1 DEF o
    <3> QED
      BY <1>2, <2>2, <3>1, ChainRemove
  <2> QED
    BY <1>9, <2>3
<1>12. ASSUME NEW k \in Lists \ {l} PROVE Chain(t, k, d[k])
  <2>1. Range(c[k]) \subseteq Elems /\ Range(c[k]) \cap Range(o) = {}
    BY <1>1, HeldFacts DEF Apart
  <2>2. Nil \notin Range(c[k])
    BY <2>1, ListAssumption
  <2>3. \A e \in Range(c[k]) : t.next[e] = s.next[e] /\ t.prev[e] = s.prev[e]
    BY <1>2, <1>8, <2>1, <2>2
  <2>4. d[k] = c[k] /\ t.list[k] = s.list[k] /\ Chain(s, k, c[k])
    BY <1>1, <1>8, <1>9
  <2> QED
    BY <2>3, <2>4, ChainKept
<1>13. \A k \in Lists : Range(d[k]) = Range(c[k]) \ {x}
  BY <1>1, <1>5, <1>9 DEF Apart
<1>14. Apart(d) /\ Unheld(d, x)
  BY <1>1, <1>13 DEF Apart, Unheld
<1>15. s.list[l].cur = x => t.list[l].cur \in {p, n} /\ (t.list[l].cur = Nil => p = Nil /\ n = Nil)
  BY <1>8 DEF CursorAfter, AfterUnlink
<1>16. ASSUME NEW k \in Lists PROVE ListPlaced(t.list[k], d[k])
  <2>1. ListPlaced(s.list[k], c[k])
    BY <1>1
  <2>2. CASE k = l
    <3>1. t.list[l].cur \in Range(d[l]) \cup {Nil}
      <4>1. CASE s.list[l].cur = x
        BY <1>2, <1>6, <1>9, <1>15, <4>1
      <4>2. CASE s.list[l].cur # x
        BY <1>8, <1>9, <2>1, <2>2, <4>2 DEF ListPlaced
      <4> QED
        BY <4>1, <4>2
    <3>2. t.list[l].saved \in Range(d[l]) \cup {Nil}
      BY <1>8, <1>9, <2>1, <2>2 DEF ListPlaced, NotSaved
    <3> QED
      BY <2>2, <3>1, <3>2 DEF ListPlaced
  <2>3. CASE k # l
    BY <1>8, <1>9, <2>1, <2>3
  <2> QED
    BY <2>2, <2>3
<1>17. ASSUME NEW j \in Iters PROVE IterPlaced(t.iter[j], d)
  <2> DEFINE it == s.iter[j]
             new == t.iter[j]
  <2>1. /\ it.list \in (Lists \ Spare) \cup {Nil} /\ Nil \notin Lists
        /\ IterPlaced(it, c)
    BY <1>1, ListAssumption DEF States, IterFields
  <2>2. /\ new.list = it.list /\ new.saved = it.saved /\ (new.valid => it.valid)
        /\ it.list # l \/ it.cur # x => new.cur = it.cur
        /\ it.list = l /\ it.cur = x /\ new.valid =>
             /\ j = by
             /\ s.next[x] # Nil \/ s.prev[x] # Nil => new.cur \in {s.next[x], s.prev[x]} \ {Nil}
    BY <1>10
  <2> HIDE DEF it, new, x, p, n
  <2>3. new.saved # Nil => new.list # Nil /\ new.saved \in Range(d[new.list])
    <3> SUFFICES ASSUME new.saved # Nil PROVE new.list # Nil /\ new.saved \in Range(d[new.list])
      OBVIOUS
    <3>1. it.list \in Lists /\ it.saved \in Range(c[it.list])
      BY <2>1, <2>2 DEF IterPlaced
    <3>2. it.saved # x
      <4>1. it.list = l => it.saved # x
        BY DEF NotSaved, it, x
      <4>2. it.list # l => x \notin Range(c[it.list])
        BY <1>1, <1>5, <3>1 DEF Apart
      <4> QED
        BY <3>1, <4>1, <4>2
    <3> QED
      BY <1>13, <2>1, <2>2, <3>1, <3>2
  <2>4. new.valid => new.list # Nil
    BY <2>1, <2>2 DEF IterPlaced
  <2>5. new.valid /\ new.cur # Nil => new.cur \in Range(d[new.list])
    <3> SUFFICES ASSUME new.valid, new.cur # Nil PROVE new.cur \in Range(d[new.list])
      OBVIOUS
    <3>1. it.list \in Lists \ Spare /\ it.valid /\ new.list = it.list
      BY <2>1, <2>2 DEF IterPlaced
    <3>2. CASE it.list = l /\ it.cur = x
      <4>1. j = by /\ Len(o) > 1
        BY <2>2, <3>2
      <4>2. s.next[x] = n /\ s.prev[x] = p
        BY <1>4, <3>1, <3>2
      <4>3. n # Nil \/ p # Nil
        <5>1. i + 1 \in 1..Len(o) \/ i - 1 \in 1..Len(o)
          BY <1>2, <4>1
        <5> QED
          BY <1>3, <5>1 DEF p, n
      <4>4. new.cur \in {n, p} \ {Nil}
        BY <2>2, <3>2, <4>2, <4>3
      <4>5. new.cur \in Range(o) /\ new.cur # x
        BY <1>2, <1>6, <4>4
      <4>6. Range(d[l]) = Range(o) \ {x}
        BY <1>13
      <4> QED
        BY <3>1, <3>2, <4>5, <4>6
    <3>3. CASE it.list # l \/ it.cur # x
      <4>1. new.cur = it.cur /\ it.cur \in Range(c[it.list])
        BY <2>1, <2>2, <3>1, <3>3 DEF IterPlaced
      <4>2. it.list # l => x \notin Range(c[it.list])
        BY <1>1, <1>5, <3>1 DEF Apart
      <4> QED
        BY <1>13, <3>1, <3>3, <4>1, <4>2
    <3> QED
      BY <3>2, <3>3
  <2> QED
    BY <2>3, <2>4, <2>5 DEF IterPlaced, new
<1>18. Holds(t, d)
  BY <1>8, <1>9, <1>11, <1>12, <1>14, <1>16, <1>17 DEF Holds
<1>19. ASSUME NEW k \in Lists
       PROVE  Ahead(c[k], s.list[k].cur) \ {x, t.list[k].cur} \subseteq Ahead(d[k], t.list[k].cur)
  <2>1. CASE k # l
    BY <1>8, <1>9, <2>1
  <2>2. CASE k = l /\ s.list[l].cur # x
    <3>1. t.list[l].cur = s.list[l].cur
      BY <1>8, <2>2
    <3> HIDE DEF o
    <3>2. Ahead(o, s.list[l].cur) \ {o[i], s.list[l].cur} \subseteq Ahead(RemoveAt(o, i), s.list[l].cur)
      BY <1>2, <2>2, AheadOfRemove
    <3> QED
      BY <1>9, <2>2, <3>1, <3>2 DEF o
  <2>3. CASE k = l /\ s.list[l].cur = x /\ t.list[l].cur # Nil
    <3> DEFINE z == t.list[l].cur
    <3>1. z \in {At(o, i - 1), At(o, i + 1)} \ {Nil}
      BY <1>15, <2>3
    <3> HIDE DEF o, z
    <3>2. Ahead(o, o[i]) \ {o[i], z} \subseteq Ahead(RemoveAt(o, i), z)
      BY <1>2, <3>1, AheadOfRemove
    <3> QED
      BY <1>9, <2>3, <3>2 DEF o, z
  <2>4. CASE k = l /\ s.list[l].cur = x /\ t.list[l].cur = Nil
    <3>1. i = 1 /\ Len(o) = 1
      <4>1. p = Nil /\ n = Nil
        BY <1>15, <2>4
      <4>2. i - 1 \notin 1..Len(o) /\ i + 1 \notin 1..Len(o)
        BY <1>3, <4>1
      <4>3. i \in Int /\ Len(o) \in Int /\ 1 <= i /\ i <= Len(o)
        BY <1>2
      <4>4. ~ (1 <= i - 1) /\ ~ (i + 1 <= Len(o))
        <5> HIDE DEF o
        <5> QED
          BY <4>2, <4>3
      <4> DEFINE m == Len(o)
      <4>5. m \in Int /\ 1 <= i /\ i <= m /\ i - 1 < 1 /\ m < i + 1
        <5> HIDE DEF o
        <5> QED
          BY <4>3, <4>4
      <4> HIDE DEF m
      <4>6. i = 1
        BY <4>3, <4>5
      <4>7. m = 1
        BY <4>5, <4>6
      <4> QED
        BY <4>6, <4>7 DEF m
    <3>2. Ahead(o, x) = {}
      BY <3>1 DEF Ahead
    <3> QED
      BY <2>4, <3>2
  <2> QED
    BY <2>1, <2>2, <2>3, <2>4
<1>20. Unskipped(s, c, t, d, {x})
  BY <1>19 DEF Unskipped
<1>21. \A k \in Lists : /\ k # l => t.list[k] = s.list[k]
                        /\ s.list[k].cur # x => t.list[k].cur = s.list[k].cur
  BY <1>8
<1> HIDE DEF p, n
<1> QED
  BY <1>5, <1>10, <1>13, <1>14, <1>18, <1>20, <1>21 DEF Unlinked, t, d

\* A link that no list holds may have any pointers.
LEMMA ForgetHolds ==
  ASSUME NEW s, NEW c, Holds(s, c), NEW x \in Elems, Unheld(c, x)
  PROVE  /\ Holds(Forget(s, x), c)
         /\ Forget(s, x).list = s.list /\ Forget(s, x).iter = s.iter
<1> DEFINE t == Forget(s, x)
<1>1. /\ s \in States /\ c \in [Lists -> Seq(Elems)] /\ Apart(c)
      /\ \A k \in Lists : Chain(s, k, c[k]) /\ ListPlaced(s.list[k], c[k])
      /\ \A j \in Iters : IterPlaced(s.iter[j], c)
  BY DEF Holds
<1>2. /\ t.list = s.list /\ t.iter = s.iter /\ t \in States
      /\ \A e \in Elems \ {x} : t.next[e] = s.next[e] /\ t.prev[e] = s.prev[e]
  BY <1>1 DEF Forget, States, Links
<1> HIDE DEF t
<1>3. ASSUME NEW k \in Lists PROVE Chain(t, k, c[k])
  <2>1. Range(c[k]) \subseteq Elems \ {x}
    BY HeldFacts DEF Unheld
  <2>2. \A e \in Range(c[k]) : t.next[e] = s.next[e] /\ t.prev[e] = s.prev[e]
    BY <1>2, <2>1
  <2> QED
    BY <1>1, <1>2, <2>2, ChainKept
<1>4. Holds(t, c)
  BY <1>1, <1>2, <1>3 DEF Holds
<1> QED
  BY <1>2, <1>4 DEF t

\* A list, or an iterator, may take another place of the list.
LEMMA ListChanged ==
  ASSUME NEW s, NEW c, Holds(s, c), NEW l \in Lists, NEW fields \in ListFields,
         fields.first = s.list[l].first, fields.last = s.list[l].last,
         fields.size = s.list[l].size, ListPlaced(fields, c[l])
  PROVE  /\ Holds(WithList(s, l, fields), c)
         /\ WithList(s, l, fields).iter = s.iter
         /\ WithList(s, l, fields).list[l] = fields
         /\ \A k \in Lists \ {l} : WithList(s, l, fields).list[k] = s.list[k]
<1> DEFINE t == WithList(s, l, fields)
<1>1. /\ s \in States /\ c \in [Lists -> Seq(Elems)] /\ Apart(c)
      /\ \A k \in Lists : Chain(s, k, c[k]) /\ ListPlaced(s.list[k], c[k])
      /\ \A j \in Iters : IterPlaced(s.iter[j], c)
  BY DEF Holds
<1>2. /\ t \in States /\ t.next = s.next /\ t.prev = s.prev /\ t.iter = s.iter
      /\ t.list[l] = fields /\ \A k \in Lists \ {l} : t.list[k] = s.list[k]
  BY <1>1 DEF WithList, States
<1> HIDE DEF t
<1>3. ASSUME NEW k \in Lists PROVE Chain(t, k, c[k]) /\ ListPlaced(t.list[k], c[k])
  <2>1. t.list[k].first = s.list[k].first /\ t.list[k].last = s.list[k].last /\ t.list[k].size = s.list[k].size
    BY <1>2
  <2>2. Chain(t, k, c[k])
    BY <1>1, <1>2, <2>1, ChainKept
  <2>3. ListPlaced(t.list[k], c[k])
    BY <1>1, <1>2
  <2> QED
    BY <2>2, <2>3
<1>4. Holds(t, c)
  BY <1>1, <1>2, <1>3 DEF Holds
<1> QED
  BY <1>2, <1>4 DEF t

LEMMA IterChanged ==
  ASSUME NEW s, NEW c, Holds(s, c), NEW i \in Iters, NEW it \in IterFields, IterPlaced(it, c)
  PROVE  /\ Holds(WithIter(s, i, it), c)
         /\ WithIter(s, i, it).list = s.list
<1> DEFINE t == WithIter(s, i, it)
<1>1. /\ s \in States /\ c \in [Lists -> Seq(Elems)] /\ Apart(c)
      /\ \A k \in Lists : Chain(s, k, c[k]) /\ ListPlaced(s.list[k], c[k])
      /\ \A j \in Iters : IterPlaced(s.iter[j], c)
  BY DEF Holds
<1>2. /\ t \in States /\ t.next = s.next /\ t.prev = s.prev /\ t.list = s.list
      /\ t.iter[i] = it /\ \A j \in Iters \ {i} : t.iter[j] = s.iter[j]
  BY <1>1 DEF WithIter, States
<1> HIDE DEF t
<1>3. ASSUME NEW k \in Lists PROVE Chain(t, k, c[k])
  BY <1>1, <1>2, ChainKept
<1>4. Holds(t, c)
  BY <1>1, <1>2, <1>3 DEF Holds
<1> QED
  BY <1>2, <1>4 DEF t

LEMMA FlaggedTyped ==
  ASSUME NEW flags \in Flags, NEW flag \in {"prev", "next", "done"}
  PROVE  Flagged(flags, flag) \in Flags
BY DEF Flagged, Flags

LEMMA IterationDoneHolds ==
  ASSUME NEW s, NEW c, Holds(s, c), NEW l \in Lists
  PROVE  /\ Holds(IterationDone(s, l), c)
         /\ \A k \in Lists : IterationDone(s, l).list[k].cur = s.list[k].cur
<1> DEFINE flags == Flagged(s.list[l].flags, "done")
           fields == CursorAt(s.list[l], s.list[l].cur, flags)
<1>1. s \in States /\ s.list[l] \in ListFields /\ ListPlaced(s.list[l], c[l])
  BY DEF Holds, States
<1>2. flags \in Flags
  BY <1>1, FlaggedTyped DEF ListFields
<1>3. IterationDone(s, l) = WithList(s, l, fields)
  BY DEF IterationDone
<1> HIDE DEF flags
<1>4. /\ fields \in ListFields /\ fields.cur = s.list[l].cur /\ fields.saved = s.list[l].saved
      /\ fields.first = s.list[l].first /\ fields.last = s.list[l].last /\ fields.size = s.list[l].size
  BY <1>1, <1>2 DEF CursorAt, Fields, ListFields
<1>5. ListPlaced(fields, c[l])
  BY <1>1, <1>4 DEF ListPlaced
<1> HIDE DEF fields
<1> QED
  BY <1>3, <1>4, <1>5, ListChanged

-----------------------------------------------------------------------------
(* Adding, at the list's own cursor and at that of an iterator.            *)

\* t holds what s does and one more.
AddedTo(s, c, t, l, x) ==
  \E i \in 1..Len(c[l]) + 1 :
    LET d == [c EXCEPT ![l] = InsertAt(@, i, x)]
    IN /\ Holds(t, d) /\ Unskipped(s, c, t, d, {})
       /\ \A k \in Lists : s.list[k].cur \in {Nil, t.list[k].cur}

LEMMA AddAtGap ==
  ASSUME NEW s, NEW c, Holds(s, c), NEW l \in Lists, NEW x \in Elems, Unheld(c, x),
         NEW pos \in AddPositions, NEW at \in Range(c[l]) \cup {Nil},
         pos \in {"First", "Last"} \/ at # Nil \/ s.list[l].size = 0,
         NEW cur \in {x, s.list[l].cur}, cur = x => s.list[l].cur = Nil
  PROVE  AddedTo(s, c, AddBetween(s, l, x, Gap(s, l, pos, at), cur), l, x)
<1>1. PICK i \in 1..Len(c[l]) + 1 : Gap(s, l, pos, at) = [p |-> At(c[l], i - 1), n |-> At(c[l], i)]
  BY GapIsPlace, SMTT(40)
<1> DEFINE t == AddBetween(s, l, x, [p |-> At(c[l], i - 1), n |-> At(c[l], i)], cur)
           d == [c EXCEPT ![l] = InsertAt(@, i, x)]
<1>2. /\ Holds(t, d) /\ Unskipped(s, c, t, d, {})
      /\ \A k \in Lists : s.list[k].cur \in {Nil, t.list[k].cur}
  BY AddBetweenHolds, SMTT(40)
<1>3. AddBetween(s, l, x, Gap(s, l, pos, at), cur) = t
  BY <1>1
<1> HIDE DEF t
<1> QED
  BY <1>2, <1>3 DEF AddedTo

LEMMA AddCommonHolds ==
  ASSUME NEW s, NEW c, Holds(s, c), NEW l \in Lists, NEW x \in Elems, Unheld(c, x),
         NEW pos \in AddPositions,
         pos \in {"First", "Last"} \/ s.list[l].cur # Nil \/ s.list[l].size = 0
  PROVE  AddedTo(s, c, AddCommon(s, l, x, pos), l, x)
<1> DEFINE at == s.list[l].cur
           cur == IF at = Nil /\ pos \in {"BeforeCurrent", "AfterCurrent"} THEN x ELSE at
<1>1. at \in Range(c[l]) \cup {Nil} /\ x # at
  BY ListAssumption DEF Holds, ListPlaced, Unheld
<1>2. cur \in {x, s.list[l].cur} /\ (cur = x => s.list[l].cur = Nil)
  BY <1>1
<1>3. AddCommon(s, l, x, pos) = AddBetween(s, l, x, Gap(s, l, pos, at), cur)
  BY DEF AddCommon
<1> HIDE DEF cur
<1> QED
  BY <1>1, <1>2, <1>3, AddAtGap

LEMMA AddForIteratorHolds ==
  ASSUME NEW s, NEW c, Holds(s, c), NEW l \in Lists, NEW x \in Elems, Unheld(c, x),
         NEW pos \in AddPositions, NEW i \in Iters,
         s.iter[i].cur \in Range(c[l]) \cup {Nil},
         pos \in {"First", "Last"} \/ s.iter[i].cur # Nil \/ s.list[l].size = 0
  PROVE  AddedTo(s, c, AddForIterator(s, l, x, pos, i), l, x)
<1> DEFINE at == s.iter[i].cur
           cur == IF s.list[l].cur = Nil THEN x ELSE s.list[l].cur
<1>1. x # s.list[l].cur
  BY ListAssumption DEF Holds, ListPlaced, Unheld
<1>2. cur \in {x, s.list[l].cur} /\ (cur = x => s.list[l].cur = Nil)
  BY <1>1
<1>3. AddForIterator(s, l, x, pos, i) = AddBetween(s, l, x, Gap(s, l, pos, at), cur)
  BY DEF AddForIterator
<1> HIDE DEF cur
<1> QED
  BY <1>2, <1>3, AddAtGap

-----------------------------------------------------------------------------
(* Steps.                                                                  *)

\* The lists hold c, and what a walk has not seen yet is ahead of its cursor.
Good(c) ==
  /\ Holds(State, c)
  /\ unseen \in [Lists -> SUBSET Elems]
  /\ \A l \in Lists : unseen[l] \subseteq Ahead(c[l], list[l].cur)

\* What an operation may do to the contents of the lists.
Inserts(c, d) ==
  \E l \in Lists, x \in Elems : \E i \in 1..Len(c[l]) + 1 :
    Unheld(c, x) /\ d = [c EXCEPT ![l] = InsertAt(@, i, x)]
Takes(c, d) ==
  \E l \in Lists : \E i \in 1..Len(c[l]) : d = [c EXCEPT ![l] = RemoveAt(@, i)]
Moves(c, d) ==
  \E l, k \in Lists : \E i \in 1..Len(c[l]) :
    LET rest == [c EXCEPT ![l] = RemoveAt(@, i)]
    IN \E j \in 1..Len(rest[k]) + 1 : d = [rest EXCEPT ![k] = InsertAt(@, j, c[l][i])]
Splits(c, d) ==
  \E l, k \in Lists :
    /\ l # k /\ c[k] = <<>> /\ c[l] # <<>>
    /\ d = [m \in Lists |-> IF m = l THEN SubSeq(c[l], 1, 1)
                            ELSE IF m = k THEN SubSeq(c[l], 2, Len(c[l])) ELSE c[m]]
Clears(c, d) == \E l \in Lists : d = [c EXCEPT ![l] = <<>>]
Changes(c, d) ==
  d = c \/ Inserts(c, d) \/ Takes(c, d) \/ Moves(c, d) \/ Splits(c, d) \/ Clears(c, d)

Outcome(c) == \E d : Good(d)' /\ Changes(c, d)

LEMMA StateFields ==
  /\ State.next = next /\ State.prev = prev /\ State.list = list /\ State.iter = iter
  /\ State'.next = next' /\ State'.prev = prev' /\ State'.list = list' /\ State'.iter = iter'
BY DEF State

LEMMA LinkedIsRange ==
  ASSUME NEW s, NEW c, Holds(s, c), NEW l \in Lists
  PROVE  Linked(s, l) = Range(c[l])
<1>1. s \in States /\ Chain(s, l, c[l])
  BY DEF Holds
<1>2. Order(s, l) = c[l]
  BY <1>1, ChainIsOrder
<1> QED
  BY <1>2 DEF Linked

LEMMA BecomeIsState ==
  ASSUME NEW s \in States, Become(s)
  PROVE  State' = s
BY DEF Become, State, States

LEMMA StepGives ==
  ASSUME NEW c, Good(c), NEW s, NEW gone, NEW d, Step(s, gone), Holds(s, d),
         Unskipped(State, c, s, d, gone)
  PROVE  Good(d)'
<1>1. State' = s
  BY BecomeIsState DEF Holds, Step
<1>2. Holds(State', d)
  BY <1>1
<1>3. \A l \in Lists : Linked(s, l) = Range(d[l]) /\ Range(d[l]) \subseteq Elems
  BY LinkedIsRange, HeldFacts
<1>4. unseen' = [l \in Lists |-> (unseen[l] \cap Range(d[l])) \ (gone \cup {s.list[l].cur})]
  BY <1>3 DEF Step
<1>5. unseen' \in [Lists -> SUBSET Elems]
  BY <1>3, <1>4
<1>6. ASSUME NEW l \in Lists PROVE unseen'[l] \subseteq Ahead(d[l], list'[l].cur)
  <2>1. unseen[l] \subseteq Ahead(c[l], list[l].cur) /\ list'[l].cur = s.list[l].cur
    BY <1>1, StateFields DEF Good
  <2>2. (Ahead(c[l], list[l].cur) \cap Range(d[l])) \ (gone \cup {s.list[l].cur})
          \subseteq Ahead(d[l], s.list[l].cur)
    BY StateFields DEF Unskipped
  <2> QED
    BY <1>4, <2>1, <2>2
<1> QED
  BY <1>2, <1>5, <1>6 DEF Good

LEMMA JumpGives ==
  ASSUME NEW c, Good(c), NEW s, NEW l \in Lists, NEW d, Jump(s, l), Holds(s, d),
         \A k \in Lists \ {l} : Ahead(c[k], list[k].cur) \subseteq Ahead(d[k], s.list[k].cur)
  PROVE  Good(d)'
<1>1. State' = s
  BY BecomeIsState DEF Holds, Jump
<1>2. Holds(State', d)
  BY <1>1
<1>3. unseen' = [unseen EXCEPT ![l] = {}] /\ unseen \in [Lists -> SUBSET Elems]
  BY DEF Jump, Good
<1>4. ASSUME NEW k \in Lists PROVE unseen'[k] \subseteq Ahead(d[k], list'[k].cur)
  <2>1. unseen[k] \subseteq Ahead(c[k], list[k].cur) /\ list'[k].cur = s.list[k].cur
    BY <1>1, StateFields DEF Good
  <2> QED
    BY <1>3, <2>1
<1> QED
  BY <1>2, <1>3, <1>4 DEF Good

\* What was not skipped by an unlinking is not skipped by linking again.
LEMMA UnskippedByMove ==
  ASSUME NEW s, NEW c, NEW m, NEW e, NEW x, NEW l \in Lists, NEW t,
         NEW i \in 1..Len(e[l]) + 1, x \in Elems, Holds(s, c), Holds(m, e),
         Unskipped(s, c, m, e, {x}), Unskipped(m, e, t, [e EXCEPT ![l] = InsertAt(@, i, x)], {}),
         \A k \in Lists : m.list[k].cur \in {Nil, t.list[k].cur}
  PROVE  Unskipped(s, c, t, [e EXCEPT ![l] = InsertAt(@, i, x)], {x})
<1> DEFINE d == [e EXCEPT ![l] = InsertAt(@, i, x)]
<1>1. \A k \in Lists : Range(d[k]) \subseteq Range(e[k]) \cup {x}
  <2>1. e \in [Lists -> Seq(Elems)] /\ e[l] \in Seq(Elems)
    BY DEF Holds
  <2>2. Range(InsertAt(e[l], i, x)) = Range(e[l]) \cup {x}
    BY <2>1, RangeOfInsertAt
  <2> QED
    BY <2>1, <2>2
<1> HIDE DEF d
<1> SUFFICES ASSUME NEW k \in Lists,
                    NEW y \in (Ahead(c[k], s.list[k].cur) \cap Range(d[k])) \ ({x} \cup {t.list[k].cur})
             PROVE  y \in Ahead(d[k], t.list[k].cur)
  BY DEF Unskipped, d
<1>2. y \in Range(e[k]) /\ y # Nil
  <2>1. Range(c[k]) \subseteq Elems /\ y \in Range(c[k])
    BY HeldFacts DEF Ahead
  <2> QED
    BY <1>1, <2>1, ListAssumption
<1>3. y # m.list[k].cur
  BY <1>2
<1>4. y \in Ahead(e[k], m.list[k].cur)
  BY <1>2, <1>3 DEF Unskipped
<1> QED
  BY <1>4 DEF Unskipped, d

-----------------------------------------------------------------------------
(* The operations that add and unlink.                                     *)

CarefulClients == ~CursorlessAdds /\ ~UnlinksSaved

LEMMA FreshIsUnheld ==
  ASSUME NEW c, Good(c), NEW e, Fresh(e)
  PROVE  Unheld(c, e)
<1>1. \A k \in Lists : e \notin Linked(State, k)
  BY DEF Fresh
<1> QED
  BY <1>1, LinkedIsRange DEF Good, Unheld

LEMMA MayUnlinkIsNotSaved ==
  ASSUME CarefulClients, NEW l, NEW x, MayUnlink(l, x)
  PROVE  NotSaved(State, l, x)
BY StateFields DEF MayUnlink, NotSaved, CarefulClients

\* A link that a list holds, and one that is current, is at some place of it.
LEMMA PlaceOf ==
  ASSUME NEW c, Good(c), NEW l \in Lists, NEW x \in Linked(State, l)
  PROVE  \E i \in 1..Len(c[l]) : c[l][i] = x
<1>1. Holds(State, c)
  BY DEF Good
<1>2. x \in Range(c[l])
  BY <1>1, LinkedIsRange
<1>3. c[l] \in Seq(Elems)
  BY <1>1 DEF Holds
<1> QED
  BY <1>2, <1>3, RangeOfSequence

LEMMA PlaceOfCursor ==
  ASSUME NEW c, Good(c), NEW l \in Lists, list[l].cur # Nil
  PROVE  /\ list[l].cur \in Linked(State, l)
         /\ \E i \in 1..Len(c[l]) : c[l][i] = list[l].cur
<1>1. Holds(State, c) /\ ListPlaced(list[l], c[l])
  BY StateFields DEF Good, Holds
<1>2. list[l].cur \in Linked(State, l)
  BY <1>1, LinkedIsRange DEF ListPlaced
<1> QED
  BY <1>2, PlaceOf

LEMMA AddedGives ==
  ASSUME NEW c, Good(c), NEW l \in Lists, NEW e \in Elems, Unheld(c, e), NEW t,
         AddedTo(State, c, t, l, e), Step(t, {})
  PROVE  Outcome(c)
<1>1. PICK i \in 1..Len(c[l]) + 1 :
        LET d == [c EXCEPT ![l] = InsertAt(@, i, e)]
        IN Holds(t, d) /\ Unskipped(State, c, t, d, {})
  BY DEF AddedTo
<1> DEFINE d == [c EXCEPT ![l] = InsertAt(@, i, e)]
<1>2. Good(d)'
  BY <1>1, StepGives
<1>3. Changes(c, d)
  BY DEF Changes, Inserts
<1> QED
  BY <1>2, <1>3 DEF Outcome

LEMMA AddGives ==
  ASSUME CarefulClients, NEW c, Good(c), NEW l \in Lists, NEW e \in Elems, NEW pos \in AddPositions,
         Add(l, e, pos)
  PROVE  Outcome(c)
<1>1. Holds(State, c) /\ Unheld(c, e)
  BY FreshIsUnheld DEF Add, Good
<1>2. pos \in {"First", "Last"} \/ State.list[l].cur # Nil \/ State.list[l].size = 0
  BY StateFields DEF Add, MayAdd, CarefulClients
<1>3. AddedTo(State, c, AddCommon(State, l, e, pos), l, e)
  BY <1>1, <1>2, AddCommonHolds
<1>4. Step(AddCommon(State, l, e, pos), {})
  BY DEF Add
<1> QED
  BY <1>1, <1>3, <1>4, AddedGives

\* Of an iterator that exists, the list and the place in it.
LEMMA IteratorFacts ==
  ASSUME NEW c, Good(c), NEW i \in Iters, Exists(i)
  PROVE  /\ iter[i].list \in Lists \ Spare
         /\ Linked(State, iter[i].list) = Range(c[iter[i].list])
         /\ Placed(i) => iter[i].cur \in Range(c[iter[i].list]) /\ iter[i].cur \in Elems
<1>1. Holds(State, c) /\ State.iter[i] \in IterFields
  BY DEF Good, Holds, States
<1>2. iter[i].list \in Lists \ Spare
  BY <1>1, StateFields DEF Exists, IterFields
<1> QED
  BY <1>1, <1>2, LinkedIsRange, HeldFacts DEF Placed

LEMMA AddForGives ==
  ASSUME CarefulClients, NEW c, Good(c), NEW i \in Iters, NEW e \in Elems, NEW pos \in AddPositions,
         AddFor(i, e, pos)
  PROVE  Outcome(c)
<1> DEFINE l == iter[i].list
<1>1. Holds(State, c) /\ Unheld(c, e)
  BY FreshIsUnheld DEF AddFor, Good
<1>2. l \in Lists /\ State.iter[i].cur \in Range(c[l]) \cup {Nil}
  BY IteratorFacts, StateFields DEF AddFor
<1>3. pos \in {"First", "Last"} \/ State.iter[i].cur # Nil \/ State.list[l].size = 0
  BY StateFields DEF AddFor, MayAdd, CarefulClients
<1>4. Step(AddForIterator(State, l, e, pos, i), {})
  BY DEF AddFor
<1> HIDE DEF l
<1>5. AddedTo(State, c, AddForIterator(State, l, e, pos, i), l, e)
  BY <1>1, <1>2, <1>3, AddForIteratorHolds
<1> QED
  BY <1>1, <1>2, <1>4, <1>5, AddedGives

LEMMA UnlinkOut ==
  ASSUME CarefulClients, NEW c, Good(c), NEW l \in Lists, NEW i \in 1..Len(c[l]),
         NEW by, NEW after \in AfterUnlink, MayUnlink(l, c[l][i]),
         by \in Iters => Len(c[l]) > 1
  PROVE  Unlinked(State, c, Unlink(State, l, c[l][i], by, after),
                  [c EXCEPT ![l] = RemoveAt(@, i)], l, c[l][i], by)
<1>1. Holds(State, c) /\ NotSaved(State, l, c[l][i])
  BY MayUnlinkIsNotSaved DEF Good
<1> QED
  BY <1>1, UnlinkHolds

LEMMA TakenGives ==
  ASSUME CarefulClients, NEW c, Good(c), NEW l \in Lists, NEW i \in 1..Len(c[l]),
         NEW by, NEW after \in AfterUnlink, MayUnlink(l, c[l][i]),
         by \in Iters => Len(c[l]) > 1,
         Step(Forget(Unlink(State, l, c[l][i], by, after), c[l][i]), {c[l][i]})
  PROVE  Outcome(c)
<1> DEFINE x == c[l][i]
           m == Unlink(State, l, x, by, after)
           d == [c EXCEPT ![l] = RemoveAt(@, i)]
<1>1. Unlinked(State, c, m, d, l, x, by)
  BY UnlinkOut
<1>2. Changes(c, d)
  BY DEF Changes, Takes
<1>3. Step(Forget(m, x), {x})
  OBVIOUS
<1> HIDE DEF x, m, d
<1>4. Holds(m, d) /\ x \in Elems /\ Unheld(d, x) /\ Unskipped(State, c, m, d, {x})
  BY <1>1 DEF Unlinked
<1>5. Holds(Forget(m, x), d) /\ Forget(m, x).list = m.list
  BY <1>4, ForgetHolds
<1>6. Unskipped(State, c, Forget(m, x), d, {x})
  BY <1>4, <1>5 DEF Unskipped
<1>7. Good(d)'
  BY <1>3, <1>5, <1>6, StepGives
<1> QED
  BY <1>2, <1>7 DEF Outcome

LEMMA DeleteLinkCurrentGives ==
  ASSUME CarefulClients, NEW c, Good(c), NEW l \in Lists, NEW after \in AfterUnlink,
         DeleteLinkCurrent(l, after)
  PROVE  Outcome(c)
<1>1. PICK i \in 1..Len(c[l]) : c[l][i] = list[l].cur
  BY PlaceOfCursor DEF DeleteLinkCurrent
<1>2. /\ MayUnlink(l, c[l][i])
      /\ Step(Forget(Unlink(State, l, c[l][i], Nil, after), c[l][i]), {c[l][i]})
  BY <1>1 DEF DeleteLinkCurrent
<1>3. Nil \notin Iters
  BY ListAssumption
<1> QED
  BY <1>2, <1>3, TakenGives

LEMMA DeleteLinkThenIterationDoneGives ==
  ASSUME CarefulClients, NEW c, Good(c), NEW l \in Lists, DeleteLinkThenIterationDone(l)
  PROVE  Outcome(c)
<1>1. CASE list[l].cur = Nil
  <2>1. Step(IterationDone(State, l), {})
    BY <1>1 DEF DeleteLinkThenIterationDone
  <2>2. Holds(State, c)
    BY DEF Good
  <2>3. /\ Holds(IterationDone(State, l), c)
        /\ \A k \in Lists : IterationDone(State, l).list[k].cur = State.list[k].cur
    BY <2>2, IterationDoneHolds
  <2>4. Unskipped(State, c, IterationDone(State, l), c, {})
    BY <2>3 DEF Unskipped
  <2>5. Good(c)'
    BY <2>1, <2>3, <2>4, StepGives
  <2> QED
    BY <2>5 DEF Outcome, Changes
<1>2. CASE list[l].cur # Nil
  <2>1. PICK i \in 1..Len(c[l]) : c[l][i] = list[l].cur
    BY <1>2, PlaceOfCursor
  <2> DEFINE x == c[l][i]
             m == Unlink(State, l, x, Nil, "Next")
             t == Forget(m, x)
             d == [c EXCEPT ![l] = RemoveAt(@, i)]
  <2>2. MayUnlink(l, x) /\ Step(IterationDone(t, l), {x})
    BY <1>2, <2>1 DEF DeleteLinkThenIterationDone
  <2>3. Unlinked(State, c, m, d, l, x, Nil)
    BY <2>2, UnlinkOut, ListAssumption DEF AfterUnlink
  <2>4. Changes(c, d)
    BY DEF Changes, Takes
  <2> HIDE DEF x, m, d
  <2>5. Holds(m, d) /\ x \in Elems /\ Unheld(d, x) /\ Unskipped(State, c, m, d, {x})
    BY <2>3 DEF Unlinked
  <2>6. Holds(t, d) /\ t.list = m.list
    BY <2>5, ForgetHolds
  <2> HIDE DEF t
  <2>7. /\ Holds(IterationDone(t, l), d)
        /\ \A k \in Lists : IterationDone(t, l).list[k].cur = t.list[k].cur
    BY <2>6, IterationDoneHolds
  <2>8. Unskipped(State, c, IterationDone(t, l), d, {x})
    BY <2>5, <2>6, <2>7 DEF Unskipped
  <2>9. Good(d)'
    BY <2>2, <2>7, <2>8, StepGives
  <2> QED
    BY <2>4, <2>9 DEF Outcome
<1> QED
  BY <1>1, <1>2

\* When the cursor is on another link, an iterator's link is not the only one.
LEMMA NotTheOnlyOne ==
  ASSUME NEW c, Good(c), NEW l \in Lists, NEW i \in 1..Len(c[l]), list[l].cur \notin {Nil, c[l][i]}
  PROVE  Len(c[l]) > 1
<1>1. PICK j \in 1..Len(c[l]) : c[l][j] = list[l].cur
  BY PlaceOfCursor
<1>2. i # j /\ Len(c[l]) \in Nat
  BY <1>1, HeldFacts DEF Good
<1> QED
  BY <1>2

LEMMA UnlinkForGives ==
  ASSUME CarefulClients, NEW c, Good(c), NEW i \in Iters, NEW after \in AfterUnlink,
         UnlinkFor(i, after)
  PROVE  Outcome(c)
<1> DEFINE l == iter[i].list
           x == iter[i].cur
<1>1. l \in Lists /\ x \in Linked(State, l) /\ x # Nil
  BY IteratorFacts, ListAssumption DEF UnlinkFor, Placed
<1>2. /\ MayUnlink(l, x) /\ list[l].cur \notin {Nil, x}
      /\ Step(Forget(Unlink(State, l, x, i, after), x), {x})
  BY DEF UnlinkFor
<1> HIDE DEF l, x
<1>3. PICK j \in 1..Len(c[l]) : c[l][j] = x
  BY <1>1, PlaceOf
<1>4. Len(c[l]) > 1
  BY <1>1, <1>2, <1>3, NotTheOnlyOne
<1>5. /\ MayUnlink(l, c[l][j])
      /\ Step(Forget(Unlink(State, l, c[l][j], i, after), c[l][j]), {c[l][j]})
  BY <1>2, <1>3
<1> QED
  BY <1>1, <1>4, <1>5, TakenGives

\* A relink adds what it has unlinked.
LEMMA RelinkedGives ==
  ASSUME NEW c, Good(c), NEW l \in Lists, NEW i \in 1..Len(c[l]), NEW k \in Lists,
         NEW m, NEW e, e = [c EXCEPT ![l] = RemoveAt(@, i)],
         NEW x, x = c[l][i], x \in Elems, Holds(m, e), Unskipped(State, c, m, e, {x}),
         NEW t, AddedTo(m, e, t, k, x), Step(t, {x})
  PROVE  Outcome(c)
<1>1. PICK j \in 1..Len(e[k]) + 1 :
        LET d == [e EXCEPT ![k] = InsertAt(@, j, x)]
        IN /\ Holds(t, d) /\ Unskipped(m, e, t, d, {})
           /\ \A h \in Lists : m.list[h].cur \in {Nil, t.list[h].cur}
  BY DEF AddedTo
<1> DEFINE d == [e EXCEPT ![k] = InsertAt(@, j, x)]
<1>2. Holds(State, c)
  BY DEF Good
<1>3. Unskipped(State, c, t, d, {x})
  BY <1>1, <1>2, UnskippedByMove
<1>4. Good(d)'
  BY <1>1, <1>3, StepGives
<1>5. Moves(c, d)
  BY DEF Moves
<1> QED
  BY <1>4, <1>5 DEF Outcome, Changes

LEMMA RelinkToGives ==
  ASSUME CarefulClients, NEW c, Good(c), NEW l \in Lists, NEW k \in Lists \ {l},
         NEW pos \in AddPositions, NEW after \in AfterUnlink, RelinkTo(l, k, pos, after)
  PROVE  Outcome(c)
<1>1. PICK i \in 1..Len(c[l]) : c[l][i] = list[l].cur
  BY PlaceOfCursor DEF RelinkTo
<1> DEFINE x == c[l][i]
           m == Unlink(State, l, x, Nil, after)
           e == [c EXCEPT ![l] = RemoveAt(@, i)]
<1>2. MayUnlink(l, x) /\ Step(AddCommon(m, k, x, pos), {x}) /\ MayAdd(k, pos, list[k].cur)
  BY <1>1 DEF RelinkTo
<1>3. Unlinked(State, c, m, e, l, x, Nil)
  BY <1>2, UnlinkOut, ListAssumption
<1>4. e = [c EXCEPT ![l] = RemoveAt(@, i)] /\ x = c[l][i]
  OBVIOUS
<1> HIDE DEF x, m, e
<1>5. Holds(m, e) /\ x \in Elems /\ Unheld(e, x) /\ Unskipped(State, c, m, e, {x})
      /\ m.list[k] = State.list[k]
  BY <1>3 DEF Unlinked
<1>6. pos \in {"First", "Last"} \/ m.list[k].cur # Nil \/ m.list[k].size = 0
  BY <1>2, <1>5, StateFields DEF MayAdd, CarefulClients
<1>7. AddedTo(m, e, AddCommon(m, k, x, pos), k, x)
  BY <1>5, <1>6, AddCommonHolds
<1> QED
  BY <1>2, <1>4, <1>5, <1>7, RelinkedGives

LEMMA RelinkToIteratorGives ==
  ASSUME CarefulClients, NEW c, Good(c), NEW l \in Lists, NEW i \in Iters,
         NEW pos \in AddPositions, NEW after \in AfterUnlink, RelinkToIterator(l, i, pos, after)
  PROVE  Outcome(c)
<1>1. PICK j \in 1..Len(c[l]) : c[l][j] = list[l].cur
  BY PlaceOfCursor DEF RelinkToIterator
<1> DEFINE x == c[l][j]
           k == iter[i].list
           m == Unlink(State, l, x, Nil, after)
           e == [c EXCEPT ![l] = RemoveAt(@, j)]
<1>2. /\ MayUnlink(l, x) /\ Step(AddForIterator(m, k, x, pos, i), {x})
      /\ MayAdd(k, pos, iter[i].cur) /\ iter[i].cur # x
  BY <1>1 DEF RelinkToIterator
<1>3. Unlinked(State, c, m, e, l, x, Nil)
  BY <1>2, UnlinkOut, ListAssumption
<1>4. e = [c EXCEPT ![l] = RemoveAt(@, j)] /\ x = c[l][j]
  OBVIOUS
<1>5. k \in Lists /\ iter[i].cur \in Range(c[k]) \cup {Nil}
  BY IteratorFacts DEF RelinkToIterator
<1>6. i # Nil
  BY ListAssumption
<1> HIDE DEF x, m, e, k
<1>7. /\ Holds(m, e) /\ x \in Elems /\ Unheld(e, x) /\ Unskipped(State, c, m, e, {x})
      /\ m.iter[i].cur = iter[i].cur /\ Range(e[k]) = Range(c[k]) \ {x}
  BY <1>3, <1>5, <1>6, StateFields DEF Unlinked
<1>8. m.iter[i].cur \in Range(e[k]) \cup {Nil}
  BY <1>2, <1>5, <1>7
<1>9. pos \in {"First", "Last"} \/ m.iter[i].cur # Nil \/ m.list[k].size = 0
  <2>1. pos \in {"First", "Last"} \/ iter[i].cur # Nil \/ list[k].size = 0
    BY <1>2 DEF MayAdd, CarefulClients
  <2>2. CASE list[k].size = 0
    <3>1. Len(c[k]) = 0 /\ c[k] \in Seq(Elems)
      BY <1>5, <2>2, StateFields DEF Good, Holds, Chain
    <3>2. Range(c[k]) = {}
      BY <3>1, RangeOfSequence
    <3>3. Range(e[k]) = {} /\ e[k] \in Seq(Elems) /\ Len(e[k]) = m.list[k].size
      BY <1>5, <1>7, <3>2 DEF Holds, Chain
    <3> DEFINE r == e[k]
    <3>4. Len(r) = 0
      <4>1. r \in Seq(Elems) /\ Range(r) = {}
        BY <3>3
      <4> HIDE DEF r
      <4>2. Len(r) \in Nat /\ \A n \in 1..Len(r) : r[n] \in Range(r)
        BY <4>1, LenProperties, RangeOfSequence
      <4>3. 1 \notin 1..Len(r)
        BY <4>1, <4>2
      <4> QED
        BY <4>2, <4>3
    <3> QED
      BY <3>3, <3>4
  <2> QED
    BY <1>7, <2>1, <2>2
<1>10. AddedTo(m, e, AddForIterator(m, k, x, pos, i), k, x)
  BY <1>5, <1>7, <1>8, <1>9, AddForIteratorHolds
<1> QED
  BY <1>2, <1>4, <1>5, <1>7, <1>10, RelinkedGives

LEMMA RelinkFromIteratorGives ==
  ASSUME CarefulClients, NEW c, Good(c), NEW k \in Lists, NEW i \in Iters,
         NEW pos \in AddPositions, NEW after \in AfterUnlink, RelinkFromIterator(k, i, pos, after)
  PROVE  Outcome(c)
<1> DEFINE l == iter[i].list
           x == iter[i].cur
<1>1. l \in Lists /\ x \in Linked(State, l)
  BY IteratorFacts DEF RelinkFromIterator, Placed
<1> DEFINE m == Unlink(State, l, x, i, after)
<1>2. /\ MayUnlink(l, x) /\ list[l].cur \notin {Nil, x} /\ x # list[k].cur
      /\ Step(AddCommon(m, k, x, pos), {x}) /\ MayAdd(k, pos, list[k].cur)
  BY DEF RelinkFromIterator
<1> HIDE DEF l, x
<1>3. PICK j \in 1..Len(c[l]) : c[l][j] = x
  BY <1>1, PlaceOf
<1> DEFINE e == [c EXCEPT ![l] = RemoveAt(@, j)]
<1>4. Len(c[l]) > 1
  BY <1>1, <1>2, <1>3, NotTheOnlyOne
<1>5. Unlinked(State, c, m, e, l, x, i)
  <2>1. MayUnlink(l, c[l][j])
    BY <1>2, <1>3
  <2>2. Unlinked(State, c, Unlink(State, l, c[l][j], i, after), e, l, c[l][j], i)
    BY <1>1, <1>4, <2>1, UnlinkOut
  <2> QED
    BY <1>3, <2>2
<1>6. e = [c EXCEPT ![l] = RemoveAt(@, j)]
  OBVIOUS
<1> HIDE DEF m, e
<1>7. /\ Holds(m, e) /\ x \in Elems /\ Unheld(e, x) /\ Unskipped(State, c, m, e, {x})
      /\ m.list[k].cur = list[k].cur /\ Range(e[k]) = Range(c[k]) \ {x}
      /\ k # l => m.list[k] = list[k]
  BY <1>2, <1>5, StateFields DEF Unlinked
<1>8. pos \in {"First", "Last"} \/ m.list[k].cur # Nil \/ m.list[k].size = 0
  BY <1>2, <1>7 DEF MayAdd, CarefulClients
<1>9. AddedTo(m, e, AddCommon(m, k, x, pos), k, x)
  BY <1>7, <1>8, AddCommonHolds
<1> QED
  BY <1>1, <1>2, <1>3, <1>6, <1>7, <1>9, RelinkedGives

LEMMA RelinkFromToGives ==
  ASSUME CarefulClients, NEW c, Good(c), NEW i \in Iters, NEW h \in Iters,
         NEW pos \in AddPositions, NEW after \in AfterUnlink, RelinkFromTo(i, h, pos, after)
  PROVE  Outcome(c)
<1> DEFINE l == iter[i].list
           x == iter[i].cur
<1>1. l \in Lists /\ x \in Linked(State, l)
  BY IteratorFacts DEF RelinkFromTo, Placed
<1> DEFINE m == Unlink(State, l, x, i, after)
<1>2. /\ MayUnlink(l, x) /\ list[l].cur \notin {Nil, x} /\ i # h
      /\ Step(AddForIterator(m, l, x, pos, h), {x})
      /\ iter[h].cur # x /\ iter[h].cur \in Linked(State, l)
  BY DEF RelinkFromTo, Placed
<1> HIDE DEF l, x
<1>3. PICK j \in 1..Len(c[l]) : c[l][j] = x
  BY <1>1, PlaceOf
<1> DEFINE e == [c EXCEPT ![l] = RemoveAt(@, j)]
<1>4. Len(c[l]) > 1
  BY <1>1, <1>2, <1>3, NotTheOnlyOne
<1>5. Unlinked(State, c, m, e, l, x, i)
  <2>1. MayUnlink(l, c[l][j])
    BY <1>2, <1>3
  <2>2. Unlinked(State, c, Unlink(State, l, c[l][j], i, after), e, l, c[l][j], i)
    BY <1>1, <1>4, <2>1, UnlinkOut
  <2> QED
    BY <1>3, <2>2
<1>6. e = [c EXCEPT ![l] = RemoveAt(@, j)]
  OBVIOUS
<1> HIDE DEF m, e
<1>7. /\ Holds(m, e) /\ x \in Elems /\ Unheld(e, x) /\ Unskipped(State, c, m, e, {x})
      /\ m.iter[h].cur = iter[h].cur /\ Range(e[l]) = Range(c[l]) \ {x}
  BY <1>1, <1>2, <1>5, StateFields DEF Unlinked
<1>8. Linked(State, l) = Range(c[l]) /\ Range(c[l]) \subseteq Elems
  BY <1>1, LinkedIsRange, HeldFacts DEF Good
<1>9. m.iter[h].cur \in Range(e[l]) /\ m.iter[h].cur # Nil
  BY <1>2, <1>7, <1>8, ListAssumption
<1>10. AddedTo(m, e, AddForIterator(m, l, x, pos, h), l, x)
  BY <1>1, <1>7, <1>9, AddForIteratorHolds
<1> QED
  BY <1>1, <1>2, <1>3, <1>6, <1>7, <1>10, RelinkedGives

-----------------------------------------------------------------------------
(* The operations that take a cursor or an iterator elsewhere.             *)

\* A cursor that jumps leaves the lists as they are.
LEMMA CursorJumps ==
  ASSUME NEW c, Good(c), NEW l \in Lists, NEW fields \in ListFields,
         fields.first = list[l].first, fields.last = list[l].last,
         fields.size = list[l].size, ListPlaced(fields, c[l]),
         Jump(WithList(State, l, fields), l)
  PROVE  Outcome(c)
<1> DEFINE t == WithList(State, l, fields)
<1>1. Holds(State, c) /\ State.list = list
  BY StateFields DEF Good
<1>2. Holds(t, c) /\ \A k \in Lists \ {l} : t.list[k] = list[k]
  BY <1>1, ListChanged
<1>3. Jump(t, l)
  OBVIOUS
<1> HIDE DEF t
<1>4. Good(c)'
  BY <1>2, <1>3, JumpGives
<1> QED
  BY <1>4 DEF Outcome, Changes

\* A cursor that goes on one link, or stays, passes nothing.
LEMMA CursorSteps ==
  ASSUME NEW c, Good(c), NEW l \in Lists, NEW fields \in ListFields,
         fields.first = list[l].first, fields.last = list[l].last,
         fields.size = list[l].size, ListPlaced(fields, c[l]),
         Ahead(c[l], list[l].cur) \ {fields.cur} \subseteq Ahead(c[l], fields.cur),
         Step(WithList(State, l, fields), {})
  PROVE  Outcome(c)
<1> DEFINE t == WithList(State, l, fields)
<1>1. Holds(State, c) /\ State.list = list
  BY StateFields DEF Good
<1>2. Holds(t, c) /\ t.list[l] = fields /\ \A k \in Lists \ {l} : t.list[k] = list[k]
  BY <1>1, ListChanged
<1>3. Step(t, {})
  OBVIOUS
<1> HIDE DEF t
<1>4. Unskipped(State, c, t, c, {})
  <2> SUFFICES ASSUME NEW k \in Lists
               PROVE  (Ahead(c[k], list[k].cur) \cap Range(c[k])) \ ({} \cup {t.list[k].cur})
                        \subseteq Ahead(c[k], t.list[k].cur)
    BY <1>1 DEF Unskipped
  <2>1. CASE k = l
    BY <1>2, <2>1
  <2>2. CASE k # l
    BY <1>2, <2>2
  <2> QED
    BY <2>1, <2>2
<1>5. Good(c)'
  BY <1>2, <1>3, <1>4, StepGives
<1> QED
  BY <1>5 DEF Outcome, Changes

\* An iterator passes nothing, as a walk is by the cursor.
LEMMA IteratorSteps ==
  ASSUME NEW c, Good(c), NEW i \in Iters, NEW it \in IterFields, IterPlaced(it, c),
         Step(WithIter(State, i, it), {})
  PROVE  Outcome(c)
<1> DEFINE t == WithIter(State, i, it)
<1>1. Holds(State, c) /\ State.list = list
  BY StateFields DEF Good
<1>2. Holds(t, c) /\ t.list = list
  BY <1>1, IterChanged
<1>3. Step(t, {})
  OBVIOUS
<1> HIDE DEF t
<1>4. Unskipped(State, c, t, c, {})
  BY <1>1, <1>2 DEF Unskipped
<1>5. Good(c)'
  BY <1>2, <1>3, <1>4, StepGives
<1> QED
  BY <1>5 DEF Outcome, Changes

LEMMA CursorTyped ==
  ASSUME NEW old \in ListFields, NEW x \in Links, NEW flags \in Flags
  PROVE  /\ CursorAt(old, x, flags) \in ListFields
         /\ CursorAt(old, x, flags).first = old.first /\ CursorAt(old, x, flags).last = old.last
         /\ CursorAt(old, x, flags).size = old.size /\ CursorAt(old, x, flags).cur = x
         /\ CursorAt(old, x, flags).saved = old.saved
         /\ SavedAt(old, x, flags) \in ListFields
         /\ SavedAt(old, x, flags).first = old.first /\ SavedAt(old, x, flags).last = old.last
         /\ SavedAt(old, x, flags).size = old.size /\ SavedAt(old, x, flags).cur = old.cur
         /\ SavedAt(old, x, flags).saved = x
BY DEF CursorAt, SavedAt, Fields, ListFields

LEMMA IterTyped ==
  ASSUME NEW it \in IterFields, NEW x \in Links, NEW flags \in Flags
  PROVE  /\ IterAt(it, x, flags) \in IterFields
         /\ IterAt(it, x, flags).list = it.list /\ IterAt(it, x, flags).cur = x
         /\ IterAt(it, x, flags).valid = it.valid /\ IterAt(it, x, flags).saved = it.saved
         /\ IterSavedAt(it, x, flags) \in IterFields
         /\ IterSavedAt(it, x, flags).list = it.list /\ IterSavedAt(it, x, flags).cur = it.cur
         /\ IterSavedAt(it, x, flags).valid = it.valid /\ IterSavedAt(it, x, flags).saved = x
BY DEF IterAt, IterSavedAt, IterFields

LEMMA GoingTyped ==
  ASSUME NEW done \in BOOLEAN
  PROVE  Going \in Flags /\ [Going EXCEPT !.done = done] \in Flags
BY DEF Going, Flags

\* What is known of the fields of a list in a good state.
LEMMA ListFacts ==
  ASSUME NEW c, Good(c), NEW l \in Lists
  PROVE  /\ list[l] \in ListFields /\ list[l].flags \in Flags /\ list[l].savedFlags \in Flags
         /\ ListPlaced(list[l], c[l]) /\ Linked(State, l) = Range(c[l])
         /\ Range(c[l]) \subseteq Elems /\ c[l] \in Seq(Elems) /\ Injective(c[l])
         /\ Len(c[l]) = list[l].size
         /\ list[l].first = At(c[l], 1) /\ list[l].last = At(c[l], Len(c[l]))
         /\ At(c[l], 1) \in Range(c[l]) \cup {Nil} /\ At(c[l], Len(c[l])) \in Range(c[l]) \cup {Nil}
<1>1. Holds(State, c) /\ State.list = list
  BY StateFields DEF Good
<1>2. list[l] \in ListFields /\ Chain(State, l, c[l]) /\ ListPlaced(list[l], c[l])
  BY <1>1 DEF Holds, States
<1>3. Range(c[l]) \subseteq Elems /\ \A i : At(c[l], i) \in Range(c[l]) \cup {Nil}
  BY <1>1, HeldFacts
<1>4. list[l].flags \in Flags /\ list[l].savedFlags \in Flags
  BY <1>2 DEF ListFields
<1> QED
  BY <1>1, <1>2, <1>3, <1>4, LinkedIsRange DEF Chain

\* What is ahead of the first link, and of the links beside one.
LEMMA AheadOfNeighbours ==
  ASSUME NEW o \in Seq(Elems), Injective(o), NEW i \in 1..Len(o)
  PROVE  /\ Range(o) \ {o[1]} \subseteq Ahead(o, o[1])
         /\ i + 1 \in 1..Len(o) => Ahead(o, o[i]) \ {o[i + 1]} \subseteq Ahead(o, o[i + 1])
         /\ i - 1 \in 1..Len(o) => Ahead(o, o[i]) \subseteq Ahead(o, o[i - 1])
<1>1. /\ Len(o) \in Nat
      /\ \A x : x \in Range(o) <=> \E j \in 1..Len(o) : o[j] = x
      /\ \A j, k \in 1..Len(o) : o[j] = o[k] => j = k
  BY LenProperties, RangeOfSequence DEF Injective
<1>2. ASSUME NEW x \in Range(o), x # o[1] PROVE x \in Ahead(o, o[1])
  <2>1. PICK j \in 1..Len(o) : o[j] = x
    BY <1>1
  <2>2. 1 \in 1..Len(o) /\ 1 < j
    BY <1>1, <1>2, <2>1
  <2> QED
    BY <2>1, <2>2 DEF Ahead
<1>3. ASSUME i + 1 \in 1..Len(o), NEW x \in Ahead(o, o[i]), x # o[i + 1]
      PROVE  x \in Ahead(o, o[i + 1])
  <2>1. PICK j \in 1..Len(o), k \in 1..Len(o) : j < k /\ o[j] = o[i] /\ o[k] = x
    BY DEF Ahead
  <2>2. j = i /\ k # i + 1
    BY <1>1, <1>3, <2>1
  <2>3. i + 1 < k
    BY <1>1, <2>1, <2>2
  <2> QED
    BY <1>3, <2>1, <2>3 DEF Ahead
<1>4. ASSUME i - 1 \in 1..Len(o), NEW x \in Ahead(o, o[i]) PROVE x \in Ahead(o, o[i - 1])
  <2>1. PICK j \in 1..Len(o), k \in 1..Len(o) : j < k /\ o[j] = o[i] /\ o[k] = x
    BY DEF Ahead
  <2>2. j = i
    BY <1>1, <2>1
  <2>3. i - 1 < k
    BY <1>1, <2>1, <2>2
  <2> QED
    BY <1>4, <2>1, <2>3 DEF Ahead
<1> QED
  BY <1>2, <1>3, <1>4

LEMMA FirstGives ==
  ASSUME NEW c, Good(c), NEW l \in Lists, First(l)
  PROVE  Outcome(c)
<1> DEFINE o == c[l]
           x == IF list[l].size = 0 THEN list[l].cur ELSE list[l].first
           fields == CursorAt(list[l], x, Going)
           t == WithList(State, l, fields)
<1>1. Holds(State, c) /\ State.list = list /\ unseen \in [Lists -> SUBSET Elems]
  BY StateFields DEF Good
<1>2. /\ list[l] \in ListFields /\ ListPlaced(list[l], o) /\ Linked(State, l) = Range(o)
      /\ Range(o) \subseteq Elems /\ o \in Seq(Elems) /\ Injective(o)
      /\ Len(o) = list[l].size /\ list[l].first = At(o, 1) /\ At(o, 1) \in Range(o) \cup {Nil}
  BY ListFacts
<1>3. Become(t) /\ unseen' = [unseen EXCEPT ![l] = Range(o) \ {x}]
  BY <1>2, StateFields DEF First, SetCursor
<1>4. x \in Range(o) \cup {Nil}
  BY <1>2 DEF ListPlaced
<1>5. Going \in Flags /\ x \in Links
  BY <1>2, <1>4, GoingTyped DEF Links
<1>6. Range(o) \ {x} \subseteq Ahead(o, x)
  <2> HIDE DEF o
  <2>1. Len(o) \in Nat /\ \A y : y \in Range(o) <=> \E j \in 1..Len(o) : o[j] = y
    BY <1>2, LenProperties, RangeOfSequence
  <2>2. CASE Len(o) = 0
    BY <2>1, <2>2
  <2>3. CASE Len(o) # 0
    <3>1. 1 \in 1..Len(o) /\ x = o[1]
      BY <1>2, <2>1, <2>3 DEF At
    <3>2. Range(o) \ {o[1]} \subseteq Ahead(o, o[1])
      BY <1>2, <3>1, AheadOfNeighbours
    <3> QED
      BY <3>1, <3>2
  <2> QED
    BY <2>2, <2>3
<1> HIDE DEF x
<1>7. /\ fields \in ListFields /\ fields.first = list[l].first /\ fields.last = list[l].last
      /\ fields.size = list[l].size /\ fields.cur = x /\ fields.saved = list[l].saved
  BY <1>2, <1>5, CursorTyped
<1> HIDE DEF fields
<1>8. ListPlaced(fields, o)
  BY <1>2, <1>4, <1>7 DEF ListPlaced
<1>9. Holds(t, c) /\ t.list[l] = fields /\ \A k \in Lists \ {l} : t.list[k] = list[k]
  BY <1>1, <1>7, <1>8, ListChanged
<1> HIDE DEF t
<1>10. State' = t /\ list' = t.list
  BY <1>3, <1>9, BecomeIsState DEF Holds, Become
<1>11. ASSUME NEW k \in Lists PROVE unseen'[k] \subseteq Ahead(c[k], list'[k].cur)
  <2>1. CASE k = l
    BY <1>1, <1>3, <1>6, <1>7, <1>9, <1>10, <2>1
  <2>2. CASE k # l
    BY <1>1, <1>3, <1>9, <1>10, <2>2 DEF Good
  <2> QED
    BY <2>1, <2>2
<1>12. unseen' \in [Lists -> SUBSET Elems]
  BY <1>1, <1>2, <1>3
<1>13. Holds(State', c)
  BY <1>9, <1>10
<1>14. Good(c)'
  BY <1>11, <1>12, <1>13 DEF Good
<1> QED
  BY <1>14 DEF Outcome, Changes

\* The cursor jumps to a link of its list, and forgets where it was saved.
LEMMA JumpsTo ==
  ASSUME NEW c, Good(c), NEW l \in Lists, NEW x \in Range(c[l]) \cup {Nil}, NEW flags \in Flags,
         \/ Jump(SetCursor(l, x, flags), l)
         \/ Jump(SetCursorNotSaved(l, x, flags), l)
  PROVE  Outcome(c)
<1>1. /\ list[l] \in ListFields /\ ListPlaced(list[l], c[l]) /\ x \in Links
      /\ Going \in Flags /\ Nil \in Links
  BY ListFacts, GoingTyped DEF Links
<1> DEFINE f == CursorAt(list[l], x, flags)
           g == SavedAt(f, Nil, Going)
<1>2. /\ f \in ListFields /\ f.first = list[l].first /\ f.last = list[l].last
      /\ f.size = list[l].size /\ f.cur = x /\ f.saved = list[l].saved
  BY <1>1, CursorTyped
<1>3. Jump(WithList(State, l, f), l) \/ Jump(WithList(State, l, g), l)
  BY DEF SetCursor, SetCursorNotSaved
<1> HIDE DEF f
<1>4. /\ g \in ListFields /\ g.first = list[l].first /\ g.last = list[l].last
      /\ g.size = list[l].size /\ g.cur = x /\ g.saved = Nil
  BY <1>1, <1>2, CursorTyped, ZenonT(60)
<1> HIDE DEF g
<1>5. ListPlaced(f, c[l]) /\ ListPlaced(g, c[l])
  BY <1>1, <1>2, <1>4 DEF ListPlaced
<1>6. CASE Jump(WithList(State, l, f), l)
  BY <1>2, <1>5, <1>6, CursorJumps
<1>7. CASE Jump(WithList(State, l, g), l)
  BY <1>4, <1>5, <1>7, CursorJumps
<1> QED
  BY <1>3, <1>6, <1>7

LEMMA JumpersGive ==
  ASSUME NEW c, Good(c), NEW l \in Lists,
         \/ Last_(l) \/ PositionRestore(l)
         \/ \E e \in Elems : PositionFind(l, e)
         \/ \E i \in Iters : PositionSetFrom(l, i)
  PROVE  Outcome(c)
<1>1. /\ list[l].flags \in Flags /\ list[l].savedFlags \in Flags
      /\ ListPlaced(list[l], c[l]) /\ Linked(State, l) = Range(c[l])
      /\ list[l].last \in Range(c[l]) \cup {Nil}
  BY ListFacts
<1>2. CASE Last_(l)
  <2>1. list[l].flags.done \in BOOLEAN
    BY <1>1 DEF Flags
  <2>2. [Going EXCEPT !.done = list[l].flags.done] \in Flags
    BY <2>1, GoingTyped
  <2> QED
    BY <1>1, <1>2, <2>2, JumpsTo DEF Last_
<1>3. CASE PositionRestore(l)
  BY <1>1, <1>3, JumpsTo DEF PositionRestore, ListPlaced
<1>4. ASSUME NEW e \in Elems, PositionFind(l, e) PROVE Outcome(c)
  <2>1. Going \in Flags
    BY GoingTyped
  <2> QED
    BY <1>1, <1>4, <2>1, JumpsTo DEF PositionFind
<1>5. ASSUME NEW i \in Iters, PositionSetFrom(l, i) PROVE Outcome(c)
  <2>1. iter[i].flags \in Flags
    BY StateFields DEF Good, Holds, States, IterFields
  <2>2. iter[i].cur \in Range(c[l]) \cup {Nil}
    BY <1>1, <1>5 DEF PositionSetFrom, Placed
  <2> QED
    BY <1>5, <2>1, <2>2, JumpsTo DEF PositionSetFrom
<1> QED
  BY <1>2, <1>3, <1>4, <1>5

\* The cursor stays where it is, or goes on to the link beside it.
LEMMA StepsTo ==
  ASSUME NEW c, Good(c), NEW l \in Lists, NEW x \in Range(c[l]) \cup {Nil}, NEW flags \in Flags,
         Ahead(c[l], list[l].cur) \ {x} \subseteq Ahead(c[l], x),
         Step(SetCursor(l, x, flags), {})
  PROVE  Outcome(c)
<1>1. /\ list[l] \in ListFields /\ ListPlaced(list[l], c[l]) /\ x \in Links
  BY ListFacts DEF Links
<1> DEFINE f == CursorAt(list[l], x, flags)
<1>2. /\ f \in ListFields /\ f.first = list[l].first /\ f.last = list[l].last
      /\ f.size = list[l].size /\ f.cur = x /\ f.saved = list[l].saved
  BY <1>1, CursorTyped
<1>3. Step(WithList(State, l, f), {})
  BY DEF SetCursor
<1> HIDE DEF f
<1>4. ListPlaced(f, c[l])
  BY <1>1, <1>2 DEF ListPlaced
<1> QED
  BY <1>2, <1>3, <1>4, CursorSteps

LEMMA NextGives ==
  ASSUME NEW c, Good(c), NEW l \in Lists, Next_(l)
  PROVE  Outcome(c)
<1> DEFINE o == c[l]
           x == list[l].cur
<1>1. /\ list[l].flags \in Flags /\ x \in Range(o) \cup {Nil}
      /\ o \in Seq(Elems) /\ Injective(o) /\ list[l].last = At(o, Len(o))
  BY ListFacts DEF ListPlaced
<1>2. CASE x \in {Nil, list[l].last}
  <2>1. Step(SetCursor(l, x, Flagged(list[l].flags, "next")), {})
    BY <1>2 DEF Next_
  <2>2. Flagged(list[l].flags, "next") \in Flags
    BY <1>1, FlaggedTyped
  <2> QED
    BY <1>1, <2>1, <2>2, StepsTo
<1>3. CASE x \notin {Nil, list[l].last}
  <2>1. Step(SetCursor(l, next[x], list[l].flags), {})
    BY <1>3 DEF Next_
  <2>2. Chain(State, l, o) /\ State.next = next
    BY StateFields DEF Good, Holds
  <2> HIDE DEF o
  <2>3. PICK i \in 1..Len(o) : o[i] = x
    BY <1>1, <1>3, RangeOfSequence
  <2>4. i # Len(o) /\ i \in Nat /\ Len(o) \in Nat
    BY <1>1, <1>3, <2>3, AtIsLink
  <2>5. i + 1 \in 1..Len(o)
    BY <2>3, <2>4
  <2>6. next[x] = o[i + 1]
    BY <2>2, <2>3, <2>5 DEF Chain, At
  <2>7. o[i + 1] \in Range(o)
    BY <1>1, <2>5, RangeOfSequence
  <2>8. Ahead(o, x) \ {o[i + 1]} \subseteq Ahead(o, o[i + 1])
    BY <1>1, <2>3, <2>5, AheadOfNeighbours
  <2> QED
    BY <1>1, <2>1, <2>6, <2>7, <2>8, StepsTo DEF o
<1> QED
  BY <1>2, <1>3

LEMMA PrevGives ==
  ASSUME NEW c, Good(c), NEW l \in Lists, Prev_(l)
  PROVE  Outcome(c)
<1> DEFINE o == c[l]
           x == list[l].cur
<1>1. /\ list[l].flags \in Flags /\ x \in Range(o) \cup {Nil}
      /\ o \in Seq(Elems) /\ Injective(o) /\ list[l].first = At(o, 1)
  BY ListFacts DEF ListPlaced
<1>2. CASE x \in {Nil, list[l].first}
  <2>1. Step(SetCursor(l, x, Flagged(list[l].flags, "prev")), {})
    BY <1>2 DEF Prev_
  <2>2. Flagged(list[l].flags, "prev") \in Flags
    BY <1>1, FlaggedTyped
  <2> QED
    BY <1>1, <2>1, <2>2, StepsTo
<1>3. CASE x \notin {Nil, list[l].first}
  <2>1. Step(SetCursor(l, prev[x], list[l].flags), {})
    BY <1>3 DEF Prev_
  <2>2. Chain(State, l, o) /\ State.prev = prev
    BY StateFields DEF Good, Holds
  <2> HIDE DEF o
  <2>3. PICK i \in 1..Len(o) : o[i] = x
    BY <1>1, <1>3, RangeOfSequence
  <2>4. i # 1 /\ i \in Nat /\ Len(o) \in Nat
    BY <1>1, <1>3, <2>3, AtIsLink
  <2>5. i - 1 \in 1..Len(o) /\ i > 1
    BY <2>3, <2>4
  <2>6. prev[x] = o[i - 1]
    BY <2>2, <2>3, <2>5 DEF Chain, At
  <2>7. o[i - 1] \in Range(o)
    BY <1>1, <2>5, RangeOfSequence
  <2>8. Ahead(o, x) \subseteq Ahead(o, o[i - 1])
    BY <1>1, <2>3, <2>5, AheadOfNeighbours
  <2> QED
    BY <1>1, <2>1, <2>6, <2>7, <2>8, StepsTo DEF o
<1> QED
  BY <1>2, <1>3

LEMMA PositionSaveGives ==
  ASSUME NEW c, Good(c), NEW l \in Lists, PositionSave(l)
  PROVE  Outcome(c)
<1> DEFINE f == SavedAt(list[l], list[l].cur, list[l].flags)
<1>1. /\ list[l] \in ListFields /\ list[l].flags \in Flags /\ ListPlaced(list[l], c[l])
      /\ list[l].cur \in Links
  BY ListFacts DEF ListFields
<1>2. /\ f \in ListFields /\ f.first = list[l].first /\ f.last = list[l].last
      /\ f.size = list[l].size /\ f.cur = list[l].cur /\ f.saved = list[l].cur
  BY <1>1, CursorTyped
<1>3. Step(WithList(State, l, f), {})
  BY StateFields DEF PositionSave
<1> HIDE DEF f
<1>4. ListPlaced(f, c[l])
  BY <1>1, <1>2 DEF ListPlaced
<1> QED
  BY <1>2, <1>3, <1>4, CursorSteps

\* What is known of an iterator in a good state.
LEMMA IterFacts ==
  ASSUME NEW c, Good(c), NEW i \in Iters
  PROVE  /\ iter[i] \in IterFields /\ iter[i].flags \in Flags /\ iter[i].savedFlags \in Flags
         /\ iter[i].cur \in Links /\ IterPlaced(iter[i], c) /\ Holds(State, c)
         /\ iter[i].list # Nil => /\ iter[i].list \in Lists \ Spare
                                  /\ Linked(State, iter[i].list) = Range(c[iter[i].list])
<1>1. Holds(State, c) /\ State.iter = iter
  BY StateFields DEF Good
<1>2. iter[i] \in IterFields /\ IterPlaced(iter[i], c)
  BY <1>1 DEF Holds, States
<1>3. /\ iter[i].flags \in Flags /\ iter[i].savedFlags \in Flags /\ iter[i].cur \in Links
      /\ iter[i].list # Nil => iter[i].list \in Lists \ Spare
  BY <1>2 DEF IterFields
<1> QED
  BY <1>1, <1>2, <1>3, LinkedIsRange

LEMMA IteratorGoes ==
  ASSUME NEW c, Good(c), NEW i \in Iters, NEW x \in Links, NEW flags \in Flags,
         iter[i].list # Nil => x \in Range(c[iter[i].list]) \cup {Nil},
         SetIterator(i, x, flags)
  PROVE  Outcome(c)
<1> DEFINE it == IterAt(iter[i], x, flags)
<1>1. iter[i] \in IterFields /\ IterPlaced(iter[i], c)
  BY IterFacts
<1>2. /\ it \in IterFields /\ it.list = iter[i].list /\ it.cur = x
      /\ it.valid = iter[i].valid /\ it.saved = iter[i].saved
  BY <1>1, IterTyped
<1>3. Step(WithIter(State, i, it), {})
  BY DEF SetIterator
<1> HIDE DEF it
<1>4. IterPlaced(it, c)
  BY <1>1, <1>2 DEF IterPlaced
<1> QED
  BY <1>2, <1>3, <1>4, IteratorSteps

LEMMA IteratorEndsGive ==
  ASSUME NEW c, Good(c), NEW i \in Iters,
         IteratorFirst(i) \/ IteratorLast(i) \/ PositionSetForIterator(i)
  PROVE  Outcome(c)
<1> DEFINE l == iter[i].list
<1>1. iter[i].flags \in Flags /\ l \in Lists
  BY IterFacts DEF IteratorFirst, IteratorLast, PositionSetForIterator, Exists
<1>2. AtEnd(i) \in Flags
  <2>1. iter[i].flags.done \in BOOLEAN
    BY <1>1 DEF Flags
  <2> QED
    BY <2>1, GoingTyped DEF AtEnd
<1>3. /\ list[l].flags \in Flags /\ Range(c[l]) \subseteq Elems
      /\ list[l].first \in Range(c[l]) \cup {Nil} /\ list[l].last \in Range(c[l]) \cup {Nil}
      /\ list[l].cur \in Range(c[l]) \cup {Nil}
  BY <1>1, ListFacts DEF ListPlaced
<1>4. /\ list[l].first \in Links /\ list[l].last \in Links /\ list[l].cur \in Links
  BY <1>3 DEF Links
<1>5. CASE IteratorFirst(i)
  BY <1>2, <1>3, <1>4, <1>5, IteratorGoes DEF IteratorFirst
<1>6. CASE IteratorLast(i)
  BY <1>2, <1>3, <1>4, <1>6, IteratorGoes DEF IteratorLast
<1>7. CASE PositionSetForIterator(i)
  BY <1>3, <1>4, <1>7, IteratorGoes DEF PositionSetForIterator
<1> QED
  BY <1>5, <1>6, <1>7

LEMMA IteratorNextGives ==
  ASSUME NEW c, Good(c), NEW i \in Iters, IteratorNext(i) \/ IteratorPrev(i)
  PROVE  Outcome(c)
<1> DEFINE l == iter[i].list
           o == c[l]
           x == iter[i].cur
<1>1. /\ iter[i].flags \in Flags /\ x \in Links /\ l \in Lists /\ l \notin Spare
      /\ x \in Range(o) \cup {Nil}
  BY IterFacts DEF IteratorNext, IteratorPrev, Exists, Placed
<1>2. /\ o \in Seq(Elems) /\ Injective(o) /\ Chain(State, l, o) /\ Range(o) \subseteq Elems
      /\ State.next = next /\ State.prev = prev
      /\ \A n : At(o, n) \in Range(o) \cup {Nil}
  BY <1>1, StateFields, HeldFacts DEF Good, Holds
<1>3. /\ Flagged(iter[i].flags, "next") \in Flags /\ Flagged(iter[i].flags, "prev") \in Flags
  BY <1>1, FlaggedTyped
<1>4. CASE SetIterator(i, x, Flagged(iter[i].flags, "next"))
           \/ SetIterator(i, x, Flagged(iter[i].flags, "prev"))
  BY <1>1, <1>3, <1>4, IteratorGoes
<1>5. x # Nil => next[x] \in Range(o) \cup {Nil} /\ prev[x] \in Range(o) \cup {Nil}
  <2> HIDE DEF o, x, l
  <2> SUFFICES ASSUME x # Nil PROVE next[x] \in Range(o) \cup {Nil} /\ prev[x] \in Range(o) \cup {Nil}
    OBVIOUS
  <2>1. PICK n \in 1..Len(o) : o[n] = x
    BY <1>1, <1>2, RangeOfSequence
  <2>2. next[x] = At(o, n + 1) /\ prev[x] = At(o, n - 1)
    BY <1>1, <1>2, <2>1 DEF Chain
  <2> QED
    BY <1>2, <2>2
<1>6. CASE x # Nil /\ SetIterator(i, next[x], iter[i].flags)
  <2>1. next[x] \in Links
    BY <1>2, <1>5, <1>6 DEF Links
  <2> QED
    BY <1>1, <1>5, <1>6, <2>1, IteratorGoes
<1>7. CASE x # Nil /\ SetIterator(i, prev[x], iter[i].flags)
  <2>1. prev[x] \in Links
    BY <1>2, <1>5, <1>7 DEF Links
  <2> QED
    BY <1>1, <1>5, <1>7, <2>1, IteratorGoes
<1> QED
  BY <1>4, <1>6, <1>7 DEF IteratorNext, IteratorPrev

LEMMA IteratorPositionSetGives ==
  ASSUME NEW c, Good(c), NEW i \in Iters, NEW j \in Iters, IteratorPositionSet(i, j)
  PROVE  Outcome(c)
<1>1. /\ iter[j].savedFlags \in Flags /\ iter[j].cur \in Links
      /\ IterPlaced(iter[j], c)
  BY IterFacts
<1>2. iter[i].list # Nil => iter[j].cur \in Range(c[iter[i].list]) \cup {Nil}
  BY <1>1 DEF IteratorPositionSet, IterPlaced
<1> QED
  BY <1>1, <1>2, IteratorGoes DEF IteratorPositionSet

LEMMA IteratorSaveGives ==
  ASSUME NEW c, Good(c), NEW i \in Iters, IteratorSave(i)
  PROVE  Outcome(c)
<1> DEFINE it == IterSavedAt(iter[i], iter[i].cur, iter[i].flags)
<1>1. /\ iter[i] \in IterFields /\ IterPlaced(iter[i], c) /\ iter[i].flags \in Flags
      /\ iter[i].cur \in Links
  BY IterFacts
<1>2. /\ it \in IterFields /\ it.list = iter[i].list /\ it.cur = iter[i].cur
      /\ it.valid = iter[i].valid /\ it.saved = iter[i].cur
  BY <1>1, IterTyped
<1>3. Step(WithIter(State, i, it), {}) /\ iter[i].valid /\ iter[i].cur # Nil
  BY DEF IteratorSave
<1> HIDE DEF it
<1>4. IterPlaced(it, c)
  BY <1>1, <1>2, <1>3 DEF IterPlaced
<1> QED
  BY <1>2, <1>3, <1>4, IteratorSteps

LEMMA IteratorRestoreGives ==
  ASSUME NEW c, Good(c), NEW i \in Iters, IteratorRestore(i)
  PROVE  Outcome(c)
<1> DEFINE at == IterAt(iter[i], iter[i].saved, iter[i].savedFlags)
           flags == [Going EXCEPT !.done = iter[i].savedFlags.done]
           it == IterSavedAt(at, Nil, flags)
<1>1. /\ iter[i] \in IterFields /\ IterPlaced(iter[i], c) /\ iter[i].savedFlags \in Flags
      /\ iter[i].saved \in Links
  BY IterFacts DEF IterFields
<1>2. flags \in Flags /\ Nil \in Links
  <2>1. iter[i].savedFlags.done \in BOOLEAN
    BY <1>1 DEF Flags
  <2> QED
    BY <2>1, GoingTyped DEF Links
<1>3. Step(WithIter(State, i, it), {}) /\ iter[i].saved # Nil
  BY DEF IteratorRestore
<1>4. /\ at \in IterFields /\ at.list = iter[i].list /\ at.cur = iter[i].saved
      /\ at.valid = iter[i].valid
  BY <1>1, IterTyped
<1> HIDE DEF at, flags
<1>5. /\ it \in IterFields /\ it.list = at.list /\ it.cur = at.cur
      /\ it.valid = at.valid /\ it.saved = Nil
  BY <1>2, <1>4, IterTyped
<1> HIDE DEF it
<1>6. IterPlaced(it, c)
  BY <1>1, <1>3, <1>4, <1>5 DEF IterPlaced
<1> QED
  BY <1>3, <1>5, <1>6, IteratorSteps

LEMMA ListIteratorNewGives ==
  ASSUME NEW c, Good(c), NEW l \in Lists, NEW i \in Iters,
         ListIteratorNew(l, i) \/ ListIteratorDelete(i)
  PROVE  Outcome(c)
<1> DEFINE new == [list |-> l, cur |-> list[l].cur, flags |-> Going,
                   valid |-> TRUE, saved |-> Nil, savedFlags |-> Going]
<1>1. Going \in Flags /\ Nil \in Links /\ ListPlaced(list[l], c[l]) /\ list[l] \in ListFields
  BY GoingTyped, ListFacts DEF Links
<1>2. list[l].cur \in Links
  BY <1>1 DEF ListFields
<1>3. NoIter \in IterFields
  BY <1>1 DEF NoIter, IterFields
<1>4. IterPlaced(NoIter, c)
  BY DEF NoIter, IterPlaced
<1>5. CASE ListIteratorDelete(i)
  <2>1. Step(WithIter(State, i, NoIter), {})
    BY <1>5 DEF ListIteratorDelete
  <2> QED
    BY <1>3, <1>4, <2>1, IteratorSteps
<1>6. CASE ListIteratorNew(l, i)
  <2>1. l \notin Spare /\ Step(WithIter(State, i, new), {})
    BY <1>6 DEF ListIteratorNew
  <2>2. new \in IterFields
    BY <1>1, <1>2, <2>1 DEF IterFields
  <2>3. IterPlaced(new, c)
    BY <1>1, ListAssumption DEF IterPlaced, ListPlaced
  <2> HIDE DEF new
  <2> QED
    BY <2>1, <2>2, <2>3, IteratorSteps
<1> QED
  BY <1>5, <1>6

-----------------------------------------------------------------------------
(* Emptying and splitting.                                                 *)

LEMMA EmptyIsSequence ==
  /\ <<>> \in Seq(Elems) /\ Len(<<>>) = 0 /\ Range(<<>>) = {} /\ Injective(<<>>)
  /\ \A x : Ahead(<<>>, x) = {} /\ \A i : At(<<>>, i) = Nil
<1>1. <<>> \in Seq(Elems) /\ Len(<<>>) = 0
  OBVIOUS
<1>2. Range(<<>>) = {}
  <2> DEFINE o == <<>>
  <2>1. o \in Seq(Elems) /\ Len(o) = 0
    BY <1>1
  <2> HIDE DEF o
  <2>2. \A x : x \in Range(o) <=> \E i \in 1..Len(o) : o[i] = x
    BY <2>1, RangeOfSequence
  <2>3. Range(o) = {}
    BY <2>1, <2>2
  <2> QED
    BY <2>3 DEF o
<1> QED
  BY <1>1, <1>2 DEF Injective, Ahead, At

LEMMA DeleteLinkAllGives ==
  ASSUME CarefulClients, NEW c, Good(c), NEW l \in Lists, DeleteLinkAll(l)
  PROVE  Outcome(c)
<1> DEFINE old == Range(c[l])
           f == Fields(list[l], Nil, Nil, 0, Nil, list[l].flags)
           inform(it) == IF it.list = l /\ it.cur \in old THEN [it EXCEPT !.valid = FALSE] ELSE it
           t == [next |-> [e \in Elems |-> IF e \in old THEN Nil ELSE next[e]],
                 prev |-> [e \in Elems |-> IF e \in old THEN Nil ELSE prev[e]],
                 list |-> [list EXCEPT ![l] = f],
                 iter |-> [i \in Iters |-> inform(iter[i])]]
           d == [c EXCEPT ![l] = <<>>]
<1>1. /\ Holds(State, c) /\ State \in States /\ c \in [Lists -> Seq(Elems)] /\ Apart(c)
      /\ State.list = list /\ State.iter = iter /\ State.next = next /\ State.prev = prev
      /\ \A k \in Lists : Chain(State, k, c[k]) /\ ListPlaced(list[k], c[k])
      /\ \A i \in Iters : IterPlaced(iter[i], c)
  BY StateFields DEF Good, Holds
<1>2. /\ next \in [Elems -> Links] /\ prev \in [Elems -> Links] /\ list \in [Lists -> ListFields]
      /\ iter \in [Iters -> IterFields]
  BY <1>1 DEF States
<1>3. Linked(State, l) = old
  BY <1>1, LinkedIsRange
<1>4. Jump(t, l) /\ \A x \in old : MayUnlink(l, x)
  BY <1>3 DEF DeleteLinkAll
<1>5. list[l].saved = Nil /\ \A i \in Iters : iter[i].list = l => iter[i].saved = Nil
  BY <1>1, <1>4 DEF MayUnlink, CarefulClients, ListPlaced, IterPlaced
<1>6. /\ f \in ListFields /\ f.first = Nil /\ f.last = Nil /\ f.size = 0
      /\ f.cur = Nil /\ f.saved = Nil
  BY <1>2, <1>5 DEF Fields, ListFields, Links
<1> HIDE DEF f
<1>7. ASSUME NEW i \in Iters
      PROVE  /\ inform(iter[i]) \in IterFields /\ inform(iter[i]).list = iter[i].list
             /\ inform(iter[i]).cur = iter[i].cur /\ inform(iter[i]).saved = iter[i].saved
             /\ inform(iter[i]).valid =>
                  iter[i].valid /\ ~ (iter[i].list = l /\ iter[i].cur \in old)
  <2>1. iter[i] \in IterFields
    BY <1>2
  <2>2. CASE iter[i].list = l /\ iter[i].cur \in old
    BY <2>1, <2>2 DEF IterFields
  <2>3. CASE ~ (iter[i].list = l /\ iter[i].cur \in old)
    BY <2>1, <2>3
  <2> QED
    BY <2>2, <2>3
<1>8. /\ \A e \in Elems \ old : t.next[e] = next[e] /\ t.prev[e] = prev[e]
      /\ t.list[l] = f /\ \A k \in Lists \ {l} : t.list[k] = list[k]
      /\ \A i \in Iters : t.iter[i] = inform(iter[i])
  BY <1>2
<1>9. t \in States
  <2>1. /\ t.next \in [Elems -> Links] /\ t.prev \in [Elems -> Links]
    BY <1>2 DEF Links
  <2>2. t.list \in [Lists -> ListFields]
    BY <1>2, <1>6
  <2> HIDE DEF inform
  <2>3. t.iter \in [Iters -> IterFields]
    BY <1>7
  <2> QED
    BY <2>1, <2>2, <2>3 DEF States
<1>10. d \in [Lists -> Seq(Elems)] /\ d[l] = <<>> /\ \A k \in Lists \ {l} : d[k] = c[k]
  BY <1>1, EmptyIsSequence
<1>11. Clears(c, d)
  BY DEF Clears
<1> HIDE DEF t, d, inform
<1>12. ASSUME NEW k \in Lists PROVE Chain(t, k, d[k]) /\ ListPlaced(t.list[k], d[k])
  <2>1. CASE k = l
    <3>1. \A i \in 1..Len(<<>>) : FALSE
      BY EmptyIsSequence
    <3>2. d[k] = <<>> /\ t.list[k] = f
      BY <1>8, <1>10, <2>1
    <3>3. Chain(t, k, <<>>)
      BY <1>6, <3>1, <3>2, EmptyIsSequence DEF Chain
    <3>4. ListPlaced(f, <<>>)
      BY <1>6 DEF ListPlaced
    <3> QED
      BY <3>2, <3>3, <3>4
  <2>2. CASE k # l
    <3>1. Chain(State, k, c[k]) /\ t.list[k] = list[k] /\ d[k] = c[k] /\ ListPlaced(list[k], c[k])
      BY <1>1, <1>8, <1>10, <2>2
    <3>2. Range(c[k]) \subseteq Elems \ old
      BY <1>1, <2>2, HeldFacts DEF Apart
    <3>3. \A e \in Range(c[k]) : t.next[e] = State.next[e] /\ t.prev[e] = State.prev[e]
      BY <1>1, <1>8, <3>2
    <3>4. /\ t.list[k].first = State.list[k].first /\ t.list[k].last = State.list[k].last
          /\ t.list[k].size = State.list[k].size
      BY <1>1, <3>1
    <3>5. Chain(t, k, c[k])
      BY <3>1, <3>3, <3>4, ChainKept
    <3> QED
      BY <3>1, <3>5
  <2> QED
    BY <2>1, <2>2
<1>13. ASSUME NEW i \in Iters PROVE IterPlaced(t.iter[i], d)
  <2>1. IterPlaced(iter[i], c) /\ t.iter[i] = inform(iter[i]) /\ iter[i] \in IterFields
    BY <1>1, <1>2, <1>8
  <2>2. iter[i].list \in Lists \cup {Nil}
    BY <2>1 DEF IterFields
  <2>3. CASE iter[i].list = l
    <3>1. iter[i].saved = Nil
      BY <1>5, <2>3
    <3>2. t.iter[i].valid => t.iter[i].cur = Nil
      BY <1>7, <2>1, <2>3 DEF IterPlaced
    <3> QED
      BY <1>7, <2>1, <3>1, <3>2 DEF IterPlaced
  <2>4. CASE iter[i].list # l
    <3>1. iter[i].list # Nil => d[iter[i].list] = c[iter[i].list]
      BY <1>10, <2>2, <2>4
    <3> QED
      BY <1>7, <2>1, <3>1 DEF IterPlaced
  <2> QED
    BY <2>3, <2>4
<1>14. Apart(d)
  <2>1. \A k \in Lists : Range(d[k]) \subseteq Range(c[k])
    BY <1>10, EmptyIsSequence
  <2> QED
    BY <1>1, <2>1 DEF Apart
<1>15. Holds(t, d)
  BY <1>9, <1>10, <1>12, <1>13, <1>14 DEF Holds
<1>16. \A k \in Lists \ {l} : Ahead(c[k], list[k].cur) \subseteq Ahead(d[k], t.list[k].cur)
  BY <1>8, <1>10
<1>17. Good(d)'
  BY <1>4, <1>15, <1>16, JumpGives
<1> QED
  BY <1>11, <1>17 DEF Outcome, Changes

\* The first link of a chain, and the chain that follows it.
LEMMA Parts ==
  ASSUME NEW o \in Seq(Elems), Injective(o), Len(o) > 1
  PROVE  LET h == SubSeq(o, 1, 1)
             r == SubSeq(o, 2, Len(o))
         IN /\ h \in Seq(Elems) /\ Len(h) = 1 /\ h[1] = o[1] /\ Injective(h)
            /\ Range(h) = {o[1]}
            /\ r \in Seq(Elems) /\ Len(r) = Len(o) - 1 /\ \A i \in 1..Len(r) : r[i] = o[i + 1]
            /\ Injective(r) /\ Range(r) = Range(o) \ {o[1]}
<1> DEFINE h == SubSeq(o, 1, 1)
           r == SubSeq(o, 2, Len(o))
<1>1. /\ Len(o) \in Nat /\ \A i \in 1..Len(o) : o[i] \in Elems
      /\ \A x : x \in Range(o) <=> \E j \in 1..Len(o) : o[j] = x
      /\ \A j, k \in 1..Len(o) : o[j] = o[k] => j = k
  BY LenProperties, ElementOfSeq, RangeOfSequence DEF Injective
<1>2. h \in Seq(Elems) /\ Len(h) = 1 /\ h[1] = o[1]
  BY <1>1, SubSeqProperties
<1>3. r \in Seq(Elems) /\ Len(r) = Len(o) - 1 /\ \A i \in 1..Len(r) : r[i] = o[i + 1]
  BY <1>1, SubSeqProperties
<1> HIDE DEF h, r
<1>4. Injective(h) /\ Range(h) = {o[1]}
  BY <1>2, RangeOfSequence DEF Injective
<1>5. Injective(r)
  BY <1>1, <1>3 DEF Injective
<1>6. Range(r) = Range(o) \ {o[1]}
  <2>1. \A x : x \in Range(r) <=> \E j \in 1..Len(r) : r[j] = x
    BY <1>3, RangeOfSequence
  <2>2. ASSUME NEW x \in Range(o), x # o[1] PROVE x \in Range(r)
    <3>1. PICK j \in 1..Len(o) : o[j] = x
      BY <1>1
    <3>2. j - 1 \in 1..Len(r) /\ r[j - 1] = x
      BY <1>1, <1>3, <2>2, <3>1
    <3> QED
      BY <2>1, <3>2
  <2>3. ASSUME NEW x \in Range(r) PROVE x \in Range(o) /\ x # o[1]
    <3>1. PICK j \in 1..Len(r) : r[j] = x
      BY <2>1
    <3>2. j + 1 \in 1..Len(o) /\ o[j + 1] = x /\ j + 1 # 1
      BY <1>1, <1>3, <3>1
    <3> QED
      BY <1>1, <3>2
  <2> QED
    BY <2>2, <2>3
<1> QED
  BY <1>2, <1>3, <1>4, <1>5, <1>6 DEF h, r

LEMMA SplitGives ==
  ASSUME NEW c, Good(c), NEW l \in Lists, NEW k \in Lists, Split(l, k)
  PROVE  Outcome(c)
<1> DEFINE x == list[l].cur
           o == c[l]
           h == SubSeq(o, 1, 1)
           r == SubSeq(o, 2, Len(o))
           fk == Fields(list[k], next[x], list[l].last, list[l].size - 1, list[k].cur, list[k].flags)
           fl == SavedAt(Fields(list[l], x, x, 1, x, list[l].flags), Nil, Going)
           t == [next |-> [next EXCEPT ![x] = Nil], prev |-> prev,
                 list |-> [list EXCEPT ![k] = fk, ![l] = fl], iter |-> iter]
           d == [m \in Lists |-> IF m = l THEN h ELSE IF m = k THEN r ELSE c[m]]
<1>1. /\ Holds(State, c) /\ State \in States /\ c \in [Lists -> Seq(Elems)] /\ Apart(c)
      /\ State.list = list /\ State.iter = iter /\ State.next = next /\ State.prev = prev
      /\ \A m \in Lists : Chain(State, m, c[m]) /\ ListPlaced(list[m], c[m])
      /\ \A i \in Iters : IterPlaced(iter[i], c)
  BY StateFields DEF Good, Holds
<1>2. /\ next \in [Elems -> Links] /\ prev \in [Elems -> Links] /\ list \in [Lists -> ListFields]
      /\ iter \in [Iters -> IterFields]
  BY <1>1 DEF States
<1>3. /\ l \notin Spare /\ k \in Spare /\ l # k /\ list[k].size = 0
      /\ x # Nil /\ x = list[l].first /\ x # list[l].last
      /\ \A i \in Iters : iter[i].list # l
  BY DEF Split
<1>4. Jump(t, l)
  <2>1. t.list = [list EXCEPT ![k] = Fields(@, next[x], list[l].last, list[l].size - 1, @.cur, @.flags),
                              ![l] = SavedAt(Fields(@, x, x, 1, x, @.flags), Nil, Going)]
    BY <1>2, <1>3
  <2> QED
    BY <2>1 DEF Split
<1>5. /\ o \in Seq(Elems) /\ Injective(o) /\ Len(o) \in Nat /\ Len(o) = list[l].size
      /\ list[l].first = At(o, 1) /\ list[l].last = At(o, Len(o))
      /\ \A i \in 1..Len(o) : next[o[i]] = At(o, i + 1)
      /\ \A i \in 1..Len(o) : prev[o[i]] = At(o, i - 1)
  BY <1>1, <1>3, LenProperties DEF Chain
<1>6. c[k] = <<>> /\ list[k].cur = Nil
  <2>1. c[k] \in Seq(Elems) /\ Len(c[k]) = 0
    BY <1>1, <1>3 DEF Chain
  <2>2. c[k] = <<>>
    BY <2>1, EmptySeq
  <2> QED
    BY <1>1, <2>2, EmptyIsSequence DEF ListPlaced
<1>7. Len(o) > 1 /\ x = o[1] /\ x \in Elems
  <2> HIDE DEF o
  <2>1. 1 \in 1..Len(o) /\ x = o[1]
    BY <1>3, <1>5 DEF At
  <2>2. Len(o) # 1 /\ Len(o) >= 1
    BY <1>3, <1>5, <2>1 DEF At
  <2>3. x \in Elems
    BY <1>5, <2>1, ElementOfSeq
  <2> QED
    BY <1>5, <2>1, <2>2, <2>3
<1>8. /\ h \in Seq(Elems) /\ Len(h) = 1 /\ h[1] = o[1] /\ Injective(h) /\ Range(h) = {o[1]}
      /\ r \in Seq(Elems) /\ Len(r) = Len(o) - 1 /\ \A i \in 1..Len(r) : r[i] = o[i + 1]
      /\ Injective(r) /\ Range(r) = Range(o) \ {o[1]}
  BY <1>5, <1>7, Parts
<1>9. /\ d[l] = h /\ d[k] = r /\ \A m \in Lists \ {l, k} : d[m] = c[m]
  BY <1>3
<1>10. Splits(c, d)
  BY <1>3, <1>5, <1>6, <1>7 DEF Splits
<1> HIDE DEF h, r
<1>11. d \in [Lists -> Seq(Elems)]
  BY <1>1, <1>8
<1>12. next[x] \in Links /\ list[l].last \in Links /\ list[l].size \in Int
       /\ list[k] \in ListFields /\ list[l] \in ListFields /\ x \in Links /\ Nil \in Links
       /\ Going \in Flags
  BY <1>2, <1>7, GoingTyped DEF ListFields, Links
<1>13. /\ fk \in ListFields /\ fk.first = next[x] /\ fk.last = list[l].last
       /\ fk.size = list[l].size - 1 /\ fk.cur = list[k].cur /\ fk.saved = list[k].saved
  BY <1>12 DEF Fields, ListFields
<1>14. /\ fl \in ListFields /\ fl.first = x /\ fl.last = x /\ fl.size = 1 /\ fl.cur = x /\ fl.saved = Nil
  <2> DEFINE g == Fields(list[l], x, x, 1, x, list[l].flags)
  <2>1. /\ g \in ListFields /\ g.first = x /\ g.last = x /\ g.size = 1 /\ g.cur = x
    BY <1>12 DEF Fields, ListFields
  <2> HIDE DEF g
  <2>2. /\ SavedAt(g, Nil, Going) \in ListFields /\ SavedAt(g, Nil, Going).first = g.first
        /\ SavedAt(g, Nil, Going).last = g.last /\ SavedAt(g, Nil, Going).size = g.size
        /\ SavedAt(g, Nil, Going).cur = g.cur /\ SavedAt(g, Nil, Going).saved = Nil
    BY <1>12, <2>1, CursorTyped, ZenonT(60)
  <2> QED
    BY <2>1, <2>2 DEF g
<1> HIDE DEF fk, fl
<1>15. /\ t \in States /\ t.iter = iter /\ t.prev = prev
       /\ t.next[x] = Nil /\ \A e \in Elems \ {x} : t.next[e] = next[e]
       /\ t.list[l] = fl /\ t.list[k] = fk /\ \A m \in Lists \ {l, k} : t.list[m] = list[m]
  <2>1. [next EXCEPT ![x] = Nil] \in [Elems -> Links]
    BY <1>2, <1>12
  <2>2. [list EXCEPT ![k] = fk, ![l] = fl] \in [Lists -> ListFields]
    BY <1>2, <1>13, <1>14
  <2>3. t \in States
    BY <1>2, <2>1, <2>2 DEF States
  <2> QED
    BY <1>2, <1>3, <1>7, <2>3
<1> HIDE DEF t, d, o
<1>16. Chain(t, l, h) /\ ListPlaced(t.list[l], h)
  <2>1. /\ At(h, 1) = x /\ At(h, Len(h)) = x /\ At(h, 0) = Nil /\ At(h, 2) = Nil
    BY <1>7, <1>8 DEF At
  <2>2. prev[x] = Nil
    <3>1. prev[o[1]] = At(o, 1 - 1)
      BY <1>5, <1>7
    <3> QED
      BY <1>5, <1>7, <3>1 DEF At
  <2>3. \A i \in 1..Len(h) : i = 1
    BY <1>8
  <2>4. /\ \A i \in 1..Len(h) : t.next[h[i]] = At(h, i + 1)
        /\ \A i \in 1..Len(h) : t.prev[h[i]] = At(h, i - 1)
    BY <1>7, <1>8, <1>15, <2>1, <2>2, <2>3
  <2>5. Chain(t, l, h)
    BY <1>8, <1>14, <1>15, <2>1, <2>4 DEF Chain
  <2> QED
    BY <1>7, <1>8, <1>14, <1>15, <2>5 DEF ListPlaced
<1>17. Chain(t, k, r) /\ ListPlaced(t.list[k], r)
  <2>1. \A i \in Int : i >= 1 => At(r, i) = At(o, i + 1)
    BY <1>5, <1>8 DEF At
  <2>2. \A i \in 1..Len(r) : r[i] \in Elems /\ r[i] # x /\ i + 1 \in 1..Len(o) /\ i \in Int /\ i >= 1
    <3> SUFFICES ASSUME NEW i \in 1..Len(r)
                 PROVE  r[i] \in Elems /\ r[i] # x /\ i + 1 \in 1..Len(o) /\ i \in Int /\ i >= 1
      OBVIOUS
    <3>1. r[i] \in Elems /\ r[i] \in Range(r)
      BY <1>8, ElementOfSeq, RangeOfSequence
    <3> QED
      BY <1>5, <1>7, <1>8, <3>1
  <2>3. ASSUME NEW i \in 1..Len(r) PROVE t.next[r[i]] = At(r, i + 1)
    <3>1. t.next[r[i]] = next[o[i + 1]]
      BY <1>8, <1>15, <2>2
    <3>2. next[o[i + 1]] = At(o, i + 1 + 1)
      BY <1>5, <2>2
    <3>3. At(r, i + 1) = At(o, i + 1 + 1)
      BY <2>1, <2>2
    <3> QED
      BY <3>1, <3>2, <3>3
  <2>4. ASSUME NEW i \in 1..Len(r), i > 1 PROVE t.prev[r[i]] = At(r, i - 1)
    <3>1. t.prev[r[i]] = prev[o[i + 1]]
      BY <1>8, <1>15
    <3>2. prev[o[i + 1]] = At(o, i + 1 - 1)
      BY <1>5, <2>2
    <3>3. At(r, i - 1) = At(o, i - 1 + 1)
      BY <2>1, <2>2, <2>4
    <3>4. i + 1 - 1 = i - 1 + 1
      BY <2>2
    <3> QED
      BY <3>1, <3>2, <3>3, <3>4
  <2>5. next[x] = At(r, 1)
    <3>1. next[o[1]] = At(o, 1 + 1)
      BY <1>5, <1>7
    <3> QED
      BY <1>7, <2>1, <3>1
  <2>6. list[l].last = At(r, Len(r))
    <3>1. Len(r) \in Int /\ Len(r) >= 1 /\ Len(r) + 1 = Len(o)
      BY <1>5, <1>7, <1>8
    <3> QED
      BY <1>5, <2>1, <3>1
  <2>7. Chain(t, k, r)
    BY <1>3, <1>5, <1>8, <1>13, <1>15, <2>3, <2>4, <2>5, <2>6 DEF Chain
  <2>8. list[k].saved = Nil
    BY <1>1, <1>6, EmptyIsSequence DEF ListPlaced
  <2> QED
    BY <1>6, <1>13, <1>15, <2>7, <2>8 DEF ListPlaced
<1>18. ASSUME NEW m \in Lists, m # l, m # k PROVE Chain(t, m, c[m]) /\ ListPlaced(t.list[m], c[m])
  <2>1. Chain(State, m, c[m]) /\ t.list[m] = list[m] /\ ListPlaced(list[m], c[m])
    BY <1>1, <1>15, <1>18
  <2>2. x \in Range(o)
    BY <1>5, <1>7, RangeOfSequence
  <2>3. Range(c[m]) \subseteq Elems \ {x}
    BY <1>1, <1>18, <2>2, HeldFacts DEF Apart, o
  <2>4. \A e \in Range(c[m]) : t.next[e] = State.next[e] /\ t.prev[e] = State.prev[e]
    BY <1>1, <1>15, <2>3
  <2>5. /\ t.list[m].first = State.list[m].first /\ t.list[m].last = State.list[m].last
        /\ t.list[m].size = State.list[m].size
    BY <1>1, <2>1
  <2>6. Chain(t, m, c[m])
    BY <2>1, <2>4, <2>5, ChainKept
  <2> QED
    BY <2>1, <2>6
<1>19. \A m \in Lists : Chain(t, m, d[m]) /\ ListPlaced(t.list[m], d[m])
  BY <1>9, <1>16, <1>17, <1>18
<1>20. \A i \in Iters : IterPlaced(t.iter[i], d)
  <2> SUFFICES ASSUME NEW i \in Iters PROVE IterPlaced(iter[i], d)
    BY <1>15
  <2>1. iter[i].list \in (Lists \ Spare) \cup {Nil} /\ IterPlaced(iter[i], c) /\ iter[i].list # l
    BY <1>1, <1>2, <1>3 DEF IterFields
  <2>2. iter[i].list # Nil => d[iter[i].list] = c[iter[i].list]
    BY <1>3, <1>9, <2>1
  <2> QED
    BY <2>1, <2>2 DEF IterPlaced
<1>21. Apart(d)
  <2>1. /\ Range(d[l]) \subseteq Range(c[l]) /\ Range(d[k]) \subseteq Range(c[l])
        /\ Range(d[l]) \cap Range(d[k]) = {}
        /\ \A m \in Lists \ {l, k} : d[m] = c[m]
    <3>1. o[1] \in Range(o)
      BY <1>5, <1>7, RangeOfSequence
    <3> QED
      BY <1>8, <1>9, <3>1 DEF o
  <2> HIDE DEF x
  <2> QED
    BY <1>1, <2>1 DEF Apart
<1>22. Holds(t, d)
  BY <1>11, <1>15, <1>19, <1>20, <1>21 DEF Holds
<1>23. ASSUME NEW m \in Lists \ {l} PROVE Ahead(c[m], list[m].cur) \subseteq Ahead(d[m], t.list[m].cur)
  <2>1. CASE m = k
    BY <1>6, <2>1, EmptyIsSequence
  <2>2. CASE m # k
    BY <1>9, <1>15, <2>2
  <2> QED
    BY <2>1, <2>2
<1>24. Good(d)'
  BY <1>4, <1>22, <1>23, JumpGives
<1> QED
  BY <1>10, <1>24 DEF Outcome, Changes

-----------------------------------------------------------------------------
(* The start: a list that has been filled with Add.                        *)

\* All elements of o are in list l.
In(l, o) == [k \in Lists |-> IF k = l THEN o ELSE <<>>]

LEMMA EmptyHolds ==
  ASSUME NEW l \in Lists
  PROVE  Holds(Empty, In(l, <<>>)) /\ Empty \in States
<1>1. Going \in Flags /\ Nil \in Links
  BY GoingTyped DEF Links
<1>2. NewList \in ListFields /\ NoIter \in IterFields
  BY <1>1 DEF NewList, NoIter, ListFields, IterFields
<1>3. Empty \in States
  BY <1>1, <1>2 DEF Empty, States
<1>4. In(l, <<>>) \in [Lists -> Seq(Elems)] /\ \A k \in Lists : In(l, <<>>)[k] = <<>>
  BY EmptyIsSequence DEF In
<1>5. \A k \in Lists : Empty.list[k] = NewList
  BY DEF Empty
<1>6. \A i \in Iters : Empty.iter[i] = NoIter
  BY DEF Empty
<1>7. NewList.size = 0 /\ NewList.first = Nil /\ NewList.last = Nil /\ NewList.cur = Nil /\ NewList.saved = Nil
  BY DEF NewList
<1>8. \A i \in 1..Len(<<>>) : FALSE
  BY EmptyIsSequence
<1>9. \A k \in Lists : Chain(Empty, k, <<>>) /\ ListPlaced(Empty.list[k], <<>>)
  BY <1>5, <1>7, <1>8, EmptyIsSequence DEF Chain, ListPlaced
<1>10. \A i \in Iters : IterPlaced(Empty.iter[i], In(l, <<>>))
  BY <1>6 DEF NoIter, IterPlaced
<1>11. Apart(In(l, <<>>))
  BY <1>4, EmptyIsSequence DEF Apart
<1> QED
  BY <1>3, <1>4, <1>9, <1>10, <1>11 DEF Holds

LEMMA AddLastTyped ==
  ASSUME NEW s \in States, NEW l \in Lists, NEW x \in Elems
  PROVE  AddCommon(s, l, x, "Last") \in States
<1> DEFINE old == s.list[l]
           g == [p |-> old.last, n |-> Nil]
           fields == Fields(old, IF g.p = Nil THEN x ELSE old.first, IF g.n = Nil THEN x ELSE old.last,
                            old.size + 1, old.cur,
                            [prev |-> old.flags.prev /\ g.p # Nil, next |-> old.flags.next /\ g.n # Nil,
                             done |-> old.flags.done])
<1>1. /\ s.next \in [Elems -> Links] /\ s.prev \in [Elems -> Links] /\ s.iter \in [Iters -> IterFields]
      /\ s.list \in [Lists -> ListFields] /\ old \in ListFields /\ Nil \in Links /\ x \in Links
  BY DEF States, Links
<1>2. AddCommon(s, l, x, "Last") = AddBetween(s, l, x, g, old.cur)
  BY DEF AddCommon, Gap
<1>3. fields \in ListFields
  <2>1. old.flags \in Flags /\ old.first \in Links /\ old.last \in Links /\ old.cur \in Links /\ old.size \in Int
        /\ old.saved \in Links /\ old.savedFlags \in Flags
    BY <1>1 DEF ListFields
  <2>2. [prev |-> old.flags.prev /\ g.p # Nil, next |-> old.flags.next /\ g.n # Nil,
         done |-> old.flags.done] \in Flags
    BY <2>1 DEF Flags
  <2> HIDE DEF old
  <2> QED
    BY <1>1, <2>1, <2>2 DEF Fields, ListFields
<1> HIDE DEF fields
<1>4. /\ [SetLink(s.next, g.p, x) EXCEPT ![x] = g.n] \in [Elems -> Links]
      /\ [SetLink(s.prev, g.n, x) EXCEPT ![x] = g.p] \in [Elems -> Links]
  <2>1. old.last \in Links
    BY <1>1 DEF ListFields
  <2>2. SetLink(s.next, g.p, x) \in [Elems -> Links] /\ SetLink(s.prev, g.n, x) \in [Elems -> Links]
    BY <1>1, <2>1 DEF SetLink, Links
  <2> QED
    BY <1>1, <2>1, <2>2
<1>5. [s.list EXCEPT ![l] = fields] \in [Lists -> ListFields]
  BY <1>1, <1>3
<1>6. AddBetween(s, l, x, g, old.cur) =
        [next |-> [SetLink(s.next, g.p, x) EXCEPT ![x] = g.n],
         prev |-> [SetLink(s.prev, g.n, x) EXCEPT ![x] = g.p],
         list |-> [s.list EXCEPT ![l] = fields], iter |-> s.iter]
  BY DEF AddBetween, fields
<1> HIDE DEF g
<1>7. AddBetween(s, l, x, g, old.cur) \in States
  BY <1>1, <1>4, <1>5, <1>6 DEF States
<1> QED
  BY <1>2, <1>7

LEMMA FilledHolds ==
  ASSUME NEW l \in Lists, NEW es \in SUBSET Elems, NEW order \in SetToSeqs(es)
  PROVE  LET s == FoldLeft(LAMBDA t, e : AddCommon(t, l, e, "Last"), Empty, order)
         IN \E o : Holds(s, In(l, o))
<1> DEFINE n == Cardinality(es)
           D == SUBSET (1..n)
           G == [i \in 1..n |-> [t \in States |-> AddCommon(t, l, order[i], "Last")]]
           Value(h, s) == IF s = {} THEN Empty ELSE AddCommon(h[s \ {Max(s)}], l, order[Max(s)], "Last")
           fold == CHOOSE h : h = [s \in D |-> Value(h, s)]
<1>1. /\ n \in Nat /\ DOMAIN order = 1..n /\ \A i \in 1..n : order[i] \in Elems
      /\ \A i, j \in 1..n : i # j => order[i] # order[j]
  <2>1. IsFiniteSet(es)
    BY FS_Subset, ListAssumption
  <2> QED
    BY <2>1, FS_CardinalityType DEF SetToSeqs
<1>2. FoldLeft(LAMBDA t, e : AddCommon(t, l, e, "Last"), Empty, order) = fold[1..n]
  BY <1>1 DEF FoldLeft, MapThenFoldSet
<1> HIDE DEF n
<1>3. G \in [1..n -> [States -> States]]
  BY <1>1, AddLastTyped
<1>4. Empty \in States
  BY EmptyHolds
<1>5. PICK h \in [D -> States] :
        \A s \in D : h[s] = IF s = {} THEN Empty ELSE G[Max(s)][h[s \ {Max(s)}]]
  <2> HIDE DEF G
  <2>1. n \in Nat
    BY <1>1
  <2>2. \E h : FoldsFrom(h, n, States, Empty, G)
    BY <1>3, <1>4, <2>1, FoldExists
  <2> QED
    BY <2>2 DEF FoldsFrom
<1>6. ASSUME NEW s \in D PROVE h[s] = Value(h, s)
  <2>1. CASE s = {}
    BY <1>5, <2>1
  <2>2. CASE s # {}
    <3>1. Max(s) \in 1..n /\ s \ {Max(s)} \in D
      BY <1>1, <2>2, MaxOfPlaces
    <3>2. h[s \ {Max(s)}] \in States
      BY <1>5, <3>1
    <3>3. h[s] = G[Max(s)][h[s \ {Max(s)}]]
      BY <1>5, <2>2
    <3> QED
      BY <2>2, <3>1, <3>2, <3>3
  <2> QED
    BY <2>1, <2>2
<1>7. h = [s \in D |-> Value(h, s)]
  BY <1>5, <1>6
<1>8. fold = [s \in D |-> Value(fold, s)]
  BY <1>7
<1> HIDE DEF fold
<1> DEFINE Done(k) == \E o : /\ Holds(fold[1..k], In(l, o))
                             /\ Range(o) = {order[i] : i \in 1..k}
           Bad == {k \in Nat : k <= n /\ ~ Done(k)}
<1>9. Bad = {}
  <2> SUFFICES ASSUME Bad # {} PROVE FALSE
    OBVIOUS
  <2>1. PICK k \in Bad : \A m \in Bad : k <= m
    BY LeastNatural
  <2>2. k # 0
    <3>1. fold[1..0] = Empty
      BY <1>8
    <3>2. Done(0)
      BY <3>1, EmptyHolds, EmptyIsSequence
    <3> HIDE DEF Done
    <3> QED
      BY <2>1, <3>2
  <2>3. k \in Nat /\ k - 1 \in Nat /\ k \in 1..n /\ k - 1 < k
    BY <1>1, <2>1, <2>2
  <2>4. Done(k - 1)
    <3> HIDE DEF Done
    <3>1. k - 1 \notin Bad /\ k - 1 <= n
      BY <1>1, <2>1, <2>3
    <3> QED
      BY <2>3, <3>1
  <2>5. PICK o : Holds(fold[1..(k - 1)], In(l, o)) /\ Range(o) = {order[i] : i \in 1..(k - 1)}
    BY <2>4
  <2> DEFINE s == fold[1..(k - 1)]
             x == order[k]
             c == In(l, o)
  <2>6. fold[1..k] = AddCommon(s, l, x, "Last")
    <3>1. 1..k # {} /\ Max(1..k) = k /\ (1..k) \ {k} = 1..(k - 1)
      BY <2>2, <2>3, MaxOfInterval
    <3>2. 1..k \in D
      BY <1>1, <2>3
    <3>3. fold[1..k] = Value(fold, 1..k)
      BY <1>8, <3>2
    <3> QED
      BY <3>1, <3>3
  <2>7. Holds(s, c) /\ x \in Elems
    BY <1>1, <2>3, <2>5
  <2>8. x \notin Range(o)
    BY <1>1, <2>3, <2>5
  <2>9. Unheld(c, x)
    BY <2>8, EmptyIsSequence DEF Unheld, In
  <2>10. o = c[l] /\ o \in Seq(Elems)
    BY <2>7 DEF In, Holds
  <2> HIDE DEF s, x, c
  <2>11. AddedTo(s, c, AddCommon(s, l, x, "Last"), l, x)
    BY <2>7, <2>9, AddCommonHolds DEF AddPositions
  <2>12. PICK i \in 1..Len(o) + 1 : Holds(AddCommon(s, l, x, "Last"), [c EXCEPT ![l] = InsertAt(@, i, x)])
    BY <2>10, <2>11 DEF AddedTo
  <2> DEFINE p == InsertAt(o, i, x)
  <2>13. [c EXCEPT ![l] = InsertAt(@, i, x)] = In(l, p)
    BY <2>10 DEF c, In
  <2>14. Range(p) = Range(o) \cup {x}
    BY <2>7, <2>10, RangeOfInsertAt
  <2>15. Range(p) = {order[j] : j \in 1..k}
    BY <2>3, <2>5, <2>14 DEF x
  <2> HIDE DEF p
  <2>16. Done(k)
    BY <2>6, <2>12, <2>13, <2>15
  <2> HIDE DEF Done
  <2> QED
    BY <2>1, <2>16
<1>10. Done(n)
  <2> HIDE DEF Done
  <2> QED
    BY <1>1, <1>9
<1> QED
  BY <1>2, <1>10

-----------------------------------------------------------------------------
(* The theorems.                                                           *)

GoodLists == \E c : Good(c)

\* At the start all elements are in one list.
LEMMA InitGives ==
  ASSUME Init
  PROVE  \E l \in Lists : \E o : Good(In(l, o))
<1>1. PICK l \in Lists, es \in SUBSET Elems : \E order \in SetToSeqs(es) :
        LET s == FoldLeft(LAMBDA t, e : AddCommon(t, l, e, "Last"), Empty, order)
        IN next = s.next /\ prev = s.prev /\ list = s.list /\ iter = s.iter
  BY ListAssumption DEF Init
<1>2. PICK order \in SetToSeqs(es) :
        LET s == FoldLeft(LAMBDA t, e : AddCommon(t, l, e, "Last"), Empty, order)
        IN next = s.next /\ prev = s.prev /\ list = s.list /\ iter = s.iter
  BY <1>1
<1> DEFINE s == FoldLeft(LAMBDA t, e : AddCommon(t, l, e, "Last"), Empty, order)
<1>3. \E o : Holds(s, In(l, o))
  BY FilledHolds
<1>4. next = s.next /\ prev = s.prev /\ list = s.list /\ iter = s.iter
  BY <1>2
<1> HIDE DEF s
<1>5. PICK o : Holds(s, In(l, o))
  BY <1>3
<1>6. State = s
  BY <1>4, <1>5 DEF State, Holds, States
<1>7. unseen = [k \in Lists |-> {}]
  BY DEF Init
<1>8. Good(In(l, o))
  BY <1>5, <1>6, <1>7 DEF Good
<1> QED
  BY <1>8

LEMMA ListStepGives ==
  ASSUME CarefulClients, NEW c, Good(c), NEW l \in Lists, ListStep(l)
  PROVE  Outcome(c)
<1>1. ASSUME NEW e \in Elems, NEW pos \in AddPositions, Add(l, e, pos) PROVE Outcome(c)
  BY <1>1, AddGives
<1>2. ASSUME NEW after \in AfterUnlink, DeleteLinkCurrent(l, after) PROVE Outcome(c)
  BY <1>2, DeleteLinkCurrentGives
<1>3. CASE DeleteLinkThenIterationDone(l)
  BY <1>3, DeleteLinkThenIterationDoneGives
<1>4. CASE DeleteLinkAll(l)
  BY <1>4, DeleteLinkAllGives
<1>5. ASSUME NEW k \in Lists \ {l}, NEW pos \in AddPositions, NEW after \in AfterUnlink,
             RelinkTo(l, k, pos, after)
      PROVE  Outcome(c)
  BY <1>5, RelinkToGives
<1>6. ASSUME NEW k \in Lists, Split(l, k) PROVE Outcome(c)
  BY <1>6, SplitGives
<1>7. CASE First(l)
  BY <1>7, FirstGives
<1>8. CASE Last_(l) \/ PositionRestore(l) \/ \E e \in Elems : PositionFind(l, e)
  BY <1>8, JumpersGive
<1>9. CASE Next_(l)
  BY <1>9, NextGives
<1>10. CASE Prev_(l)
  BY <1>10, PrevGives
<1>11. CASE PositionSave(l)
  BY <1>11, PositionSaveGives
<1> QED
  BY <1>1, <1>2, <1>3, <1>4, <1>5, <1>6, <1>7, <1>8, <1>9, <1>10, <1>11 DEF ListStep

LEMMA IteratorStepGives ==
  ASSUME CarefulClients, NEW c, Good(c), NEW i \in Iters, IteratorStep(i)
  PROVE  Outcome(c)
<1>1. ASSUME NEW e \in Elems, NEW pos \in AddPositions, AddFor(i, e, pos) PROVE Outcome(c)
  BY <1>1, AddForGives
<1>2. ASSUME NEW after \in AfterUnlink, UnlinkFor(i, after) PROVE Outcome(c)
  BY <1>2, UnlinkForGives
<1>3. ASSUME NEW l \in Lists, NEW pos \in AddPositions, NEW after \in AfterUnlink,
             RelinkToIterator(l, i, pos, after)
      PROVE  Outcome(c)
  BY <1>3, RelinkToIteratorGives
<1>4. ASSUME NEW l \in Lists, NEW pos \in AddPositions, NEW after \in AfterUnlink,
             RelinkFromIterator(l, i, pos, after)
      PROVE  Outcome(c)
  BY <1>4, RelinkFromIteratorGives
<1>5. ASSUME NEW j \in Iters, NEW pos \in AddPositions, NEW after \in AfterUnlink,
             RelinkFromTo(i, j, pos, after)
      PROVE  Outcome(c)
  BY <1>5, RelinkFromToGives
<1>6. ASSUME NEW l \in Lists, ListIteratorNew(l, i) \/ ListIteratorDelete(i) PROVE Outcome(c)
  BY <1>6, ListIteratorNewGives
<1>7. ASSUME NEW l \in Lists, PositionSetFrom(l, i) PROVE Outcome(c)
  BY <1>7, JumpersGive
<1>8. CASE ListIteratorDelete(i)
  <2>1. iter[i].list \in Lists
    BY <1>8, IteratorFacts DEF ListIteratorDelete
  <2> QED
    BY <1>8, <2>1, ListIteratorNewGives
<1>9. CASE IteratorFirst(i) \/ IteratorLast(i) \/ PositionSetForIterator(i)
  BY <1>9, IteratorEndsGive
<1>10. CASE IteratorNext(i) \/ IteratorPrev(i)
  BY <1>10, IteratorNextGives
<1>11. ASSUME NEW j \in Iters, IteratorPositionSet(i, j) PROVE Outcome(c)
  BY <1>11, IteratorPositionSetGives
<1>12. CASE IteratorSave(i)
  BY <1>12, IteratorSaveGives
<1>13. CASE IteratorRestore(i)
  BY <1>13, IteratorRestoreGives
<1> QED
  BY <1>1, <1>2, <1>3, <1>4, <1>5, <1>6, <1>7, <1>8, <1>9, <1>10, <1>11, <1>12, <1>13 DEF IteratorStep

\* Every step leaves the lists with sequences that an operation can make.
LEMMA StepsGive ==
  ASSUME CarefulClients, NEW c, Good(c), [Next]_vars
  PROVE  Outcome(c)
<1>1. CASE Next
  BY <1>1, ListStepGives, IteratorStepGives DEF Next
<1>2. CASE UNCHANGED vars
  <2>1. Good(c)'
    BY <1>2 DEF vars, Good, State
  <2> QED
    BY <2>1 DEF Outcome, Changes
<1> QED
  BY <1>1, <1>2

LEMMA ContentIs ==
  ASSUME NEW c, Good(c)
  PROVE  /\ c \in [Lists -> Seq(Elems)]
         /\ \A l \in Lists : Content(l) = c[l] /\ Linked(State, l) = Range(c[l])
         /\ [l \in Lists |-> Content(l)] = c
<1>1. Holds(State, c) /\ State \in States /\ c \in [Lists -> Seq(Elems)]
  BY DEF Good, Holds
<1>2. \A l \in Lists : Order(State, l) = c[l] /\ Linked(State, l) = Range(c[l])
  BY <1>1, ChainIsOrder, LinkedIsRange DEF Holds
<1> QED
  BY <1>1, <1>2 DEF Content

LEMMA GoodIsWellFormed ==
  ASSUME GoodLists
  PROVE  WellFormedLists /\ NothingSkipped
<1>1. PICK c : Good(c)
  BY DEF GoodLists
<1>2. /\ \A l \in Lists : Content(l) = c[l] /\ Linked(State, l) = Range(c[l])
      /\ \A l \in Lists : Chain(State, l, c[l]) /\ ListPlaced(list[l], c[l])
      /\ Apart(c) /\ \A i \in Iters : IterPlaced(iter[i], c) /\ iter[i] \in IterFields
      /\ State.list = list /\ State.next = next /\ State.prev = prev
  BY <1>1, ContentIs, StateFields, IterFacts DEF Good, Holds
<1>3. ASSUME NEW l \in Lists
      PROVE  LET o == Content(l)
             IN /\ Len(o) = list[l].size
                /\ IF o = <<>> THEN list[l].last = Nil
                               ELSE list[l].last = Last(o) /\ next[Last(o)] = Nil
                /\ \A i \in 2..Len(o) : prev[o[i]] = o[i - 1]
                /\ o # <<>> /\ l \notin Spare => prev[Head(o)] = Nil
                /\ list[l].cur \in Range(o) \cup {Nil}
                /\ \A k \in Lists \ {l} : Range(o) \cap Linked(State, k) = {}
  <2> DEFINE o == c[l]
  <2>1. /\ o \in Seq(Elems) /\ Len(o) = list[l].size /\ list[l].last = At(o, Len(o))
        /\ \A i \in 1..Len(o) : next[o[i]] = At(o, i + 1)
        /\ \A i \in 1..Len(o) : i > 1 \/ l \notin Spare => prev[o[i]] = At(o, i - 1)
    BY <1>2 DEF Chain
  <2>2. list[l].cur \in Range(o) \cup {Nil}
    BY <1>2 DEF ListPlaced
  <2>3. \A k \in Lists \ {l} : Range(o) \cap Linked(State, k) = {}
    BY <1>2 DEF Apart
  <2>4. Content(l) = o
    BY <1>2
  <2> HIDE DEF o
  <2>5. Len(o) \in Nat
    BY <2>1, LenProperties
  <2>6. IF o = <<>> THEN list[l].last = Nil ELSE list[l].last = Last(o) /\ next[Last(o)] = Nil
    <3>1. CASE o = <<>>
      <4>1. Len(o) \notin 1..Len(o)
        BY <3>1, EmptyIsSequence
      <4> QED
        BY <2>1, <3>1, <4>1 DEF At
    <3>2. CASE o # <<>>
      <4>1. Len(o) # 0
        BY <2>1, <3>2, EmptySeq
      <4>2. Len(o) \in 1..Len(o) /\ Len(o) + 1 \notin 1..Len(o)
        BY <2>5, <4>1
      <4>3. Last(o) = o[Len(o)]
        BY DEF Last
      <4> QED
        BY <2>1, <3>2, <4>2, <4>3 DEF At
    <3> QED
      BY <3>1, <3>2
  <2>7. ASSUME NEW i \in 2..Len(o) PROVE prev[o[i]] = o[i - 1]
    <3>1. i \in 1..Len(o) /\ i > 1 /\ i - 1 \in 1..Len(o)
      BY <2>5
    <3> QED
      BY <2>1, <3>1 DEF At
  <2>8. o # <<>> /\ l \notin Spare => prev[Head(o)] = Nil
    <3> SUFFICES ASSUME o # <<>>, l \notin Spare PROVE prev[Head(o)] = Nil
      OBVIOUS
    <3>1. Len(o) # 0 /\ Head(o) = o[1]
      BY <2>1, EmptySeq
    <3>2. 1 \in 1..Len(o) /\ 1 - 1 \notin 1..Len(o)
      BY <2>5, <3>1
    <3>3. prev[o[1]] = At(o, 1 - 1)
      BY <2>1, <3>2
    <3> QED
      BY <3>1, <3>2, <3>3 DEF At
  <2> QED
    BY <2>1, <2>2, <2>3, <2>4, <2>6, <2>7, <2>8
<1>4. IteratorsPlaced
  <2> SUFFICES ASSUME NEW i \in Iters, iter[i].valid, iter[i].cur # Nil
               PROVE  iter[i].cur \in Linked(State, iter[i].list)
    BY DEF IteratorsPlaced
  <2>1. iter[i].list # Nil /\ iter[i].cur \in Range(c[iter[i].list])
    BY <1>2 DEF IterPlaced
  <2>2. iter[i].list \in Lists
    BY <1>2, <2>1 DEF IterFields
  <2> QED
    BY <1>2, <2>1, <2>2
<1>5. NothingSkipped
  <2> SUFFICES ASSUME NEW l \in Lists, NEW e \in unseen[l]
               PROVE  LET o == Content(l)
                      IN e \in {x \in Range(o) :
                                  \E i, j \in DOMAIN o : i < j /\ o[i] = list[l].cur /\ o[j] = x}
    BY DEF NothingSkipped
  <2>1. e \in Ahead(c[l], list[l].cur)
    BY <1>1 DEF Good
  <2>2. DOMAIN c[l] = 1..Len(c[l])
    BY <1>1, ContentIs, LenProperties
  <2> QED
    BY <1>2, <2>1, <2>2 DEF Ahead
<1> QED
  BY <1>3, <1>4, <1>5 DEF WellFormedLists, WellLinked

LEMMA GoodInvariant ==
  ASSUME CarefulClients
  PROVE  Spec => []GoodLists
<1>1. Init => GoodLists
  BY InitGives DEF GoodLists
<1>2. GoodLists /\ [Next]_vars => GoodLists'
  BY StepsGive DEF GoodLists, Outcome
<1> QED
  BY <1>1, <1>2, PTL DEF Spec

\* Between calls the links of every list are one chain in both directions, in
\* no other list, with the cursor on it, and a valid iterator is on its list
\* (WellFormedLists), for clients that are careful.
THEOREM ListsAreWellFormed ==
  ASSUME CarefulClients
  PROVE  Spec => []WellFormedLists
<1>1. GoodLists => WellFormedLists
  BY GoodIsWellFormed
<1> QED
  BY <1>1, GoodInvariant, PTL

\* Nothing that was in a list when a walk of it began is passed unseen.
THEOREM WalksSkipNothing ==
  ASSUME CarefulClients
  PROVE  Spec => []NothingSkipped
<1>1. GoodLists => NothingSkipped
  BY GoodIsWellFormed
<1> QED
  BY <1>1, GoodInvariant, PTL

\* The lists implement sequences: an operation of the code inserts, takes,
\* moves, splits off or clears what the specification without links does.
Mapped(c) == [l \in Lists |-> Content(l)] = c

LEMMA SequenceOfItsRange ==
  ASSUME NEW o \in Seq(Elems), Injective(o)
  PROVE  o \in SetToSeqs(Range(o)) /\ Range(o) \in SUBSET Elems
<1>1. /\ Len(o) \in Nat /\ o \in [1..Len(o) -> Range(o)] /\ Range(o) \subseteq Elems
      /\ \A x \in Range(o) : \E i \in 1..Len(o) : o[i] = x
      /\ \A i, j \in 1..Len(o) : o[i] = o[j] => i = j
  BY LenProperties, RangeOfSequence DEF Injective
<1>2. o \in Bijection(1..Len(o), Range(o))
  BY <1>1 DEF Bijection, Injection, Surjection, IsInjective
<1>3. Cardinality(Range(o)) = Len(o)
  <2> DEFINE n == Len(o)
             S == 1..n
             T == Range(o)
  <2>1. n \in Nat /\ o \in Bijection(S, T)
    BY <1>1, <1>2
  <2> HIDE DEF n
  <2>2. IsFiniteSet(S) /\ Cardinality(S) = n
    BY <2>1, FS_Interval
  <2> HIDE DEF S, T
  <2>3. Cardinality(T) = Cardinality(S)
    BY <2>1, <2>2, FS_Bijection DEF ExistsBijection
  <2> QED
    BY <2>2, <2>3 DEF n, T
<1> QED
  BY <1>1, <1>3 DEF SetToSeqs

LEMMA AbstractInit ==
  ASSUME Init
  PROVE  Abstract!Init
<1>1. PICK l \in Lists : \E o : Good(In(l, o))
  BY InitGives
<1>2. PICK o : Good(In(l, o))
  BY <1>1
<1>3. [k \in Lists |-> Content(k)] = In(l, o) /\ In(l, o)[l] \in Seq(Elems) /\ In(l, o)[l] = o
  BY <1>2, ContentIs DEF In
<1>4. Injective(o)
  BY <1>2, <1>3 DEF Good, Holds, Chain
<1>5. o \in SetToSeqs(Range(o)) /\ Range(o) \in SUBSET Elems
  BY <1>3, <1>4, SequenceOfItsRange
<1>6. SetToSeqs(Range(o)) = Abstract!SetToSeqs(Range(o))
  BY DEF SetToSeqs, Abstract!SetToSeqs, Cardinality, Abstract!Cardinality
<1>7. [k \in Lists |-> Content(k)] = [k \in Lists |-> IF k = l THEN o ELSE <<>>]
  BY <1>3 DEF In
<1> QED
  BY <1>5, <1>6, <1>7 DEF Abstract!Init

LEMMA SameHelpers ==
  /\ \A s, i, x : Abstract!InsertAt(s, i, x) = InsertAt(s, i, x)
  /\ \A s, i : Abstract!RemoveAt(s, i) = RemoveAt(s, i)
  /\ \A s : Abstract!Range(s) = Range(s)
BY DEF Abstract!InsertAt, InsertAt, Abstract!RemoveAt, RemoveAt, Abstract!Range, Range

LEMMA ContentWillBe ==
  ASSUME NEW d, Good(d)'
  PROVE  [l \in Lists |-> Content(l)]' = d
<1>1. Holds(State', d)
  BY DEF Good
<1>2. State' \in States /\ d \in [Lists -> Seq(Elems)] /\ \A l \in Lists : Chain(State', l, d[l])
  BY <1>1 DEF Holds
<1>3. \A l \in Lists : Order(State', l) = d[l]
  BY <1>2, ChainIsOrder
<1> QED
  BY <1>2, <1>3 DEF Content

\* What an operation does to the contents, the specification without links does.
LEMMA AbstractStep ==
  ASSUME NEW c, Good(c), NEW d, Good(d)', Changes(c, d)
  PROVE  Abstract!Next \/ UNCHANGED [l \in Lists |-> Content(l)]
<1> DEFINE contents == [l \in Lists |-> Content(l)]
<1>1. contents = c /\ c \in [Lists -> Seq(Elems)] /\ contents' = d
  BY ContentIs, ContentWillBe
<1> HIDE DEF contents
<1>2. CASE Inserts(c, d)
  <2>0. PICK l \in Lists, x \in Elems : \E i \in 1..Len(c[l]) + 1 :
          Unheld(c, x) /\ d = [c EXCEPT ![l] = InsertAt(@, i, x)]
    BY <1>2 DEF Inserts
  <2>1. PICK i \in 1..Len(c[l]) + 1 : Unheld(c, x) /\ d = [c EXCEPT ![l] = InsertAt(@, i, x)]
    BY <2>0
  <2>2. Abstract!Insert(l, x, i)
    BY <1>1, <2>1, SameHelpers DEF Abstract!Insert, Abstract!Elements, Unheld, contents
  <2> QED
    BY <1>1, <2>1, <2>2 DEF Abstract!Next, contents
<1>3. CASE Takes(c, d)
  <2>0. PICK l \in Lists : \E i \in 1..Len(c[l]) : d = [c EXCEPT ![l] = RemoveAt(@, i)]
    BY <1>3 DEF Takes
  <2>1. PICK i \in 1..Len(c[l]) : d = [c EXCEPT ![l] = RemoveAt(@, i)]
    BY <2>0
  <2>2. Abstract!Take(l, i) /\ i \in DOMAIN c[l]
    BY <1>1, <2>1, SameHelpers, LenProperties DEF Abstract!Take, contents
  <2> QED
    BY <1>1, <2>2 DEF Abstract!Next, contents
<1>4. CASE Moves(c, d)
  <2>0. PICK l \in Lists, k \in Lists : \E i \in 1..Len(c[l]) :
          LET rest == [c EXCEPT ![l] = RemoveAt(@, i)]
          IN \E j \in 1..Len(rest[k]) + 1 : d = [rest EXCEPT ![k] = InsertAt(@, j, c[l][i])]
    BY <1>4 DEF Moves
  <2>1. PICK i \in 1..Len(c[l]) :
          LET rest == [c EXCEPT ![l] = RemoveAt(@, i)]
          IN \E j \in 1..Len(rest[k]) + 1 : d = [rest EXCEPT ![k] = InsertAt(@, j, c[l][i])]
    BY <2>0
  <2> DEFINE rest == [c EXCEPT ![l] = RemoveAt(@, i)]
  <2>2. PICK j \in 1..Len(rest[k]) + 1 : d = [rest EXCEPT ![k] = InsertAt(@, j, c[l][i])]
    BY <2>1
  <2>3. i \in DOMAIN c[l]
    BY <1>1, LenProperties
  <2>4. j \in 1..Len(c[k]) + 1
    <3>1. Len(RemoveAt(c[l], i)) = Len(c[l]) - 1 /\ Len(c[l]) \in Nat /\ Len(c[k]) \in Nat
      BY <1>1, <2>3, LenProperties, RemoveAtProperties
    <3>2. Len(rest[k]) = IF k = l THEN Len(c[l]) - 1 ELSE Len(c[k])
      BY <1>1, <3>1
    <3> HIDE DEF rest
    <3> QED
      BY <3>1, <3>2
  <2>5. Abstract!Move(l, k, i, j)
    BY <1>1, <2>2, SameHelpers DEF Abstract!Move, contents
  <2> QED
    BY <1>1, <2>3, <2>4, <2>5 DEF Abstract!Next, contents
<1>5. CASE Splits(c, d)
  <2>1. PICK l \in Lists, k \in Lists :
          /\ l # k /\ c[k] = <<>> /\ c[l] # <<>>
          /\ d = [m \in Lists |-> IF m = l THEN SubSeq(c[l], 1, 1)
                                  ELSE IF m = k THEN SubSeq(c[l], 2, Len(c[l])) ELSE c[m]]
    BY <1>5 DEF Splits
  <2>2. d = [c EXCEPT ![l] = SubSeq(@, 1, 1), ![k] = SubSeq(c[l], 1 + 1, Len(c[l]))]
    <3> DEFINE h == SubSeq(c[l], 1, 1)
               r == SubSeq(c[l], 2, Len(c[l]))
    <3>1. d = [m \in Lists |-> IF m = l THEN h ELSE IF m = k THEN r ELSE c[m]]
      BY <2>1
    <3>2. [c EXCEPT ![l] = h, ![k] = r] = [m \in Lists |-> IF m = l THEN h ELSE IF m = k THEN r ELSE c[m]]
      <4> HIDE DEF h, r
      <4> QED
        BY <1>1, <2>1
    <3> QED
      BY <3>1, <3>2
  <2>3. Abstract!SplitAfter(l, k, 1)
    BY <1>1, <2>1, <2>2 DEF Abstract!SplitAfter, contents
  <2>4. 1 \in DOMAIN c[l]
    <3>1. c[l] \in Seq(Elems) /\ Len(c[l]) # 0
      BY <1>1, <2>1, EmptySeq
    <3> QED
      BY <3>1, LenProperties
  <2> QED
    BY <1>1, <2>3, <2>4 DEF Abstract!Next, contents
<1>6. CASE Clears(c, d)
  <2>1. PICK l \in Lists : d = [c EXCEPT ![l] = <<>>]
    BY <1>6 DEF Clears
  <2>2. Abstract!Clear(l)
    BY <1>1, <2>1 DEF Abstract!Clear, contents
  <2> QED
    BY <2>2 DEF Abstract!Next
<1>7. CASE d = c
  BY <1>1, <1>7 DEF contents
<1> QED
  BY <1>2, <1>3, <1>4, <1>5, <1>6, <1>7 DEF Changes

\* The lists implement sequences: no operation loses, doubles or reorders an
\* element other than the one that it is about.
THEOREM ListsAreSequences ==
  ASSUME CarefulClients
  PROVE  Spec => ContentsSpec
<1>1. Init => Abstract!Init
  BY AbstractInit
<1>2. GoodLists /\ [Next]_vars => [Abstract!Next]_([l \in Lists |-> Content(l)])
  BY StepsGive, AbstractStep DEF GoodLists, Outcome
<1> QED
  BY <1>1, <1>2, GoodInvariant, PTL DEF Spec, ContentsSpec, Abstract!Spec

-----------------------------------------------------------------------------
(* The cursor that is borrowed and given back.                             *)

LEMMA AddGivesBack ==
  ASSUME NEW s, NEW l, NEW x, NEW pos, NEW i, NEW k \in Lists, s.list \in [Lists -> ListFields], l \in Lists
  PROVE  s.list[k].cur \in {Nil, AddForIterator(s, l, x, pos, i).list[k].cur}
<1> DEFINE g == Gap(s, l, pos, s.iter[i].cur)
           cur == IF s.list[l].cur = Nil THEN x ELSE s.list[l].cur
           old == s.list[l]
           f == Fields(old, IF g.p = Nil THEN x ELSE old.first, IF g.n = Nil THEN x ELSE old.last,
                       old.size + 1, cur,
                       [prev |-> old.flags.prev /\ g.p # Nil, next |-> old.flags.next /\ g.n # Nil,
                        done |-> old.flags.done])
<1>1. AddForIterator(s, l, x, pos, i).list = [s.list EXCEPT ![l] = f]
  BY DEF AddForIterator, AddBetween
<1>2. f.cur = cur
  BY DEF Fields
<1> HIDE DEF f
<1> QED
  BY <1>1, <1>2

LEMMA UnlinkGivesBack ==
  ASSUME NEW s, NEW l, NEW x, NEW by, NEW after, NEW k \in Lists, s.list \in [Lists -> ListFields],
         l \in Lists, s.list[l].cur # x
  PROVE  Unlink(s, l, x, by, after).list[k].cur = s.list[k].cur
<1> DEFINE old == s.list[l]
           n == After(s, l, x)
           p == Before(s, l, x)
           current == old.cur = x
           only == p = Nil /\ n = Nil
           f == Fields(old, IF p = Nil THEN n ELSE old.first, IF n = Nil THEN p ELSE old.last,
                       old.size - 1, IF current THEN CursorAfter(p, n, after) ELSE old.cur,
                       [prev |-> old.flags.prev \/ (current /\ ~only /\ p = Nil /\ after = "Prev"),
                        next |-> old.flags.next \/ (current /\ ~only /\ n = Nil /\ after = "Next"),
                        done |-> old.flags.done])
<1>1. Unlink(s, l, x, by, after).list = [s.list EXCEPT ![l] = f]
  BY DEF Unlink
<1>2. f.cur = old.cur
  BY DEF Fields
<1> HIDE DEF f
<1> QED
  BY <1>1, <1>2

\* A step for an iterator only leaves the current link of every list.
LEMMA GivesBack ==
  ASSUME CarefulClients, GoodLists, [Next]_vars, OnlyForIterator
  PROVE  \A k \in Lists : list[k].cur \in {Nil, list'[k].cur}
<1>1. PICK c : Good(c)
  BY DEF GoodLists
<1>2. State.list = list /\ list \in [Lists -> ListFields]
  BY <1>1, StateFields DEF Good, Holds, States
<1> SUFFICES ASSUME NEW k \in Lists PROVE list[k].cur \in {Nil, list'[k].cur}
  OBVIOUS
<1>3. ASSUME NEW i \in Iters, NEW e \in Elems, NEW pos \in AddPositions, AddFor(i, e, pos)
      PROVE  list[k].cur \in {Nil, list'[k].cur}
  <2>1. iter[i].list \in Lists
    BY <1>1, <1>3, IteratorFacts DEF AddFor
  <2>2. list' = AddForIterator(State, iter[i].list, e, pos, i).list
    BY <1>3 DEF AddFor, Step, Become
  <2> QED
    BY <1>2, <2>1, <2>2, AddGivesBack
<1>4. ASSUME NEW i \in Iters, NEW after \in AfterUnlink, UnlinkFor(i, after)
      PROVE  list[k].cur \in {Nil, list'[k].cur}
  <2>1. iter[i].list \in Lists
    BY <1>1, <1>4, IteratorFacts DEF UnlinkFor
  <2>2. list' = Unlink(State, iter[i].list, iter[i].cur, i, after).list
        /\ list[iter[i].list].cur # iter[i].cur
    BY <1>4 DEF UnlinkFor, Step, Become, Forget
  <2> QED
    BY <1>2, <2>1, <2>2, UnlinkGivesBack
<1>5. ASSUME NEW i \in Iters, NEW j \in Iters, NEW pos \in AddPositions, NEW after \in AfterUnlink,
             RelinkFromTo(i, j, pos, after)
      PROVE  list[k].cur \in {Nil, list'[k].cur}
  <2> DEFINE l == iter[i].list
             x == iter[i].cur
             m == Unlink(State, l, x, i, after)
  <2>1. l \in Lists /\ x \in Linked(State, l)
    BY <1>1, <1>5, IteratorFacts DEF RelinkFromTo, Placed
  <2>2. list' = AddForIterator(m, l, x, pos, j).list /\ list[l].cur \notin {Nil, x}
        /\ MayUnlink(l, x)
    BY <1>5 DEF RelinkFromTo, Step, Become
  <2> HIDE DEF l, x
  <2>3. m.list[k].cur = list[k].cur
    BY <1>2, <2>1, <2>2, UnlinkGivesBack
  <2>4. m.list \in [Lists -> ListFields]
    <3>1. PICK n \in 1..Len(c[l]) : c[l][n] = x
      BY <1>1, <2>1, PlaceOf
    <3>2. Len(c[l]) > 1
      BY <1>1, <2>1, <2>2, <3>1, NotTheOnlyOne
    <3>3. MayUnlink(l, c[l][n])
      BY <2>2, <3>1
    <3>4. Unlinked(State, c, Unlink(State, l, c[l][n], i, after),
                   [c EXCEPT ![l] = RemoveAt(@, n)], l, c[l][n], i)
      BY <1>1, <2>1, <3>2, <3>3, UnlinkOut
    <3> QED
      BY <3>1, <3>4 DEF Unlinked, Holds, States
  <2> HIDE DEF m
  <2> QED
    BY <2>1, <2>2, <2>3, <2>4, AddGivesBack
<1> QED
  BY <1>3, <1>4, <1>5 DEF OnlyForIterator

\* An operation for an iterator borrows the current link of the list; it is
\* what it was afterwards, unless there was none.
THEOREM CursorsAreGivenBack ==
  ASSUME CarefulClients
  PROVE  Spec => CursorGivenBack
<1>1. GoodLists /\ [Next]_vars => [OnlyForIterator => \A l \in Lists : list[l].cur \in {Nil, list'[l].cur}]_vars
  BY GivesBack
<1> QED
  BY <1>1, GoodInvariant, PTL DEF Spec, CursorGivenBack
=============================================================================
