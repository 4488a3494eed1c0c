------------------------------ MODULE BitsProofs ------------------------------
(***************************************************************************)
(* Bit vectors of any number of vectors, of any widths up to two words of  *)
(* any size, for programs that avoid what the code gets wrong (Careful):   *)
(* vectors stay well formed, and assignments, shifts, combinations and     *)
(* comparisons of parts are those of the numbers they stand for.           *)
(*                                                                         *)
(* The places that are 1 are a set; the value of a set is the sum of its   *)
(* powers of two, and that sum decides the set and the order of two.       *)
(***************************************************************************)
EXTENDS Bits, DataLemmas

\* What programs avoid because it leaves a vector ill formed, or a wrong value in it: numbers
\* in parts that lie in two words, parts read from bit 0, a whole vector written as a part,
\* high bits combined, shifts by 0, an empty vector assigned to one that has bits, and parts
\* compared with an empty vector, tested by ! or copied (see AllUses).
Careful == Uses \cap {"straddling", "low", "explicit", "high", "still", "kept", "emptied"} = {}

\* Without what ^, and bits set and cleared in words that are filled, get wrong.
CarefulWithAll == Careful /\ Uses \cap {"xor", "filled"} = {}

\* And neither comparing vectors that differ in layout, nor parts with numbers.
CarefulWithOrder == Careful /\ Uses \cap {"layouts", "parts"} = {}

-----------------------------------------------------------------------------
(* Numbers in binary: a set of places has the value of its powers of two.  *)

BinaryValue(places) == SumSet({2^i : i \in places})

LEMMA PowersDiffer ==
  ASSUME NEW i \in Nat, NEW j \in Nat, i < j
  PROVE  2^i < 2^j
<1>1. 2^(i + 1) = 2 * 2^i /\ 2^(i + 1) <= 2^j
  BY PowerDoubles, PowersGrow
<1> QED
  BY <1>1, PowerPositive

LEMMA FiniteImage ==
  ASSUME NEW S, IsFiniteSet(S), NEW f
  PROVE  IsFiniteSet({f[x] : x \in S})
<1> DEFINE T == {f[x] : x \in S}
           g == [x \in S |-> f[x]]
<1>1. g \in [S -> T] /\ \A t \in T : \E x \in S : g[x] = t
  OBVIOUS
<1>2. g \in Surjection(S, T)
  <2> HIDE DEF g, T
  <2> QED
    BY <1>1 DEF Surjection
<1> HIDE DEF g, T
<1>3. IsFiniteSet(T)
  BY <1>2, FS_Surjection
<1> QED
  BY <1>3 DEF T

LEMMA BinaryRemove ==
  ASSUME NEW P \in SUBSET Nat, IsFiniteSet(P)
  PROVE  /\ BinaryValue(P) \in Int
         /\ P = {} => BinaryValue(P) = 0
         /\ \A i \in P : BinaryValue(P) = 2^i + BinaryValue(P \ {i})
<1> DEFINE Powers(s) == {2^i : i \in s}
<1>1. IsFiniteSet(Powers(P)) /\ Powers(P) \in SUBSET Int
  <2>1. IsFiniteSet(Powers(P))
    <3> DEFINE f == [i \in P |-> 2^i]
    <3>1. IsFiniteSet({f[i] : i \in P})
      <4> HIDE DEF f
      <4> QED
        BY FiniteImage
    <3>2. {f[i] : i \in P} = Powers(P)
      OBVIOUS
    <3> QED
      BY <3>1, <3>2
  <2>2. \A i \in P : 2^i \in Int
    BY PowerCounts
  <2> QED
    BY <2>1, <2>2
<1>2. ASSUME NEW i \in P
      PROVE  2^i \in Powers(P) /\ Powers(P) \ {2^i} = Powers(P \ {i})
  <2>1. \A j \in P \ {i} : 2^j # 2^i
    <3> SUFFICES ASSUME NEW j \in P \ {i} PROVE 2^j # 2^i
      OBVIOUS
    <3>1. i \in Nat /\ j \in Nat /\ i # j
      OBVIOUS
    <3>2. 2^i \in Nat /\ 2^j \in Nat
      BY <3>1, PowerCounts
    <3>3. CASE i < j
      BY <3>1, <3>2, <3>3, PowersDiffer
    <3>4. CASE j < i
      BY <3>1, <3>2, <3>4, PowersDiffer
    <3> QED
      BY <3>1, <3>3, <3>4
  <2> QED
    BY <2>1
<1>3. P = {} => Powers(P) = {}
  OBVIOUS
<1>4. /\ SumSet(Powers(P)) \in Int
      /\ Powers(P) = {} => SumSet(Powers(P)) = 0
      /\ \A x \in Powers(P) : SumSet(Powers(P)) = x + SumSet(Powers(P) \ {x})
  <2> HIDE DEF Powers
  <2> QED
    BY <1>1, SumOfSet
<1>5. \A i \in P : SumSet(Powers(P)) = 2^i + SumSet(Powers(P \ {i}))
  <2> SUFFICES ASSUME NEW i \in P PROVE SumSet(Powers(P)) = 2^i + SumSet(Powers(P \ {i}))
    OBVIOUS
  <2> HIDE DEF Powers
  <2>1. 2^i \in Powers(P) /\ Powers(P) \ {2^i} = Powers(P \ {i})
    BY <1>2
  <2>2. SumSet(Powers(P)) = 2^i + SumSet(Powers(P) \ {2^i})
    BY <1>4, <2>1
  <2> QED
    BY <2>1, <2>2
<1> QED
  BY <1>3, <1>4, <1>5 DEF BinaryValue

LEMMA BinaryUnion ==
  ASSUME NEW P \in SUBSET Nat, IsFiniteSet(P), NEW Q \in SUBSET Nat, IsFiniteSet(Q), P \cap Q = {}
  PROVE  BinaryValue(P \cup Q) = BinaryValue(P) + BinaryValue(Q)
<1> DEFINE Holds(s) == BinaryValue(P \cup s) = BinaryValue(P) + BinaryValue(s)
           Bad == {n \in Nat : \E s \in SUBSET Q : Cardinality(s) = n /\ ~ Holds(s)}
<1>1. ASSUME NEW s \in SUBSET Q
      PROVE  /\ IsFiniteSet(s) /\ IsFiniteSet(P \cup s) /\ s \in SUBSET Nat
             /\ Cardinality(s) \in Nat /\ \A x \in s : Cardinality(s \ {x}) = Cardinality(s) - 1
  BY FS_Subset, FS_Union, FS_CardinalityType, FS_RemoveElement
<1>2. Bad = {}
  <2> SUFFICES ASSUME Bad # {} PROVE FALSE
    OBVIOUS
  <2>1. PICK n \in Bad : \A m \in Bad : n <= m
    BY LeastNatural
  <2>2. PICK s \in SUBSET Q : Cardinality(s) = n /\ ~ Holds(s)
    BY <2>1
  <2>3. BinaryValue(P) \in Int
    BY BinaryRemove
  <2>4. s # {}
    <3>1. Holds({})
      <4>1. BinaryValue({}) = 0
        BY FS_EmptySet, BinaryRemove
      <4>2. P \cup {} = P
        OBVIOUS
      <4> QED
        BY <4>1, <4>2, <2>3
    <3> HIDE DEF Holds
    <3> QED
      BY <3>1, <2>2
  <2>5. PICK x \in s : TRUE
    BY <2>4
  <2> DEFINE r == s \ {x}
  <2>6. r \in SUBSET Q /\ Cardinality(r) = n - 1 /\ n - 1 \in Nat
    <3>1. r \in SUBSET Q /\ Cardinality(r) = Cardinality(s) - 1
      BY <1>1
    <3>2. Cardinality(r) \in Nat
      BY <3>1, <1>1
    <3> QED
      BY <2>2, <3>1, <3>2
  <2>7. Holds(r)
    <3> HIDE DEF Holds, r
    <3> QED
      BY <2>1, <2>6
  <2>8. BinaryValue(s) = 2^x + BinaryValue(r) /\ BinaryValue(r) \in Int /\ x \in Nat
    BY <1>1, <2>6, BinaryRemove
  <2>9. BinaryValue(P \cup s) = 2^x + BinaryValue(P \cup r)
    <3>1. (P \cup s) \ {x} = P \cup r /\ x \in P \cup s /\ P \cup s \in SUBSET Nat
      BY <1>1
    <3> QED
      BY <3>1, <1>1, BinaryRemove
  <2>10. 2^x \in Nat
    BY <2>8, PowerCounts
  <2> HIDE DEF r
  <2> QED
    BY <2>2, <2>3, <2>7, <2>8, <2>9, <2>10
<1>3. Holds(Q)
  <2> HIDE DEF Holds
  <2> QED
    BY <1>1, <1>2
<1> QED
  BY <1>3

LEMMA BinaryShift ==
  ASSUME NEW P \in SUBSET Nat, IsFiniteSet(P), NEW u \in Nat
  PROVE  BinaryValue({i + u : i \in P}) = 2^u * BinaryValue(P)
<1> DEFINE Up(s) == {i + u : i \in s}
           Holds(s) == BinaryValue(Up(s)) = 2^u * BinaryValue(s)
           Bad == {n \in Nat : \E s \in SUBSET P : Cardinality(s) = n /\ ~ Holds(s)}
<1>1. ASSUME NEW s \in SUBSET P
      PROVE  /\ IsFiniteSet(s) /\ IsFiniteSet(Up(s)) /\ s \in SUBSET Nat /\ Up(s) \in SUBSET Nat
             /\ Cardinality(s) \in Nat /\ \A x \in s : Cardinality(s \ {x}) = Cardinality(s) - 1
  <2>1. IsFiniteSet(s)
    BY FS_Subset
  <2>2. IsFiniteSet(Up(s))
    <3> DEFINE f == [i \in s |-> i + u]
    <3>1. IsFiniteSet({f[i] : i \in s})
      <4> HIDE DEF f
      <4> QED
        BY <2>1, FiniteImage
    <3>2. {f[i] : i \in s} = Up(s)
      OBVIOUS
    <3> QED
      BY <3>1, <3>2
  <2> QED
    BY <2>1, <2>2, FS_CardinalityType, FS_RemoveElement
<1>2. Bad = {}
  <2> SUFFICES ASSUME Bad # {} PROVE FALSE
    OBVIOUS
  <2>1. PICK n \in Bad : \A m \in Bad : n <= m
    BY LeastNatural
  <2>2. PICK s \in SUBSET P : Cardinality(s) = n /\ ~ Holds(s)
    BY <2>1
  <2>3. 2^u \in Nat
    BY PowerCounts
  <2>4. s # {}
    <3>1. Holds({})
      <4>1. BinaryValue({}) = 0
        BY FS_EmptySet, BinaryRemove
      <4>2. Up({}) = {}
        OBVIOUS
      <4> QED
        BY <4>1, <4>2, <2>3
    <3> HIDE DEF Holds
    <3> QED
      BY <3>1, <2>2
  <2>5. PICK x \in s : TRUE
    BY <2>4
  <2> DEFINE r == s \ {x}
  <2>6. r \in SUBSET P /\ Cardinality(r) = n - 1 /\ n - 1 \in Nat
    <3>1. r \in SUBSET P /\ Cardinality(r) = Cardinality(s) - 1
      BY <1>1
    <3>2. Cardinality(r) \in Nat
      BY <3>1, <1>1
    <3> QED
      BY <2>2, <3>1, <3>2
  <2>7. Holds(r)
    <3> HIDE DEF Holds, r
    <3> QED
      BY <2>1, <2>6
  <2>8. BinaryValue(s) = 2^x + BinaryValue(r) /\ BinaryValue(r) \in Int /\ x \in Nat
    BY <1>1, <2>6, BinaryRemove
  <2>9. BinaryValue(Up(s)) = 2^(x + u) + BinaryValue(Up(r))
    <3>1. Up(s) \ {x + u} = Up(r) /\ x + u \in Up(s)
      BY <1>1
    <3>2. IsFiniteSet(Up(s)) /\ Up(s) \in SUBSET Nat
      BY <1>1
    <3> HIDE DEF Up, r
    <3> QED
      BY <3>1, <3>2, BinaryRemove
  <2>10. 2^x \in Nat /\ 2^(x + u) = 2^x * 2^u
    BY <2>8, PowerCounts, PowersMultiply
  <2> DEFINE a == 2^x
             b == 2^u
             c == BinaryValue(r)
  <2>11. a \in Int /\ b \in Int /\ c \in Int
    BY <2>3, <2>8, <2>10
  <2>12. BinaryValue(Up(s)) = a * b + b * c /\ b * BinaryValue(s) = b * (a + c)
    BY <2>7, <2>8, <2>9, <2>10
  <2>13. a * b + b * c = b * (a + c)
    <3> HIDE DEF a, b, c
    <3> QED
      BY <2>11
  <2> QED
    BY <2>2, <2>12, <2>13
<1>3. Holds(P)
  <2> HIDE DEF Holds
  <2> QED
    BY <1>1, <1>2
<1> QED
  BY <1>3

\* A number of n places is less than 2^n.
LEMMA BinaryBound ==
  ASSUME NEW n \in Nat, NEW P \in SUBSET (0..(n - 1))
  PROVE  IsFiniteSet(P) /\ P \in SUBSET Nat /\ BinaryValue(P) \in 0..(2^n - 1)
<1> DEFINE Bad == {m \in Nat : \E s \in SUBSET (0..(m - 1)) : BinaryValue(s) \notin 0..(2^m - 1)}
<1>1. ASSUME NEW m \in Nat, NEW s \in SUBSET (0..(m - 1))
      PROVE  IsFiniteSet(s) /\ s \in SUBSET Nat
  <2>1. IsFiniteSet(0..(m - 1))
    BY FS_Interval
  <2>2. IsFiniteSet(s)
    BY <2>1, FS_Subset
  <2> QED
    BY <2>2
<1>2. Bad = {}
  <2> SUFFICES ASSUME Bad # {} PROVE FALSE
    OBVIOUS
  <2>1. PICK m \in Bad : \A k \in Bad : m <= k
    BY LeastNatural
  <2>2. PICK s \in SUBSET (0..(m - 1)) : BinaryValue(s) \notin 0..(2^m - 1)
    BY <2>1
  <2>3. 2^m \in Nat \ {0}
    BY <2>1, PowerPositive
  <2>4. s # {}
    BY <1>1, <2>1, <2>2, <2>3, BinaryRemove
  <2>5. m \in Nat /\ m # 0 /\ m - 1 \in Nat /\ m - 1 \notin Bad
    <3>1. m \in Nat
      BY <2>1
    <3>2. ASSUME m = 0 PROVE s = {}
      BY <3>2
    <3>3. m # 0
      BY <2>4, <3>2
    <3> HIDE DEF Bad
    <3> QED
      BY <2>1, <3>1, <3>3
  <2>6. 2^m = 2 * 2^(m - 1) /\ 2^(m - 1) \in Nat
    <3>1. (m - 1) + 1 = m
      BY <2>5
    <3> QED
      BY <3>1, <2>5, PowerDoubles, PowerCounts
  <2> DEFINE r == s \ {m - 1}
  <2>7. r \in SUBSET (0..((m - 1) - 1))
    BY <2>5
  <2>8. BinaryValue(r) \in 0..(2^(m - 1) - 1)
    <3> HIDE DEF r
    <3> QED
      BY <2>5, <2>7
  <2>9. CASE m - 1 \in s
    <3>1. BinaryValue(s) = 2^(m - 1) + BinaryValue(r)
      BY <1>1, <2>5, <2>9, BinaryRemove
    <3> HIDE DEF r
    <3> QED
      BY <2>2, <2>6, <2>8, <3>1
  <2>10. CASE m - 1 \notin s
    <3>1. r = s
      BY <2>10
    <3> HIDE DEF r
    <3> QED
      BY <2>2, <2>6, <2>8, <3>1
  <2> QED
    BY <2>9, <2>10
<1> QED
  BY <1>1, <1>2

\* The greatest place at which two numbers differ decides.
LEMMA BinaryLess ==
  ASSUME NEW n \in Nat, NEW P \in SUBSET (0..(n - 1)), NEW Q \in SUBSET (0..(n - 1)),
         NEW m \in Q \ P, \A i \in 0..(n - 1) : i > m => (i \in P <=> i \in Q)
  PROVE  BinaryValue(P) < BinaryValue(Q)
<1> DEFINE H == {i \in P : i > m}
           A == {i \in P : i < m}
           B == {i \in Q : i < m}
<1>1. /\ m \in Nat /\ m \in 0..(n - 1)
      /\ \A i \in P : i \in Int /\ 0 <= i /\ i <= n - 1 /\ i # m
      /\ \A i \in Q : i \in Int /\ 0 <= i /\ i <= n - 1
  OBVIOUS
<1>2. P = H \cup A /\ H \cap A = {}
  <2>1. ASSUME NEW i \in P PROVE i \in H \cup A
    BY <1>1
  <2>2. ASSUME NEW i \in H \cap A PROVE FALSE
    BY <1>1
  <2>3. H \cup A \subseteq P
    OBVIOUS
  <2> HIDE DEF H, A
  <2> QED
    BY <2>1, <2>2, <2>3
<1>3. Q = (H \cup {m}) \cup B /\ (H \cup {m}) \cap B = {} /\ (H \cup {m}) \ {m} = H
  <2>1. \A i \in Q : i > m => i \in P
    BY <1>1
  <2>2. \A i \in P : i > m => i \in Q
    BY <1>1
  <2>3. ASSUME NEW i \in Q PROVE i \in (H \cup {m}) \cup B
    BY <1>1, <2>1
  <2>4. ASSUME NEW i \in (H \cup {m}) \cup B PROVE i \in Q
    BY <2>2
  <2>5. ASSUME NEW i \in (H \cup {m}) \cap B PROVE FALSE
    BY <1>1
  <2>6. m \notin H
    BY <1>1
  <2> HIDE DEF H, B
  <2> QED
    BY <2>3, <2>4, <2>5, <2>6
<1>4. H \in SUBSET (0..(n - 1)) /\ (H \cup {m}) \in SUBSET (0..(n - 1))
  BY <1>1
<1>5. A \in SUBSET (0..(m - 1)) /\ B \in SUBSET (0..(m - 1))
  <2>1. ASSUME NEW i \in A PROVE i \in 0..(m - 1)
    BY <1>1
  <2>2. ASSUME NEW i \in B PROVE i \in 0..(m - 1)
    BY <1>1
  <2> HIDE DEF A, B
  <2> QED
    BY <2>1, <2>2
<1> DEFINE HM == H \cup {m}
<1>6. m \in HM
  OBVIOUS
<1> HIDE DEF H, A, B, HM
<1>7. /\ IsFiniteSet(H) /\ IsFiniteSet(A) /\ IsFiniteSet(B) /\ IsFiniteSet(HM)
      /\ H \in SUBSET Nat /\ A \in SUBSET Nat /\ B \in SUBSET Nat /\ HM \in SUBSET Nat
      /\ BinaryValue(A) \in 0..(2^m - 1) /\ BinaryValue(B) \in 0..(2^m - 1)
  BY <1>1, <1>4, <1>5, BinaryBound DEF HM
<1>8. BinaryValue(P) = BinaryValue(H) + BinaryValue(A)
  BY <1>2, <1>7, BinaryUnion
<1>9. BinaryValue(Q) = BinaryValue(HM) + BinaryValue(B)
  BY <1>3, <1>7, BinaryUnion DEF HM
<1>10. BinaryValue(HM) = 2^m + BinaryValue(H) /\ BinaryValue(H) \in Int
  <2>1. BinaryValue(HM) = 2^m + BinaryValue(HM \ {m})
    BY <1>6, <1>7, BinaryRemove
  <2> QED
    BY <2>1, <1>3, <1>7, BinaryRemove DEF HM
<1>11. 2^m \in Nat
  BY <1>1, PowerCounts
<1> QED
  BY <1>7, <1>8, <1>9, <1>10, <1>11

LEMMA BinaryInjective ==
  ASSUME NEW n \in Nat, NEW P \in SUBSET (0..(n - 1)), NEW Q \in SUBSET (0..(n - 1)),
         BinaryValue(P) = BinaryValue(Q)
  PROVE  P = Q
<1> DEFINE D == (P \ Q) \cup (Q \ P)
           Above == {k \in Nat : \A i \in D : i <= k}
<1> SUFFICES ASSUME D # {} PROVE FALSE
  OBVIOUS
<1>1. n \in Above
  OBVIOUS
<1>2. PICK m \in Above : \A k \in Above : m <= k
  BY <1>1, LeastNatural
<1>3. m \in D
  <2> SUFFICES ASSUME m \notin D PROVE FALSE
    OBVIOUS
  <2>1. PICK y \in D : TRUE
    OBVIOUS
  <2>2. y \in Nat /\ y <= m /\ y # m
    BY <1>2
  <2>3. m - 1 \in Nat /\ \A z \in D : z <= m - 1
    BY <1>2, <2>2
  <2> QED
    BY <1>2, <2>3
<1>4. m \in Nat /\ \A i \in 0..(n - 1) : i > m => (i \in P <=> i \in Q)
  BY <1>2
<1>5. BinaryValue(P) \in Int /\ BinaryValue(Q) \in Int
  BY BinaryBound, BinaryRemove
<1>8. /\ m \in Q \ P => BinaryValue(P) < BinaryValue(Q)
      /\ m \in P \ Q => BinaryValue(Q) < BinaryValue(P)
  <2> HIDE DEF D, Above
  <2>1. ASSUME m \in Q \ P PROVE BinaryValue(P) < BinaryValue(Q)
    BY <1>4, <2>1, BinaryLess
  <2>2. ASSUME m \in P \ Q PROVE BinaryValue(Q) < BinaryValue(P)
    BY <1>4, <2>2, BinaryLess
  <2> QED
    BY <2>1, <2>2
<1> QED
  BY <1>3, <1>5, <1>8

\* The places from u on are the quotient of a division by 2^u, those below the remainder.
LEMMA BinaryQuotient ==
  ASSUME NEW n \in Nat, NEW P \in SUBSET (0..(n - 1)), NEW u \in Nat
  PROVE  /\ BinaryValue(P) \div 2^u = BinaryValue({i - u : i \in {j \in P : j >= u}})
         /\ BinaryValue(P) % 2^u = BinaryValue({i \in P : i < u})
<1> DEFINE R == {i \in P : i < u}
           H == {j \in P : j >= u}
           Q == {i - u : i \in H}
<1>0. \A i \in P : i \in Int /\ 0 <= i /\ i <= n - 1
  OBVIOUS
<1>1. P = H \cup R /\ H \cap R = {} /\ H \in SUBSET (0..(n - 1)) /\ R \in SUBSET (0..(u - 1))
  <2>1. ASSUME NEW i \in P PROVE i \in H \cup R /\ ~ (i \in H /\ i \in R)
    BY <1>0
  <2>2. ASSUME NEW i \in R PROVE i \in 0..(u - 1)
    BY <1>0
  <2>3. H \subseteq P /\ R \subseteq P
    OBVIOUS
  <2> HIDE DEF H, R
  <2> QED
    BY <2>1, <2>2, <2>3
<1>2. Q \in SUBSET (0..(n - 1))
  OBVIOUS
<1>3. H = {i + u : i \in Q}
  <2>1. ASSUME NEW h \in H PROVE h \in {i + u : i \in Q}
    <3>1. h - u \in Q /\ h = (h - u) + u
      OBVIOUS
    <3> QED
      BY <3>1
  <2>2. ASSUME NEW i \in Q PROVE i + u \in H
    <3>1. PICK h \in H : i = h - u
      OBVIOUS
    <3>2. i + u = h
      BY <3>1
    <3> QED
      BY <3>2
  <2> HIDE DEF H, Q
  <2> QED
    BY <2>1, <2>2
<1> HIDE DEF R, H, Q
<1>4. /\ IsFiniteSet(H) /\ IsFiniteSet(R) /\ IsFiniteSet(Q)
      /\ H \in SUBSET Nat /\ R \in SUBSET Nat /\ Q \in SUBSET Nat
      /\ BinaryValue(R) \in 0..(2^u - 1) /\ BinaryValue(Q) \in 0..(2^n - 1)
  BY <1>1, <1>2, BinaryBound
<1>5. BinaryValue(P) = BinaryValue(H) + BinaryValue(R)
  BY <1>1, <1>4, BinaryUnion
<1>6. BinaryValue(H) = 2^u * BinaryValue(Q)
  BY <1>3, <1>4, BinaryShift
<1>7. 2^u \in Nat \ {0} /\ BinaryValue(Q) \in Nat
  BY <1>4, PowerPositive
<1>8. BinaryValue(P) = 2^u * BinaryValue(Q) + BinaryValue(R)
  BY <1>5, <1>6
<1>9. BinaryValue(P) \div 2^u = BinaryValue(Q) /\ BinaryValue(P) % 2^u = BinaryValue(R)
  <2> DEFINE d == 2^u
             q == BinaryValue(Q)
             b == BinaryValue(R)
  <2>1. d \in Nat \ {0} /\ q \in Nat /\ b \in 0..(d - 1) /\ BinaryValue(P) = d * q + b
    BY <1>4, <1>7, <1>8
  <2> HIDE DEF d, q, b
  <2>2. (d * q + b) \div d = q /\ (d * q + b) % d = b
    BY <2>1, Quotient
  <2>3. BinaryValue(P) \div d = q /\ BinaryValue(P) % d = b
    BY <2>1, <2>2
  <2> QED
    BY <2>3 DEF d, q, b
<1> QED
  BY <1>9 DEF Q, H, R

Shapes == [num : Int, on : SUBSET Int, msb : Int, lsb : Int, subscripts : Int]

Vec(num, on, msb, lsb, subscripts) ==
  [num |-> num, on |-> on, msb |-> msb, lsb |-> lsb, subscripts |-> subscripts]

\* Between statements: no subscripts are set, and no bit is on outside the width.
Whole(x) ==
  /\ x \in Shapes /\ x.num \in 0 .. 2 * WordSize
  /\ x.on \in SUBSET (0 .. x.num - 1)
  /\ x.lsb = 0 /\ x.msb = x.num - 1 /\ x.subscripts = 0

BitsInv == /\ bits \in [Vectors -> Shapes] /\ freed = {}
           /\ \A v \in Vectors : Whole(bits[v])

LEMMA WordSizes == /\ WordSize \in Nat \ {0} /\ WordSizeLog \in Nat /\ WordSizeLog < WordSize
                   /\ Width \in [Vectors -> 0 .. 2 * WordSize]
                   /\ Numbers \subseteq 0 .. 2 ^ WordSize - 1 /\ Uses \subseteq AllUses
BY BitsAssumption, PowerPositive

LEMMA WordOfGrows ==
  ASSUME NEW i \in Nat, NEW j \in Nat, i <= j
  PROVE  WordOf(i) <= WordOf(j) /\ WordOf(i) \in Nat /\ WordOf(j) \in Nat
BY WordSizes DEF WordOf

-----------------------------------------------------------------------------
(* Subscripts.                                                             *)

LEMMA VecFields ==
  ASSUME NEW num \in Int, NEW on \in SUBSET Int, NEW msb \in Int, NEW lsb \in Int,
         NEW subscripts \in Int
  PROVE  /\ Vec(num, on, msb, lsb, subscripts) \in Shapes
         /\ Vec(num, on, msb, lsb, subscripts).num = num
         /\ Vec(num, on, msb, lsb, subscripts).on = on
         /\ Vec(num, on, msb, lsb, subscripts).msb = msb
         /\ Vec(num, on, msb, lsb, subscripts).lsb = lsb
         /\ Vec(num, on, msb, lsb, subscripts).subscripts = subscripts
BY DEF Vec, Shapes

\* The ways the code changes the fields of a vector.
Ranged(x, high, low, n) == [x EXCEPT !.msb = high, !.lsb = low, !.subscripts = n]
Lowered(x, low, n) == [x EXCEPT !.lsb = low, !.subscripts = n]
Changed(x, on) == [x EXCEPT !.on = on]

LEMMA ShapeVec ==
  ASSUME NEW x \in Shapes
  PROVE  x = Vec(x.num, x.on, x.msb, x.lsb, x.subscripts)
BY DEF Shapes, Vec

LEMMA RangedIs ==
  ASSUME NEW x \in Shapes, NEW i \in Int, NEW j \in Int, NEW k \in Int
  PROVE  Ranged(x, i, j, k) = Vec(x.num, x.on, i, j, k)
<1>1. [x EXCEPT !.msb = i, !.lsb = j, !.subscripts = k] = Vec(x.num, x.on, i, j, k)
  <2> DEFINE y == [x EXCEPT !.msb = i, !.lsb = j, !.subscripts = k]
  <2>1. y.num = x.num /\ y.on = x.on /\ y.msb = i /\ y.lsb = j /\ y.subscripts = k
    BY DEF Shapes
  <2>2. y \in Shapes
    <3>1. y = [[x EXCEPT !.msb = i, !.lsb = j] EXCEPT !.subscripts = k]
      OBVIOUS
    <3>2. [x EXCEPT !.msb = i, !.lsb = j] \in Shapes
      BY DEF Shapes
    <3> HIDE DEF y
    <3> QED
      BY <3>1, <3>2 DEF Shapes
  <2> HIDE DEF y
  <2>3. y = Vec(y.num, y.on, y.msb, y.lsb, y.subscripts)
    BY <2>2 DEF Shapes, Vec
  <2> QED
    BY <2>1, <2>3 DEF y
<1> QED
  BY <1>1 DEF Ranged

\* What ResetBitRange leaves of a vector whose bits were changed.
WithBits(x, on) == Vec(x.num, on, x.num - 1, 0, 0)

LEMMA ResetIs ==
  ASSUME NEW x \in Shapes
  PROVE  ResetBitRange(x) = WithBits(x, x.on)
<1> DEFINE i == x.num - 1  j == 0  k == 0
<1>0. i \in Int /\ j \in Int /\ k \in Int
  BY DEF Shapes
<1>1. [x EXCEPT !.lsb = j, !.msb = i, !.subscripts = k] = Vec(x.num, x.on, i, j, k)
  <2> HIDE DEF i, j, k
  <2> DEFINE y == [x EXCEPT !.lsb = j, !.msb = i, !.subscripts = k]
  <2>1. y.num = x.num /\ y.on = x.on /\ y.msb = i /\ y.lsb = j /\ y.subscripts = k
    BY DEF Shapes
  <2>2. y \in Shapes
    <3>1. y = [[x EXCEPT !.lsb = j, !.msb = i] EXCEPT !.subscripts = k]
      OBVIOUS
    <3>2. [x EXCEPT !.lsb = j, !.msb = i] \in Shapes
      BY <1>0 DEF Shapes
    <3> HIDE DEF y
    <3> QED
      BY <1>0, <3>1, <3>2 DEF Shapes
  <2> HIDE DEF y
  <2>3. y = Vec(y.num, y.on, y.msb, y.lsb, y.subscripts)
    BY <2>2 DEF Shapes, Vec
  <2> QED
    BY <2>1, <2>3 DEF y
<1> QED
  BY <1>1 DEF ResetBitRange, WithBits

LEMMA LoweredIs ==
  ASSUME NEW x \in Shapes, NEW j \in Int, NEW k \in Int
  PROVE  Lowered(x, j, k) = Vec(x.num, x.on, x.msb, j, k)
<1>1. [x EXCEPT !.lsb = j, !.subscripts = k] = Vec(x.num, x.on, x.msb, j, k)
  <2> DEFINE y == [x EXCEPT !.lsb = j, !.subscripts = k]
  <2>1. y.num = x.num /\ y.on = x.on /\ y.msb = x.msb /\ y.lsb = j /\ y.subscripts = k
    BY DEF Shapes
  <2>2. y \in Shapes
    BY DEF Shapes
  <2> HIDE DEF y
  <2>3. y = Vec(y.num, y.on, y.msb, y.lsb, y.subscripts)
    BY <2>2 DEF Shapes, Vec
  <2> QED
    BY <2>1, <2>3 DEF y
<1> QED
  BY <1>1 DEF Lowered

LEMMA ChangedIs ==
  ASSUME NEW x \in Shapes, NEW on \in SUBSET Int
  PROVE  Changed(x, on) = Vec(x.num, on, x.msb, x.lsb, x.subscripts)
<1>1. [x EXCEPT !.on = on] = Vec(x.num, on, x.msb, x.lsb, x.subscripts)
  <2> DEFINE y == [x EXCEPT !.on = on]
  <2>1. y.num = x.num /\ y.on = on /\ y.msb = x.msb /\ y.lsb = x.lsb /\ y.subscripts = x.subscripts
    BY DEF Shapes
  <2>2. y \in Shapes
    BY DEF Shapes
  <2> HIDE DEF y
  <2>3. y = Vec(y.num, y.on, y.msb, y.lsb, y.subscripts)
    BY <2>2 DEF Shapes, Vec
  <2> QED
    BY <2>1, <2>3 DEF y
<1> QED
  BY <1>1 DEF Changed

LEMMA ShapeTyped ==
  ASSUME NEW x \in Shapes
  PROVE  x.num \in Int /\ x.on \in SUBSET Int /\ x.msb \in Int /\ x.lsb \in Int /\ x.subscripts \in Int
BY DEF Shapes

LEMMA SubscriptTyped ==
  ASSUME NEW x \in Shapes, NEW i \in Int
  PROVE  Subscript(x, i) \in Shapes
<1>1. CASE x.subscripts = 0
  <2>1. Subscript(x, i) = Ranged(x, i, i, 1)
    BY <1>1 DEF Subscript, Ranged, Lowered
  <2>2. Subscript(x, i) = Vec(x.num, x.on, i, i, 1)
    BY <2>1, RangedIs
  <2> QED
    BY <2>2, ShapeTyped, VecFields
<1>2. CASE x.subscripts = 1
  <2>1. Subscript(x, i) = Lowered(x, i, 2)
    BY <1>2 DEF Subscript, Ranged, Lowered
  <2>2. Subscript(x, i) = Vec(x.num, x.on, x.msb, i, 2)
    BY <2>1, LoweredIs
  <2> QED
    BY <2>2, ShapeTyped, VecFields
<1>3. CASE x.subscripts # 0 /\ x.subscripts # 1
  BY <1>3 DEF Subscript, Shapes
<1> QED
  BY <1>1, <1>2, <1>3

LEMMA SubscriptSteps ==
  ASSUME NEW x \in Shapes, NEW part \in Seq(Int)
  PROVE  \E f : /\ f[0] = x /\ f[Len(part)] = Subscripted(x, part)
                /\ \A k \in 1 .. Len(part) : f[k] = Subscript(f[k - 1], part[k])
<1> DEFINE n == Len(part)
           D == SUBSET (1 .. n)
           G == [i \in 1 .. n |-> [s \in Shapes |-> Subscript(s, part[i])]]
           Value(h, s) == IF s = {} THEN x ELSE Subscript(h[s \ {Max(s)}], part[Max(s)])
           fold == CHOOSE h : h = [s \in D |-> Value(h, s)]
<1>1. n \in Nat /\ DOMAIN part = 1 .. n /\ \A i \in 1 .. n : part[i] \in Int
  BY LenProperties, ElementOfSeq
<1>2. Subscripted(x, part) = fold[1 .. n]
  BY <1>1 DEF Subscripted, FoldLeft, MapThenFoldSet
<1> HIDE DEF n
<1>3. G \in [1 .. n -> [Shapes -> Shapes]]
  <2> SUFFICES ASSUME NEW i \in 1 .. n, NEW s \in Shapes
               PROVE  Subscript(s, part[i]) \in Shapes
    OBVIOUS
  <2> QED
    BY <1>1, SubscriptTyped
<1>5. PICK h \in [D -> Shapes] :
        \A s \in D : h[s] = IF s = {} THEN x ELSE G[Max(s)][h[s \ {Max(s)}]]
  <2> HIDE DEF G
  <2>1. n \in Nat
    BY <1>1
  <2>2. \E h : FoldsFrom(h, n, Shapes, x, G)
    BY <1>3, <2>1, FoldExists
  <2> QED
    BY <2>2 DEF FoldsFrom
<1>6. ASSUME NEW s \in D PROVE h[s] = Value(h, s)
  <2>1. CASE s = {}
    BY <1>5, <2>1
  <2>2. CASE s # {}
    <3>1. Max(s) \in 1 .. n /\ s \ {Max(s)} \in D
      BY <1>1, <2>2, MaxOfPlaces
    <3>2. h[s \ {Max(s)}] \in Shapes
      BY <1>5, <3>1
    <3>3. h[s] = G[Max(s)][h[s \ {Max(s)}]]
      BY <1>5, <2>2
    <3> QED
      BY <2>2, <3>1, <3>2, <3>3
  <2> QED
    BY <2>1, <2>2
<1>7. h = [s \in D |-> Value(h, s)]
  BY <1>5, <1>6
<1>8. fold = [s \in D |-> Value(fold, s)]
  BY <1>7
<1> HIDE DEF fold
<1> DEFINE f == [k \in 0 .. n |-> fold[1 .. k]]
<1>9. f[0] = x
  <2>1. 1 .. 0 = {} /\ 1 .. 0 \in D /\ 0 \in 0 .. n
    BY <1>1
  <2> QED
    BY <1>8, <2>1
<1>10. ASSUME NEW k \in 1 .. n PROVE f[k] = Subscript(f[k - 1], part[k])
  <2>1. k \in Nat /\ k # 0 /\ k - 1 \in 0 .. n /\ k \in 0 .. n
    BY <1>1
  <2>2. 1 .. k # {} /\ Max(1 .. k) = k /\ (1 .. k) \ {k} = 1 .. (k - 1)
    BY <2>1, MaxOfInterval
  <2>3. 1 .. k \in D
    BY <1>1, <2>1
  <2>4. fold[1 .. k] = Value(fold, 1 .. k)
    BY <1>8, <2>3
  <2> QED
    BY <2>1, <2>2, <2>4
<1>11. f[n] = Subscripted(x, part)
  BY <1>1, <1>2
<1> HIDE DEF f
<1> QED
  BY <1>9, <1>10, <1>11 DEF n

\* x with a part of it selected.
PartAt(x, high, low, subscripts) == Vec(x.num, x.on, high, low, subscripts)

LEMMA SubscriptedIs ==
  ASSUME NEW x \in Shapes, x.subscripts = 0
  PROVE  /\ Subscripted(x, << >>) = x
         /\ \A i \in Int : Subscripted(x, <<i>>) = PartAt(x, i, i, 1)
         /\ \A i, j \in Int : Subscripted(x, <<i, j>>) = PartAt(x, i, j, 2)
<1>1. Subscripted(x, << >>) = x
  <2>1. << >> \in Seq(Int) /\ Len(<< >>) = 0
    OBVIOUS
  <2> QED
    BY <2>1, SubscriptSteps
<1>2. ASSUME NEW i \in Int PROVE Subscript(x, i) = PartAt(x, i, i, 1)
  <2>1. Subscript(x, i) = Ranged(x, i, i, 1)
    BY DEF Subscript, Ranged, Lowered
  <2> QED
    BY <2>1, RangedIs DEF PartAt
<1>3. ASSUME NEW i \in Int PROVE Subscripted(x, <<i>>) = PartAt(x, i, i, 1)
  <2> DEFINE part == <<i>>
  <2>1. part \in Seq(Int) /\ Len(part) = 1 /\ part[1] = i
    OBVIOUS
  <2> HIDE DEF part
  <2>2. PICK f : /\ f[0] = x /\ f[Len(part)] = Subscripted(x, part)
                 /\ \A k \in 1 .. Len(part) : f[k] = Subscript(f[k - 1], part[k])
    BY <2>1, SubscriptSteps
  <2>3. f[1] = Subscript(f[0], i)
    BY <2>1, <2>2
  <2> QED
    BY <1>2, <2>1, <2>2, <2>3 DEF part
<1>4. ASSUME NEW i \in Int, NEW j \in Int PROVE Subscripted(x, <<i, j>>) = PartAt(x, i, j, 2)
  <2> DEFINE part == <<i, j>>
  <2>1. part \in Seq(Int) /\ Len(part) = 2 /\ part[1] = i /\ part[2] = j
    OBVIOUS
  <2> HIDE DEF part
  <2>2. PICK f : /\ f[0] = x /\ f[Len(part)] = Subscripted(x, part)
                 /\ \A k \in 1 .. Len(part) : f[k] = Subscript(f[k - 1], part[k])
    BY <2>1, SubscriptSteps
  <2>3. f[1] = Subscript(f[0], i) /\ f[2] = Subscript(f[1], j)
    BY <2>1, <2>2
  <2>4. Subscript(PartAt(x, i, i, 1), j) = PartAt(x, i, j, 2)
    <3>1. PartAt(x, i, i, 1).subscripts = 1
      BY DEF PartAt, Vec
    <3>3. PartAt(x, i, i, 1) \in Shapes /\ PartAt(x, i, i, 1).num = x.num /\ PartAt(x, i, i, 1).on = x.on
          /\ PartAt(x, i, i, 1).msb = i
      BY VecFields, ShapeTyped DEF PartAt
    <3>2. Subscript(PartAt(x, i, i, 1), j) = Lowered(PartAt(x, i, i, 1), j, 2)
      BY <3>1 DEF Subscript, Ranged, Lowered
    <3> QED
      BY <3>2, <3>3, LoweredIs DEF PartAt
  <2> QED
    BY <1>2, <2>1, <2>2, <2>3, <2>4 DEF part
<1> QED
  BY <1>1, <1>3, <1>4

\* What a statement takes of a vector that is in order.
LEMMA TakenPart ==
  ASSUME NEW x, Whole(x), NEW p \in ProperParts(x)
  PROVE  /\ Subscripted(x, p) = PartAt(x, High(x, p), Low(x, p), Len(p))
         /\ High(x, p) \in Int /\ Low(x, p) \in Int /\ Len(p) \in Int
         /\ p = << >> => High(x, p) = x.num - 1 /\ Low(x, p) = 0 /\ Subscripted(x, p) = x
         /\ x.num # 0 => 0 <= Low(x, p) /\ Low(x, p) <= High(x, p) /\ High(x, p) < x.num
         /\ x.num = 0 => p = << >>
         /\ p # << >> => x.num # 0 /\ Avoids("explicit", IsAll(x, p))
<1>1. p \in Parts(x) /\ (p = << >> \/ Low(x, p) <= High(x, p))
  BY DEF ProperParts
<1>2. x \in Shapes /\ x.num \in Nat /\ x.msb = x.num - 1 /\ x.lsb = 0 /\ x.subscripts = 0
  BY WordSizes DEF Whole
<1>3. CASE p = << >>
  <2>1. High(x, p) = x.num - 1 /\ Low(x, p) = 0 /\ Len(p) = 0
    BY <1>3 DEF High, Low
  <2>2. PartAt(x, x.num - 1, 0, 0) = x
    BY <1>2, ShapeVec DEF PartAt
  <2>3. Subscripted(x, p) = x
    BY <1>2, <1>3, SubscriptedIs
  <2> QED
    BY <1>2, <1>3, <2>1, <2>2, <2>3
<1>4. CASE p # << >>
  <2>1. p # << >> => Avoids("explicit", IsAll(x, p))
    BY DEF ProperParts, Avoids
  <2>2. CASE \E i \in 0 .. x.num - 1 : p = <<i>>
    <3>1. PICK i \in 0 .. x.num - 1 : p = <<i>>
      BY <2>2
    <3>2. High(x, p) = i /\ Low(x, p) = i /\ Len(p) = 1 /\ p # << >>
      BY <3>1 DEF High, Low
    <3>3. i \in Int /\ 0 <= i /\ i < x.num
      BY <1>2
    <3> QED
      BY <1>2, <2>1, <3>1, <3>2, <3>3, SubscriptedIs
  <2>3. CASE \E i \in 1 .. x.num - 1, j \in 0 .. x.num - 2 : p = <<i, j>>
    <3>1. PICK i \in 1 .. x.num - 1, j \in 0 .. x.num - 2 : p = <<i, j>>
      BY <2>3
    <3>2. High(x, p) = i /\ Low(x, p) = j /\ Len(p) = 2 /\ p # << >>
      BY <3>1 DEF High, Low
    <3>3. i \in Int /\ j \in Int /\ 0 <= j /\ i < x.num /\ x.num # 0
      BY <1>2
    <3>4. Subscripted(x, p) = PartAt(x, i, j, 2)
      BY <1>2, <3>1, <3>3, SubscriptedIs
    <3> QED
      BY <1>1, <2>1, <3>2, <3>3, <3>4
  <2> QED
    BY <1>1, <1>4, <2>2, <2>3 DEF Parts
<1> QED
  BY <1>3, <1>4

-----------------------------------------------------------------------------
(* Assignment.                                                             *)

\* The bits of x after its part from low on was given the places.
Replaced(x, high, low, places) == (x.on \ (low .. high)) \cup {i + low : i \in places}

LEMMA WithBitsFields ==
  ASSUME NEW x \in Shapes, NEW on \in SUBSET Int
  PROVE  /\ WithBits(x, on) \in Shapes /\ WithBits(x, on).num = x.num /\ WithBits(x, on).on = on
         /\ WithBits(x, on).msb = x.num - 1 /\ WithBits(x, on).lsb = 0 /\ WithBits(x, on).subscripts = 0
BY ShapeTyped DEF WithBits, Vec, Shapes

LEMMA WithBitsWhole ==
  ASSUME NEW x \in Shapes, x.num \in 0 .. 2 * WordSize, NEW on \in SUBSET (0 .. x.num - 1)
  PROVE  Whole(WithBits(x, on)) /\ WithBits(x, on).on = on
<1>1. x.num \in Int /\ on \in SUBSET Int
  BY WordSizes
<1> DEFINE y == WithBits(x, on)
<1>2. /\ y \in Shapes /\ y.num = x.num /\ y.on = on /\ y.msb = x.num - 1
      /\ y.lsb = 0 /\ y.subscripts = 0
  BY <1>1, WithBitsFields
<1> HIDE DEF y
<1>3. Whole(y)
  BY <1>2 DEF Whole
<1> QED
  BY <1>2, <1>3 DEF y

LEMMA WholeIs ==
  ASSUME NEW x, Whole(x)
  PROVE  x = WithBits(x, x.on) /\ ResetBitRange(x) = x
<1>1. x \in Shapes /\ x.msb = x.num - 1 /\ x.lsb = 0 /\ x.subscripts = 0
  BY DEF Whole
<1>2. x = WithBits(x, x.on)
  BY <1>1, ShapeVec DEF WithBits
<1> QED
  BY <1>1, <1>2, ResetIs

LEMMA ChangedWhole ==
  ASSUME NEW x, Whole(x), NEW on \in SUBSET Int
  PROVE  Changed(x, on) = WithBits(x, on)
<1>1. x \in Shapes /\ x.msb = x.num - 1 /\ x.lsb = 0 /\ x.subscripts = 0
  BY DEF Whole
<1> QED
  BY <1>1, ChangedIs DEF WithBits

LEMMA PartOfTyped ==
  ASSUME NEW on \in SUBSET Int, NEW x, x.on = on, NEW low \in Int, NEW high \in Int
  PROVE  PartOf(x, low, high) \in SUBSET (0 .. high - low)
<1> SUFFICES ASSUME NEW i \in on \cap (low .. high) PROVE i - low \in 0 .. high - low
  BY DEF PartOf
<1>1. i \in Int /\ low <= i /\ i <= high
  OBVIOUS
<1> QED
  BY <1>1

LEMMA ReplacedTyped ==
  ASSUME NEW x, x.on \in SUBSET (0 .. x.num - 1), x.num \in Int, NEW low \in Int, NEW high \in Int,
         0 <= low, high < x.num, NEW places \in SUBSET (0 .. high - low)
  PROVE  Replaced(x, high, low, places) \in SUBSET (0 .. x.num - 1)
<1> SUFFICES ASSUME NEW i \in places PROVE i + low \in 0 .. x.num - 1
  BY DEF Replaced
<1>1. i \in Int /\ 0 <= i /\ i <= high - low
  OBVIOUS
<1> QED
  BY <1>1

\* Parts of different layouts: bit by bit.
LEMMA AssignStores ==
  ASSUME NEW x \in Shapes, NEW y \in Shapes, x.num # 0, y.num # 0,
         ~ (x.msb = y.msb /\ x.lsb = y.lsb /\ x.num = x.msb - x.lsb + 1)
  PROVE  /\ Assign(x, y).to = WithBits(x, Replaced(x, x.msb, x.lsb, PartOf(y, y.lsb, y.msb)))
         /\ Assign(x, y).from = WithBits(y, y.on)
<1> DEFINE r == [to |-> ResetBitRange(Store(x, Taken(y))), from |-> ResetBitRange(y)]
<1>1. ~ IsEmptyBit(x) /\ ~ IsEmptyBit(y) /\ ~ (SameLayout(x, y) /\ x.num = WidthOf(x))
  BY DEF IsEmptyBit, SameLayout, WidthOf
<1>2. Assign(x, y) = r
  BY <1>1 DEF Assign
<1>3. ResetBitRange(y) = WithBits(y, y.on)
  BY ResetIs
<1>4. ResetBitRange(Store(x, Taken(y))) = WithBits(x, Replaced(x, x.msb, x.lsb, PartOf(y, y.lsb, y.msb)))
  <2> DEFINE on == Replaced(x, x.msb, x.lsb, PartOf(y, y.lsb, y.msb))
  <2>1. Store(x, Taken(y)) = Changed(x, on)
    BY DEF Store, Taken, Replaced, Changed
  <2>2. on \in SUBSET Int
    <3>1. PartOf(y, y.lsb, y.msb) \in SUBSET Int
      BY ShapeTyped, PartOfTyped
    <3> QED
      BY <3>1, ShapeTyped DEF Replaced
  <2> HIDE DEF on
  <2>3. Store(x, Taken(y)) = Vec(x.num, on, x.msb, x.lsb, x.subscripts)
    BY <2>1, <2>2, ChangedIs
  <2>4. Store(x, Taken(y)) \in Shapes /\ Store(x, Taken(y)).num = x.num /\ Store(x, Taken(y)).on = on
    BY <2>2, <2>3, VecFields, ShapeTyped
  <2> QED
    BY <2>4, ResetIs DEF on, WithBits
<1> QED
  BY <1>2, <1>3, <1>4

\* A vector without a size takes that of the part.
LEMMA AssignSizes ==
  ASSUME NEW x \in Shapes, NEW y \in Shapes, x.num = 0, y.num # 0, y.msb - y.lsb + 1 # 0
  PROVE  Assign(x, y) = Assign(Sized(y.msb - y.lsb + 1), y)
BY DEF Assign, IsEmptyBit, WidthOf, Sized

\* Of the same layout: the words.
LEMMA AssignCopies ==
  ASSUME NEW x \in Shapes, NEW y \in Shapes, x.num # 0, y.num # 0,
         x.msb = y.msb, x.lsb = y.lsb, x.num = x.msb - x.lsb + 1
  PROVE  Assign(x, y) = [to |-> Changed(x, WordsOf(x, y)), from |-> y]
BY DEF Changed, Assign, IsEmptyBit, SameLayout, WidthOf

LEMMA WordsOfAll ==
  ASSUME NEW x, NEW y, x.num \in Nat, y.on \in SUBSET (0 .. x.num - 1)
  PROVE  WordsOf(x, y) = y.on
<1> SUFFICES ASSUME NEW i \in y.on PROVE WordOf(i) <= WordOf(x.num - 1)
  BY DEF WordsOf
<1>1. i \in Nat /\ x.num - 1 \in Nat /\ i <= x.num - 1
  OBVIOUS
<1> QED
  BY <1>1, WordOfGrows

LEMMA SizedShape ==
  ASSUME NEW n \in Int
  PROVE  /\ Sized(n) \in Shapes /\ Sized(n).num = n /\ Sized(n).on = {} /\ Sized(n).msb = n - 1
         /\ Sized(n).lsb = 0 /\ Sized(n).subscripts = 0
         /\ n \in 0 .. 2 * WordSize => Whole(Sized(n))
<1>1. Sized(n) = Vec(n, {}, n - 1, 0, 0)
  BY DEF Sized, Vec
<1>2. {} \in SUBSET Int /\ {} \in SUBSET (0 .. n - 1)
  OBVIOUS
<1> QED
  BY <1>1, <1>2, VecFields DEF Whole

\* An assignment of one part to another, of a vector that has a size.
LEMMA SizedAssigned ==
  ASSUME Careful, BitsInv, NEW v \in Vectors, NEW w \in Vectors, bits[w].num # 0,
         NEW p \in PartsOf(v), NEW q \in PartsOf(w), MayAssign(v, p, w, q)
  PROVE  LET r == Assign(Taking(v, p), Taking(w, q))
         IN r.from = bits[w] /\ Whole(r.to) /\ r.to.on = With(v, p, Meant(w, q))
<1> DEFINE x == bits[v]  h == High(x, p)  l == Low(x, p)
           y == bits[w]  j == High(y, q)  k == Low(y, q)
           X == Taking(v, p)
           Y == Taking(w, q)
           r == Assign(X, Y)
<1>1. Whole(x) /\ Whole(y) /\ p \in ProperParts(x) /\ q \in ProperParts(y)
  BY DEF BitsInv, PartsOf
<1>2. X = PartAt(x, h, l, Len(p)) /\ Y = PartAt(y, j, k, Len(q))
  BY <1>1, TakenPart DEF Taking
<1>3. /\ h \in Int /\ l \in Int /\ Len(p) \in Int /\ j \in Int /\ k \in Int /\ Len(q) \in Int
      /\ x.num # 0 => 0 <= l /\ l <= h /\ h < x.num
      /\ x.num = 0 => p = << >>
      /\ p = << >> => h = x.num - 1 /\ l = 0 /\ X = x
      /\ q = << >> => Y = y
  BY <1>1, TakenPart DEF Taking
<1>4. /\ x \in Shapes /\ x.num \in 0 .. 2 * WordSize /\ x.num \in Nat /\ x.on \in SUBSET (0 .. x.num - 1)
      /\ y \in Shapes /\ y.num \in 0 .. 2 * WordSize /\ y.num \in Nat /\ y.on \in SUBSET (0 .. y.num - 1)
      /\ y.lsb = 0 /\ y.msb = y.num - 1
  BY <1>1, WordSizes DEF Whole
<1>5. y.num # 0 /\ Fits(X, Y) /\ Avoids("low", LowOfWider(v, p, w, q) /\ (IsEmptyBit(x) \/ IsAll(x, p)))
  BY DEF MayAssign, IsEmptyBit
<1>6. 0 <= k /\ k <= j /\ j < y.num
  BY <1>1, <1>5, TakenPart
<1>7. "low" \notin Uses /\ "explicit" \notin Uses
  BY DEF Careful
<1>8. ~ (LowOfWider(v, p, w, q) /\ (x.num = 0 \/ h - l + 1 = x.num))
  BY <1>5, <1>7 DEF Avoids, IsEmptyBit, IsAll
<1>9. /\ p # << >> => h - l + 1 # x.num
      /\ q # << >> => j - k + 1 # y.num
  BY <1>1, <1>7, TakenPart DEF Avoids, IsAll
<1>10. ~ (x.num = 0 \/ h = j) \/ ~ (k = 0 /\ l = 0) \/ (h - l + 1 = x.num /\ j - k + 1 = y.num)
         \/ ~ (x.num = 0 \/ h - l + 1 = x.num)
  BY <1>8 DEF LowOfWider, IsEmptyBit, IsAll
<1>11. /\ X \in Shapes /\ X.num = x.num /\ X.on = x.on /\ X.msb = h /\ X.lsb = l
       /\ Y \in Shapes /\ Y.num = y.num /\ Y.on = y.on /\ Y.msb = j /\ Y.lsb = k
  <2>1. x.num \in Int /\ x.on \in SUBSET Int /\ y.num \in Int /\ y.on \in SUBSET Int
    BY <1>4, ShapeTyped
  <2> HIDE DEF x, y, h, l, j, k, X, Y
  <2> QED
    BY <1>2, <1>3, <2>1, VecFields DEF PartAt
<1>12. With(v, p, Meant(w, q)) = Replaced(x, h, l, PartOf(y, k, j))
  BY DEF With, Meant, Replaced
<1>13. PartOf(Y, k, j) = PartOf(y, k, j) /\ PartOf(y, k, j) \in SUBSET (0 .. j - k)
  <2>1. y.on \in SUBSET Int
    BY <1>4
  <2> QED
    BY <1>3, <1>11, <2>1, PartOfTyped DEF PartOf
<1>14. x.num # 0 => j - k <= h - l
  BY <1>3, <1>5, <1>6, <1>11 DEF Fits, IsEmptyBit, WidthOf
<1>15. WithBits(Y, Y.on) = y
  BY <1>1, <1>11, WholeIs DEF WithBits
<1>16. ASSUME y.on \in SUBSET (0 .. j)
       PROVE  k = 0 /\ x.num = 0 => Replaced(x, h, l, PartOf(y, k, j)) = y.on
  <2> SUFFICES ASSUME k = 0, x.num = 0 PROVE Replaced(x, h, l, PartOf(y, k, j)) = y.on
    OBVIOUS
  <2>1. x.on = {} /\ l = 0
    BY <1>3, <1>4
  <2>2. y.on \cap (0 .. j) = y.on /\ \A i \in y.on : i - 0 = i /\ i + 0 = i
    BY <1>4, <1>16
  <2>3. PartOf(y, k, j) = y.on
    BY <2>2 DEF PartOf
  <2> HIDE DEF x, y, h, j, k, l
  <2> QED
    BY <2>1, <2>2, <2>3 DEF Replaced
<1> HIDE DEF x, h, l, y, j, k, X, Y, r
<1>20. CASE x.num # 0 /\ ~ (h = j /\ l = k /\ x.num = h - l + 1)
  <2>1. r.to = WithBits(X, Replaced(X, h, l, PartOf(Y, k, j))) /\ r.from = WithBits(Y, Y.on)
    BY <1>5, <1>11, <1>20, AssignStores DEF r
  <2>2. Replaced(X, h, l, PartOf(Y, k, j)) = Replaced(x, h, l, PartOf(y, k, j))
    BY <1>11, <1>13 DEF Replaced
  <2>3. PartOf(y, k, j) \in SUBSET (0 .. h - l)
    BY <1>3, <1>13, <1>14, <1>20
  <2>4. Replaced(x, h, l, PartOf(y, k, j)) \in SUBSET (0 .. x.num - 1)
    BY <1>3, <1>4, <1>20, <2>3, ReplacedTyped
  <2>5. Whole(r.to) /\ r.to.on = Replaced(x, h, l, PartOf(y, k, j))
    <3>1. /\ Whole(WithBits(X, Replaced(x, h, l, PartOf(y, k, j))))
          /\ WithBits(X, Replaced(x, h, l, PartOf(y, k, j))).on = Replaced(x, h, l, PartOf(y, k, j))
      BY <1>4, <1>11, <2>4, WithBitsWhole
    <3> QED
      BY <2>1, <2>2, <3>1
  <2> QED
    BY <1>12, <1>15, <2>1, <2>5 DEF r, X, Y, y
<1>21. CASE x.num # 0 /\ h = j /\ l = k /\ x.num = h - l + 1
  <2>1. l = 0 /\ k = 0 /\ h = x.num - 1 /\ j = y.num - 1 /\ y.num = x.num
    BY <1>3, <1>4, <1>6, <1>10, <1>21
  <2>2. p = << >> /\ q = << >> /\ X = x /\ Y = y
    BY <1>3, <1>9, <1>21, <2>1
  <2>3. r = [to |-> Changed(X, WordsOf(X, Y)), from |-> Y]
    BY <1>5, <1>11, <1>21, AssignCopies DEF r
  <2>4. WordsOf(X, Y) = y.on
    BY <1>4, <1>11, <2>1, WordsOfAll
  <2>5. r.to = WithBits(x, y.on) /\ r.from = y
    <3>1. Whole(x) /\ y.on \in SUBSET Int
      BY <1>1, <1>4, ShapeTyped DEF x
    <3>2. Changed(x, y.on) = WithBits(x, y.on)
      BY <3>1, ChangedWhole
    <3> QED
      BY <2>2, <2>3, <2>4, <3>2
  <2>6. Whole(r.to) /\ r.to.on = y.on
    <3>1. /\ Whole(WithBits(x, y.on))
          /\ WithBits(x, y.on).on = y.on
      BY <1>4, <2>1, WithBitsWhole
    <3> QED
      BY <2>5, <3>1
  <2>7. Replaced(x, h, l, PartOf(y, k, j)) = y.on
    <3>1. /\ y.on \cap (0 .. j) = y.on /\ x.on \ (0 .. h) = {}
          /\ \A i \in y.on : i - 0 = i /\ i + 0 = i
      BY <1>4, <2>1
    <3>2. PartOf(y, k, j) = y.on
      BY <2>1, <3>1 DEF PartOf
    <3> QED
      BY <2>1, <3>1, <3>2 DEF Replaced
  <2> QED
    BY <1>12, <2>5, <2>6, <2>7 DEF r, X, Y, y
<1>22. CASE x.num = 0
  <2> DEFINE n == j - k + 1
             z == Sized(n)
  <2>1. n \in Int /\ n # 0 /\ n \in 0 .. 2 * WordSize
    BY <1>3, <1>4, <1>6, WordSizes, SMTT(40)
  <2>2. /\ z \in Shapes /\ z.num = n /\ z.on = {} /\ z.msb = n - 1 /\ z.lsb = 0 /\ Whole(z)
    BY <2>1, SizedShape
  <2>3. r = Assign(z, Y)
    BY <1>5, <1>11, <1>22, <2>1, AssignSizes DEF r
  <2>4. x.on = {} /\ l = 0
    BY <1>3, <1>4, <1>22
  <2> HIDE DEF z
  <2>5. CASE k # 0
    <3>1. r.to = WithBits(z, Replaced(z, n - 1, 0, PartOf(Y, k, j))) /\ r.from = WithBits(Y, Y.on)
      BY <1>5, <1>11, <2>1, <2>2, <2>3, <2>5, AssignStores
    <3>2. Replaced(z, n - 1, 0, PartOf(Y, k, j)) = Replaced(x, h, l, PartOf(y, k, j))
      BY <1>13, <2>2, <2>4 DEF Replaced
    <3>3. Replaced(z, n - 1, 0, PartOf(y, k, j)) \in SUBSET (0 .. z.num - 1)
      <4>1. PartOf(y, k, j) \in SUBSET (0 .. (n - 1) - 0)
        BY <1>3, <1>13
      <4>2. z.on \in SUBSET (0 .. z.num - 1) /\ z.num \in Int /\ n - 1 \in Int /\ 0 \in Int /\ n - 1 < z.num
        BY <2>1, <2>2
      <4> HIDE DEF n
      <4> QED
        BY <4>1, <4>2, ReplacedTyped
    <3>4. Whole(r.to) /\ r.to.on = Replaced(x, h, l, PartOf(y, k, j))
      <4>1. /\ Whole(WithBits(z, Replaced(z, n - 1, 0, PartOf(y, k, j))))
            /\ WithBits(z, Replaced(z, n - 1, 0, PartOf(y, k, j))).on = Replaced(z, n - 1, 0, PartOf(y, k, j))
        BY <2>1, <2>2, <3>3, WithBitsWhole
      <4> QED
        BY <1>13, <3>1, <3>2, <4>1
    <3> QED
      BY <1>12, <1>15, <3>1, <3>4 DEF r, X, Y, y
  <2>6. CASE k = 0
    <3>1. h - l + 1 = x.num /\ j - k + 1 = y.num
      BY <1>10, <1>22, <2>4, <2>6
    <3>2. q = << >> /\ Y = y /\ j = y.num - 1 /\ n = y.num
      BY <1>3, <1>4, <1>9, <2>6, <3>1
    <3>3. r = [to |-> Changed(z, WordsOf(z, Y)), from |-> Y]
      <4>1. z.msb = Y.msb /\ z.lsb = Y.lsb /\ z.num = z.msb - z.lsb + 1 /\ z.num # 0
        BY <1>3, <1>4, <1>11, <2>1, <2>2, <2>6
      <4> QED
        BY <1>5, <1>11, <2>2, <2>3, <4>1, AssignCopies
    <3>4. WordsOf(z, Y) = y.on
      BY <1>4, <1>11, <2>2, <3>2, WordsOfAll
    <3>5. r.to = WithBits(z, y.on) /\ r.from = y
      <4>1. Whole(z) /\ y.on \in SUBSET Int
        BY <1>4, <2>2, ShapeTyped
      <4>2. Changed(z, y.on) = WithBits(z, y.on)
        BY <4>1, ChangedWhole
      <4> QED
        BY <3>2, <3>3, <3>4, <4>2
    <3>6. Whole(r.to) /\ r.to.on = y.on
      <4>1. /\ Whole(WithBits(z, y.on))
            /\ WithBits(z, y.on).on = y.on
        BY <1>4, <2>1, <2>2, <3>2, WithBitsWhole
      <4> QED
        BY <3>5, <4>1
    <3>7. Replaced(x, h, l, PartOf(y, k, j)) = y.on
      BY <1>4, <1>16, <1>22, <2>6, <3>2
    <3> QED
      BY <1>12, <3>5, <3>6, <3>7 DEF r, X, Y, y
  <2> QED
    BY <2>5, <2>6
<1> QED
  BY <1>20, <1>21, <1>22

\* Of a vector without a size, by programs that are careful: to another such.
LEMMA EmptyTaken ==
  ASSUME BitsInv, NEW v \in Vectors, NEW p \in PartsOf(v), bits[v].num = 0
  PROVE  p = << >> /\ Taking(v, p) = bits[v] /\ bits[v] = Sized(0) /\ bits[v].on = {}
<1> DEFINE x == bits[v]
<1>1. Whole(x) /\ p \in ProperParts(x)
  BY DEF BitsInv, PartsOf
<1>2. p = << >> /\ Taking(v, p) = x
  BY <1>1, TakenPart DEF Taking
<1>3. x \in Shapes /\ x.num = 0 /\ x.on = {} /\ x.msb = -1 /\ x.lsb = 0 /\ x.subscripts = 0
  BY <1>1 DEF Whole
<1>4. x = Vec(0, {}, -1, 0, 0)
  BY <1>3, ShapeVec
<1> QED
  BY <1>2, <1>3, <1>4 DEF Vec, Sized

LEMMA EmptyAssigned ==
  ASSUME Careful, BitsInv, NEW v \in Vectors, NEW w \in Vectors, bits[w].num = 0,
         NEW p \in PartsOf(v), NEW q \in PartsOf(w), MayAssign(v, p, w, q)
  PROVE  LET r == Assign(Taking(v, p), Taking(w, q))
         IN r.from = bits[w] /\ Whole(r.to) /\ r.to.on = With(v, p, Meant(w, q))
<1> DEFINE x == bits[v]  y == bits[w]
           r == Assign(Taking(v, p), Taking(w, q))
<1>1. x.num = 0
  BY DEF MayAssign, Empties, IsEmptyBit, Careful, Avoids
<1>2. /\ p = << >> /\ Taking(v, p) = x /\ x = Sized(0) /\ x.on = {}
      /\ q = << >> /\ Taking(w, q) = y /\ y = Sized(0) /\ y.on = {}
  BY <1>1, EmptyTaken
<1>3. Assign(x, y) = [to |-> Emptied(x), from |-> y]
  BY DEF Assign, IsEmptyBit
<1>4. Emptied(x) = x
  BY <1>2 DEF Emptied, Sized
<1>5. r.to = x /\ r.from = y
  BY <1>2, <1>3, <1>4
<1>6. Whole(x)
  BY DEF BitsInv
<1>7. With(v, p, Meant(w, q)) = {}
  <2>1. Meant(w, q) = {}
    BY <1>2 DEF Meant, PartOf
  <2> QED
    BY <1>2, <2>1 DEF With
<1> QED
  BY <1>2, <1>5, <1>6, <1>7

\* An assignment of one part to another.
LEMMA PartAssigned ==
  ASSUME Careful, BitsInv, NEW v \in Vectors, NEW w \in Vectors,
         NEW p \in PartsOf(v), NEW q \in PartsOf(w), MayAssign(v, p, w, q)
  PROVE  LET r == Assign(Taking(v, p), Taking(w, q))
         IN r.from = bits[w] /\ Whole(r.to) /\ r.to.on = With(v, p, Meant(w, q))
BY SizedAssigned, EmptyAssigned

-----------------------------------------------------------------------------
(* A number that is assigned, and a read.                                  *)

\* The places of a number are those of the bits it needs.
LEMMA PlacesTyped ==
  ASSUME NEW n \in 0 .. 2 ^ WordSize - 1
  PROVE  /\ n \in Nat /\ Places(n) \in SUBSET (0 .. WordSize - 1)
         /\ \A k \in Nat : n < 2 ^ k => Places(n) \in SUBSET (0 .. k - 1)
<1>1. n \in Int /\ 0 <= n /\ n <= 2 ^ WordSize - 1
  <2>1. 2 ^ WordSize \in Nat
    BY WordSizes, PowerPositive
  <2> QED
    BY <2>1
<1>3. Places(n) = {i \in 0 .. WordSize - 1 : (n \div 2 ^ i) % 2 = 1}
  BY DEF Places, PlacesOf
<1>4. ASSUME NEW k \in Nat, n < 2 ^ k, NEW i \in Places(n)
      PROVE  i \in 0 .. k - 1
  <2>1. i \in 0 .. WordSize - 1 /\ (n \div 2 ^ i) % 2 = 1
    BY <1>3, <1>4
  <2>2. i \in Nat
    BY <2>1, WordSizes
  <2>3. CASE k <= i
    <3>1. 2 ^ k <= 2 ^ i /\ 2 ^ k \in Nat /\ 2 ^ i \in Nat \ {0}
      BY <2>2, <2>3, PowersGrow, PowerPositive
    <3>2. n < 2 ^ i
      BY <1>1, <1>4, <3>1
    <3>3. n \div 2 ^ i = 0
      BY <1>1, <3>1, <3>2, QuotientRemainder
    <3>4. (n \div 2 ^ i) % 2 = 0
      BY <3>3
    <3>5. 0 = 1
      BY <2>1, <3>4
    <3> QED
      BY <3>5
  <2>4. CASE i < k
    BY <2>2, <2>4
  <2> QED
    BY <2>2, <2>3, <2>4
<1> QED
  BY <1>1, <1>3, <1>4

LEMMA InFirstWord ==
  ASSUME NEW i \in Nat, i < WordSize
  PROVE  WordOf(i) = 0
BY WordSizes, QuotientRemainder DEF WordOf

LEMMA NumberStored ==
  ASSUME NEW x \in Shapes, NEW n \in 0 .. 2 ^ WordSize - 1
  PROVE  ResetBitRange(StoreNumber(x, n)) = WithBits(x, (x.on \ Cleared(x)) \cup {i + x.lsb : i \in Places(n)})
<1> DEFINE on == (x.on \ Cleared(x)) \cup {i + x.lsb : i \in Places(n)}
<1>1. StoreNumber(x, n) = Changed(x, on)
  BY DEF StoreNumber, Changed
<1>2. on \in SUBSET Int
  <2>1. x.on \in SUBSET Int /\ \A i \in Places(n) : i + x.lsb \in Int
    BY ShapeTyped, PlacesTyped
  <2> QED
    BY <2>1
<1> HIDE DEF on
<1>3. StoreNumber(x, n) = Vec(x.num, on, x.msb, x.lsb, x.subscripts)
  BY <1>1, <1>2, ChangedIs
<1>4. StoreNumber(x, n) \in Shapes /\ StoreNumber(x, n).num = x.num /\ StoreNumber(x, n).on = on
  BY <1>2, <1>3, VecFields, ShapeTyped
<1> QED
  BY <1>4, ResetIs DEF on, WithBits

LEMMA NumberInOneWord ==
  ASSUME NEW x \in Shapes, NEW n \in 0 .. 2 ^ WordSize - 1, OneWord(x)
  PROVE  ResetBitRange(StoreNumber(x, n)) = WithBits(x, Replaced(x, x.msb, x.lsb, Places(n)))
<1>1. Cleared(x) = x.lsb .. x.msb
  BY DEF Cleared
<1> QED
  BY <1>1, NumberStored DEF Replaced

\* An assignment of a number to a part.
LEMMA NumberAssigned ==
  ASSUME Careful, BitsInv, NEW v \in Vectors, NEW p \in PartsOf(v), NEW n \in Numbers,
         MayAssignNumber(v, p, n)
  PROVE  LET to == AssignNumber(Taking(v, p), n)
         IN Whole(to) /\ to.on = With(v, p, Places(n))
<1> DEFINE x == bits[v]  h == High(x, p)  l == Low(x, p)
           X == Taking(v, p)
           P == Places(n)
           to == AssignNumber(X, n)
<1>1. Whole(x) /\ p \in ProperParts(x)
  BY DEF BitsInv, PartsOf
<1>2. X = PartAt(x, h, l, Len(p))
  BY <1>1, TakenPart DEF Taking
<1>3. /\ h \in Int /\ l \in Int /\ Len(p) \in Int
      /\ x.num # 0 => 0 <= l /\ l <= h /\ h < x.num
      /\ x.num = 0 => p = << >>
      /\ p = << >> => h = x.num - 1 /\ l = 0 /\ X = x
  BY <1>1, TakenPart DEF Taking
<1>4. /\ x \in Shapes /\ x.num \in 0 .. 2 * WordSize /\ x.num \in Nat /\ x.on \in SUBSET (0 .. x.num - 1)
  BY <1>1, WordSizes DEF Whole
<1>5. X \in Shapes /\ X.num = x.num /\ X.on = x.on /\ X.msb = h /\ X.lsb = l
  <2>1. x.num \in Int /\ x.on \in SUBSET Int
    BY <1>4, ShapeTyped
  <2> HIDE DEF x, h, l, X
  <2> QED
    BY <1>2, <1>3, <2>1, VecFields DEF PartAt
<1>6. With(v, p, P) = Replaced(x, h, l, P)
  BY DEF With, Replaced
<1>7. x.num = 0 \/ n < 2 ^ (h - l + 1)
  BY <1>5 DEF MayAssignNumber, NumberFits, IsEmptyBit, WidthOf
<1>8. /\ n \in 0 .. 2 ^ WordSize - 1 /\ P \in SUBSET (0 .. WordSize - 1) /\ P \in SUBSET Int
      /\ x.num # 0 => OneWord(X)
  BY <1>5, WordSizes, PlacesTyped DEF MayAssignNumber, Careful, Avoids, IsEmptyBit
<1>9. x.num = 0 => to = ResetBitRange(StoreNumber(Sized(WordSize), n))
  BY <1>5 DEF AssignNumber, IsEmptyBit
<1>10. x.num # 0 => to = ResetBitRange(StoreNumber(X, n))
  BY <1>5 DEF AssignNumber, IsEmptyBit
<1>11. x.num # 0 => P \in SUBSET (0 .. h - l)
  <2> SUFFICES ASSUME x.num # 0 PROVE P \in SUBSET (0 .. h - l)
    OBVIOUS
  <2>1. h - l + 1 \in Nat /\ (h - l + 1) - 1 = h - l
    BY <1>3
  <2> QED
    BY <1>7, <2>1, WordSizes, PlacesTyped
<1> HIDE DEF x, h, l, X, P, to
<1>12. CASE x.num # 0
  <2>1. to = WithBits(X, Replaced(x, h, l, P))
    <3>1. to = WithBits(X, Replaced(X, X.msb, X.lsb, P))
      BY <1>5, <1>8, <1>10, <1>12, NumberInOneWord DEF P
    <3> QED
      BY <1>5, <3>1 DEF Replaced
  <2>2. Replaced(x, h, l, P) \in SUBSET (0 .. x.num - 1)
    BY <1>3, <1>4, <1>11, <1>12, ReplacedTyped
  <2>3. Whole(to) /\ to.on = Replaced(x, h, l, P)
    BY <1>4, <1>5, <2>1, <2>2, WithBitsWhole
  <2> QED
    BY <1>6, <2>3 DEF to, X, P
<1>13. CASE x.num = 0
  <2> DEFINE z == Sized(WordSize)
  <2>1. /\ z \in Shapes /\ z.num = WordSize /\ z.on = {} /\ z.msb = WordSize - 1 /\ z.lsb = 0
        /\ WordSize \in 0 .. 2 * WordSize /\ OneWord(z)
    <3>1. /\ z \in Shapes /\ z.num = WordSize /\ z.on = {} /\ z.msb = WordSize - 1 /\ z.lsb = 0
          /\ WordSize \in 0 .. 2 * WordSize
      BY WordSizes, SizedShape
    <3>2. WordOf(0) = 0 /\ WordOf(WordSize - 1) = 0
      <4>1. 0 \in Nat /\ WordSize - 1 \in Nat /\ 0 < WordSize /\ WordSize - 1 < WordSize
        BY WordSizes
      <4> QED
        BY <4>1, InFirstWord
    <3> HIDE DEF z
    <3> QED
      BY <3>1, <3>2 DEF OneWord
  <2> HIDE DEF z
  <2>2. to = WithBits(z, Replaced(z, WordSize - 1, 0, P))
    BY <1>8, <1>9, <1>13, <2>1, NumberInOneWord DEF z, P
  <2>3. \A i \in P : i + 0 = i
    BY <1>8
  <2>4. Replaced(z, WordSize - 1, 0, P) = P
    BY <2>1, <2>3 DEF Replaced
  <2>5. Replaced(x, h, l, P) = P
    <3>1. x.on = {} /\ l = 0
      BY <1>3, <1>4, <1>13
    <3> QED
      BY <2>3, <3>1 DEF Replaced
  <2>6. Whole(to) /\ to.on = P
    BY <1>8, <2>1, <2>2, <2>4, WithBitsWhole
  <2> QED
    BY <1>6, <2>5, <2>6 DEF to, X, P
<1> QED
  BY <1>12, <1>13

\* A read leaves the vector it is of.
LEMMA ReadClears ==
  ASSUME BitsInv, NEW v \in Vectors, NEW p \in PartsOf(v)
  PROVE  ResetBitRange(Taking(v, p)) = bits[v]
<1> DEFINE x == bits[v]
<1>1. Whole(x) /\ p \in ProperParts(x)
  BY DEF BitsInv, PartsOf
<1>2. Taking(v, p) = PartAt(x, High(x, p), Low(x, p), Len(p))
  BY <1>1, TakenPart DEF Taking
<1>3. High(x, p) \in Int /\ Low(x, p) \in Int /\ Len(p) \in Int /\ x \in Shapes
  BY <1>1, TakenPart DEF Whole
<1>4. /\ Taking(v, p) \in Shapes /\ Taking(v, p).num = x.num /\ Taking(v, p).on = x.on
  <2> HIDE DEF x
  <2> QED
    BY <1>2, <1>3, ShapeTyped, VecFields DEF PartAt
<1> QED
  BY <1>1, <1>4, ResetIs, WholeIs DEF WithBits

LEMMA TakingWidth ==
  ASSUME BitsInv, NEW v \in Vectors, NEW p \in PartsOf(v)
  PROVE  Taking(v, p).num = bits[v].num
<1> DEFINE x == bits[v]
<1>1. Whole(x) /\ p \in ProperParts(x)
  BY DEF BitsInv, PartsOf
<1>2. Taking(v, p) = PartAt(x, High(x, p), Low(x, p), Len(p))
  BY <1>1, TakenPart DEF Taking
<1>3. High(x, p) \in Int /\ Low(x, p) \in Int /\ Len(p) \in Int /\ x \in Shapes
  BY <1>1, TakenPart DEF Whole
<1> HIDE DEF x
<1> QED
  BY <1>2, <1>3, ShapeTyped, VecFields DEF PartAt, x

\* All of a vector may be taken without subscripts, which leaves it as it is.
LEMMA TakingAll ==
  ASSUME BitsInv, NEW v \in Vectors, << >> \in PartsOf(v)
  PROVE  Taking(v, << >>) = bits[v]
<1>1. Whole(bits[v]) /\ << >> \in ProperParts(bits[v])
  BY DEF BitsInv, PartsOf
<1> QED
  BY <1>1, TakenPart DEF Taking

\* A comparison of vectors leaves both.
LEMMA ComparedIs ==
  ASSUME BitsInv, NEW v \in Vectors, NEW w \in Vectors, NEW p \in PartsOf(v), NEW q \in PartsOf(w),
         (IsEmptyBit(bits[v]) \/ IsEmptyBit(bits[w])) => p = << >> /\ q = << >>
  PROVE  Compared(Taking(v, p), Taking(w, q)) = <<bits[v], bits[w]>>
<1>1. Taking(v, p).num = bits[v].num /\ Taking(w, q).num = bits[w].num
  BY TakingWidth
<1>2. CASE IsEmptyBit(bits[v]) \/ IsEmptyBit(bits[w])
  <2>1. Taking(v, p) = bits[v] /\ Taking(w, q) = bits[w]
    BY <1>2, TakingAll
  <2> QED
    BY <1>2, <2>1 DEF Compared
<1>3. CASE ~ (IsEmptyBit(bits[v]) \/ IsEmptyBit(bits[w]))
  <2>1. ResetBitRange(Taking(v, p)) = bits[v] /\ ResetBitRange(Taking(w, q)) = bits[w]
    BY ReadClears
  <2> QED
    BY <1>1, <1>3, <2>1 DEF Compared, IsEmptyBit
<1> QED
  BY <1>2, <1>3

-----------------------------------------------------------------------------
(* Bits combined.                                                          *)

LEMMA WholeAssigned ==
  ASSUME NEW x, Whole(x), NEW y, Whole(y), y.num # 0, x.num \in {0, y.num}
  PROVE  AssignResult(x, y) = y
<1>1. /\ x \in Shapes /\ x.num \in Nat /\ x.msb = x.num - 1 /\ x.lsb = 0
      /\ y \in Shapes /\ y.num \in Nat /\ y.msb = y.num - 1 /\ y.lsb = 0 /\ y.on \in SUBSET (0 .. y.num - 1)
      /\ y.num \in 0 .. 2 * WordSize /\ y.on \in SUBSET Int
  BY WordSizes DEF Whole, Shapes
<1>2. ASSUME NEW z, Whole(z), z.num = y.num
      PROVE  [z EXCEPT !.on = WordsOf(z, y)] = y
  <2>1. WordsOf(z, y) = y.on
    BY <1>1, <1>2, WordsOfAll
  <2>2. Changed(z, y.on) = WithBits(z, y.on)
    BY <1>1, <1>2, ChangedWhole
  <2>3. WithBits(z, y.on) = WithBits(y, y.on)
    BY <1>2 DEF WithBits
  <2>4. WithBits(y, y.on) = y
    BY WholeIs
  <2> QED
    BY <2>1, <2>2, <2>3, <2>4 DEF Changed
<1>3. CASE x.num # 0
  <2>1. AssignResult(x, y) = [x EXCEPT !.on = WordsOf(x, y)]
    BY <1>3 DEF AssignResult, IsEmptyBit
  <2> QED
    BY <1>2, <1>3, <2>1
<1>4. CASE x.num = 0
  <2>1. WidthOf(y) = y.num
    BY <1>1 DEF WidthOf
  <2> DEFINE z == Sized(y.num)
  <2>2. AssignResult(x, y) = [z EXCEPT !.on = WordsOf(z, y)]
    BY <1>4, <2>1 DEF AssignResult, IsEmptyBit
  <2>3. Whole(z) /\ z.num = y.num
    BY <1>1, SizedShape
  <2> HIDE DEF z
  <2> QED
    BY <1>2, <2>2, <2>3
<1> QED
  BY <1>3, <1>4

LEMMA CopyOfWhole ==
  ASSUME NEW x, Whole(x)
  PROVE  CopyOf(x) = x
<1>1. /\ x \in Shapes /\ x.num \in Nat /\ x.msb = x.num - 1 /\ x.lsb = 0
      /\ x.on \in SUBSET (0 .. x.num - 1) /\ x.on \in SUBSET Int /\ x.num \in 0 .. 2 * WordSize
  BY WordSizes DEF Whole, Shapes
<1>2. WidthOf(x) = x.num
  BY <1>1 DEF WidthOf
<1> DEFINE z == Sized(x.num)
<1>3. Whole(z) /\ z.num = x.num
  BY <1>1, SizedShape
<1>4. CopyOf(x) = Changed(z, WordsOf(z, x))
  BY <1>2 DEF CopyOf, Changed
<1> HIDE DEF z
<1>5. WordsOf(z, x) = x.on
  BY <1>1, <1>3, WordsOfAll
<1>6. Changed(z, x.on) = WithBits(z, x.on)
  BY <1>1, <1>3, ChangedWhole
<1>7. WithBits(z, x.on) = WithBits(x, x.on)
  BY <1>3 DEF WithBits
<1> QED
  BY <1>4, <1>5, <1>6, <1>7, WholeIs

LEMMA WrittenInPlace ==
  ASSUME NEW i \in Nat, i < WordSizeLog
  PROVE  Written(i) = i
<1>1. WordSize \in Nat \ {0} /\ WordSizeLog \in Nat \ {0} /\ i < WordSize
  BY WordSizes
<1>2. i \div WordSize = 0 /\ i % WordSizeLog = i
  BY <1>1, QuotientRemainder
<1> QED
  BY <1>1, <1>2 DEF Written, WordOf

\* What the loop makes of the places that are set, at place i.
Place(y, operator, on, i) ==
  IF BecomesSet(operator, on, i, y, i) THEN on \cup {i} ELSE on \ {i}

LEMMA CombinedSteps ==
  ASSUME NEW x, Whole(x), NEW y, Whole(y), x.num # 0, x.num <= WordSizeLog, NEW operator
  PROVE  \E f : /\ f[0] = x.on
                /\ \A k \in 1 .. x.num : f[k] = Place(y, operator, f[k - 1], k - 1)
                /\ \A k \in 0 .. x.num : f[k] \in SUBSET (0 .. x.num - 1)
                /\ Combined(x, y, operator) = WithBits(x, f[x.num])
<1> DEFINE n == x.num
           T == SUBSET (0 .. n - 1)
           D == SUBSET (1 .. n)
           part == [m \in 1 .. n |-> m - 1]
           G == [i \in 1 .. n |-> [s \in T |-> Place(y, operator, s, i - 1)]]
           Value(h, s) == IF s = {} THEN x.on ELSE Place(y, operator, h[s \ {Max(s)}], Max(s) - 1)
<1>1. /\ n \in Nat /\ x.msb = n - 1 /\ x.lsb = 0 /\ x.on \in T /\ x \in Shapes /\ T \subseteq SUBSET Int
      /\ y.lsb = 0
  BY WordSizes DEF Whole
<1>2. CopyOf(x) = x
  BY CopyOfWhole
<1> DEFINE places == [m \in 1 .. x.msb - x.lsb + 1 |-> x.lsb + m - 1]
           Step(on, i) == IF BecomesSet(operator, on, i, y, i - x.lsb + y.lsb)
                          THEN on \cup {Written(i)} ELSE on \ {Written(i)}
           StepValue(h, s) == IF s = {} THEN x.on ELSE Step(h[s \ {Max(s)}], places[Max(s)])
           fold == CHOOSE h : h = [s \in SUBSET (DOMAIN places) |-> StepValue(h, s)]
<1>3. DOMAIN places = 1 .. n /\ \A m \in 1 .. n : places[m] = m - 1
  BY <1>1
<1>4. Combined(x, y, operator) = Changed(x, fold[DOMAIN places])
  BY <1>2 DEF Combined, Changed, FoldLeft, MapThenFoldSet
<1>5. ASSUME NEW on, NEW m \in 1 .. n
      PROVE  Step(on, places[m]) = Place(y, operator, on, m - 1)
  <2>1. m - 1 \in Nat /\ m - 1 < WordSizeLog /\ places[m] = m - 1
    BY <1>1, <1>3, WordSizes
  <2>2. Written(m - 1) = m - 1
    BY <2>1, WrittenInPlace
  <2>3. (m - 1) - x.lsb + y.lsb = m - 1
    BY <1>1, <2>1
  <2> QED
    BY <2>1, <2>2, <2>3 DEF Place
<1> HIDE DEF n, places, Step
<1>6. G \in [1 .. n -> [T -> T]]
  <2> SUFFICES ASSUME NEW i \in 1 .. n, NEW s \in T
               PROVE  Place(y, operator, s, i - 1) \in T
    OBVIOUS
  <2>1. i - 1 \in 0 .. n - 1
    BY <1>1
  <2> QED
    BY <2>1 DEF Place
<1>7. PICK h \in [D -> T] :
        \A s \in D : h[s] = IF s = {} THEN x.on ELSE G[Max(s)][h[s \ {Max(s)}]]
  <2> HIDE DEF G, T
  <2>2. \E h : FoldsFrom(h, n, T, x.on, G)
    BY <1>1, <1>6, FoldExists
  <2> QED
    BY <2>2 DEF FoldsFrom
<1>8. ASSUME NEW s \in D PROVE h[s] = StepValue(h, s)
  <2>1. CASE s = {}
    BY <1>7, <2>1
  <2>2. CASE s # {}
    <3>1. Max(s) \in 1 .. n /\ s \ {Max(s)} \in D
      BY <1>1, <2>2, MaxOfPlaces
    <3>2. h[s \ {Max(s)}] \in T
      BY <1>7, <3>1
    <3>3. h[s] = G[Max(s)][h[s \ {Max(s)}]]
      BY <1>7, <2>2
    <3>4. G[Max(s)][h[s \ {Max(s)}]] = Place(y, operator, h[s \ {Max(s)}], Max(s) - 1)
      BY <3>1, <3>2
    <3>5. Step(h[s \ {Max(s)}], places[Max(s)]) = Place(y, operator, h[s \ {Max(s)}], Max(s) - 1)
      BY <1>5, <3>1
    <3> QED
      BY <2>2, <3>3, <3>4, <3>5
  <2> QED
    BY <2>1, <2>2
<1>9. h = [s \in SUBSET (DOMAIN places) |-> StepValue(h, s)]
  <2> HIDE DEF StepValue
  <2> QED
    BY <1>3, <1>7, <1>8
<1>10. fold = [s \in D |-> StepValue(fold, s)]
  <2> HIDE DEF StepValue
  <2> QED
    BY <1>3, <1>9
<1> HIDE DEF fold
<1> DEFINE f == [k \in 0 .. n |-> fold[1 .. k]]
<1>11. f[0] = x.on
  <2>1. 1 .. 0 = {} /\ 1 .. 0 \in D /\ 0 \in 0 .. n
    BY <1>1
  <2> QED
    BY <1>10, <2>1
<1>12. ASSUME NEW k \in 1 .. n PROVE f[k] = Place(y, operator, f[k - 1], k - 1)
  <2>1. k \in Nat /\ k # 0 /\ k - 1 \in 0 .. n /\ k \in 0 .. n
    BY <1>1
  <2>2. 1 .. k # {} /\ Max(1 .. k) = k /\ (1 .. k) \ {k} = 1 .. (k - 1)
    BY <2>1, MaxOfInterval
  <2>3. 1 .. k \in D
    BY <1>1, <2>1
  <2>4. fold[1 .. k] = StepValue(fold, 1 .. k)
    BY <1>10, <2>3
  <2>5. fold[1 .. k] = Step(fold[1 .. (k - 1)], places[k])
    BY <2>2, <2>4
  <2> QED
    BY <1>5, <2>1, <2>5
<1>13. n \in 0 .. n /\ Combined(x, y, operator) = Changed(x, f[n])
  BY <1>1, <1>3, <1>4
<1> HIDE DEF f
<1>14. \A k \in 0 .. n : f[k] \in T
  <2> DEFINE Bad == {k \in 0 .. n : f[k] \notin T}
  <2> SUFFICES ASSUME Bad # {} PROVE FALSE
    OBVIOUS
  <2>1. PICK k \in Bad : \A m \in Bad : k <= m
    <3>1. Bad \subseteq Nat
      BY <1>1
    <3> HIDE DEF Bad
    <3> QED
      BY <3>1, LeastNatural
  <2>2. k # 0
    BY <1>1, <1>11
  <2>3. k \in 1 .. n /\ k - 1 \in 0 .. n /\ k - 1 \notin Bad /\ k - 1 \in 0 .. n - 1
    BY <1>1, <2>1, <2>2
  <2>4. f[k - 1] \in T
    BY <2>3
  <2>5. f[k] = Place(y, operator, f[k - 1], k - 1)
    BY <1>12, <2>3
  <2>6. f[k] \in T
    BY <2>3, <2>4, <2>5 DEF Place
  <2> QED
    BY <2>1, <2>6
<1>15. Changed(x, f[n]) = WithBits(x, f[n])
  BY <1>1, <1>13, <1>14, ChangedWhole
<1> QED
  BY <1>11, <1>12, <1>13, <1>14, <1>15 DEF n

\* Where a bit of the result depends on that bit alone, the result is bit by bit.
LEMMA CombinedIs ==
  ASSUME NEW x, Whole(x), NEW y, Whole(y), x.num # 0, x.num <= WordSizeLog, NEW operator,
         NEW B \in SUBSET (0 .. x.num - 1),
         \A on \in SUBSET (0 .. x.num - 1) : \A i \in 0 .. x.num - 1 :
           (i \in on <=> i \in x.on) => (BecomesSet(operator, on, i, y, i) <=> i \in B)
  PROVE  Combined(x, y, operator) = WithBits(x, B)
<1> DEFINE n == x.num
           Right(s, k) == \A i \in 0 .. n - 1 : i \in s <=> IF i < k THEN i \in B ELSE i \in x.on
<1>1. n \in Nat /\ x.on \in SUBSET (0 .. n - 1)
  BY WordSizes DEF Whole
<1>2. PICK f : /\ f[0] = x.on
               /\ \A k \in 1 .. n : f[k] = Place(y, operator, f[k - 1], k - 1)
               /\ \A k \in 0 .. n : f[k] \in SUBSET (0 .. n - 1)
               /\ Combined(x, y, operator) = WithBits(x, f[n])
  BY CombinedSteps
<1> DEFINE Bad == {k \in 0 .. n : ~ Right(f[k], k)}
<1>3. Bad = {}
  <2> SUFFICES ASSUME Bad # {} PROVE FALSE
    OBVIOUS
  <2>1. PICK k \in Bad : \A m \in Bad : k <= m
    <3>1. Bad \subseteq Nat
      BY <1>1
    <3> HIDE DEF Bad
    <3> QED
      BY <3>1, LeastNatural
  <2>2. k # 0
    <3>1. Right(f[0], 0)
      BY <1>1, <1>2
    <3> QED
      BY <2>1, <3>1
  <2>3. k \in 1 .. n /\ k - 1 \in 0 .. n /\ k - 1 \notin Bad /\ k - 1 \in 0 .. n - 1
    BY <1>1, <2>1, <2>2
  <2> DEFINE s == f[k - 1]  m == k - 1
  <2>4. Right(s, m) /\ s \in SUBSET (0 .. n - 1)
    BY <1>2, <2>3
  <2>5. f[k] = IF BecomesSet(operator, s, m, y, m) THEN s \cup {m} ELSE s \ {m}
    BY <1>2, <2>3 DEF Place
  <2>6. m \in s <=> m \in x.on
    BY <1>1, <2>3, <2>4
  <2>7. BecomesSet(operator, s, m, y, m) <=> m \in B
    BY <2>3, <2>4, <2>6
  <2>8. Right(f[k], k)
    <3> HIDE DEF s
    <3> SUFFICES ASSUME NEW i \in 0 .. n - 1
                 PROVE  i \in f[k] <=> IF i < k THEN i \in B ELSE i \in x.on
      OBVIOUS
    <3>1. i \in Int /\ k \in Int /\ (i < k <=> (i < m \/ i = m))
      BY <1>1, <2>3
    <3>2. i \in s <=> IF i < m THEN i \in B ELSE i \in x.on
      BY <2>4
    <3>3. CASE i = m
      BY <2>5, <2>7, <3>1, <3>3
    <3>4. CASE i # m
      <4>1. i \in f[k] <=> i \in s
        BY <2>5, <3>4
      <4> QED
        BY <3>1, <3>2, <3>4, <4>1
    <3> QED
      BY <3>3, <3>4
  <2> QED
    BY <2>1, <2>8
<1>4. f[n] = B
  <2>1. n \in 0 .. n /\ n \notin Bad
    BY <1>1, <1>3
  <2>2. Right(f[n], n) /\ f[n] \in SUBSET (0 .. n - 1)
    BY <1>2, <2>1
  <2> HIDE DEF Bad
  <2>3. \A i \in 0 .. n - 1 : i < n
    BY <1>1
  <2> QED
    BY <2>2, <2>3
<1> QED
  BY <1>2, <1>4

LEMMA CombinesBits ==
  ASSUME NEW x, Whole(x), NEW y, Whole(y), x.num # 0, x.num = y.num, x.num <= WordSizeLog
  PROVE  /\ And(x, y) = WithBits(x, x.on \cap y.on)
         /\ Or(x, y) = WithBits(x, x.on \cup y.on)
         /\ Not(x) = WithBits(x, (0 .. x.num - 1) \ x.on)
<1>1. x.on \in SUBSET (0 .. x.num - 1) /\ y.on \in SUBSET (0 .. x.num - 1)
  BY DEF Whole
<1>2. Combined(x, y, "&") = WithBits(x, x.on \cap y.on)
  <2> DEFINE B == x.on \cap y.on
  <2>1. B \in SUBSET (0 .. x.num - 1)
    BY <1>1
  <2>2. \A on \in SUBSET (0 .. x.num - 1) : \A i \in 0 .. x.num - 1 :
           (i \in on <=> i \in x.on) => (BecomesSet("&", on, i, y, i) <=> i \in B)
    BY DEF BecomesSet
  <2> HIDE DEF B
  <2>3. Combined(x, y, "&") = WithBits(x, B)
    BY <2>1, <2>2, CombinedIs
  <2> QED
    BY <2>3 DEF B
<1>3. Combined(x, y, "|") = WithBits(x, x.on \cup y.on)
  <2> DEFINE B == x.on \cup y.on
  <2>1. B \in SUBSET (0 .. x.num - 1)
    BY <1>1
  <2>2. \A on \in SUBSET (0 .. x.num - 1) : \A i \in 0 .. x.num - 1 :
           (i \in on <=> i \in x.on) => (BecomesSet("|", on, i, y, i) <=> i \in B)
    BY DEF BecomesSet
  <2> HIDE DEF B
  <2>3. Combined(x, y, "|") = WithBits(x, B)
    BY <2>1, <2>2, CombinedIs
  <2> QED
    BY <2>3 DEF B
<1>4. Combined(x, x, "~") = WithBits(x, (0 .. x.num - 1) \ x.on)
  <2> DEFINE B == (0 .. x.num - 1) \ x.on
  <2>1. B \in SUBSET (0 .. x.num - 1)
    OBVIOUS
  <2>2. \A on \in SUBSET (0 .. x.num - 1) : \A i \in 0 .. x.num - 1 :
           (i \in on <=> i \in x.on) => (BecomesSet("~", on, i, x, i) <=> i \in B)
    BY DEF BecomesSet
  <2> HIDE DEF B
  <2>3. Combined(x, x, "~") = WithBits(x, B)
    BY <2>1, <2>2, CombinedIs
  <2> QED
    BY <2>3 DEF B
<1> QED
  BY <1>2, <1>3, <1>4 DEF And, Or, Not

\* Whatever the operator, a combination is in order.
LEMMA CombinedWhole ==
  ASSUME NEW x, Whole(x), NEW y, Whole(y), x.num # 0, x.num <= WordSizeLog, NEW operator
  PROVE  Whole(Combined(x, y, operator)) /\ Combined(x, y, operator).num = x.num
<1>1. PICK f : /\ \A k \in 0 .. x.num : f[k] \in SUBSET (0 .. x.num - 1)
               /\ Combined(x, y, operator) = WithBits(x, f[x.num])
  BY CombinedSteps
<1>2. x \in Shapes /\ x.num \in 0 .. 2 * WordSize /\ x.num \in 0 .. x.num
  BY WordSizes DEF Whole
<1>3. f[x.num] \in SUBSET (0 .. x.num - 1) /\ f[x.num] \in SUBSET Int
  BY <1>1, <1>2
<1> QED
  BY <1>1, <1>2, <1>3, WithBitsWhole, WithBitsFields

-----------------------------------------------------------------------------
(* Shifts.                                                                 *)

\* A part of a vector that is in order, and what is assigned to it and taken from it.
LEMMA PartIs ==
  ASSUME NEW x, Whole(x), NEW a \in Int, NEW b \in Int
  PROVE  LET X == Subscripted(x, <<a, b>>)
         IN /\ X \in Shapes /\ X.num = x.num /\ X.on = x.on /\ X.msb = a /\ X.lsb = b
            /\ WithBits(X, x.on) = x /\ \A on : WithBits(X, on) = WithBits(x, on)
            /\ \A low, high, places : Replaced(X, high, low, places) = Replaced(x, high, low, places)
            /\ \A low, high : PartOf(X, low, high) = PartOf(x, low, high)
<1>1. x \in Shapes /\ x.subscripts = 0
  BY DEF Whole
<1>2. Subscripted(x, <<a, b>>) = PartAt(x, a, b, 2)
  BY <1>1, SubscriptedIs
<1> DEFINE X == Subscripted(x, <<a, b>>)
<1>3. X \in Shapes /\ X.num = x.num /\ X.on = x.on /\ X.msb = a /\ X.lsb = b
  BY <1>1, <1>2, ShapeTyped, VecFields DEF PartAt
<1> HIDE DEF X
<1>4. \A on : WithBits(X, on) = WithBits(x, on)
  BY <1>3 DEF WithBits
<1>5. /\ \A low, high, places : Replaced(X, high, low, places) = Replaced(x, high, low, places)
      /\ \A low, high : PartOf(X, low, high) = PartOf(x, low, high)
  BY <1>3 DEF Replaced, PartOf
<1> QED
  BY <1>3, <1>4, <1>5, WholeIs DEF X

\* Zero has no place, and assigned to a part, unless it is cut, clears it.
LEMMA ZeroAssigned ==
  ASSUME NEW X \in Shapes, X.num # 0, X.lsb \in Nat, X.msb \in Nat, X.lsb <= X.msb,
         X.msb < 2 * WordSize, ~ Cut(X.lsb, X.msb), OneWord(X) \/ X.on \in SUBSET (0 .. X.msb)
  PROVE  AssignNumber(X, 0) = WithBits(X, X.on \ (X.lsb .. X.msb))
<1>1. 0 \in 0 .. 2 ^ WordSize - 1
  <2>1. 2 ^ WordSize \in Nat \ {0}
    BY WordSizes, PowerPositive
  <2> QED
    BY <2>1
<1>2. Places(0) = {}
  <2>1. 0 < 2 ^ 0 /\ 0 \in Nat
    BY PowerPositive
  <2>2. Places(0) \in SUBSET (0 .. 0 - 1)
    BY <1>1, <2>1, PlacesTyped
  <2>3. 0 .. 0 - 1 = {}
    OBVIOUS
  <2> QED
    BY <2>2, <2>3
<1>3. AssignNumber(X, 0) = ResetBitRange(StoreNumber(X, 0))
  BY DEF AssignNumber, IsEmptyBit
<1>4. AssignNumber(X, 0) = WithBits(X, X.on \ Cleared(X))
  <2>1. ResetBitRange(StoreNumber(X, 0)) = WithBits(X, (X.on \ Cleared(X)) \cup {i + X.lsb : i \in Places(0)})
    BY <1>1, NumberStored
  <2>2. (X.on \ Cleared(X)) \cup {i + X.lsb : i \in Places(0)} = X.on \ Cleared(X)
    BY <1>2
  <2> QED
    BY <1>3, <2>1, <2>2
<1>5. X.on \ Cleared(X) = X.on \ (X.lsb .. X.msb)
  <2>1. CASE OneWord(X)
    BY <2>1 DEF Cleared
  <2>2. CASE ~ OneWord(X)
    <3> DEFINE W == WordSize  a == X.lsb  c == X.msb  first == FirstOfWord(c)
    <3>1. W \in Nat \ {0}
      BY WordSizes
    <3>2. /\ WordOf(a) \in Nat /\ a % W \in 0 .. W - 1 /\ a = W * WordOf(a) + (a % W)
          /\ WordOf(c) \in Nat /\ c % W \in 0 .. W - 1 /\ c = W * WordOf(c) + (c % W)
      BY <3>1, QuotientRemainder DEF WordOf
    <3>3. WordOf(c) <= 1
      <4>1. 2 * W - 1 \in Nat /\ c <= 2 * W - 1
        BY <3>1
      <4>2. WordOf(2 * W - 1) = 1
        <5>1. 2 * W - 1 = W * 1 + (W - 1) /\ W - 1 \in 0 .. W - 1
          BY <3>1
        <5> QED
          BY <3>1, <5>1, Quotient DEF WordOf
      <4> QED
        BY <4>1, <4>2, WordOfGrows
    <3>4. WordOf(a) = 0 /\ WordOf(c) = 1
      <4>1. WordOf(a) <= WordOf(c) /\ WordOf(a) # WordOf(c)
        BY <2>2, WordOfGrows DEF OneWord
      <4> QED
        BY <3>2, <3>3, <4>1
    <3>5. a % W = a /\ c = W + (c % W) /\ first = W
      <4>1. a = W * 0 + (a % W) /\ c = W * 1 + (c % W) /\ first = 1 * W
        BY <3>2, <3>4 DEF FirstOfWord
      <4> QED
        BY <3>1, <3>2, <4>1
    <3>6. c % W <= W - a
      <4>1. ~ (W - (a % W) < c % W)
        BY <3>4 DEF Cut
      <4> QED
        BY <3>1, <3>2, <3>5, <4>1
    <3>7. Cleared(X) = {i \in a .. 2 * W - a : WordOf(i) <= 1}
      BY <2>2, <3>4, <3>5 DEF Cleared
    <3>8. ASSUME NEW i \in X.on
          PROVE  i \in Cleared(X) <=> i \in a .. c
      <4>1. i \in Nat /\ i <= c
        BY <2>2
      <4>2. WordOf(i) <= 1
        BY <3>4, <4>1, WordOfGrows
      <4>3. c <= 2 * W - a
        BY <3>1, <3>2, <3>5, <3>6
      <4> QED
        BY <3>1, <3>7, <4>1, <4>2, <4>3
    <3> QED
      BY <3>8
  <2> QED
    BY <2>1, <2>2
<1> QED
  BY <1>4, <1>5

Down(on, u) == {i - u : i \in {j \in on : j >= u}}
Up(on, u, n) == {i + u : i \in {j \in on : j < n - u}}

LEMMA MovedTyped ==
  ASSUME NEW n \in Nat, NEW u \in 1 .. n, NEW on \in SUBSET (0 .. n - 1)
  PROVE  Down(on, u) \in SUBSET (0 .. n - u - 1) /\ Up(on, u, n) \in SUBSET (u .. n - 1)
<1>1. ASSUME NEW i \in on, i >= u PROVE i - u \in 0 .. n - u - 1
  BY <1>1
<1>2. ASSUME NEW i \in on, i < n - u PROVE i + u \in u .. n - 1
  BY <1>2
<1> QED
  BY <1>1, <1>2 DEF Down, Up

LEMMA ShiftedRight ==
  ASSUME NEW x, Whole(x), NEW u \in 1 .. x.num, ~ Cut(x.num - u, x.num - 1)
  PROVE  ShiftRight(x, u) = WithBits(x, Down(x.on, u))
<1> DEFINE n == x.num  top == x.msb
           m == n - u
<1>1. /\ x \in Shapes /\ n \in Nat /\ n # 0 /\ n \in 0 .. 2 * WordSize /\ x.on \in SUBSET (0 .. n - 1)
      /\ x.msb = n - 1 /\ x.lsb = 0 /\ u \in Int /\ 1 <= u /\ u <= n
  BY WordSizes DEF Whole
<1>2. Down(x.on, u) \in SUBSET (0 .. n - u - 1) /\ Down(x.on, u) \in SUBSET Int
  BY <1>1, MovedTyped
<1>3. CASE u > x.msb
  <2>1. ShiftRight(x, u) = AssignNumber(x, 0)
    BY <1>3 DEF ShiftRight
  <2>2. ShiftRight(x, u) = WithBits(x, x.on \ (x.lsb .. x.msb))
    <3>1. u = n /\ n - u = 0 /\ n - 1 \in Nat /\ n - 1 < 2 * WordSize
      BY <1>1, <1>3, WordSizes
    <3>2. ~ Cut(x.lsb, x.msb)
      BY <1>1, <3>1
    <3> QED
      BY <1>1, <2>1, <3>1, <3>2, ZeroAssigned
  <2>3. x.on \ (x.lsb .. x.msb) = {} /\ Down(x.on, u) = {}
    BY <1>1, <1>2, <1>3
  <2> QED
    BY <2>2, <2>3
<1>4. CASE ~ (u > x.msb)
  <2> DEFINE z == Sized(top + 1 - u)
             Y == Subscripted(x, <<top, u>>)
             b == Assign(z, Y)
             X == Subscripted(b.from, <<top - u, 0>>)
             low == Assign(X, b.to).to
             Z == Subscripted(low, <<top, top - u + 1>>)
  <2>1. ShiftRight(x, u) = AssignNumber(Z, 0)
    BY <1>4 DEF ShiftRight
  <2>2. /\ m \in Int /\ m \in 1 .. n - 1 /\ top + 1 - u = m /\ top - u = m - 1 /\ top - u + 1 = m
        /\ top = n - 1 /\ n - 1 \in Int /\ m - 1 \in Int /\ m \in 0 .. 2 * WordSize /\ 0 \in Int
    BY <1>1, <1>4, WordSizes
  <2>3. /\ z \in Shapes /\ z.num = m /\ z.on = {} /\ z.msb = m - 1 /\ z.lsb = 0 /\ Whole(z)
    BY <2>2, SizedShape
  <2>4. /\ Y \in Shapes /\ Y.on = x.on /\ Y.msb = n - 1 /\ Y.lsb = u /\ WithBits(Y, Y.on) = x
        /\ Y.num # 0 /\ PartOf(Y, u, n - 1) = PartOf(x, u, n - 1)
    BY <1>1, <2>2, PartIs
  <2>5. PartOf(x, u, n - 1) = Down(x.on, u)
    <3>1. x.on \cap (u .. n - 1) = {j \in x.on : j >= u}
      BY <1>1
    <3> QED
      BY <3>1 DEF PartOf, Down
  <2> HIDE DEF z, Y
  <2>6. b.to = WithBits(z, Down(x.on, u)) /\ b.from = x
    <3>1. ~ (z.msb = Y.msb /\ z.lsb = Y.lsb /\ z.num = z.msb - z.lsb + 1) /\ z.num # 0
      BY <1>1, <2>2, <2>3, <2>4
    <3>2. /\ b.to = WithBits(z, Replaced(z, z.msb, z.lsb, PartOf(Y, Y.lsb, Y.msb)))
          /\ b.from = WithBits(Y, Y.on)
      BY <2>3, <2>4, <3>1, AssignStores
    <3>3. Replaced(z, m - 1, 0, Down(x.on, u)) = Down(x.on, u)
      <4>1. \A i \in Down(x.on, u) : i + 0 = i
        BY <1>2
      <4> QED
        BY <2>3, <4>1 DEF Replaced
    <3> QED
      BY <2>3, <2>4, <2>5, <3>2, <3>3
  <2>7. /\ b.to \in Shapes /\ b.to.num = m /\ b.to.on = Down(x.on, u)
        /\ b.to.msb = m - 1 /\ b.to.lsb = 0
    BY <1>2, <2>3, <2>6, WithBitsFields
  <2> HIDE DEF b, m
  <2>8. /\ X \in Shapes /\ X.num = n /\ X.on = x.on /\ X.msb = m - 1 /\ X.lsb = 0
        /\ \A on : WithBits(X, on) = WithBits(x, on)
        /\ \A l, h, places : Replaced(X, l, h, places) = Replaced(x, l, h, places)
    <3>1. X = Subscripted(x, <<m - 1, 0>>)
      BY <2>2, <2>6
    <3> HIDE DEF X
    <3> QED
      BY <2>2, <3>1, PartIs
  <2> HIDE DEF X
  <2> DEFINE on == (x.on \ (0 .. m - 1)) \cup Down(x.on, u)
  <2>9. low = WithBits(x, on) /\ on \in SUBSET (0 .. n - 1)
    <3>1. ~ (X.msb = b.to.msb /\ X.lsb = b.to.lsb /\ X.num = X.msb - X.lsb + 1) /\ X.num # 0 /\ b.to.num # 0
      BY <1>1, <2>2, <2>7, <2>8
    <3>2. low = WithBits(X, Replaced(X, X.msb, X.lsb, PartOf(b.to, b.to.lsb, b.to.msb)))
      BY <2>7, <2>8, <3>1, AssignStores
    <3>3. PartOf(b.to, 0, m - 1) = Down(x.on, u)
      <4>1. \A i \in Down(x.on, u) : i - 0 = i /\ i \in 0 .. m - 1
        BY <1>2 DEF m
      <4> QED
        BY <2>7, <4>1 DEF PartOf
    <3>4. Replaced(x, m - 1, 0, Down(x.on, u)) = on
      <4>1. \A i \in Down(x.on, u) : i + 0 = i
        BY <1>2
      <4> QED
        BY <4>1 DEF Replaced
    <3>5. low = WithBits(x, on)
      <4> HIDE DEF on, low
      <4>1. low = WithBits(X, Replaced(X, m - 1, 0, Down(x.on, u)))
        BY <2>7, <2>8, <3>2, <3>3
      <4>2. Replaced(X, m - 1, 0, Down(x.on, u)) = on
        BY <2>8, <3>4
      <4> QED
        BY <2>8, <4>1, <4>2
    <3>6. on \in SUBSET (0 .. n - 1)
      <4>1. 0 .. n - u - 1 \subseteq 0 .. n - 1
        BY <1>1
      <4> QED
        BY <1>1, <1>2, <4>1
    <3> QED
      BY <3>5, <3>6
  <2>10. Whole(low) /\ low.num = n /\ low.on = on
    <3> HIDE DEF on
    <3>1. on \in SUBSET Int
      BY <2>9
    <3> QED
      BY <1>1, <2>9, <3>1, WithBitsWhole, WithBitsFields
  <2> HIDE DEF low
  <2>11. Z \in Shapes /\ Z.num = n /\ Z.on = on /\ Z.msb = n - 1 /\ Z.lsb = m
         /\ \A s : WithBits(Z, s) = WithBits(low, s)
    <3>1. Z = Subscripted(low, <<n - 1, m>>)
      BY <2>2
    <3> HIDE DEF Z, on
    <3> QED
      BY <2>2, <2>10, <3>1, PartIs
  <2> HIDE DEF Z
  <2>12. AssignNumber(Z, 0) = WithBits(low, on \ (m .. n - 1))
    <3>1. m \in Nat /\ n - 1 \in Nat /\ m <= n - 1 /\ n - 1 < 2 * WordSize
      BY <1>1, <2>2, WordSizes
    <3>2. ~ Cut(m, n - 1)
      BY DEF m
    <3> HIDE DEF on, n
    <3>3. AssignNumber(Z, 0) = WithBits(Z, on \ (m .. n - 1))
      BY <1>1, <2>9, <2>11, <3>1, <3>2, ZeroAssigned
    <3> QED
      BY <2>11, <3>3
  <2>13. on \ (m .. n - 1) = Down(x.on, u)
    <3>1. (x.on \ (0 .. m - 1)) \ (m .. n - 1) = {}
      BY <1>1, <2>2
    <3>2. Down(x.on, u) \cap (m .. n - 1) = {}
      BY <1>1, <1>2, <2>2 DEF m
    <3> QED
      BY <3>1, <3>2
  <2>14. \A s : WithBits(low, s) = WithBits(x, s)
    BY <2>10 DEF WithBits
  <2> QED
    BY <2>1, <2>12, <2>13, <2>14
<1> QED
  BY <1>3, <1>4

LEMMA ShiftedLeft ==
  ASSUME NEW x, Whole(x), NEW u \in 1 .. x.num, ~ Cut(0, u - 1)
  PROVE  ShiftLeft(x, u) = WithBits(x, Up(x.on, u, x.num))
<1> DEFINE n == x.num  top == x.msb
           m == n - u
<1>1. /\ x \in Shapes /\ n \in Nat /\ n # 0 /\ n \in 0 .. 2 * WordSize /\ x.on \in SUBSET (0 .. n - 1)
      /\ x.msb = n - 1 /\ x.lsb = 0 /\ u \in Int /\ 1 <= u /\ u <= n
  BY WordSizes DEF Whole
<1>2. Up(x.on, u, n) \in SUBSET (u .. n - 1) /\ Up(x.on, u, n) \in SUBSET Int
  BY <1>1, MovedTyped
<1>3. CASE u > x.msb
  <2>1. ShiftLeft(x, u) = AssignNumber(x, 0)
    BY <1>3 DEF ShiftLeft
  <2>2. ShiftLeft(x, u) = WithBits(x, x.on \ (x.lsb .. x.msb))
    <3>1. u = n /\ n - 1 \in Nat /\ n - 1 < 2 * WordSize
      BY <1>1, <1>3, WordSizes
    <3>2. ~ Cut(x.lsb, x.msb)
      BY <1>1, <3>1
    <3> QED
      BY <1>1, <2>1, <3>1, <3>2, ZeroAssigned
  <2>3. x.on \ (x.lsb .. x.msb) = {} /\ Up(x.on, u, n) = {}
    BY <1>1, <1>2, <1>3
  <2> QED
    BY <2>2, <2>3
<1>4. CASE ~ (u > x.msb)
  <2> DEFINE z == Sized(top + 1 - u)
             Y == Subscripted(x, <<top - u, 0>>)
             b == Assign(z, Y)
             X == Subscripted(ResetBitRange(b.from), <<top, u>>)
             high == Assign(X, b.to).to
             Z == Subscripted(high, <<u - 1, 0>>)
  <2>1. ShiftLeft(x, u) = AssignNumber(Z, 0)
    BY <1>4 DEF ShiftLeft
  <2>2. /\ m \in Int /\ m \in 1 .. n - 1 /\ top + 1 - u = m /\ top - u = m - 1 /\ m # 0
        /\ top = n - 1 /\ n - 1 \in Int /\ m - 1 \in Int /\ m \in 0 .. 2 * WordSize /\ 0 \in Int
        /\ u - 1 \in Int
    BY <1>1, <1>4, WordSizes
  <2>3. /\ z \in Shapes /\ z.num = m /\ z.on = {} /\ z.msb = m - 1 /\ z.lsb = 0 /\ Whole(z)
    BY <2>2, SizedShape
  <2>4. /\ Y \in Shapes /\ Y.num = n /\ Y.on = x.on /\ Y.msb = m - 1 /\ Y.lsb = 0 /\ WithBits(Y, Y.on) = x
    BY <1>1, <2>2, PartIs
  <2> HIDE DEF z, Y
  <2> DEFINE words == WordsOf(z, Y)
  <2>5. words \in SUBSET Int /\ \A j \in 0 .. m - 1 : j \in words <=> j \in x.on
    <3>1. words \subseteq x.on
      BY <2>4 DEF WordsOf
    <3>2. ASSUME NEW j \in 0 .. m - 1, j \in x.on PROVE j \in words
      <4>1. WordOf(j) <= WordOf(z.num - 1)
        <5>1. j \in Nat /\ m - 1 \in Nat /\ j <= m - 1
          BY <1>1, <2>2
        <5> QED
          BY <2>3, <5>1, WordOfGrows
      <4> QED
        BY <2>4, <3>2, <4>1 DEF WordsOf
    <3> QED
      BY <1>1, <3>1, <3>2
  <2>6. b.to = WithBits(z, words) /\ b.from = Y
    <3>1. z.msb = Y.msb /\ z.lsb = Y.lsb /\ z.num = z.msb - z.lsb + 1 /\ z.num # 0
      BY <2>2, <2>3, <2>4
    <3>2. Assign(z, Y) = [to |-> Changed(z, WordsOf(z, Y)), from |-> Y]
      BY <2>3, <2>4, <3>1, AssignCopies
    <3>3. Changed(z, words) = WithBits(z, words)
      BY <2>3, <2>5, ChangedWhole
    <3> QED
      BY <3>2, <3>3
  <2>7. /\ b.to \in Shapes /\ b.to.num = m /\ b.to.on = words
        /\ b.to.msb = m - 1 /\ b.to.lsb = 0
    BY <2>3, <2>5, <2>6, WithBitsFields
  <2>8. ResetBitRange(b.from) = x
    BY <2>4, <2>6, ResetIs
  <2> HIDE DEF b, words
  <2>9. /\ X \in Shapes /\ X.num = n /\ X.on = x.on /\ X.msb = n - 1 /\ X.lsb = u
        /\ \A on : WithBits(X, on) = WithBits(x, on)
        /\ \A l, h, places : Replaced(X, l, h, places) = Replaced(x, l, h, places)
    <3>1. X = Subscripted(x, <<n - 1, u>>)
      BY <2>2, <2>8
    <3> HIDE DEF X
    <3> QED
      BY <1>1, <2>2, <3>1, PartIs
  <2> HIDE DEF X
  <2>10. Up(x.on, u, n) = {i + u : i \in PartOf(b.to, 0, m - 1)}
    <3>1. PartOf(b.to, 0, m - 1) = {j \in x.on : j < m}
      <4>1. b.to.on \cap (0 .. m - 1) = {j \in x.on : j < m}
        BY <1>1, <2>2, <2>5, <2>7
      <4>2. \A i \in {j \in x.on : j < m} : i - 0 = i
        BY <1>1
      <4> QED
        BY <4>1, <4>2 DEF PartOf
    <3> QED
      BY <3>1 DEF Up, m
  <2> HIDE DEF m
  <2> DEFINE on == (x.on \ (u .. n - 1)) \cup Up(x.on, u, n)
  <2>11. high = WithBits(x, on) /\ on \in SUBSET (0 .. n - 1)
    <3>1. ~ (X.msb = b.to.msb /\ X.lsb = b.to.lsb /\ X.num = X.msb - X.lsb + 1) /\ X.num # 0 /\ b.to.num # 0
      BY <1>1, <2>2, <2>7, <2>9
    <3>2. high = WithBits(X, Replaced(X, X.msb, X.lsb, PartOf(b.to, b.to.lsb, b.to.msb)))
      BY <2>7, <2>9, <3>1, AssignStores
    <3>3. Replaced(x, n - 1, u, PartOf(b.to, 0, m - 1)) = on
      BY <2>10 DEF Replaced
    <3>4. high = WithBits(x, on)
      <4> HIDE DEF on, high
      <4>1. high = WithBits(X, Replaced(X, n - 1, u, PartOf(b.to, 0, m - 1)))
        BY <2>7, <2>9, <3>2
      <4>2. Replaced(X, n - 1, u, PartOf(b.to, 0, m - 1)) = on
        BY <2>9, <3>3
      <4> QED
        BY <2>9, <4>1, <4>2
    <3>5. u .. n - 1 \subseteq 0 .. n - 1
      BY <1>1
    <3> QED
      BY <1>1, <1>2, <3>4, <3>5
  <2>12. Whole(high) /\ high.num = n /\ high.on = on
    <3> HIDE DEF on
    <3>1. on \in SUBSET Int
      BY <2>11
    <3> QED
      BY <1>1, <2>11, <3>1, WithBitsWhole, WithBitsFields
  <2> HIDE DEF high
  <2>13. Z \in Shapes /\ Z.num = n /\ Z.on = on /\ Z.msb = u - 1 /\ Z.lsb = 0
         /\ \A s : WithBits(Z, s) = WithBits(high, s)
    <3> HIDE DEF on
    <3> QED
      BY <2>2, <2>12, PartIs
  <2> HIDE DEF Z
  <2>14. AssignNumber(Z, 0) = WithBits(high, on \ (0 .. u - 1))
    <3>1. u - 1 \in Nat /\ 0 \in Nat /\ 0 <= u - 1 /\ u - 1 < 2 * WordSize
      BY <1>1, WordSizes
    <3>2. WordOf(0) = WordOf(u - 1)
      <4>1. 0 % WordSize = 0
        BY WordSizes, QuotientRemainder
      <4> QED
        BY <4>1 DEF Cut
    <3> HIDE DEF on, n
    <3>3. AssignNumber(Z, 0) = WithBits(Z, on \ (0 .. u - 1))
      BY <1>1, <2>13, <3>1, <3>2, ZeroAssigned DEF OneWord
    <3> QED
      BY <2>13, <3>3
  <2>15. on \ (0 .. u - 1) = Up(x.on, u, n)
    <3>1. (x.on \ (u .. n - 1)) \ (0 .. u - 1) = {}
      BY <1>1
    <3>2. Up(x.on, u, n) \cap (0 .. u - 1) = {}
      BY <1>1, <1>2
    <3> QED
      BY <3>1, <3>2
  <2>16. \A s : WithBits(high, s) = WithBits(x, s)
    BY <2>12 DEF WithBits
  <2> QED
    BY <2>1, <2>14, <2>15, <2>16
<1> QED
  BY <1>3, <1>4

-----------------------------------------------------------------------------
(* The invariant.                                                          *)

LEMMA AllChanged ==
  ASSUME NEW x, Whole(x)
  PROVE  /\ Whole(BitSetAll(x)) /\ Whole(BitClearAll(x))
         /\ x.num % WordSize # 0 => BitSetAll(x).on = 0 .. x.num - 1 /\ BitClearAll(x).on = {}
<1> DEFINE last == InLastWord(x)
           set == {i \in 0 .. x.num - 1 : i \notin last}
                    \cup (IF x.num % WordSize = 0 THEN x.on \cap last ELSE last \cap (0 .. x.num - 1))
           clear == IF x.num % WordSize = 0 THEN x.on \cap last ELSE {}
<1>1. x \in Shapes /\ x.num \in 0 .. 2 * WordSize /\ x.on \in SUBSET (0 .. x.num - 1) /\ x.num \in Int
  BY WordSizes DEF Whole
<1>2. BitSetAll(x) = Changed(x, set) /\ BitClearAll(x) = Changed(x, clear)
  BY DEF BitSetAll, BitClearAll, Changed
<1>3. x.num % WordSize # 0 => set = 0 .. x.num - 1 /\ clear = {}
  OBVIOUS
<1>4. set \in SUBSET (0 .. x.num - 1) /\ clear \in SUBSET (0 .. x.num - 1)
  <2> HIDE DEF last
  <2> QED
    BY <1>1
<1> HIDE DEF set, clear
<1>5. /\ Changed(x, set) = WithBits(x, set) /\ Changed(x, clear) = WithBits(x, clear)
      /\ set \in SUBSET Int /\ clear \in SUBSET Int
  <2>1. set \in SUBSET Int /\ clear \in SUBSET Int
    BY <1>1, <1>4
  <2> QED
    BY <2>1, ChangedWhole
<1> QED
  BY <1>1, <1>2, <1>3, <1>4, <1>5, WithBitsWhole, ZenonT(60)

LEMMA OneBitChanged ==
  ASSUME NEW x, Whole(x), NEW i \in 0 .. x.num - 1
  PROVE  Whole(SetBit(x, i)) /\ Whole(ClearBit(x, i))
<1>1. x \in Shapes /\ x.num \in 0 .. 2 * WordSize /\ x.on \in SUBSET (0 .. x.num - 1) /\ x.num \in Int
  BY WordSizes DEF Whole
<1> DEFINE set == x.on \cup {i}  clear == x.on \ {i}
<1>2. SetBit(x, i) = Changed(x, set) /\ ClearBit(x, i) = Changed(x, clear)
  BY DEF SetBit, ClearBit, Changed
<1>3. /\ set \in SUBSET (0 .. x.num - 1) /\ clear \in SUBSET (0 .. x.num - 1)
      /\ set \in SUBSET Int /\ clear \in SUBSET Int
  BY <1>1
<1> HIDE DEF set, clear
<1>4. Changed(x, set) = WithBits(x, set) /\ Changed(x, clear) = WithBits(x, clear)
  BY <1>3, ChangedWhole
<1> QED
  BY <1>1, <1>2, <1>3, <1>4, WithBitsWhole

LEMMA ShiftWhole ==
  ASSUME NEW x, Whole(x), NEW u \in 1 .. x.num
  PROVE  /\ ~ Cut(x.num - u, x.num - 1) => Whole(ShiftRight(x, u))
         /\ ~ Cut(0, u - 1) => Whole(ShiftLeft(x, u))
<1>1. x \in Shapes /\ x.num \in 0 .. 2 * WordSize /\ x.on \in SUBSET (0 .. x.num - 1) /\ x.num \in Nat
  BY WordSizes DEF Whole
<1>2. Down(x.on, u) \in SUBSET (0 .. x.num - u - 1) /\ Up(x.on, u, x.num) \in SUBSET (u .. x.num - 1)
  BY <1>1, MovedTyped
<1>3. 0 .. x.num - u - 1 \subseteq 0 .. x.num - 1 /\ u .. x.num - 1 \subseteq 0 .. x.num - 1
  BY <1>1
<1>4. Down(x.on, u) \in SUBSET (0 .. x.num - 1) /\ Up(x.on, u, x.num) \in SUBSET (0 .. x.num - 1)
  BY <1>2, <1>3
<1> QED
  BY <1>1, <1>4, ShiftedRight, ShiftedLeft, WithBitsWhole

LEMMA SetWhole ==
  ASSUME BitsInv, NEW v \in Vectors, NEW x, Whole(x), Set(v, x)
  PROVE  BitsInv'
<1>1. x \in Shapes
  BY DEF Whole
<1>2. bits' = [bits EXCEPT ![v] = x] /\ bits \in [Vectors -> Shapes] /\ freed' = {}
  BY DEF Set, BitsInv
<1>3. bits' \in [Vectors -> Shapes]
  BY <1>1, <1>2
<1>4. ASSUME NEW w \in Vectors PROVE Whole(bits'[w])
  <2>1. CASE w = v
    BY <1>2, <2>1
  <2>2. CASE w # v
    BY <1>2, <2>2 DEF BitsInv
  <2> QED
    BY <2>1, <2>2
<1>5. ASSUME NEW w \in Vectors PROVE Whole(bits[w])'
  BY <1>4 DEF Whole
<1> QED
  BY <1>2, <1>3, <1>5 DEF BitsInv

LEMMA BitsInit == Init => BitsInv
<1> SUFFICES ASSUME Init PROVE BitsInv
  OBVIOUS
<1>1. bits = [v \in Vectors |-> Sized(Width[v])] /\ freed = {}
  BY DEF Init
<1>2. ASSUME NEW v \in Vectors PROVE Whole(bits[v]) /\ bits[v] \in Shapes
  <2>1. Width[v] \in 0 .. 2 * WordSize /\ Width[v] \in Int
    BY WordSizes
  <2>2. Whole(Sized(Width[v])) /\ Sized(Width[v]) \in Shapes
    BY <2>1, SizedShape
  <2> QED
    BY <1>1, <2>2
<1> QED
  BY <1>1, <1>2 DEF BitsInv

LEMMA BitsStep ==
  ASSUME Careful, BitsInv, [Next]_vars
  PROVE  BitsInv'
<1>1. CASE UNCHANGED vars
  BY <1>1 DEF BitsInv, Whole, vars
<1>2. CASE Next
  <2>1. PICK v \in Vectors :
          \/ \E w \in Vectors, p \in PartsOf(v) : \E q \in PartsOf(w) : AssignPart(v, p, w, q) \/ Compare(v, p, w, q)
          \/ \E p \in PartsOf(v), n \in Numbers : AssignPartNumber(v, p, n)
          \/ \E p \in PartsOf(v) : Read(v, p) \/ Peek(v, p)
          \/ \E w \in Vectors, z \in Vectors : Combine(v, w, z)
          \/ \E u \in 0 .. bits[v].num : Shift(v, u)
          \/ \E i \in 0 .. bits[v].num - 1 : ChangeBit(v, i)
          \/ ChangeAll(v)
    BY <1>2 DEF Next
  <2>2. Whole(bits[v])
    BY DEF BitsInv
  <2>3. ASSUME NEW w \in Vectors, NEW p \in PartsOf(v), NEW q \in PartsOf(w), AssignPart(v, p, w, q)
        PROVE  BitsInv'
    <3> DEFINE r == Assign(Taking(v, p), Taking(w, q))
    <3>1. MayAssign(v, p, w, q) /\ bits' = [bits EXCEPT ![v] = r.to, ![w] = r.from] /\ v # w
          /\ freed' = IF Empties(v, w) THEN freed \cup {v} ELSE freed
      BY <2>3 DEF AssignPart, MayAssign
    <3>2. r.from = bits[w] /\ Whole(r.to)
      BY <3>1, PartAssigned
    <3>3. bits' = [bits EXCEPT ![v] = r.to]
      <4>1. bits \in [Vectors -> Shapes]
        BY DEF BitsInv
      <4> HIDE DEF r
      <4> QED
        BY <3>1, <3>2, <4>1
    <3>4. UNCHANGED freed
      BY <3>1 DEF MayAssign, Careful, Avoids
    <3> QED
      BY <3>2, <3>3, <3>4, SetWhole DEF Set
  <2>10. ASSUME NEW w \in Vectors, NEW p \in PartsOf(v), NEW q \in PartsOf(w), Compare(v, p, w, q)
         PROVE  BitsInv'
    <3> DEFINE c == Compared(Taking(v, p), Taking(w, q))
    <3>1. /\ bits' = [bits EXCEPT ![v] = c[1], ![w] = c[2]] /\ UNCHANGED freed
          /\ (IsEmptyBit(bits[v]) \/ IsEmptyBit(bits[w])) => p = << >> /\ q = << >>
      BY <2>10 DEF Compare, Careful, Avoids
    <3>2. c = <<bits[v], bits[w]>>
      BY <3>1, ComparedIs
    <3>3. bits' = bits
      <4>1. bits \in [Vectors -> Shapes]
        BY DEF BitsInv
      <4> HIDE DEF c
      <4> QED
        BY <3>1, <3>2, <4>1
    <3> QED
      BY <1>1, <3>1, <3>3 DEF vars
  <2>4. ASSUME NEW p \in PartsOf(v), NEW n \in Numbers, AssignPartNumber(v, p, n)
        PROVE  BitsInv'
    <3>1. MayAssignNumber(v, p, n) /\ Set(v, AssignNumber(Taking(v, p), n))
      BY <2>4 DEF AssignPartNumber
    <3>2. Whole(AssignNumber(Taking(v, p), n))
      BY <3>1, NumberAssigned
    <3> QED
      BY <3>1, <3>2, SetWhole
  <2>5. ASSUME NEW p \in PartsOf(v), Read(v, p)
        PROVE  BitsInv'
    <3>1. Set(v, ResetBitRange(Taking(v, p)))
      BY <2>5 DEF Read
    <3>2. Whole(ResetBitRange(Taking(v, p)))
      BY <2>2, ReadClears
    <3> QED
      BY <3>1, <3>2, SetWhole
  <2>11. ASSUME NEW p \in PartsOf(v), Peek(v, p)
         PROVE  BitsInv'
    <3>1. p = << >> /\ Set(v, Taking(v, p))
      BY <2>11 DEF Peek, Careful, Avoids
    <3> QED
      BY <2>2, <3>1, TakingAll, SetWhole
  <2>6. ASSUME NEW w \in Vectors, NEW z \in Vectors, Combine(v, w, z)
        PROVE  BitsInv'
    <3>1. /\ MayCombine(w, z) /\ bits[v].num \in {0, bits[w].num}
          /\ \E x \in {And(bits[w], bits[z]), Or(bits[w], bits[z]), Not(bits[w])}
                       \cup (IF "xor" \in Uses THEN {Xor(bits[w], bits[z])} ELSE {}) :
               Set(v, AssignResult(bits[v], x))
      BY <2>6 DEF Combine
    <3>2. PICK x : /\ x \in {And(bits[w], bits[z]), Or(bits[w], bits[z]), Not(bits[w]), Xor(bits[w], bits[z])}
                   /\ Set(v, AssignResult(bits[v], x))
      BY <3>1
    <3>3. Whole(bits[w]) /\ Whole(bits[z])
      BY DEF BitsInv
    <3>4. bits[w].num # 0 /\ bits[w].num <= WordSizeLog
      <4>1. bits[w].num \in Int
        BY <3>3, WordSizes DEF Whole
      <4> QED
        BY <3>1, <4>1, WordSizes DEF MayCombine, IsEmptyBit, Careful, Avoids
    <3>5. Whole(x) /\ x.num = bits[w].num
      BY <3>2, <3>3, <3>4, CombinedWhole DEF And, Or, Not, Xor
    <3>6. AssignResult(bits[v], x) = x
      BY <2>2, <3>1, <3>4, <3>5, WholeAssigned
    <3> QED
      BY <3>2, <3>5, <3>6, SetWhole
  <2>7. ASSUME NEW u \in 0 .. bits[v].num, Shift(v, u)
        PROVE  BitsInv'
    <3>1. u # 0
      BY <2>7 DEF Shift, MayShiftRight, MayShiftLeft, MayShift, Careful, Avoids
    <3>2. u \in 1 .. bits[v].num
      BY <2>2, <3>1, WordSizes DEF Whole
    <3>3. CASE MayShiftRight(v, u) /\ Set(v, ShiftRight(bits[v], u))
      <4>1. ~ Cut(bits[v].num - u, bits[v].num - 1)
        BY <3>3 DEF MayShiftRight, MayShift, Careful, Avoids
      <4> QED
        BY <2>2, <3>2, <3>3, <4>1, ShiftWhole, SetWhole
    <3>4. CASE MayShiftLeft(v, u) /\ Set(v, ShiftLeft(bits[v], u))
      <4>1. ~ Cut(0, u - 1)
        BY <3>4 DEF MayShiftLeft, MayShift, Careful, Avoids
      <4> QED
        BY <2>2, <3>2, <3>4, <4>1, ShiftWhole, SetWhole
    <3> QED
      BY <2>7, <3>3, <3>4 DEF Shift
  <2>8. ASSUME NEW i \in 0 .. bits[v].num - 1, ChangeBit(v, i)
        PROVE  BitsInv'
    <3>1. Whole(SetBit(bits[v], i)) /\ Whole(ClearBit(bits[v], i))
      BY <2>2, OneBitChanged
    <3>2. Set(v, SetBit(bits[v], i)) \/ Set(v, ClearBit(bits[v], i))
      BY <2>8 DEF ChangeBit
    <3> QED
      BY <3>1, <3>2, SetWhole
  <2>9. ASSUME ChangeAll(v)
        PROVE  BitsInv'
    <3>1. Whole(BitSetAll(bits[v])) /\ Whole(BitClearAll(bits[v]))
      BY <2>2, AllChanged
    <3>2. Set(v, BitSetAll(bits[v])) \/ Set(v, BitClearAll(bits[v]))
      BY <2>9 DEF ChangeAll
    <3> QED
      BY <3>1, <3>2, SetWhole
  <2> QED
    BY <2>1, <2>3, <2>4, <2>5, <2>6, <2>7, <2>8, <2>9, <2>10, <2>11
<1> QED
  BY <1>1, <1>2

LEMMA BitsInvariant ==
  ASSUME Careful
  PROVE  Spec => []BitsInv
<1>1. Init => BitsInv
  BY BitsInit
<1>2. BitsInv /\ [Next]_vars => BitsInv'
  BY BitsStep
<1> QED
  BY <1>1, <1>2, PTL DEF Spec

LEMMA InvWellFormed == BitsInv => WellFormed
<1> SUFFICES ASSUME BitsInv, NEW v \in Vectors
             PROVE  /\ bits[v].num \in Nat /\ bits[v].on \subseteq 0 .. bits[v].num - 1
                    /\ bits[v].subscripts \in 0 .. 4 /\ bits[v] = ResetBitRange(bits[v])
  BY DEF WellFormed, BitsTypeOK, SubscriptsCleared, WordsAreHeld, BitsInv
<1>1. Whole(bits[v])
  BY DEF BitsInv
<1>2. ResetBitRange(bits[v]) = bits[v]
  BY <1>1, WholeIs
<1> QED
  BY <1>1, <1>2, WordSizes DEF Whole

LEMMA InvAssigns ==
  ASSUME Careful, BitsInv
  PROVE  AssignsThePart
<1> SUFFICES ASSUME NEW v \in Vectors, NEW p \in PartsOf(v)
             PROVE  /\ \A w \in Vectors \ {v} : \A q \in PartsOf(w) :
                         MayAssign(v, p, w, q) =>
                           LET r == Assign(Taking(v, p), Taking(w, q))
                           IN r.from.on = bits[w].on /\ r.to.on = With(v, p, Meant(w, q))
                    /\ \A n \in Numbers :
                         MayAssignNumber(v, p, n) => AssignNumber(Taking(v, p), n).on = With(v, p, Places(n))
  BY DEF AssignsThePart
<1>1. ASSUME NEW w \in Vectors, NEW q \in PartsOf(w), MayAssign(v, p, w, q)
      PROVE  LET r == Assign(Taking(v, p), Taking(w, q))
             IN r.from.on = bits[w].on /\ r.to.on = With(v, p, Meant(w, q))
  BY <1>1, PartAssigned
<1>2. ASSUME NEW n \in Numbers, MayAssignNumber(v, p, n)
      PROVE  AssignNumber(Taking(v, p), n).on = With(v, p, Places(n))
  BY <1>2, NumberAssigned
<1> QED
  BY <1>1, <1>2

\* Theorem (Bit::ResetBitRange, which operators call on most of their ways out): for programs
\* that are Careful, between two statements no vector has subscripts set, which the next
\* would use, a 1 outside its width, which comparisons of whole words would see, or words that
\* were deleted.  Where the code returns without ResetBitRange, in comparisons of a part with
\* an empty vector, in ! and in the copy constructor, it does not hold ("kept"), nor when an
\* empty vector is assigned to one that has words ("emptied").
THEOREM VectorsAreInOrder ==
  ASSUME Careful
  PROVE  Spec => []WellFormed
BY BitsInvariant, InvWellFormed, PTL

\* Theorem (operator= of Bit.cc): for programs that are Careful, an assignment of a part of one
\* vector to a part of another, or of a number to a part, writes the value, padded with zeros,
\* and nothing beside it, and leaves the bits of its source as they were.  Left out are numbers
\* to parts in two words ("straddling"), parts that begin at bit 0 of a wider vector, to one of
\* their layout ("low"), and empty vectors to those that have words ("emptied").
THEOREM AssignmentsAreOfParts ==
  ASSUME Careful
  PROVE  Spec => []AssignsThePart
<1>1. BitsInv => AssignsThePart
  BY InvAssigns
<1> QED
  BY <1>1, BitsInvariant, PTL

-----------------------------------------------------------------------------
(* Values.                                                                 *)

LEMMA NumberIs ==
  ASSUME NEW n \in 0 .. 2 * WordSize, NEW places \in SUBSET (0 .. n - 1)
  PROVE  Number(places) = BinaryValue(places)
<1>1. places \in SUBSET (0 .. LastPlace)
  BY WordSizes DEF LastPlace
<1> QED
  BY <1>1 DEF Number, NumberOf, BinaryValue

LEMMA WholeMeant ==
  ASSUME BitsInv, NEW v \in Vectors
  PROVE  /\ Meant(v, << >>) = bits[v].on
         /\ ValueOf(v, << >>) = BinaryValue(bits[v].on) /\ ValueOf(v, << >>) \in Nat
<1> DEFINE x == bits[v]
<1>1. x.num \in 0 .. 2 * WordSize /\ x.on \in SUBSET (0 .. x.num - 1) /\ x.num \in Nat
  BY WordSizes DEF BitsInv, Whole
<1>2. Low(x, << >>) = 0 /\ High(x, << >>) = x.num - 1
  BY DEF Low, High
<1>3. x.on \cap (0 .. x.num - 1) = x.on /\ \A i \in x.on : i - 0 = i
  BY <1>1
<1>4. Meant(v, << >>) = x.on
  BY <1>2, <1>3 DEF Meant, PartOf
<1>5. Number(x.on) = BinaryValue(x.on) /\ BinaryValue(x.on) \in 0 .. 2 ^ x.num - 1
  BY <1>1, NumberIs, BinaryBound
<1> QED
  BY <1>4, <1>5 DEF ValueOf

LEMMA ShiftValues ==
  ASSUME NEW n \in 0 .. 2 * WordSize, NEW u \in 1 .. n, NEW on \in SUBSET (0 .. n - 1)
  PROVE  /\ Number(Down(on, u)) = BinaryValue(on) \div 2 ^ u
         /\ Number(Up(on, u, n)) = (BinaryValue(on) * 2 ^ u) % 2 ^ n
<1>1. n \in Nat /\ u \in Nat /\ IsFiniteSet(on) /\ on \in SUBSET Nat
  <2>1. n \in Nat
    BY WordSizes
  <2>2. IsFiniteSet(on) /\ on \in SUBSET Nat
    BY <2>1, BinaryBound
  <2> QED
    BY <2>1, <2>2
<1>2. /\ Down(on, u) \in SUBSET (0 .. n - 1)
      /\ Up(on, u, n) \in SUBSET (0 .. n - 1)
  <2>1. Down(on, u) \in SUBSET (0 .. n - u - 1) /\ Up(on, u, n) \in SUBSET (u .. n - 1)
    BY <1>1, MovedTyped
  <2>2. 0 .. n - u - 1 \subseteq 0 .. n - 1 /\ u .. n - 1 \subseteq 0 .. n - 1
    BY <1>1
  <2> QED
    BY <2>1, <2>2
<1>3. Number(Down(on, u)) = BinaryValue(Down(on, u)) /\ Number(Up(on, u, n)) = BinaryValue(Up(on, u, n))
  BY <1>2, NumberIs
<1>4. BinaryValue(Down(on, u)) = BinaryValue(on) \div 2 ^ u
  BY <1>1, BinaryQuotient DEF Down
<1> DEFINE moved == {i + u : i \in on}
<1>5. BinaryValue(moved) = 2 ^ u * BinaryValue(on)
  BY <1>1, BinaryShift
<1>6. BinaryValue(moved) % 2 ^ n = BinaryValue({i \in moved : i < n})
  <2>1. moved \in SUBSET (0 .. (n + u) - 1) /\ n + u \in Nat
    BY <1>1
  <2> HIDE DEF moved
  <2> QED
    BY <1>1, <2>1, BinaryQuotient
<1>7. {i \in moved : i < n} = Up(on, u, n)
  <2>1. ASSUME NEW j \in on PROVE j + u < n <=> j < n - u
    BY <1>1
  <2> QED
    BY <2>1 DEF Up
<1>8. 2 ^ u * BinaryValue(on) = BinaryValue(on) * 2 ^ u
  <2>1. 2 ^ u \in Int /\ BinaryValue(on) \in Int
    BY <1>1, PowerPositive, BinaryBound, BinaryRemove
  <2> QED
    BY <2>1
<1> QED
  BY <1>3, <1>4, <1>5, <1>6, <1>7, <1>8

LEMMA InvShifts ==
  ASSUME CarefulWithAll, BitsInv
  PROVE  ShiftsAndCombines
<1> SUFFICES ASSUME NEW v \in Vectors
             PROVE  /\ Avoids("filled", bits[v].num % WordSize = 0) =>
                         BitSetAll(bits[v]).on = 0 .. bits[v].num - 1 /\ BitClearAll(bits[v]).on = {}
                    /\ \A u \in 0 .. bits[v].num :
                         /\ MayShiftRight(v, u) => Number(ShiftRight(bits[v], u).on) = ValueOf(v, << >>) \div 2 ^ u
                         /\ MayShiftLeft(v, u) =>
                              Number(ShiftLeft(bits[v], u).on) = (ValueOf(v, << >>) * 2 ^ u) % 2 ^ bits[v].num
                    /\ \A w \in Vectors :
                         MayCombine(v, w) =>
                           /\ And(bits[v], bits[w]).on = bits[v].on \cap bits[w].on
                           /\ Or(bits[v], bits[w]).on = bits[v].on \cup bits[w].on
                           /\ "xor" \in Uses => Xor(bits[v], bits[w]).on = (bits[v].on \cup bits[w].on) \ (bits[v].on \cap bits[w].on)
                           /\ Not(bits[v]).on = (0 .. bits[v].num - 1) \ bits[v].on
  BY DEF ShiftsAndCombines
<1> DEFINE x == bits[v]
<1>1. /\ Whole(x) /\ x \in Shapes /\ x.num \in 0 .. 2 * WordSize /\ x.num \in Nat
      /\ x.on \in SUBSET (0 .. x.num - 1)
  BY WordSizes DEF BitsInv, Whole
<1>2. ASSUME Avoids("filled", x.num % WordSize = 0)
      PROVE  BitSetAll(x).on = 0 .. x.num - 1 /\ BitClearAll(x).on = {}
  <2>1. x.num % WordSize # 0
    BY <1>2 DEF CarefulWithAll, Avoids
  <2> QED
    BY <1>1, <2>1, AllChanged
<1>3. ASSUME NEW u \in 0 .. x.num, MayShiftRight(v, u) \/ MayShiftLeft(v, u)
      PROVE  /\ MayShiftRight(v, u) => Number(ShiftRight(x, u).on) = ValueOf(v, << >>) \div 2 ^ u
             /\ MayShiftLeft(v, u) => Number(ShiftLeft(x, u).on) = (ValueOf(v, << >>) * 2 ^ u) % 2 ^ x.num
  <2>1. u \in 1 .. x.num
    <3>1. u # 0
      BY <1>3 DEF MayShiftRight, MayShiftLeft, MayShift, CarefulWithAll, Careful, Avoids
    <3> QED
      BY <1>1, <3>1
  <2>2. /\ MayShiftRight(v, u) => ShiftRight(x, u).on = Down(x.on, u)
        /\ MayShiftLeft(v, u) => ShiftLeft(x, u).on = Up(x.on, u, x.num)
    <3>1. Down(x.on, u) \in SUBSET Int /\ Up(x.on, u, x.num) \in SUBSET Int
      BY <1>1, <2>1, MovedTyped
    <3>2. /\ MayShiftRight(v, u) => ~ Cut(x.num - u, x.num - 1)
          /\ MayShiftLeft(v, u) => ~ Cut(0, u - 1)
      BY DEF MayShiftRight, MayShiftLeft, MayShift, CarefulWithAll, Careful, Avoids
    <3> QED
      BY <1>1, <2>1, <3>1, <3>2, ShiftedRight, ShiftedLeft, WithBitsFields
  <2> QED
    BY <1>1, <2>1, <2>2, WholeMeant, ShiftValues
<1>4. ASSUME NEW w \in Vectors, MayCombine(v, w)
      PROVE  /\ And(x, bits[w]).on = x.on \cap bits[w].on
             /\ Or(x, bits[w]).on = x.on \cup bits[w].on
             /\ "xor" \in Uses => Xor(x, bits[w]).on = (x.on \cup bits[w].on) \ (x.on \cap bits[w].on)
             /\ Not(x).on = (0 .. x.num - 1) \ x.on
  <2> DEFINE y == bits[w]
  <2>1. Whole(y) /\ y.on \in SUBSET (0 .. y.num - 1)
    BY DEF BitsInv, Whole
  <2>2. x.num # 0 /\ x.num = y.num /\ x.num <= WordSizeLog
    BY <1>1, <1>4, WordSizes DEF MayCombine, IsEmptyBit, CarefulWithAll, Careful, Avoids
  <2>3. "xor" \notin Uses
    BY DEF CarefulWithAll
  <2>4. /\ x.on \cap y.on \in SUBSET Int /\ x.on \cup y.on \in SUBSET Int
        /\ (0 .. x.num - 1) \ x.on \in SUBSET Int
    BY <1>1, <2>1
  <2>5. /\ And(x, y) = WithBits(x, x.on \cap y.on)
        /\ Or(x, y) = WithBits(x, x.on \cup y.on)
        /\ Not(x) = WithBits(x, (0 .. x.num - 1) \ x.on)
    BY <1>1, <2>1, <2>2, CombinesBits
  <2> HIDE DEF x, y
  <2>6. /\ And(x, y).on = x.on \cap y.on /\ Or(x, y).on = x.on \cup y.on
        /\ Not(x).on = (0 .. x.num - 1) \ x.on
    BY <1>1, <2>4, <2>5, WithBitsFields
  <2> QED
    BY <2>3, <2>6 DEF x, y
<1> QED
  BY <1>2, <1>3, <1>4

\* Theorem (operator>>, <<, &, |, ~, BitSetAll and BitClearAll of Bit.cc): a shift divides, or
\* multiplies modulo what the width holds; the others are bit by bit.  Not so for ^.
THEOREM ShiftsAreArithmetic ==
  ASSUME CarefulWithAll
  PROVE  Spec => []ShiftsAndCombines
<1>1. Careful
  BY DEF CarefulWithAll
<1>2. BitsInv => ShiftsAndCombines
  BY InvShifts
<1> QED
  BY <1>1, <1>2, BitsInvariant, PTL

-----------------------------------------------------------------------------
(* Comparisons.                                                            *)

\* What a statement takes of a vector that has a size.
LEMMA TakenIs ==
  ASSUME BitsInv, NEW v \in Vectors, NEW p \in PartsOf(v), bits[v].num # 0
  PROVE  LET X == Taking(v, p)
             h == High(bits[v], p)
             l == Low(bits[v], p)
         IN /\ X.num = bits[v].num /\ X.on = bits[v].on /\ X.msb = h /\ X.lsb = l
            /\ h \in Nat /\ l \in Nat /\ l <= h /\ h < bits[v].num
            /\ bits[v].num \in Nat /\ bits[v].num <= 2 * WordSize
            /\ bits[v].on \in SUBSET (0 .. bits[v].num - 1)
            /\ Taken(X) = Meant(v, p) /\ Meant(v, p) \in SUBSET (0 .. h - l)
            /\ Meant(v, p) \in SUBSET (0 .. 2 * WordSize - 1)
            /\ ValueOf(v, p) = BinaryValue(Meant(v, p))
<1> DEFINE x == bits[v]  h == High(x, p)  l == Low(x, p)
           X == Taking(v, p)
<1>1. Whole(x) /\ p \in ProperParts(x)
  BY DEF BitsInv, PartsOf
<1>2. X = PartAt(x, h, l, Len(p))
  BY <1>1, TakenPart DEF Taking
<1>3. h \in Int /\ l \in Int /\ Len(p) \in Int /\ 0 <= l /\ l <= h /\ h < x.num
  BY <1>1, TakenPart
<1>4. /\ x \in Shapes /\ x.num \in 0 .. 2 * WordSize /\ x.num \in Nat /\ x.on \in SUBSET (0 .. x.num - 1)
      /\ x.num <= 2 * WordSize /\ x.on \in SUBSET Int
  BY <1>1, WordSizes DEF Whole, Shapes
<1>5. X \in Shapes /\ X.num = x.num /\ X.on = x.on /\ X.msb = h /\ X.lsb = l
  <2> HIDE DEF x, h, l, X
  <2> QED
    BY <1>2, <1>3, <1>4, VecFields DEF PartAt
<1>6. Meant(v, p) = PartOf(x, l, h) /\ Taken(X) = PartOf(x, l, h)
  <2>1. Taken(X) = PartOf(X, l, h)
    BY <1>5 DEF Taken
  <2> QED
    BY <1>5, <2>1 DEF Meant, PartOf
<1>7. PartOf(x, l, h) \in SUBSET (0 .. h - l)
  BY <1>3, <1>4, PartOfTyped
<1>8. h - l < 2 * WordSize /\ 0 .. h - l \subseteq 0 .. 2 * WordSize - 1
  BY <1>3, <1>4, WordSizes
<1>9. Number(PartOf(x, l, h)) = BinaryValue(PartOf(x, l, h))
  <2>1. PartOf(x, l, h) \in SUBSET (0 .. 2 * WordSize - 1) /\ 2 * WordSize \in 0 .. 2 * WordSize
    BY <1>7, <1>8, WordSizes
  <2> QED
    BY <2>1, NumberIs
<1> QED
  BY <1>3, <1>4, <1>5, <1>6, <1>7, <1>8, <1>9 DEF ValueOf

\* The places of a word.
InWord(on, k) == {i - k * WordSize : i \in {j \in on : WordOf(j) = k}}

LEMMA WordPlaces ==
  ASSUME NEW on \in SUBSET Nat, NEW k \in Nat
  PROVE  /\ InWord(on, k) \in SUBSET (0 .. WordSize - 1)
         /\ Number(InWord(on, k)) = BinaryValue(InWord(on, k))
<1>1. ASSUME NEW i \in Nat, WordOf(i) = k
      PROVE  i - k * WordSize \in 0 .. WordSize - 1
  <2>1. i \div WordSize = k
    BY <1>1 DEF WordOf
  <2>2. WordSize \in Nat \ {0}
    BY WordSizes
  <2>3. i % WordSize \in 0 .. WordSize - 1 /\ i = WordSize * k + (i % WordSize)
    BY <2>1, <2>2, QuotientRemainder
  <2>4. WordSize * k = k * WordSize /\ WordSize * k \in Nat
    BY <2>2
  <2> QED
    BY <2>3, <2>4
<1>2. InWord(on, k) \in SUBSET (0 .. WordSize - 1)
  BY <1>1 DEF InWord
<1>3. WordSize \in 0 .. 2 * WordSize
  BY WordSizes
<1> QED
  BY <1>2, <1>3, NumberIs

\* Vectors are equal when their words are.
LEMMA WordsDecide ==
  ASSUME NEW n \in Nat \ {0}, NEW P \in SUBSET (0 .. n - 1), NEW Q \in SUBSET (0 .. n - 1),
         \A k \in 0 .. WordOf(n - 1) : Number(InWord(P, k)) = Number(InWord(Q, k))
  PROVE  P = Q
<1>1. ASSUME NEW i \in 0 .. n - 1
      PROVE  i \in P <=> i \in Q
  <2> DEFINE k == WordOf(i)
  <2>1. i \in Nat /\ n - 1 \in Nat /\ i <= n - 1
    OBVIOUS
  <2>2. k \in Nat /\ k \in 0 .. WordOf(n - 1)
    BY <2>1, WordOfGrows
  <2>3. P \in SUBSET Nat /\ Q \in SUBSET Nat
    OBVIOUS
  <2>4. InWord(P, k) = InWord(Q, k)
    <3> HIDE DEF k
    <3>1. BinaryValue(InWord(P, k)) = BinaryValue(InWord(Q, k))
      BY <2>2, <2>3, WordPlaces
    <3>2. InWord(P, k) \in SUBSET (0 .. WordSize - 1) /\ InWord(Q, k) \in SUBSET (0 .. WordSize - 1)
      BY <2>2, <2>3, WordPlaces
    <3> QED
      BY <3>1, <3>2, WordSizes, BinaryInjective
  <2>5. k * WordSize \in Nat
    BY <2>2, WordSizes
  <2>6. ASSUME NEW S \in SUBSET (0 .. n - 1)
        PROVE  i \in S <=> i - k * WordSize \in InWord(S, k)
    <3>1. i \in S => i - k * WordSize \in InWord(S, k)
      BY DEF InWord
    <3>2. ASSUME i - k * WordSize \in InWord(S, k) PROVE i \in S
      <4>1. PICK j \in S : i - k * WordSize = j - k * WordSize
        BY <3>2 DEF InWord
      <4>2. j \in Int /\ k * WordSize \in Int
        BY <2>5
      <4> HIDE DEF k
      <4>3. i = j
        BY <2>1, <4>1, <4>2
      <4> QED
        BY <4>3
    <3> QED
      BY <3>1, <3>2
  <2> QED
    BY <2>4, <2>6
<1> QED
  BY <1>1

LEMMA EqualsIsOfValues ==
  ASSUME Careful, BitsInv, NEW v \in Vectors, NEW w \in Vectors, bits[v].num # 0, bits[w].num # 0,
         NEW p \in PartsOf(v), NEW q \in PartsOf(w), Avoids("low", LowOfWider(v, p, w, q))
  PROVE  Equals(Taking(v, p), Taking(w, q)) <=> ValueOf(v, p) = ValueOf(w, q)
<1> DEFINE x == bits[v]  h == High(x, p)  l == Low(x, p)
           y == bits[w]  j == High(y, q)  k == Low(y, q)
           X == Taking(v, p)
           Y == Taking(w, q)
           P == Meant(v, p)
           Q == Meant(w, q)
<1>1. /\ X.num = x.num /\ X.on = x.on /\ X.msb = h /\ X.lsb = l
      /\ h \in Nat /\ l \in Nat /\ l <= h /\ h < x.num /\ x.num \in Nat /\ x.on \in SUBSET (0 .. x.num - 1)
      /\ Taken(X) = P /\ P \in SUBSET (0 .. 2 * WordSize - 1) /\ ValueOf(v, p) = BinaryValue(P)
  BY TakenIs
<1>2. /\ Y.num = y.num /\ Y.on = y.on /\ Y.msb = j /\ Y.lsb = k
      /\ j \in Nat /\ k \in Nat /\ k <= j /\ j < y.num /\ y.num \in Nat /\ y.on \in SUBSET (0 .. y.num - 1)
      /\ Taken(Y) = Q /\ Q \in SUBSET (0 .. 2 * WordSize - 1) /\ ValueOf(w, q) = BinaryValue(Q)
  BY TakenIs
<1>3. "low" \notin Uses
  BY DEF Careful
<1>4. ~ (l = 0 /\ k = 0 /\ h = j) \/ (h - l + 1 = x.num /\ j - k + 1 = y.num)
  BY <1>3 DEF Avoids, LowOfWider, IsAll, IsEmptyBit
<1>5. P = Q <=> BinaryValue(P) = BinaryValue(Q)
  <2> DEFINE n == 2 * WordSize
  <2>1. n \in Nat /\ P \in SUBSET (0 .. n - 1) /\ Q \in SUBSET (0 .. n - 1)
    BY <1>1, <1>2, WordSizes
  <2> HIDE DEF n, P, Q
  <2> QED
    BY <2>1, BinaryInjective
<1>8. ~ IsEmptyBit(X) /\ ~ IsEmptyBit(Y)
  BY <1>1, <1>2 DEF IsEmptyBit
<1>6. CASE ~ (SameLayout(X, Y) /\ X.lsb = 0)
  <2>1. Equals(X, Y) <=> Taken(X) = Taken(Y)
    BY <1>6, <1>8 DEF Equals
  <2> QED
    BY <1>1, <1>2, <1>5, <2>1
<1>7. CASE SameLayout(X, Y) /\ X.lsb = 0
  <2>1. l = 0 /\ k = 0 /\ h = j
    BY <1>1, <1>2, <1>7 DEF SameLayout
  <2>2. h = x.num - 1 /\ j = y.num - 1 /\ x.num = y.num
    <3> HIDE DEF x, y, h, l, j, k
    <3> QED
      BY <1>1, <1>2, <1>4, <2>1
  <2>3. Equals(X, Y) <=> \A m \in 0 .. WordOf(x.num - 1) : Number(InWord(x.on, m)) = Number(InWord(y.on, m))
    <3>1. \A m : Word(X, m) = Number(InWord(x.on, m)) /\ Word(Y, m) = Number(InWord(y.on, m))
      BY <1>1, <1>2 DEF Word, InWord
    <3>2. Equals(X, Y) <=> \A m \in 0 .. WordOf(X.msb) : Word(X, m) = Word(Y, m)
      BY <1>7, <1>8 DEF Equals
    <3> QED
      BY <1>1, <2>2, <3>1, <3>2
  <2>4. P = x.on /\ Q = y.on
    <3>1. /\ x.on \cap (0 .. h) = x.on /\ y.on \cap (0 .. j) = y.on
          /\ \A i \in x.on \cup y.on : i - 0 = i
      BY <1>1, <1>2, <2>2
    <3> QED
      BY <2>1, <3>1 DEF Meant, PartOf
  <2>5. (\A m \in 0 .. WordOf(x.num - 1) : Number(InWord(x.on, m)) = Number(InWord(y.on, m))) <=> x.on = y.on
    <3> HIDE DEF x, y, h, l, j, k
    <3>1. x.num \in Nat \ {0} /\ x.on \in SUBSET (0 .. x.num - 1) /\ y.on \in SUBSET (0 .. x.num - 1)
      BY <1>1, <1>2, <2>2
    <3> QED
      BY <3>1, WordsDecide
  <2> QED
    BY <1>1, <1>2, <1>5, <2>3, <2>4, <2>5
<1> QED
  BY <1>6, <1>7

LEMMA EmptyIsEqualToEmpty ==
  ASSUME BitsInv, NEW v \in Vectors, NEW w \in Vectors, bits[v].num = 0 \/ bits[w].num = 0,
         NEW p \in PartsOf(v), NEW q \in PartsOf(w)
  PROVE  Equals(Taking(v, p), Taking(w, q)) <=> /\ ValueOf(v, p) = ValueOf(w, q)
                                                /\ IsEmptyBit(bits[v]) <=> IsEmptyBit(bits[w])
<1>1. Taking(v, p).num = bits[v].num /\ Taking(w, q).num = bits[w].num
  BY TakingWidth
<1>2. Equals(Taking(v, p), Taking(w, q)) <=> IsEmptyBit(bits[v]) /\ IsEmptyBit(bits[w])
  BY <1>1 DEF Equals, IsEmptyBit
<1>3. ASSUME bits[v].num = 0, bits[w].num = 0 PROVE ValueOf(v, p) = ValueOf(w, q)
  <2>1. bits[v].on = {} /\ bits[w].on = {}
    BY <1>3, EmptyTaken
  <2>2. Meant(v, p) = {} /\ Meant(w, q) = {}
    BY <2>1 DEF Meant, PartOf
  <2> QED
    BY <2>2 DEF ValueOf
<1> QED
  BY <1>2, <1>3 DEF IsEmptyBit

\* In one word, a whole vector is its word.
LEMMA OneWordIs ==
  ASSUME NEW n \in Nat, n <= WordSize, NEW x, x.on \in SUBSET (0 .. n - 1)
  PROVE  Word(x, 0) = Number(x.on) /\ \A m \in Nat : m < WordSize => WordOf(m) = 0
<1>1. ASSUME NEW m \in Nat, m < WordSize PROVE WordOf(m) = 0
  BY <1>1, WordSizes, QuotientRemainder DEF WordOf
<1>2. {i \in x.on : WordOf(i) = 0} = x.on
  <2>1. ASSUME NEW i \in x.on PROVE i \in Nat /\ i < WordSize
    BY WordSizes
  <2> QED
    BY <1>1, <2>1
<1>3. \A i \in x.on : i - 0 * WordSize = i
  BY WordSizes
<1>4. {i - 0 * WordSize : i \in x.on} = x.on
  BY <1>3
<1> QED
  BY <1>1, <1>2, <1>4 DEF Word

LEMMA OrderIsOfValues ==
  ASSUME BitsInv, NEW v \in Vectors, NEW w \in Vectors, bits[v].num # 0,
         bits[v].num = bits[w].num, bits[v].num <= WordSize
  PROVE  /\ Greater(bits[v], bits[w]) <=> ValueOf(v, << >>) > ValueOf(w, << >>)
         /\ Less(bits[v], bits[w]) <=> ValueOf(v, << >>) < ValueOf(w, << >>)
<1> DEFINE x == bits[v]  y == bits[w]
<1>1. /\ x.lsb = 0 /\ x.msb = x.num - 1 /\ y.lsb = 0 /\ y.msb = y.num - 1 /\ x.num \in Nat
      /\ x.on \in SUBSET (0 .. x.num - 1) /\ y.on \in SUBSET (0 .. x.num - 1)
      /\ x.num \in 0 .. 2 * WordSize
  BY WordSizes DEF BitsInv, Whole
<1>2. SameLayout(x, y)
  BY <1>1 DEF SameLayout
<1>3. WordOf(x.msb) = 0 /\ Word(x, 0) = Number(x.on) /\ Word(y, 0) = Number(y.on)
  <2>1. x.num - 1 \in Nat /\ x.num - 1 < WordSize
    BY <1>1, WordSizes
  <2> QED
    BY <1>1, <2>1, OneWordIs
<1>4. \A m \in 0 .. WordOf(x.msb) : m = 0
  BY <1>3
<1>5. 0 \in 0 .. WordOf(x.msb)
  BY <1>3
<1>6. /\ Greater(x, y) <=> Word(x, 0) > Word(y, 0)
      /\ Less(x, y) <=> Word(x, 0) < Word(y, 0)
  BY <1>1, <1>2, <1>4, <1>5 DEF Greater, Less
<1>7. ValueOf(v, << >>) = Number(x.on) /\ ValueOf(w, << >>) = Number(y.on)
  BY WholeMeant DEF ValueOf
<1> QED
  BY <1>3, <1>6, <1>7

LEMMA NumbersAreOfValues ==
  ASSUME CarefulWithOrder, BitsInv, NEW v \in Vectors, NEW p \in PartsOf(v), bits[v].num # 0
  PROVE  LET x == Taking(v, p)
         IN /\ Avoids("straddling", ~ OneWord(x)) => ToUnsigned(x) = ValueOf(v, p)
            /\ MayCompare(x) => \A n \in Numbers :
                 /\ GreaterInt(x, n) <=> ValueOf(v, p) > n
                 /\ Avoids("parts", ~ IsWhole(x)) =>
                      /\ EqualsNumber(x, n) <=> ValueOf(v, p) = n
                      /\ GreaterNumber(x, n) <=> ValueOf(v, p) > n
                      /\ LessNumber(x, n) <=> ValueOf(v, p) < n
<1> DEFINE x == bits[v]  h == High(x, p)  l == Low(x, p)
           X == Taking(v, p)
           P == Meant(v, p)
<1>1. /\ X.num = x.num /\ X.on = x.on /\ X.msb = h /\ X.lsb = l
      /\ h \in Nat /\ l \in Nat /\ l <= h /\ h < x.num /\ x.num \in Nat /\ x.num <= 2 * WordSize
      /\ x.on \in SUBSET (0 .. x.num - 1)
      /\ Taken(X) = P /\ ValueOf(v, p) = BinaryValue(P)
  BY TakenIs
<1>2. "straddling" \notin Uses /\ "parts" \notin Uses
  BY DEF CarefulWithOrder, Careful
<1>3. ASSUME OneWord(X) PROVE ToUnsigned(X) = ValueOf(v, p)
  BY <1>1, <1>3 DEF ToUnsigned, ValueOf
<1>4. Number({i \in X.on : i <= X.msb}) \div 2 ^ X.lsb = ValueOf(v, p)
  <2> DEFINE on == {i \in x.on : i <= h}
  <2>1. on \in SUBSET (0 .. x.num - 1) /\ x.num \in 0 .. 2 * WordSize
    BY <1>1, WordSizes
  <2>2. Number(on) = BinaryValue(on)
    BY <2>1, NumberIs
  <2>3. P = {i - l : i \in {j \in on : j >= l}}
    <3>1. x.on \cap (l .. h) = {j \in on : j >= l}
      BY <1>1
    <3> QED
      BY <3>1 DEF Meant, PartOf
  <2> HIDE DEF on
  <2>4. BinaryValue(on) \div 2 ^ l = BinaryValue(P)
    BY <1>1, <2>1, <2>3, BinaryQuotient
  <2> QED
    BY <1>1, <2>2, <2>4 DEF on
<1>5. ASSUME MayCompare(X), IsWhole(X) PROVE Word(X, 0) = ValueOf(v, p)
  <2>1. x.num <= WordSize /\ l = 0 /\ h = x.num - 1
    BY <1>1, <1>5 DEF MayCompare, IsWhole
  <2>2. Word(X, 0) = Number(X.on)
    BY <1>1, <2>1, OneWordIs
  <2>3. x.on \cap (0 .. h) = x.on /\ \A i \in x.on : i - 0 = i
    BY <1>1, <2>1
  <2>4. P = x.on
    BY <2>1, <2>3 DEF Meant, PartOf
  <2> QED
    BY <1>1, <2>2, <2>4 DEF ValueOf
<1> HIDE DEF X
<1>6. Avoids("straddling", ~ OneWord(X)) => OneWord(X)
  BY <1>2 DEF Avoids
<1>7. Avoids("parts", ~ IsWhole(X)) => IsWhole(X)
  BY <1>2 DEF Avoids
<1>8. ASSUME MayCompare(X), NEW n \in Numbers
      PROVE  /\ GreaterInt(X, n) <=> ValueOf(v, p) > n
             /\ Avoids("parts", ~ IsWhole(X)) =>
                  /\ EqualsNumber(X, n) <=> ValueOf(v, p) = n
                  /\ GreaterNumber(X, n) <=> ValueOf(v, p) > n
                  /\ LessNumber(X, n) <=> ValueOf(v, p) < n
  BY <1>4, <1>5, <1>7, <1>8 DEF GreaterInt, EqualsNumber, GreaterNumber, LessNumber
<1> QED
  BY <1>3, <1>6, <1>8 DEF X

LEMMA InvCompares ==
  ASSUME CarefulWithOrder, BitsInv
  PROVE  ComparesValues
<1>0. Careful /\ "layouts" \notin Uses
  BY DEF CarefulWithOrder
<1>1. VectorsCompare
  <2> SUFFICES ASSUME NEW v \in Vectors, NEW w \in Vectors \ {v}
               PROVE  /\ \A p \in PartsOf(v) : \A q \in PartsOf(w) :
                           Avoids("low", LowOfWider(v, p, w, q)) =>
                             (Equals(Taking(v, p), Taking(w, q)) <=>
                                /\ ValueOf(v, p) = ValueOf(w, q)
                                /\ IsEmptyBit(bits[v]) <=> IsEmptyBit(bits[w]))
                      /\ /\ bits[v].num > 0 /\ bits[w].num > 0
                         /\ Avoids("layouts", bits[v].num # bits[w].num \/ bits[v].num > WordSize)
                         => /\ Greater(bits[v], bits[w]) <=> ValueOf(v, << >>) > ValueOf(w, << >>)
                            /\ Less(bits[v], bits[w]) <=> ValueOf(v, << >>) < ValueOf(w, << >>)
    BY DEF VectorsCompare
  <2>1. bits[v].num \in Nat /\ bits[w].num \in Nat /\ WordSize \in Nat
    BY WordSizes DEF BitsInv, Whole
  <2>2. ASSUME NEW p \in PartsOf(v), NEW q \in PartsOf(w), Avoids("low", LowOfWider(v, p, w, q))
        PROVE  Equals(Taking(v, p), Taking(w, q)) <=> /\ ValueOf(v, p) = ValueOf(w, q)
                                                      /\ IsEmptyBit(bits[v]) <=> IsEmptyBit(bits[w])
    <3>1. CASE bits[v].num = 0 \/ bits[w].num = 0
      BY <3>1, EmptyIsEqualToEmpty
    <3>2. CASE bits[v].num # 0 /\ bits[w].num # 0
      BY <1>0, <2>2, <3>2, EqualsIsOfValues DEF IsEmptyBit
    <3> QED
      BY <3>1, <3>2
  <2>3. ASSUME bits[v].num > 0, bits[w].num > 0,
               Avoids("layouts", bits[v].num # bits[w].num \/ bits[v].num > WordSize)
        PROVE  /\ Greater(bits[v], bits[w]) <=> ValueOf(v, << >>) > ValueOf(w, << >>)
               /\ Less(bits[v], bits[w]) <=> ValueOf(v, << >>) < ValueOf(w, << >>)
    <3>1. bits[v].num = bits[w].num /\ bits[v].num <= WordSize /\ bits[v].num # 0
      BY <1>0, <2>1, <2>3 DEF Avoids
    <3> QED
      BY <3>1, OrderIsOfValues
  <2> QED
    BY <2>2, <2>3
<1>2. NumbersCompare
  <2> SUFFICES ASSUME NEW v \in Vectors, NEW p \in PartsOf(v), bits[v].num > 0
               PROVE  LET x == Taking(v, p)
                      IN /\ Avoids("straddling", ~ OneWord(x)) => ToUnsigned(x) = ValueOf(v, p)
                         /\ MayCompare(x) => \A n \in Numbers :
                              /\ GreaterInt(x, n) <=> ValueOf(v, p) > n
                              /\ Avoids("parts", ~ IsWhole(x)) =>
                                   /\ EqualsNumber(x, n) <=> ValueOf(v, p) = n
                                   /\ GreaterNumber(x, n) <=> ValueOf(v, p) > n
                                   /\ LessNumber(x, n) <=> ValueOf(v, p) < n
    BY DEF NumbersCompare
  <2>1. bits[v].num # 0
    BY DEF BitsInv, Whole
  <2> QED
    BY <2>1, NumbersAreOfValues
<1> QED
  BY <1>1, <1>2 DEF ComparesValues

\* Theorem (operator==, > and < of Bit.cc, for vectors and for numbers): parts of two vectors
\* for ==, vectors of one width in a word, and parts and numbers compare by value.
THEOREM ComparisonsAreOfValues ==
  ASSUME CarefulWithOrder
  PROVE  Spec => []ComparesValues
<1>1. Careful
  BY DEF CarefulWithOrder
<1>2. BitsInv => ComparesValues
  BY InvCompares
<1> QED
  BY <1>1, <1>2, BitsInvariant, PTL

===============================================================================
