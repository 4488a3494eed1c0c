---------------------------- MODULE HistoryProofs ----------------------------
(***************************************************************************)
(* The store of History.tla stays whole: every Record is in one place at   *)
(* most, what it refers to exists and is a row of its view's table, rows   *)
(* of interfaces count enough references, and the view of an interface     *)
(* holds the values committed last; what editors have asked for waits for  *)
(* the commit or has its effect already.  An operation on the store is     *)
(* shown to lead from a store that is whole to one that is, and to keep    *)
(* what owners list; those that go through a list are followed element by  *)
(* element.                                                                *)
(***************************************************************************)
EXTENDS History, DataLemmas

-----------------------------------------------------------------------------
(* Folds over finite sets: next names the element that is folded last.     *)

\* What holds of the empty set, and of a set if it holds without its next
\* element, holds of each subset.
LEMMA SubsetInduction ==
  ASSUME NEW D, IsFiniteSet(D), NEW next, \A s \in SUBSET D : s # {} => next[s] \in s,
         NEW P, {} \in P, \A s \in SUBSET D : s # {} /\ s \ {next[s]} \in P => s \in P
  PROVE  \A s \in SUBSET D : s \in P
<1> DEFINE Bad == {s \in SUBSET D : s \notin P}
           Sizes == {Cardinality(s) : s \in Bad}
<1> SUFFICES ASSUME Bad # {} PROVE FALSE
  OBVIOUS
<1>1. ASSUME NEW s \in SUBSET D
      PROVE  /\ IsFiniteSet(s) /\ Cardinality(s) \in Nat
             /\ s # {} => Cardinality(s \ {next[s]}) = Cardinality(s) - 1
  <2>1. IsFiniteSet(s)
    BY FS_Subset
  <2>2. Cardinality(s) \in Nat
    BY <2>1, FS_CardinalityType
  <2>3. s # {} => next[s] \in s
    OBVIOUS
  <2> QED
    BY <2>1, <2>2, <2>3, FS_RemoveElement
<1>2. Sizes \subseteq Nat /\ Sizes # {}
  <2>1. \A s \in Bad : Cardinality(s) \in Nat
    BY <1>1
  <2> HIDE DEF Bad
  <2> QED
    BY <2>1
<1>3. PICK m \in Sizes : \A k \in Sizes : m <= k
  <2> HIDE DEF Sizes
  <2> QED
    BY <1>2, LeastNatural
<1>4. PICK s \in Bad : Cardinality(s) = m
  OBVIOUS
<1>5. s # {} /\ s \in SUBSET D
  OBVIOUS
<1>6. s \ {next[s]} \in Bad
  BY <1>5
<1>7. Cardinality(s \ {next[s]}) \in Sizes /\ Cardinality(s \ {next[s]}) = Cardinality(s) - 1 /\ Cardinality(s) \in Nat
  BY <1>1, <1>5, <1>6
<1>8. m <= Cardinality(s \ {next[s]})
  BY <1>3, <1>7
<1> QED
  BY <1>4, <1>7, <1>8

\* T[s] is where the fold is after the elements of s, G[d] the operation with d.
FoldStays(D, next, U, T, base, G) ==
  /\ IsFiniteSet(D) /\ \A s \in SUBSET D : s # {} => next[s] \in s
  /\ base \in T[{}] /\ \A s \in SUBSET D : T[s] \subseteq U
  /\ G \in [D -> [U -> U]]
  /\ \A s \in SUBSET D : s # {} => \A x \in T[s \ {next[s]}] : G[next[s]][x] \in T[s]

\* h is what the fold computes.
FoldsAs(h, D, next, U, base, G) ==
  /\ h \in [SUBSET D -> U]
  /\ \A s \in SUBSET D : h[s] = IF s = {} THEN base ELSE G[next[s]][h[s \ {next[s]}]]

\* A fold whose steps stay within T exists, and ends there.
LEMMA FoldWithin ==
  ASSUME NEW D, NEW next, NEW U, NEW T, NEW base, NEW G, FoldStays(D, next, U, T, base, G)
  PROVE  \E h : FoldsAs(h, D, next, U, base, G) /\ \A s \in SUBSET D : h[s] \in T[s]
<1> DEFINE A == SUBSET D
           rank == [s \in A |-> Cardinality(s)]
           pred == [s \in A |-> s \ {next[s]}]
           first == [s \in A |-> base]
           F == [s \in A |-> [x \in U |-> IF s = {} THEN base ELSE G[next[s]][x]]]
<1> USE DEF FoldStays
<1>1. ASSUME NEW s \in A
      PROVE  /\ Cardinality(s) \in Nat /\ (Cardinality(s) = 0 <=> s = {})
             /\ s # {} => next[s] \in D /\ Cardinality(s \ {next[s]}) = Cardinality(s) - 1
  <2>1. IsFiniteSet(s)
    BY FS_Subset
  <2>2. s # {} => next[s] \in s
    OBVIOUS
  <2>3. Cardinality(s) \in Nat /\ (Cardinality(s) = 0 <=> s = {})
    BY <2>1, FS_CardinalityType, FS_EmptySet
  <2>4. s # {} => Cardinality(s \ {next[s]}) = Cardinality(s) - 1
    BY <2>1, <2>2, FS_RemoveElement
  <2> QED
    BY <2>2, <2>3, <2>4
<1>2. rank \in [A -> Nat] /\ pred \in [A -> A] /\ first \in [A -> U]
  BY <1>1
<1>3. F \in [A -> [U -> U]]
  <2>1. \A s \in A : s # {} => G[next[s]] \in [U -> U]
    BY <1>1
  <2>2. base \in U
    OBVIOUS
  <2> QED
    BY <2>1, <2>2
<1>4. \A s \in A : rank[s] > 0 => rank[pred[s]] < rank[s]
  <2> SUFFICES ASSUME NEW s \in A, rank[s] > 0 PROVE rank[pred[s]] < rank[s]
    OBVIOUS
  <2>1. rank[s] = Cardinality(s) /\ pred[s] = s \ {next[s]} /\ pred[s] \in A
    BY <1>2
  <2>2. rank[pred[s]] = Cardinality(s \ {next[s]})
    BY <2>1
  <2>3. Cardinality(s) \in Nat /\ (Cardinality(s) # 0 => Cardinality(s \ {next[s]}) = Cardinality(s) - 1)
    BY <1>1
  <2> HIDE DEF rank, pred
  <2> QED
    BY <2>1, <2>2, <2>3
<1>5. PICK h \in [A -> U] :
        \A s \in A : h[s] = IF rank[s] = 0 THEN first[s] ELSE F[s][h[pred[s]]]
  <2>1. Decreasing(A, U, rank, pred, first, F)
    <3> HIDE DEF A, rank, pred, first, F
    <3> QED
      BY <1>2, <1>3, <1>4 DEF Decreasing
  <2> HIDE DEF A, rank, pred, first, F
  <2>2. PICK h : Solves(h, A, U, rank, pred, first, F)
    BY <2>1, RankedRecursion
  <2> QED
    BY <2>2 DEF Solves
<1>6. ASSUME NEW s \in A PROVE h[s] = IF s = {} THEN base ELSE G[next[s]][h[s \ {next[s]}]]
  <2>1. h[s] = IF rank[s] = 0 THEN first[s] ELSE F[s][h[pred[s]]]
    BY <1>5
  <2>2. pred[s] \in A /\ h[pred[s]] \in U
    BY <1>2, <1>5
  <2>3. CASE s = {}
    BY <2>1, <2>3, <1>1
  <2>4. CASE s # {}
    BY <2>1, <2>4, <1>1, <2>2
  <2> QED
    BY <2>3, <2>4
<1> DEFINE P == {s \in A : h[s] \in T[s]}
<1>7. {} \in P
  BY <1>6
<1>8. \A s \in A : s # {} /\ s \ {next[s]} \in P => s \in P
  BY <1>6
<1>9. \A s \in SUBSET D : s \in P
  <2>1. IsFiniteSet(D) /\ \A s \in SUBSET D : s # {} => next[s] \in s
    OBVIOUS
  <2> HIDE DEF P, FoldStays
  <2> QED
    BY <1>7, <1>8, <2>1, SubsetInduction
<1>10. FoldsAs(h, D, next, U, base, G)
  BY <1>5, <1>6 DEF FoldsAs
<1> QED
  BY <1>9, <1>10

\* What is computed as h is stays where h stays.
LEMMA FoldedWithin ==
  ASSUME NEW D, IsFiniteSet(D), NEW next, \A s \in SUBSET D : s # {} => next[s] \in s, NEW T, NEW fold,
         fold[{}] \in T[{}],
         \A s \in SUBSET D : s # {} /\ fold[s \ {next[s]}] \in T[s \ {next[s]}] => fold[s] \in T[s]
  PROVE  fold[D] \in T[D]
<1> DEFINE P == {s \in SUBSET D : fold[s] \in T[s]}
<1>1. {} \in P /\ \A s \in SUBSET D : s # {} /\ s \ {next[s]} \in P => s \in P
  OBVIOUS
<1>2. \A s \in SUBSET D : s \in P
  <2> HIDE DEF P
  <2> QED
    BY <1>1, SubsetInduction
<1> QED
  BY <1>2
-----------------------------------------------------------------------------
(* Who may do what: the hypotheses.                                        *)

Owners == Interfaces \cup Editors

\* Each table is owned by one interface or editor, which lets everyone add to
\* it; observers do what a client may do without harm.
OwnedTables ==
  /\ IsFiniteSet(Views) /\ IsFiniteSet(Cells) /\ IsFiniteSet(Records)
  /\ Interfaces \cap Editors = {} /\ Owners \cap Observers = {}
  /\ \A v, w \in Owners : Home[v] = Home[w] => v = w
  /\ \A o \in Observers : \E v \in Owners : Home[v] = Home[o]
  /\ \A v \in Owners : <<"Other", "Add">> \in Permission[v]
CarefulClients ==
  OwnedTables /\ LateDepths = {} /\ ~SelectsMatching /\ ~Shares /\ ~ObserversWrite

-----------------------------------------------------------------------------
(* The inductive invariant of the store.                                   *)

Transactions ==
  [oper : {"Add", "Delete", "Modify"}, view : Views, rec : Records, value : Values \cup {None}]
Selections == [view : Views, recs : Seq(Records)]
Triggers == [view : Views, rec : Records \cup {None}]
Stores ==
  [cell : [Cells -> {Freed} \cup CellStates], rec : [Records -> {Freed} \cup RecordStates],
   rows : [Tables -> Seq(Cells)], owner : [Tables -> Views \cup {None}],
   granted : [Tables -> SUBSET Rights], group : [Tables -> SUBSET Views],
   infos : [Tables -> SUBSET Views], triggers : [Tables -> Seq(Triggers)],
   list : [Views -> Seq(Records)], dead : SUBSET Views, new : [Views -> SUBSET Records],
   selected : [Tables -> Seq(Selections)], pending : Seq(Transactions),
   ready : Seq(Tables \X Nat), stopped : BOOLEAN]

\* Owners stay owners, and the triggers that are waited for import nothing.
Governed(s) ==
  /\ \A v \in Owners : /\ s.owner[Home[v]] = v /\ s.granted[Home[v]] = Permission[v]
                       /\ v \notin s.infos[Home[v]]
  /\ \A t \in Tables : \A i \in 1..Len(s.triggers[t]) : s.triggers[t][i].view \notin s.infos[t]
  /\ \A k \in 1..Len(s.ready) : s.ready[k][2] \in 1..Len(s.triggers[s.ready[k][1]])

\* A selection is an observer's, the only one it has.
SelectionSound(s, t, i, kind, of) ==
  LET sel == s.selected[t][i]
  IN /\ IsInjective(sel.recs) /\ sel.view \in Observers /\ Home[sel.view] = t
     /\ \A r \in Records : r \in Range(sel.recs) => kind[r] = "selected" /\ of[r] = sel.view
     /\ \A j \in 1..Len(s.selected[t]) : s.selected[t][j].view = sel.view => j = i

\* Each Record is in one place at most: a list, the new ones of a view, a
\* selection, or one of those, W, that transactions are to add.
Placed(s, W, kind, of) ==
  /\ \A v \in Views : IsInjective(s.list[v])
  /\ \A v \in Views, r \in Records : r \in Range(s.list[v]) => kind[r] = "listed" /\ of[r] = v
  /\ \A v \in Views, r \in Records : r \in s.new[v] => kind[r] = "new" /\ of[r] = v
  /\ \A r \in W : kind[r] = "waiting"
  /\ \A t \in Tables : \A i \in 1..Len(s.selected[t]) : SelectionSound(s, t, i, kind, of)
  /\ \A r \in Records : s.rec[r] = Freed => kind[r] = "nowhere"

\* The rows of tables are TableRecords, each in one table and there once.
RowsApart(s) ==
  /\ \A t \in Tables : IsInjective(s.rows[t])
  /\ \A t, u \in Tables, c \in Cells : c \in Range(s.rows[t]) /\ c \in Range(s.rows[u]) => t = u
  /\ \A t \in Tables, c \in Cells : c \in Range(s.rows[t]) => s.cell[c] # Freed

\* A Record refers to a TableRecord, in the table of its view if it is in one.  The
\* TableRecord of one that is to be added is in no table and has no other Record.
RecordSound(s, r, kind, of) ==
  LET c == s.rec[r].cell
  IN /\ s.cell[c] # Freed
     /\ kind[r] \in {"listed", "selected"} =>
          of[r] \in Views /\ c \in Range(s.rows[Home[of[r]]]) /\ (of[r] \notin Editors => s.rec[r].auto)
     /\ kind[r] \in {"selected", "waiting"} => s.rec[r].auto
     /\ kind[r] \in {"new", "waiting"} =>
          /\ \A t \in Tables : c \notin Range(s.rows[t])
          /\ \A q \in Records : s.rec[q] # Freed /\ s.rec[q].cell = c => q = r
     /\ kind[r] = "listed" /\ of[r] \in Owners =>
          \A q \in Records : kind[q] = "listed" /\ of[q] = of[r] /\ s.rec[q] # Freed /\ s.rec[q].cell = c => q = r
Refers(s, kind, of) == \A r \in Records : s.rec[r] # Freed => RecordSound(s, r, kind, of)

Refs(s, c) == {r \in Records : s.rec[r] # Freed /\ s.rec[r].cell = c}
Observed(s) == {r \in Records : \E o \in Observers : r \in Range(s.list[o])}

\* A row of an interface counts its Records, those that observers imported twice.
Counted(s) ==
  \A i \in Interfaces, c \in Cells : c \in Range(s.rows[Home[i]]) =>
    s.cell[c].count >= Cardinality(Refs(s, c)) + Cardinality(Refs(s, c) \cap Observed(s))

Kinds == {"listed", "new", "selected", "waiting", "nowhere"}
Sound(s, W, kind, of) ==
  Placed(s, W, kind, of) /\ Refers(s, kind, of)
Good(s, W) ==
  /\ s \in Stores /\ Governed(s) /\ RowsApart(s) /\ Counted(s)
  /\ \E kind \in [Records -> Kinds], of \in [Records -> Views \cup {None}] : Sound(s, W, kind, of)

-----------------------------------------------------------------------------
(* The fields of a store, and the sequences in them.                       *)

\* The type of each field.
LEMMA StoreTyped ==
  ASSUME NEW s \in Stores
  PROVE  /\ s.cell \in [Cells -> {Freed} \cup CellStates] /\ s.rec \in [Records -> {Freed} \cup RecordStates]
         /\ s.rows \in [Tables -> Seq(Cells)] /\ s.owner \in [Tables -> Views \cup {None}]
         /\ s.granted \in [Tables -> SUBSET Rights] /\ s.group \in [Tables -> SUBSET Views]
         /\ s.infos \in [Tables -> SUBSET Views] /\ s.triggers \in [Tables -> Seq(Triggers)]
         /\ s.list \in [Views -> Seq(Records)] /\ s.dead \in SUBSET Views /\ s.new \in [Views -> SUBSET Records]
         /\ s.selected \in [Tables -> Seq(Selections)] /\ s.pending \in Seq(Transactions)
         /\ s.ready \in Seq(Tables \X Nat) /\ s.stopped \in BOOLEAN
BY DEF Stores

\* What a Record that is allocated refers to.
LEMMA Refered ==
  ASSUME NEW s \in Stores, NEW r \in Records, s.rec[r] # Freed
  PROVE  /\ s.rec[r] \in RecordStates /\ s.rec[r].cell \in Cells /\ s.rec[r].view \in Views \cup {None}
         /\ s.rec[r].auto \in BOOLEAN
<1>1. s.rec[r] \in {Freed} \cup RecordStates
  BY DEF Stores
<1> QED
  BY <1>1 DEF RecordStates

\* What a TableRecord that is allocated holds.
LEMMA CellTyped ==
  ASSUME NEW s \in Stores, NEW c \in Cells, s.cell[c] # Freed
  PROVE  s.cell[c] \in CellStates /\ s.cell[c].count \in Nat /\ s.cell[c].value \in Values
<1>1. s.cell[c] \in {Freed} \cup CellStates
  BY DEF Stores
<1> QED
  BY <1>1 DEF CellStates

SameRules(s, t) ==
  /\ t.owner = s.owner /\ t.granted = s.granted /\ t.infos = s.infos
  /\ t.triggers = s.triggers /\ t.ready = s.ready
SameData(s, t) ==
  /\ t.cell = s.cell /\ t.rec = s.rec /\ t.rows = s.rows
  /\ t.list = s.list /\ t.new = s.new /\ t.selected = s.selected

\* Owners, permissions, triggers: the same fields are governed the same.
LEMMA GovernedKept ==
  ASSUME NEW s, NEW t, SameRules(s, t), Governed(s)
  PROVE  Governed(t)
BY DEF SameRules, Governed

\* The same Records, rows and lists are sound the same.
LEMMA DataKept ==
  ASSUME NEW s, NEW t, SameData(s, t), NEW W, NEW kind, NEW of
  PROVE  /\ RowsApart(s) => RowsApart(t)
         /\ Counted(s) => Counted(t)
         /\ Sound(s, W, kind, of) => Sound(t, W, kind, of)
<1>1. RowsApart(s) => RowsApart(t)
  BY DEF SameData, RowsApart
<1>2. Refs(t, 0) = Refs(t, 0) /\ \A c \in Cells : Refs(t, c) = Refs(s, c)
  BY DEF SameData, Refs
<1>3. Observed(t) = Observed(s)
  BY DEF SameData, Observed
<1>4. Counted(s) => Counted(t)
  BY <1>2, <1>3 DEF SameData, Counted
<1>5. Placed(s, W, kind, of) => Placed(t, W, kind, of)
  BY DEF SameData, Placed, SelectionSound
<1>6. Refers(s, kind, of) => Refers(t, kind, of)
  BY DEF SameData, Refers, RecordSound
<1> QED
  BY <1>1, <1>4, <1>5, <1>6 DEF Sound

\* What changes none of them leaves a good store.
LEMMA SameDataGood ==
  ASSUME NEW s, NEW t \in Stores, NEW W, SameData(s, t), Governed(t), Good(s, W)
  PROVE  Good(t, W)
BY DataKept DEF Good

\* Fewer Records may wait.
LEMMA FewerWait ==
  ASSUME NEW s, NEW W, NEW U \in SUBSET W, Good(s, W)
  PROVE  Good(s, U)
<1>1. \A kind, of : Sound(s, W, kind, of) => Sound(s, U, kind, of)
  BY DEF Sound, Placed, SelectionSound
<1> QED
  BY <1>1 DEF Good

\* A sequence with one more element.
LEMMA Appended ==
  ASSUME NEW S, NEW e \in Seq(S), NEW x \in S
  PROVE  /\ Append(e, x) \in Seq(S) /\ Len(Append(e, x)) = Len(e) + 1 /\ Len(e) \in Nat
         /\ \A k \in 1..Len(e) : Append(e, x)[k] = e[k]
         /\ Append(e, x)[Len(e) + 1] = x
         /\ \A y : y \in Range(Append(e, x)) <=> y \in Range(e) \/ y = x
         /\ IsInjective(e) /\ x \notin Range(e) => IsInjective(Append(e, x))
<1>1. /\ Append(e, x) \in Seq(S) /\ Len(Append(e, x)) = Len(e) + 1 /\ Len(e) \in Nat
      /\ \A k \in 1..Len(e) : Append(e, x)[k] = e[k]
      /\ Append(e, x)[Len(e) + 1] = x /\ DOMAIN e = 1..Len(e) /\ DOMAIN Append(e, x) = 1..Len(e) + 1
  BY AppendProperties
<1>2. ASSUME NEW y PROVE y \in Range(Append(e, x)) <=> y \in Range(e) \/ y = x
  <2>1. ASSUME y \in Range(Append(e, x)) PROVE y \in Range(e) \/ y = x
    <3>1. PICK k \in 1..Len(e) + 1 : y = Append(e, x)[k]
      BY <1>1, <2>1 DEF Range
    <3>2. k \in 1..Len(e) \/ k = Len(e) + 1
      BY <1>1
    <3> QED
      BY <1>1, <3>1, <3>2 DEF Range
  <2>2. ASSUME y \in Range(e) PROVE y \in Range(Append(e, x))
    <3>1. PICK k \in 1..Len(e) : y = e[k]
      BY <1>1, <2>2 DEF Range
    <3>2. k \in 1..Len(e) + 1 /\ Append(e, x)[k] = y
      BY <1>1, <3>1
    <3> QED
      BY <1>1, <3>2 DEF Range
  <2>3. x \in Range(Append(e, x))
    BY <1>1 DEF Range
  <2> QED
    BY <2>1, <2>2, <2>3
<1>3. ASSUME IsInjective(e), x \notin Range(e) PROVE IsInjective(Append(e, x))
  <2>1. \A k \in 1..Len(e) : e[k] # x
    BY <1>1, <1>3 DEF Range
  <2>2. \A a, b \in 1..Len(e) : e[a] = e[b] => a = b
    BY <1>1, <1>3 DEF IsInjective
  <2>3. \A a, b \in 1..Len(e) + 1 : Append(e, x)[a] = Append(e, x)[b] => a = b
    BY <1>1, <2>1, <2>2
  <2> QED
    BY <1>1, <2>3 DEF IsInjective
<1> QED
  BY <1>1, <1>2, <1>3

\* A sequence and its elements.
LEMMA Ranged ==
  ASSUME NEW S, NEW e \in Seq(S)
  PROVE  /\ Range(e) \subseteq S /\ Len(e) \in Nat /\ DOMAIN e = 1..Len(e)
         /\ \A k \in 1..Len(e) : e[k] \in Range(e) /\ e[k] \in S
         /\ \A x \in Range(e) : \E k \in 1..Len(e) : e[k] = x
         /\ Range(<< >>) = {} /\ IsInjective(<< >>)
BY DEF Range, IsInjective

\* Without one of its elements.
LEMMA FirstRemoved ==
  ASSUME NEW S, NEW e \in Seq(S), NEW x \in Range(e), IsInjective(e)
  PROVE  /\ RemoveFirst(e, x) \in Seq(S) /\ IsInjective(RemoveFirst(e, x))
         /\ \A y : y \in Range(RemoveFirst(e, x)) <=> y \in Range(e) /\ y # x
<1>1. DOMAIN e = 1..Len(e) /\ Len(e) \in Nat
  BY Ranged
<1>2. PICK i \in 1..Len(e) : e[i] = x
  BY Ranged
<1>3. \A a, b \in 1..Len(e) : e[a] = e[b] => a = b
  BY <1>1 DEF IsInjective
<1> DEFINE I == {k \in 1..Len(e) : e[k] = x}
<1>4. I = {i} /\ I # {}
  BY <1>2, <1>3
<1>5. Min(I) = i
  <2>1. Min({i}) = i
    BY <1>2 DEF Min
  <2> QED
    BY <1>4, <2>1
<1>6. SelectInSeq(e, LAMBDA v : v = x) = i
  BY <1>4, <1>5 DEF SelectInSeq
<1>7. RemoveFirst(e, x) = RemoveAt(e, i)
  BY <1>2, <1>6 DEF RemoveFirst
<1>8. /\ RemoveAt(e, i) \in Seq(S) /\ Len(RemoveAt(e, i)) = Len(e) - 1
      /\ \A j \in 1..Len(e) - 1 : RemoveAt(e, i)[j] = IF j < i THEN e[j] ELSE e[j + 1]
  BY <1>1, <1>2, RemoveAtProperties
<1> DEFINE f == RemoveAt(e, i)
<1>9. DOMAIN f = 1..Len(e) - 1
  BY <1>8, LenProperties
<1> HIDE DEF f, I
<1>10. IsInjective(f)
  <2> SUFFICES ASSUME NEW a \in 1..Len(e) - 1, NEW b \in 1..Len(e) - 1, f[a] = f[b] PROVE a = b
    BY <1>9 DEF IsInjective
  <2> DEFINE p == IF a < i THEN a ELSE a + 1
             q == IF b < i THEN b ELSE b + 1
  <2>1. p \in 1..Len(e) /\ q \in 1..Len(e) /\ f[a] = e[p] /\ f[b] = e[q]
    BY <1>1, <1>2, <1>8 DEF f
  <2>2. p = q
    BY <1>3, <2>1
  <2> QED
    BY <2>2
<1>11. ASSUME NEW y, y \in Range(e), y # x PROVE y \in Range(f)
  <2>1. PICK k \in 1..Len(e) : e[k] = y
    BY <1>11, Ranged
  <2> DEFINE j == IF k < i THEN k ELSE k - 1
  <2>2. k # i
    BY <1>2, <1>11, <2>1
  <2>3. j \in 1..Len(e) - 1 /\ f[j] = e[k]
    BY <1>1, <1>2, <1>8, <2>2 DEF f
  <2> QED
    BY <1>9, <2>1, <2>3 DEF Range
<1>12. ASSUME NEW y, y \in Range(f) PROVE y \in Range(e) /\ y # x
  <2>1. PICK j \in 1..Len(e) - 1 : y = f[j]
    BY <1>9, <1>12 DEF Range
  <2> DEFINE p == IF j < i THEN j ELSE j + 1
  <2>2. p \in 1..Len(e) /\ p # i /\ y = e[p]
    BY <1>1, <1>2, <1>8, <2>1 DEF f
  <2> QED
    BY <1>2, <1>3, <2>2, Ranged
<1> QED
  BY <1>7, <1>8, <1>10, <1>11, <1>12 DEF f

-----------------------------------------------------------------------------
(* What keeps the invariant of the store: one lemma for each kind of change. *)

\* What is allocated next was free.
LEMMA FreshIs ==
  ASSUME NEW objects, DOMAIN objects \subseteq Nat, Unused(objects) # {}
  PROVE  Fresh(objects) \in DOMAIN objects /\ objects[Fresh(objects)] = Freed
<1>1. Unused(objects) \subseteq Nat
  BY DEF Unused
<1>2. \E i \in Unused(objects) : \A j \in Unused(objects) : i <= j
  BY <1>1, LeastNatural
<1>3. Fresh(objects) \in Unused(objects)
  BY <1>2 DEF Fresh
<1> QED
  BY <1>3 DEF Unused

\* The same, of TableRecords and of Records.
LEMMA FreshOf ==
  ASSUME NEW s \in Stores
  PROVE  /\ Unused(s.cell) # {} => Fresh(s.cell) \in Cells /\ s.cell[Fresh(s.cell)] = Freed
         /\ Unused(s.rec) # {} => Fresh(s.rec) \in Records /\ s.rec[Fresh(s.rec)] = Freed
<1>1. DOMAIN s.cell = Cells /\ DOMAIN s.rec = Records /\ Cells \subseteq Nat /\ Records \subseteq Nat
  BY StoreTyped, StoreAssumption
<1> QED
  BY <1>1, FreshIs

\* References can be counted.
LEMMA RefsFinite ==
  ASSUME OwnedTables, NEW s, NEW t, NEW c
  PROVE  /\ IsFiniteSet(Refs(s, c)) /\ IsFiniteSet(Refs(s, c) \cap Observed(t))
         /\ Cardinality(Refs(s, c)) \in Nat /\ Cardinality(Refs(s, c) \cap Observed(t)) \in Nat
<1>1. Refs(s, c) \subseteq Records /\ Refs(s, c) \cap Observed(t) \subseteq Records
  BY DEF Refs
<1>2. IsFiniteSet(Refs(s, c)) /\ IsFiniteSet(Refs(s, c) \cap Observed(t))
  BY <1>1, FS_Subset DEF OwnedTables
<1> QED
  BY <1>2, FS_CardinalityType

\* Counts and values matter to no Record's place.
LEMMA CellsSound ==
  ASSUME NEW s \in Stores, NEW t, t.rec = s.rec, t.rows = s.rows, t.list = s.list, t.new = s.new,
         t.selected = s.selected, \A c \in Cells : s.cell[c] # Freed => t.cell[c] # Freed,
         NEW W, NEW kind, NEW of, Sound(s, W, kind, of)
  PROVE  Sound(t, W, kind, of)
<1>1. Placed(t, W, kind, of)
  BY DEF Sound, Placed, SelectionSound
<1>2. \A r \in Records : s.rec[r] # Freed => s.rec[r].cell \in Cells
  BY Refered
<1>3. Refers(t, kind, of)
  BY <1>2 DEF Sound, Refers, RecordSound
<1> QED
  BY <1>1, <1>3 DEF Sound

\* Values change, and counts.
LEMMA CellsChange ==
  ASSUME OwnedTables, NEW s, NEW W, Good(s, W), NEW cell \in [Cells -> {Freed} \cup CellStates],
         \A c \in Cells : s.cell[c] # Freed => cell[c] # Freed,
         \A i \in Interfaces, c \in Cells : c \in Range(s.rows[Home[i]]) => cell[c].count >= s.cell[c].count,
         NEW t, t = [s EXCEPT !.cell = cell]
  PROVE  /\ Good(t, W) /\ t.cell = cell /\ t.rec = s.rec /\ t.rows = s.rows /\ t.list = s.list /\ t.new = s.new
         /\ t.selected = s.selected /\ SameRules(s, t) /\ t.pending = s.pending /\ t.stopped = s.stopped
         /\ t.group = s.group /\ t.dead = s.dead
<1>1. s \in Stores
  BY DEF Good
<1>2. /\ t \in Stores /\ SameRules(s, t)
      /\ t.cell = cell /\ t.rec = s.rec /\ t.rows = s.rows
      /\ t.list = s.list /\ t.new = s.new /\ t.selected = s.selected
      /\ t.pending = s.pending /\ t.stopped = s.stopped /\ t.group = s.group /\ t.dead = s.dead
  BY <1>1 DEF Stores, SameRules
<1>3. Governed(t)
  BY <1>2, GovernedKept DEF Good
<1>4. RowsApart(t)
  BY <1>2 DEF Good, RowsApart
<1>5. Counted(t)
  <2>1. \A c \in Cells : Refs(t, c) = Refs(s, c)
    BY <1>2 DEF Refs
  <2>2. Observed(t) = Observed(s)
    BY <1>2 DEF Observed
  <2> SUFFICES ASSUME NEW i \in Interfaces, NEW c \in Cells, c \in Range(t.rows[Home[i]])
               PROVE  t.cell[c].count >= Cardinality(Refs(t, c)) + Cardinality(Refs(t, c) \cap Observed(t))
    BY DEF Counted
  <2> DEFINE n == Cardinality(Refs(s, c)) + Cardinality(Refs(s, c) \cap Observed(s))
  <2>3. cell[c].count >= s.cell[c].count /\ s.cell[c].count >= n
    BY <1>2 DEF Good, Counted
  <2>4. Home[i] \in Tables
    BY StoreAssumption, HistoryAssumption
  <2>5. s.cell[c].count \in Nat /\ cell[c].count \in Nat
    <3>1. s.cell[c] # Freed
      BY <1>2, <2>4 DEF Good, RowsApart
    <3>2. t.cell[c] # Freed
      BY <1>2, <3>1
    <3> QED
      BY <1>1, <1>2, <3>1, <3>2, CellTyped
  <2>6. n \in Nat
    BY RefsFinite
  <2> HIDE DEF n
  <2>7. cell[c].count >= n
    BY <2>3, <2>5, <2>6
  <2> QED
    BY <1>2, <2>1, <2>2, <2>7 DEF n
<1>6. \A kind, of : Sound(s, W, kind, of) => Sound(t, W, kind, of)
  BY <1>1, <1>2, CellsSound
<1> QED
  BY <1>2, <1>3, <1>4, <1>5, <1>6 DEF Good

\* The places a Record may be in.
LEMMA KindsAre ==
  "listed" \in Kinds /\ "new" \in Kinds /\ "selected" \in Kinds /\ "waiting" \in Kinds /\ "nowhere" \in Kinds
BY DEF Kinds

\* One Record is said to be elsewhere.
Relocated(kind, of, r, k, v, kind2, of2) ==
  /\ kind2 \in [Records -> Kinds] /\ of2 \in [Records -> Views \cup {None}]
  /\ kind2[r] = k /\ of2[r] = v
  /\ \A q \in Records : q # r => kind2[q] = kind[q] /\ of2[q] = of[q]

\* One Record changes its place.
LEMMA Moved ==
  ASSUME NEW kind \in [Records -> Kinds], NEW of \in [Records -> Views \cup {None}], NEW r \in Records,
         NEW k \in Kinds, NEW v \in Views \cup {None}
  PROVE  \E kind2, of2 : Relocated(kind, of, r, k, v, kind2, of2)
<1> DEFINE kind2 == [kind EXCEPT ![r] = k]
           of2 == [of EXCEPT ![r] = v]
<1>1. Relocated(kind, of, r, k, v, kind2, of2)
  BY DEF Relocated
<1> QED
  BY <1>1

\* A Record of a TableRecord that was not used is new in a view.
LEMMA NewGood ==
  ASSUME OwnedTables, NEW s, NEW W \in SUBSET Records, Good(s, W), NEW t \in Stores, SameRules(s, t),
         t.rows = s.rows, t.list = s.list, t.selected = s.selected,
         NEW c \in Cells, s.cell[c] = Freed, t.cell[c] # Freed, \A d \in Cells : d # c => t.cell[d] = s.cell[d],
         NEW r \in Records, s.rec[r] = Freed, t.rec[r] # Freed, t.rec[r].cell = c,
         \A q \in Records : q # r => t.rec[q] = s.rec[q],
         NEW v \in Views,
         \A u \in Views, q \in Records : q \in t.new[u] <=> q \in s.new[u] \/ (u = v /\ q = r)
  PROVE  Good(t, W)
<1>1. s \in Stores
  BY DEF Good
<1>2. Governed(t)
  BY GovernedKept DEF Good
<1>3. RowsApart(t)
  BY DEF Good, RowsApart
<1>4. \A q \in Records : s.rec[q] # Freed => s.rec[q].cell \in Cells /\ s.rec[q].cell # c
  <2>1. \A q \in Records : s.rec[q] # Freed => s.rec[q].cell \in Cells /\ s.cell[s.rec[q].cell] # Freed
    BY <1>1, Refered DEF Good, Sound, Refers, RecordSound
  <2> QED
    BY <2>1
<1>5. Counted(t)
  <2>1. Observed(t) = Observed(s)
    BY DEF Observed
  <2> SUFFICES ASSUME NEW i \in Interfaces, NEW d \in Cells, d \in Range(t.rows[Home[i]])
               PROVE  t.cell[d].count >= Cardinality(Refs(t, d)) + Cardinality(Refs(t, d) \cap Observed(t))
    BY DEF Counted
  <2>2. d # c
    <3>1. Home[i] \in Tables
      BY StoreAssumption, HistoryAssumption
    <3> QED
      BY <3>1 DEF Good, RowsApart
  <2>3. Refs(t, d) = Refs(s, d)
    BY <2>2 DEF Refs
  <2> QED
    BY <2>1, <2>2, <2>3 DEF Good, Counted
<1>6. ASSUME NEW kind \in [Records -> Kinds], NEW of \in [Records -> Views \cup {None}], Sound(s, W, kind, of)
      PROVE  \E kind2 \in [Records -> Kinds], of2 \in [Records -> Views \cup {None}] : Sound(t, W, kind2, of2)
  <2>1. PICK kind2 \in [Records -> Kinds], of2 \in [Records -> Views \cup {None}] :
          /\ kind2[r] = "new" /\ of2[r] = v
          /\ \A q \in Records : q # r => kind2[q] = kind[q] /\ of2[q] = of[q]
    <3>1. \E kind2, of2 : Relocated(kind, of, r, "new", v, kind2, of2)
      BY Moved, KindsAre
    <3> QED
      BY <3>1 DEF Relocated
  <2>2. kind[r] = "nowhere"
    BY <1>6 DEF Sound, Placed, SelectionSound
  <2>3. Placed(t, W, kind2, of2)
    BY <1>6, <2>1, <2>2 DEF Sound, Placed, SelectionSound
  <2>4. ASSUME NEW q \in Records, t.rec[q] # Freed, q # r
        PROVE  RecordSound(t, q, kind2, of2)
    BY <1>4, <1>6, <2>1, <2>4 DEF Sound, Refers, RecordSound
  <2>5. \A u \in Tables : c \notin Range(t.rows[u])
    BY DEF Good, RowsApart
  <2>6. Refers(t, kind2, of2)
    BY <1>4, <2>1, <2>4, <2>5 DEF Refers, RecordSound
  <2> QED
    BY <2>3, <2>6 DEF Sound
<1> QED
  BY <1>2, <1>3, <1>5, <1>6 DEF Good

\* Another Record takes the place of a new one, and waits.
LEMMA ReplacedGood ==
  ASSUME OwnedTables, NEW s, NEW W \in SUBSET Records, Good(s, W), NEW t \in Stores, SameRules(s, t),
         t.rows = s.rows, t.list = s.list, t.selected = s.selected, t.cell = s.cell,
         NEW v \in Views, NEW r \in Records, r \in s.new[v], s.rec[r] # Freed, t.rec[r] = Freed,
         NEW q \in Records, s.rec[q] = Freed, t.rec[q] # Freed, t.rec[q].cell = s.rec[r].cell, t.rec[q].auto,
         \A p \in Records : p # r /\ p # q => t.rec[p] = s.rec[p],
         \A u \in Views, p \in Records : p \in t.new[u] <=> p \in s.new[u] /\ p # r
  PROVE  Good(t, W \cup {q}) /\ r \notin W /\ q \notin W
<1>1. s \in Stores
  BY DEF Good
<1>2. Governed(t)
  BY GovernedKept DEF Good
<1>3. RowsApart(t)
  BY DEF Good, RowsApart
<1>4. PICK kind \in [Records -> Kinds], of \in [Records -> Views \cup {None}] : Sound(s, W, kind, of)
  BY DEF Good
<1>5. kind[r] = "new" /\ kind[q] = "nowhere" /\ r # q /\ r \notin W /\ q \notin W
  BY <1>4 DEF Sound, Placed, SelectionSound
<1>6. PICK kind1 \in [Records -> Kinds], of1 \in [Records -> Views \cup {None}] :
        /\ kind1[r] = "nowhere" /\ of1[r] = None
        /\ \A p \in Records : p # r => kind1[p] = kind[p] /\ of1[p] = of[p]
  <2>1. \E kind1, of1 : Relocated(kind, of, r, "nowhere", None, kind1, of1)
    BY Moved, KindsAre
  <2> QED
    BY <2>1 DEF Relocated
<1>7. PICK kind2 \in [Records -> Kinds], of2 \in [Records -> Views \cup {None}] :
        /\ kind2[q] = "waiting" /\ of2[q] = None
        /\ \A p \in Records : p # q => kind2[p] = kind1[p] /\ of2[p] = of1[p]
  <2>1. \E kind2, of2 : Relocated(kind1, of1, q, "waiting", None, kind2, of2)
    BY Moved, KindsAre
  <2> QED
    BY <2>1 DEF Relocated
<1>8. /\ kind2[r] = "nowhere" /\ kind2[q] = "waiting"
      /\ \A p \in Records : p # r /\ p # q => kind2[p] = kind[p] /\ of2[p] = of[p]
  BY <1>5, <1>6, <1>7
<1> DEFINE c == s.rec[r].cell
<1>9. /\ c \in Cells /\ s.cell[c] # Freed /\ \A u \in Tables : c \notin Range(s.rows[u])
      /\ \A p \in Records : s.rec[p] # Freed /\ s.rec[p].cell = c => p = r
  BY <1>1, <1>4, <1>5, Refered DEF Sound, Refers, RecordSound
<1>10. Counted(t)
  <2>1. Observed(t) = Observed(s)
    BY DEF Observed
  <2> SUFFICES ASSUME NEW i \in Interfaces, NEW d \in Cells, d \in Range(t.rows[Home[i]])
               PROVE  t.cell[d].count >= Cardinality(Refs(t, d)) + Cardinality(Refs(t, d) \cap Observed(t))
    BY DEF Counted
  <2>2. d # c
    <3>1. Home[i] \in Tables
      BY StoreAssumption, HistoryAssumption
    <3> QED
      BY <3>1, <1>9
  <2>3. Refs(t, d) = Refs(s, d)
    BY <1>9, <2>2 DEF Refs
  <2> QED
    BY <2>1, <2>2, <2>3 DEF Good, Counted
<1>11. Placed(t, W \cup {q}, kind2, of2)
  <2>1. Placed(s, W, kind, of)
    BY <1>4 DEF Sound
  <2>2. \A u \in Views, p \in Records : p \in Range(s.list[u]) => p # r /\ p # q
    BY <1>5, <2>1 DEF Placed, SelectionSound
  <2>3. \A u \in Tables : \A i \in 1..Len(s.selected[u]) : \A p \in Records :
          p \in Range(s.selected[u][i].recs) => p # r /\ p # q
    BY <1>5, <2>1 DEF Placed, SelectionSound
  <2>4. \A u \in Views, p \in Records : p \in t.new[u] => p # q
    BY <1>5, <2>1 DEF Placed, SelectionSound
  <2> QED
    BY <1>5, <1>8, <2>1, <2>2, <2>3, <2>4 DEF Placed, SelectionSound
<1>12. Refers(t, kind2, of2)
  <2> SUFFICES ASSUME NEW p \in Records, t.rec[p] # Freed
        PROVE  RecordSound(t, p, kind2, of2)
    BY DEF Refers, RecordSound
  <2>1. Refers(s, kind, of)
    BY <1>4 DEF Sound
  <2>2. CASE p = q
    BY <1>5, <1>8, <1>9, <2>2 DEF RecordSound
  <2>3. CASE p # q
    <3>1. p # r /\ s.rec[p] # Freed /\ t.rec[p] = s.rec[p]
      BY <2>3
    <3>2. s.rec[p].cell # c
      BY <1>9, <3>1
    <3> QED
      BY <1>5, <1>8, <2>1, <2>3, <3>1, <3>2 DEF Refers, RecordSound
  <2> QED
    BY <2>2, <2>3
<1> QED
  BY <1>2, <1>3, <1>5, <1>10, <1>11, <1>12 DEF Good, Sound

\* A new or waiting Record is added to the table and the list of an owner.
AddsRow(s, t, v, r) ==
  /\ t.cell = s.cell /\ t.selected = s.selected
  /\ t.rows = [s.rows EXCEPT ![Home[v]] = Append(@, s.rec[r].cell)]
  /\ t.list = [s.list EXCEPT ![v] = Append(@, r)]
  /\ t.rec[r] # Freed /\ t.rec[r].cell = s.rec[r].cell /\ t.rec[r].auto = s.rec[r].auto
  /\ \A q \in Records : q # r => t.rec[q] = s.rec[q]
  /\ \A u \in Views, q \in Records : q \in t.new[u] <=> q \in s.new[u] /\ q # r

\* A Record that is new or waits goes to the list of its view, and its TableRecord to the table.
LEMMA RowAdded ==
  ASSUME OwnedTables, NEW s, NEW W \in SUBSET Records, Good(s, W), NEW t \in Stores, Governed(t),
         NEW v \in Owners, NEW r \in Records, r \in s.new[v] \/ r \in W, s.rec[r] # Freed,
         v \in Interfaces => s.rec[r].auto /\ s.cell[s.rec[r].cell].count >= 1, AddsRow(s, t, v, r)
  PROVE  Good(t, W \ {r})
<1> DEFINE c == s.rec[r].cell
<1> USE DEF AddsRow
<1>1. s \in Stores /\ v \in Views /\ Home[v] \in Tables /\ v \notin Observers
  BY StoreAssumption, HistoryAssumption DEF Good, Owners, OwnedTables
<1>2. PICK kind \in [Records -> Kinds], of \in [Records -> Views \cup {None}] : Sound(s, W, kind, of)
  BY DEF Good
<1>3. kind[r] \in {"new", "waiting"}
  BY <1>1, <1>2 DEF Sound, Placed, SelectionSound
<1>4. /\ c \in Cells /\ s.cell[c] # Freed /\ \A u \in Tables : c \notin Range(s.rows[u])
      /\ \A p \in Records : s.rec[p] # Freed /\ s.rec[p].cell = c => p = r
      /\ s.cell[c].count \in Nat
  BY <1>1, <1>2, <1>3, Refered, CellTyped DEF Sound, Refers, RecordSound
<1>5. PICK kind2 \in [Records -> Kinds], of2 \in [Records -> Views \cup {None}] :
        /\ kind2[r] = "listed" /\ of2[r] = v
        /\ \A q \in Records : q # r => kind2[q] = kind[q] /\ of2[q] = of[q]
  <2>1. \E kind2, of2 : Relocated(kind, of, r, "listed", v, kind2, of2)
    BY <1>1, Moved, KindsAre
  <2> QED
    BY <2>1 DEF Relocated
<1>6. \A u \in Views : s.list[u] \in Seq(Records) /\ r \notin Range(s.list[u])
  BY <1>1, <1>2, <1>3, StoreTyped DEF Sound, Placed, SelectionSound
<1>7. \A u \in Views, q \in Records : q \in Range(t.list[u]) <=> q \in Range(s.list[u]) \/ (u = v /\ q = r)
  <2>1. s.list \in [Views -> Seq(Records)]
    BY <1>1, StoreTyped
  <2>2. \A q : q \in Range(Append(s.list[v], r)) <=> q \in Range(s.list[v]) \/ q = r
    BY <1>1, <1>6, Appended
  <2> QED
    BY <1>1, <2>1, <2>2
<1>8. \A u \in Views : IsInjective(t.list[u])
  <2>1. s.list \in [Views -> Seq(Records)] /\ \A u \in Views : IsInjective(s.list[u])
    BY <1>1, <1>2, StoreTyped DEF Sound, Placed, SelectionSound
  <2>2. IsInjective(Append(s.list[v], r))
    BY <1>1, <1>6, <2>1, Appended
  <2> QED
    BY <1>1, <2>1, <2>2
<1>9. \A u \in Tables, d \in Cells : d \in Range(t.rows[u]) <=> d \in Range(s.rows[u]) \/ (u = Home[v] /\ d = c)
  <2>1. s.rows \in [Tables -> Seq(Cells)]
    BY <1>1, StoreTyped
  <2>2. \A d : d \in Range(Append(s.rows[Home[v]], c)) <=> d \in Range(s.rows[Home[v]]) \/ d = c
    BY <1>1, <1>4, <2>1, Appended
  <2> QED
    BY <1>1, <2>1, <2>2
<1>10. \A u \in Tables : IsInjective(t.rows[u])
  <2>1. s.rows \in [Tables -> Seq(Cells)] /\ \A u \in Tables : IsInjective(s.rows[u])
    BY <1>1, StoreTyped DEF Good, RowsApart
  <2>2. IsInjective(Append(s.rows[Home[v]], c))
    BY <1>1, <1>4, <2>1, Appended
  <2> QED
    BY <1>1, <2>1, <2>2
<1>11. RowsApart(t)
  <2>1. \A u, w \in Tables, d \in Cells : d \in Range(t.rows[u]) /\ d \in Range(t.rows[w]) => u = w
    BY <1>4, <1>9 DEF Good, RowsApart
  <2>2. \A u \in Tables, d \in Cells : d \in Range(t.rows[u]) => t.cell[d] # Freed
    BY <1>4, <1>9 DEF Good, RowsApart
  <2> QED
    BY <1>10, <2>1, <2>2 DEF RowsApart
<1>12. Placed(t, W \ {r}, kind2, of2)
  <2>1. Placed(s, W, kind, of)
    BY <1>2 DEF Sound
  <2>2. \A u \in Views, q \in Records : q \in Range(t.list[u]) => kind2[q] = "listed" /\ of2[q] = u
    BY <1>5, <1>6, <1>7, <2>1 DEF Placed, SelectionSound
  <2>3. \A u \in Tables : \A i \in 1..Len(s.selected[u]) : \A q \in Records :
          q \in Range(s.selected[u][i].recs) => q # r
    BY <1>3, <2>1 DEF Placed, SelectionSound
  <2> QED
    BY <1>5, <1>8, <2>1, <2>2, <2>3 DEF Placed, SelectionSound
<1>13. Refers(t, kind2, of2)
  <2> SUFFICES ASSUME NEW p \in Records, t.rec[p] # Freed
        PROVE  RecordSound(t, p, kind2, of2)
    BY DEF Refers, RecordSound
  <2>1. Refers(s, kind, of)
    BY <1>2 DEF Sound
  <2>2. CASE p = r
    <3>1. v \notin Editors => s.rec[r].auto
      BY DEF Owners
    <3>2. c \in Range(t.rows[Home[v]])
      BY <1>1, <1>4, <1>9
    <3> QED
      BY <1>1, <1>4, <1>5, <2>2, <3>1, <3>2 DEF RecordSound
  <2>3. CASE p # r
    <3>1. s.rec[p] # Freed /\ t.rec[p] = s.rec[p] /\ s.rec[p].cell \in Cells
      BY <1>1, <2>3, Refered
    <3>2. s.rec[p].cell # c
      BY <1>4, <2>3, <3>1
    <3>3. \A u \in Views : Home[u] \in Tables
      BY StoreAssumption
    <3> QED
      BY <1>5, <1>9, <2>1, <2>3, <3>1, <3>2, <3>3 DEF Refers, RecordSound
  <2> QED
    BY <2>2, <2>3
<1>14. Counted(t)
  <2>1. \A q \in Records : q \in Observed(t) <=> q \in Observed(s)
    BY <1>1, <1>7, HistoryAssumption DEF Observed
  <2>2. Observed(t) = Observed(s)
    BY <2>1 DEF Observed
  <2>3. r \notin Observed(s)
    BY <1>6, HistoryAssumption DEF Observed
  <2> SUFFICES ASSUME NEW i \in Interfaces, NEW d \in Cells, d \in Range(t.rows[Home[i]])
               PROVE  t.cell[d].count >= Cardinality(Refs(t, d)) + Cardinality(Refs(t, d) \cap Observed(t))
    BY DEF Counted
  <2>4. i \in Views /\ Home[i] \in Tables /\ i \in Owners
    BY StoreAssumption, HistoryAssumption DEF Owners
  <2>5. CASE d = c
    <3>1. Home[i] = Home[v]
      BY <1>4, <1>9, <2>4, <2>5
    <3>2. i = v
      BY <2>4, <3>1 DEF OwnedTables
    <3>3. Refs(t, c) = {r} /\ Refs(t, c) \cap Observed(t) = {}
      <4>1. Refs(t, c) = {r}
        BY <1>4 DEF Refs
      <4> QED
        BY <2>2, <2>3, <4>1
    <3>4. Cardinality({r}) = 1
      BY FS_Singleton
    <3>5. Cardinality(Refs(t, d)) = 1 /\ Cardinality(Refs(t, d) \cap Observed(t)) = 0
      BY <2>5, <3>3, <3>4, FS_EmptySet
    <3>6. t.cell[d].count >= 1
      BY <2>5, <3>2
    <3> QED
      BY <1>4, <2>5, <3>5, <3>6
  <2>6. CASE d # c
    <3>1. Refs(t, d) = Refs(s, d)
      BY <1>4, <2>6 DEF Refs
    <3>2. d \in Range(s.rows[Home[i]])
      BY <1>9, <2>4, <2>6
    <3> QED
      BY <2>2, <3>1, <3>2 DEF Good, Counted
  <2> QED
    BY <2>5, <2>6
<1> QED
  BY <1>11, <1>12, <1>13, <1>14 DEF Good, Sound

\* A Record of a row is selected by an observer.
LEMMA SelectedGood ==
  ASSUME OwnedTables, NEW s, NEW W \in SUBSET Records, Good(s, W), NEW t \in Stores, SameRules(s, t),
         t.rows = s.rows, t.list = s.list, t.new = s.new,
         NEW v \in Observers, NEW c \in Range(s.rows[Home[v]]), NEW r \in Records, s.rec[r] = Freed,
         \A d \in Cells : s.cell[d] # Freed => t.cell[d] # Freed /\ t.cell[d].count >= s.cell[d].count,
         t.cell[c].count = s.cell[c].count + 1,
         t.rec[r] # Freed, t.rec[r].cell = c, t.rec[r].auto,
         \A q \in Records : q # r => t.rec[q] = s.rec[q],
         NEW i \in 1..Len(s.selected[Home[v]]), s.selected[Home[v]][i].view = v,
         \A u \in Tables : /\ Len(t.selected[u]) = Len(s.selected[u])
                           /\ \A j \in 1..Len(s.selected[u]) :
                                /\ t.selected[u][j].view = s.selected[u][j].view
                                /\ t.selected[u][j].recs = IF u = Home[v] /\ j = i THEN Append(s.selected[u][j].recs, r)
                                                           ELSE s.selected[u][j].recs
  PROVE  Good(t, W)
<1>1. s \in Stores /\ v \in Views /\ Home[v] \in Tables /\ c \in Cells /\ v \notin Owners /\ v \notin Editors
  <2>1. v \in Views /\ Home[v] \in Tables /\ v \notin Owners /\ v \notin Editors
    BY StoreAssumption, HistoryAssumption DEF OwnedTables, Owners
  <2>2. s.rows[Home[v]] \in Seq(Cells)
    BY <2>1, StoreTyped DEF Good
  <2> QED
    BY <2>1, <2>2, Ranged DEF Good
<1>2. PICK kind \in [Records -> Kinds], of \in [Records -> Views \cup {None}] : Sound(s, W, kind, of)
  BY DEF Good
<1>3. kind[r] = "nowhere"
  BY <1>2 DEF Sound, Placed, SelectionSound
<1>4. PICK kind2 \in [Records -> Kinds], of2 \in [Records -> Views \cup {None}] :
        /\ kind2[r] = "selected" /\ of2[r] = v
        /\ \A q \in Records : q # r => kind2[q] = kind[q] /\ of2[q] = of[q]
  <2>1. \E kind2, of2 : Relocated(kind, of, r, "selected", v, kind2, of2)
    BY <1>1, Moved, KindsAre
  <2> QED
    BY <2>1 DEF Relocated
<1>5. Governed(t)
  BY GovernedKept DEF Good
<1>6. RowsApart(t)
  BY DEF Good, RowsApart
<1>7. \A u \in Tables : \A j \in 1..Len(s.selected[u]) : s.selected[u][j].recs \in Seq(Records)
  <2> SUFFICES ASSUME NEW u \in Tables, NEW j \in 1..Len(s.selected[u]) PROVE s.selected[u][j].recs \in Seq(Records)
    OBVIOUS
  <2>1. s.selected[u] \in Seq(Selections)
    BY <1>1, StoreTyped
  <2>2. s.selected[u][j] \in Selections
    BY <2>1, Ranged
  <2> QED
    BY <2>2 DEF Selections
<1>8. Placed(t, W, kind2, of2)
  <2>1. Placed(s, W, kind, of)
    BY <1>2 DEF Sound
  <2>2. \A u \in Tables : \A j \in 1..Len(t.selected[u]) :
          SelectionSound(t, u, j, kind2, of2)
    <3> SUFFICES ASSUME NEW u \in Tables, NEW j \in 1..Len(s.selected[u])
                 PROVE  /\ IsInjective(t.selected[u][j].recs)
                        /\ \A q \in Records : q \in Range(t.selected[u][j].recs) =>
                             kind2[q] = "selected" /\ of2[q] = s.selected[u][j].view
      BY <2>1 DEF Placed, SelectionSound
    <3> DEFINE e == s.selected[u][j].recs
    <3>1. e \in Seq(Records) /\ IsInjective(e)
      BY <1>7, <2>1 DEF Placed, SelectionSound
    <3>2. \A q \in Records : q \in Range(e) => kind[q] = "selected" /\ of[q] = s.selected[u][j].view /\ q # r
      BY <1>3, <2>1 DEF Placed, SelectionSound
    <3>3. r \notin Range(e)
      BY <3>2
    <3>4. CASE u = Home[v] /\ j = i
      <4>1. t.selected[u][j].recs = Append(e, r)
        BY <3>4
      <4>2. s.selected[u][j].view = v
        BY <3>4
      <4> HIDE DEF e
      <4>3. IsInjective(Append(e, r)) /\ \A q : q \in Range(Append(e, r)) <=> q \in Range(e) \/ q = r
        BY <3>1, <3>3, Appended
      <4> QED
        BY <1>4, <3>2, <4>1, <4>2, <4>3
    <3>5. CASE ~(u = Home[v] /\ j = i)
      <4>1. t.selected[u][j].recs = e
        BY <3>5
      <4> HIDE DEF e
      <4> QED
        BY <1>4, <3>1, <3>2, <4>1
    <3> QED
      BY <3>4, <3>5
  <2> QED
    BY <1>3, <1>4, <2>1, <2>2 DEF Placed, SelectionSound
<1>9. Refers(t, kind2, of2)
  <2> SUFFICES ASSUME NEW p \in Records, t.rec[p] # Freed
        PROVE  RecordSound(t, p, kind2, of2)
    BY DEF Refers, RecordSound
  <2>1. Refers(s, kind, of)
    BY <1>2 DEF Sound
  <2>2. s.cell[c] # Freed
    BY <1>1 DEF Good, RowsApart
  <2>3. CASE p = r
    BY <1>1, <1>4, <2>2, <2>3 DEF RecordSound
  <2>4. CASE p # r
    <3>1. s.rec[p] # Freed /\ t.rec[p] = s.rec[p] /\ s.rec[p].cell \in Cells
      BY <1>1, <2>4, Refered
    <3> QED
      BY <1>1, <1>4, <2>1, <2>4, <3>1 DEF Refers, RecordSound
  <2> QED
    BY <2>3, <2>4
<1>10. Counted(t)
  <2>1. Observed(t) = Observed(s)
    BY DEF Observed
  <2>2. r \notin Observed(s)
    BY <1>2, <1>3, HistoryAssumption DEF Observed, Sound, Placed, SelectionSound
  <2> SUFFICES ASSUME NEW k \in Interfaces, NEW d \in Cells, d \in Range(t.rows[Home[k]])
               PROVE  t.cell[d].count >= Cardinality(Refs(t, d)) + Cardinality(Refs(t, d) \cap Observed(t))
    BY DEF Counted
  <2>3. s.cell[d].count >= Cardinality(Refs(s, d)) + Cardinality(Refs(s, d) \cap Observed(s))
    BY DEF Good, Counted
  <2>4. s.cell[d] # Freed /\ s.cell[d].count \in Nat /\ t.cell[d].count \in Nat
    <3>1. Home[k] \in Tables
      BY StoreAssumption, HistoryAssumption
    <3>2. s.cell[d] # Freed /\ t.cell[d] # Freed
      BY <3>1 DEF Good, RowsApart
    <3> QED
      BY <1>1, <3>2, CellTyped
  <2>5. /\ Cardinality(Refs(s, d)) \in Nat /\ Cardinality(Refs(s, d) \cap Observed(s)) \in Nat
        /\ IsFiniteSet(Refs(s, d))
    BY RefsFinite
  <2>6. CASE d = c
    <3>1. r \notin Refs(s, d) /\ Refs(t, d) = Refs(s, d) \cup {r}
      BY <2>6 DEF Refs
    <3>2. Refs(t, d) \cap Observed(t) = Refs(s, d) \cap Observed(s)
      BY <2>1, <2>2, <3>1
    <3> DEFINE S == Refs(s, d)
    <3>3. Cardinality(S \cup {r}) = Cardinality(S) + 1
      <4>1. IsFiniteSet(S) /\ r \notin S
        BY <2>5, <3>1
      <4> HIDE DEF S
      <4> QED
        BY <4>1, FS_AddElement
    <3>4. t.cell[d].count = s.cell[d].count + 1
      BY <2>6
    <3>5. Cardinality(Refs(t, d)) = Cardinality(Refs(s, d)) + 1
      BY <3>1, <3>3
    <3> DEFINE m == Cardinality(Refs(s, d))
               n == Cardinality(Refs(s, d) \cap Observed(s))
    <3>6. s.cell[d].count >= m + n /\ m \in Nat /\ n \in Nat
      BY <2>3, <2>5
    <3>7. Cardinality(Refs(t, d)) = m + 1 /\ Cardinality(Refs(t, d) \cap Observed(t)) = n
      BY <3>2, <3>5
    <3> HIDE DEF m, n
    <3> QED
      BY <2>4, <3>4, <3>6, <3>7
  <2>7. CASE d # c
    <3>1. Refs(t, d) = Refs(s, d)
      BY <2>7 DEF Refs
    <3>2. t.cell[d].count >= s.cell[d].count
      BY <2>4
    <3> QED
      BY <2>1, <2>3, <2>4, <2>5, <3>1, <3>2
  <2> QED
    BY <2>6, <2>7
<1> QED
  BY <1>5, <1>6, <1>8, <1>9, <1>10 DEF Good, Sound

\* A view that has selected nothing gets an empty selection.
LEMMA ListedGood ==
  ASSUME OwnedTables, NEW s, NEW W \in SUBSET Records, Good(s, W), NEW t \in Stores, SameRules(s, t),
         t.rows = s.rows, t.list = s.list, t.new = s.new, t.cell = s.cell, t.rec = s.rec,
         NEW v \in Observers,
         \A i \in 1..Len(s.selected[Home[v]]) : s.selected[Home[v]][i].view # v,
         t.selected = [s.selected EXCEPT ![Home[v]] = Append(@, [view |-> v, recs |-> << >>])]
  PROVE  Good(t, W)
<1>1. s \in Stores /\ v \in Views /\ Home[v] \in Tables
  BY StoreAssumption, HistoryAssumption DEF Good
<1> DEFINE new == [view |-> v, recs |-> << >>]
           old == s.selected[Home[v]]
<1>2. s.selected \in [Tables -> Seq(Selections)] /\ old \in Seq(Selections) /\ new \in Selections
  <2>1. s.selected \in [Tables -> Seq(Selections)]
    BY <1>1, StoreTyped
  <2>2. << >> \in Seq(Records) /\ v \in Views
    BY <1>1
  <2> QED
    BY <1>1, <2>1, <2>2 DEF Selections
<1>3. /\ Len(Append(old, new)) = Len(old) + 1 /\ Len(old) \in Nat
      /\ \A k \in 1..Len(old) : Append(old, new)[k] = old[k]
      /\ Append(old, new)[Len(old) + 1] = new
  <2> HIDE DEF old, new
  <2> QED
    BY <1>2, Appended
<1>4. new.view = v /\ new.recs = << >> /\ Range(<< >>) = {} /\ IsInjective(<< >>)
  BY Ranged DEF Range, IsInjective
<1>5. ASSUME NEW kind, NEW of, Placed(s, W, kind, of) PROVE Placed(t, W, kind, of)
  <2>1. \A u \in Tables : \A j \in 1..Len(t.selected[u]) :
          SelectionSound(t, u, j, kind, of)
    <3> SUFFICES ASSUME NEW u \in Tables, NEW j \in 1..Len(t.selected[u])
                 PROVE  SelectionSound(t, u, j, kind, of)
      OBVIOUS
    <3>1. CASE u # Home[v]
      <4>1. t.selected[u] = s.selected[u]
        BY <1>2, <3>1
      <4>2. SelectionSound(s, u, j, kind, of)
        BY <1>5, <4>1 DEF Placed
      <4> QED
        BY <4>1, <4>2 DEF SelectionSound
    <3>2. CASE u = Home[v]
      <4>1. t.selected[u] = Append(old, new)
        BY <1>1, <1>2, <3>2
      <4>2. \A k \in 1..Len(old) :
              /\ IsInjective(old[k].recs) /\ old[k].view \in Observers /\ Home[old[k].view] = u /\ old[k].view # v
              /\ \A q \in Records : q \in Range(old[k].recs) => kind[q] = "selected" /\ of[q] = old[k].view
              /\ \A l \in 1..Len(old) : old[l].view = old[k].view => l = k
        BY <1>1, <1>5, <3>2 DEF Placed, SelectionSound
      <4> HIDE DEF old, new
      <4>3. j \in 1..Len(old) \/ j = Len(old) + 1
        BY <1>3, <4>1
      <4> DEFINE all == Append(old, new)
      <4>4. \A k \in 1..Len(all) : (k \in 1..Len(old) /\ all[k] = old[k]) \/ (k = Len(old) + 1 /\ all[k] = new)
        BY <1>3
      <4> HIDE DEF all
      <4>5. j \in 1..Len(all) /\ t.selected[u] = all
        BY <4>1 DEF all
      <4>6. CASE j \in 1..Len(old) /\ all[j] = old[j]
        <5>1. \A k \in 1..Len(all) : all[k].view = old[j].view => k = j
          BY <1>4, <4>2, <4>4, <4>6
        <5>2. /\ IsInjective(old[j].recs) /\ old[j].view \in Observers /\ Home[old[j].view] = u
              /\ \A q \in Records : q \in Range(old[j].recs) => kind[q] = "selected" /\ of[q] = old[j].view
          BY <4>2, <4>6
        <5> QED
          BY <4>5, <4>6, <5>1, <5>2 DEF SelectionSound
      <4>7. CASE j = Len(old) + 1 /\ all[j] = new
        <5>1. \A k \in 1..Len(all) : all[k].view = v => k = j
          BY <4>2, <4>4, <4>7
        <5> QED
          BY <1>4, <3>2, <4>5, <4>7, <5>1 DEF SelectionSound
      <4> QED
        BY <4>4, <4>5, <4>6, <4>7
    <3> QED
      BY <3>1, <3>2
  <2> QED
    BY <1>5, <2>1 DEF Placed, SelectionSound
<1>6. \A kind, of : Refers(s, kind, of) => Refers(t, kind, of)
  BY DEF Refers, RecordSound
<1>7. Governed(t) /\ RowsApart(t)
  BY GovernedKept DEF Good, RowsApart
<1>8. Counted(t)
  BY DEF Good, Counted, Refs, Observed
<1> QED
  BY <1>5, <1>6, <1>7, <1>8 DEF Good, Sound

\* What leaves a list, or the new ones, or the last selection.
LEMMA ShrunkSound ==
  ASSUME OwnedTables, NEW s \in Stores, NEW W, NEW kind, NEW of, Sound(s, W, kind, of), NEW t \in Stores,
         t.cell = s.cell, t.rec = s.rec, t.rows = s.rows,
         \A u \in Views : /\ IsInjective(t.list[u]) /\ t.new[u] \subseteq s.new[u]
                          /\ \A q \in Records : q \in Range(t.list[u]) => q \in Range(s.list[u]),
         \A u \in Tables : /\ Len(t.selected[u]) <= Len(s.selected[u])
                           /\ \A j \in 1..Len(t.selected[u]) : t.selected[u][j] = s.selected[u][j]
  PROVE  Sound(t, W, kind, of)
<1>1. \A u \in Tables : Len(t.selected[u]) \in Nat /\ Len(s.selected[u]) \in Nat
  BY StoreTyped, LenProperties
<1>2. \A u \in Tables : \A j \in 1..Len(t.selected[u]) : SelectionSound(t, u, j, kind, of)
  <2> SUFFICES ASSUME NEW u \in Tables, NEW j \in 1..Len(t.selected[u]) PROVE SelectionSound(t, u, j, kind, of)
    OBVIOUS
  <2>1. \A k \in 1..Len(t.selected[u]) : k \in 1..Len(s.selected[u]) /\ t.selected[u][k] = s.selected[u][k]
    BY <1>1
  <2>2. SelectionSound(s, u, j, kind, of)
    BY <2>1 DEF Sound, Placed
  <2> QED
    BY <2>1, <2>2 DEF SelectionSound
<1>3. Placed(t, W, kind, of)
  BY <1>2 DEF Sound, Placed
<1>4. Refers(t, kind, of)
  BY DEF Sound, Refers, RecordSound
<1> QED
  BY <1>3, <1>4 DEF Sound

\* Counts suffice when observers list fewer Records.
LEMMA FewerObserved ==
  ASSUME OwnedTables, NEW s \in Stores, NEW t \in Stores, RowsApart(s), Counted(s),
         t.cell = s.cell, t.rec = s.rec, t.rows = s.rows,
         \A u \in Views, q \in Records : q \in Range(t.list[u]) => q \in Range(s.list[u])
  PROVE  Counted(t)
<1> SUFFICES ASSUME NEW i \in Interfaces, NEW c \in Cells, c \in Range(t.rows[Home[i]])
             PROVE  t.cell[c].count >= Cardinality(Refs(t, c)) + Cardinality(Refs(t, c) \cap Observed(t))
  BY DEF Counted
<1> DEFINE m == Cardinality(Refs(s, c))
           n == Cardinality(Refs(s, c) \cap Observed(s))
           k == Cardinality(Refs(s, c) \cap Observed(t))
<1>1. Refs(t, c) = Refs(s, c)
  BY DEF Refs
<1>2. Refs(s, c) \cap Observed(t) \subseteq Refs(s, c) \cap Observed(s)
  BY HistoryAssumption DEF Observed
<1>3. m \in Nat /\ n \in Nat /\ k \in Nat
  BY RefsFinite
<1>4. k <= n
  BY <1>2, RefsFinite, FS_Subset
<1>5. s.cell[c].count >= m + n /\ s.cell[c].count \in Nat
  <2>1. s.cell[c] # Freed
    BY StoreAssumption, HistoryAssumption DEF RowsApart
  <2> QED
    BY <2>1, CellTyped DEF Counted
<1>6. Cardinality(Refs(t, c)) = m /\ Cardinality(Refs(t, c) \cap Observed(t)) = k
  BY <1>1
<1> HIDE DEF m, n, k
<1> QED
  BY <1>3, <1>4, <1>5, <1>6

\* An observer gives a Record back, with the reference it counted.
LEMMA UnselectedGood ==
  ASSUME OwnedTables, NEW s, NEW W \in SUBSET Records, Good(s, W), NEW t \in Stores, SameRules(s, t),
         t.rec = s.rec, t.rows = s.rows, t.new = s.new, t.selected = s.selected,
         NEW v \in Observers, NEW r \in Records, r \in Range(s.list[v]), NEW c \in Cells, c = s.rec[r].cell,
         s.rec[r] # Freed,
         t.cell[c] # Freed, t.cell[c].count + 1 = s.cell[c].count, \A d \in Cells : d # c => t.cell[d] = s.cell[d],
         \A u \in Views : IsInjective(t.list[u]),
         \A u \in Views, q \in Records : q \in Range(t.list[u]) <=> q \in Range(s.list[u]) /\ ~(u = v /\ q = r)
  PROVE  Good(t, W)
<1>1. s \in Stores /\ v \in Views
  BY HistoryAssumption DEF Good
<1>2. PICK kind \in [Records -> Kinds], of \in [Records -> Views \cup {None}] : Sound(s, W, kind, of)
  BY DEF Good
<1>3. Governed(t)
  BY GovernedKept DEF Good
<1>4. RowsApart(t)
  BY DEF Good, RowsApart
<1>5. Sound(t, W, kind, of)
  <2>1. \A q \in Records : s.rec[q] # Freed => s.rec[q].cell \in Cells
    BY <1>1, Refered
  <2>2. Placed(t, W, kind, of)
    BY <1>2 DEF Sound, Placed, SelectionSound
  <2>3. Refers(t, kind, of)
    BY <1>2, <2>1 DEF Sound, Refers, RecordSound
  <2> QED
    BY <2>2, <2>3 DEF Sound
<1>6. Counted(t)
  <2> SUFFICES ASSUME NEW i \in Interfaces, NEW d \in Cells, d \in Range(t.rows[Home[i]])
               PROVE  t.cell[d].count >= Cardinality(Refs(t, d)) + Cardinality(Refs(t, d) \cap Observed(t))
    BY DEF Counted
  <2> DEFINE m == Cardinality(Refs(s, d))
             S == Refs(s, d) \cap Observed(s)
             n == Cardinality(S)
  <2>1. Refs(t, d) = Refs(s, d)
    BY DEF Refs
  <2>2. \A q \in Records : q \in Observed(t) <=> q \in Observed(s) /\ q # r
    <3>1. \A o \in Observers, q \in Records : q \in Range(s.list[o]) /\ q = r => o = v
      BY <1>1, <1>2, HistoryAssumption DEF Sound, Placed
    <3> QED
      BY <3>1, HistoryAssumption DEF Observed
  <2>3. m \in Nat /\ n \in Nat /\ IsFiniteSet(S)
    BY RefsFinite
  <2>4. s.cell[d].count >= m + n /\ s.cell[d].count \in Nat /\ t.cell[d].count \in Nat
    <3>1. Home[i] \in Tables
      BY StoreAssumption, HistoryAssumption
    <3>2. s.cell[d] # Freed /\ t.cell[d] # Freed
      BY <1>4, <3>1 DEF Good, RowsApart
    <3> QED
      BY <1>1, <3>2, CellTyped DEF Good, Counted
  <2>5. Refs(t, d) \cap Observed(t) = S \ {r}
    BY <2>1, <2>2 DEF Refs, Observed
  <2>6. CASE d = c
    <3>1. r \in S
      BY <2>6 DEF Refs, Observed
    <3>2. Cardinality(S \ {r}) = n - 1
      <4> HIDE DEF S
      <4> QED
        BY <2>3, <3>1, FS_RemoveElement
    <3>3. Cardinality(Refs(t, d)) = m /\ Cardinality(Refs(t, d) \cap Observed(t)) = n - 1
      BY <2>1, <2>5, <3>2
    <3>4. t.cell[d].count + 1 = s.cell[d].count
      BY <2>6
    <3> HIDE DEF m, n
    <3> QED
      BY <2>3, <2>4, <3>3, <3>4
  <2>7. CASE d # c
    <3>1. r \notin S
      BY <2>7 DEF Refs
    <3>2. Cardinality(Refs(t, d)) = m /\ Cardinality(Refs(t, d) \cap Observed(t)) = n
      <4>1. S \ {r} = S
        BY <3>1
      <4> QED
        BY <2>1, <2>5, <4>1
    <3>3. t.cell[d] = s.cell[d]
      BY <2>7
    <3> HIDE DEF m, n
    <3> QED
      BY <2>3, <2>4, <3>2, <3>3
  <2> QED
    BY <2>6, <2>7
<1> QED
  BY <1>1, <1>3, <1>4, <1>5, <1>6 DEF Good

IsSound(s, W, kind, of) ==
  /\ s \in Stores /\ Governed(s) /\ RowsApart(s) /\ Counted(s)
  /\ kind \in [Records -> Kinds] /\ of \in [Records -> Views \cup {None}] /\ Sound(s, W, kind, of)
\* Soundness with known places.
LEMMA IsGood ==
  ASSUME NEW s, NEW W, NEW kind, NEW of, IsSound(s, W, kind, of)
  PROVE  Good(s, W)
BY DEF IsSound, Good

\* The view that made the selection has no other, and the Record is in it.
OfSelection(s, kind, of, r, w) ==
  /\ kind[r] = "selected" /\ of[r] = w
  /\ \A u \in Tables : \A j \in 1..Len(s.selected[u]) : s.selected[u][j].view # w
SamePlace(s, t) == t.selected = s.selected /\ t.pending = s.pending /\ t.rows = s.rows
Imports(s, t, v, r, c) ==
  /\ t.rows = s.rows /\ t.new = s.new /\ t.selected = s.selected
  /\ t.list = [s.list EXCEPT ![v] = Append(@, r)]
  /\ \A d \in Cells : s.cell[d] # Freed => t.cell[d] # Freed /\ t.cell[d].count >= s.cell[d].count
  /\ t.cell[c].count = s.cell[c].count + 1
  /\ t.rec[r] # Freed /\ t.rec[r].cell = c /\ t.rec[r].auto = s.rec[r].auto
  /\ \A q \in Records : q # r => t.rec[q] = s.rec[q]
SoundElsewhere(t, W, kind, of, r) ==
  \E kind2 \in [Records -> Kinds], of2 \in [Records -> Views \cup {None}] :
    /\ IsSound(t, W, kind2, of2)
    /\ \A q \in Records : q # r => kind2[q] = kind[q] /\ of2[q] = of[q]
\* A Record that was selected goes to the list of an observer, counted once more.
LEMMA ImportsSound ==
  ASSUME OwnedTables, NEW s, NEW W \in SUBSET Records, NEW kind, NEW of, IsSound(s, W, kind, of),
         NEW t \in Stores, SameRules(s, t), NEW v \in Observers, NEW w, Home[w] = Home[v],
         NEW r \in Records, s.rec[r] # Freed,
         OfSelection(s, kind, of, r, w), NEW c, c = s.rec[r].cell, Imports(s, t, v, r, c)
  PROVE  SoundElsewhere(t, W, kind, of, r)
<1>a. /\ s \in Stores /\ Governed(s) /\ RowsApart(s) /\ Counted(s)
      /\ kind \in [Records -> Kinds] /\ of \in [Records -> Views \cup {None}] /\ Sound(s, W, kind, of)
  BY DEF IsSound
<1>b. /\ kind[r] = "selected" /\ Home[of[r]] = Home[v]
      /\ \A u \in Tables : \A j \in 1..Len(s.selected[u]) : s.selected[u][j].view # of[r]
  BY DEF OfSelection
<1>c. /\ t.rows = s.rows /\ t.new = s.new /\ t.selected = s.selected
      /\ t.list = [s.list EXCEPT ![v] = Append(@, r)]
      /\ \A d \in Cells : s.cell[d] # Freed => t.cell[d] # Freed /\ t.cell[d].count >= s.cell[d].count
      /\ t.cell[c].count = s.cell[c].count + 1
      /\ t.rec[r] # Freed /\ t.rec[r].cell = c /\ t.rec[r].auto = s.rec[r].auto
      /\ \A q \in Records : q # r => t.rec[q] = s.rec[q]
  BY DEF Imports
<1> USE <1>a, <1>b, <1>c
<1>1. v \in Views /\ Home[v] \in Tables /\ v \notin Owners /\ v \notin Editors
  BY StoreAssumption, HistoryAssumption DEF OwnedTables, Owners
<1>2. PICK kind2 \in [Records -> Kinds], of2 \in [Records -> Views \cup {None}] :
        /\ kind2[r] = "listed" /\ of2[r] = v
        /\ \A q \in Records : q # r => kind2[q] = kind[q] /\ of2[q] = of[q]
  <2>1. \E kind2, of2 : Relocated(kind, of, r, "listed", v, kind2, of2)
    BY <1>1, Moved, KindsAre
  <2> QED
    BY <2>1 DEF Relocated
<1>3. /\ c \in Cells /\ c \in Range(s.rows[Home[v]]) /\ s.cell[c] # Freed /\ s.rec[r].auto
      /\ s.cell[c].count \in Nat
  BY Refered, CellTyped DEF Sound, Refers, RecordSound
<1>4. \A u \in Views : s.list[u] \in Seq(Records) /\ r \notin Range(s.list[u])
  BY StoreTyped DEF Sound, Placed
<1>5. \A u \in Views, q \in Records : q \in Range(t.list[u]) <=> q \in Range(s.list[u]) \/ (u = v /\ q = r)
  <2>1. s.list \in [Views -> Seq(Records)]
    BY StoreTyped
  <2>2. \A q : q \in Range(Append(s.list[v], r)) <=> q \in Range(s.list[v]) \/ q = r
    BY <1>1, <1>4, Appended
  <2> QED
    BY <1>1, <2>1, <2>2
<1>6. \A u \in Views : IsInjective(t.list[u])
  <2>1. s.list \in [Views -> Seq(Records)] /\ \A u \in Views : IsInjective(s.list[u])
    BY StoreTyped DEF Sound, Placed
  <2>2. IsInjective(Append(s.list[v], r))
    BY <1>1, <1>4, <2>1, Appended
  <2> QED
    BY <1>1, <2>1, <2>2
<1>7. RowsApart(t)
  BY DEF RowsApart
<1>8. Placed(t, W, kind2, of2)
  <2>1. Placed(s, W, kind, of)
    BY DEF Sound
  <2>2. \A u \in Views, q \in Records : q \in Range(t.list[u]) => kind2[q] = "listed" /\ of2[q] = u
    BY <1>2, <1>4, <1>5, <2>1 DEF Placed
  <2>3. \A u \in Tables : \A j \in 1..Len(t.selected[u]) : SelectionSound(t, u, j, kind2, of2)
    <3> SUFFICES ASSUME NEW u \in Tables, NEW j \in 1..Len(s.selected[u]) PROVE SelectionSound(t, u, j, kind2, of2)
      OBVIOUS
    <3>1. SelectionSound(s, u, j, kind, of)
      BY <2>1 DEF Placed
    <3>2. r \notin Range(s.selected[u][j].recs)
      BY <3>1 DEF SelectionSound
    <3> QED
      BY <1>2, <3>1, <3>2 DEF SelectionSound
  <2> QED
    BY <1>2, <1>6, <2>1, <2>2, <2>3 DEF Placed
<1>9. Refers(t, kind2, of2)
  <2> SUFFICES ASSUME NEW p \in Records, t.rec[p] # Freed PROVE RecordSound(t, p, kind2, of2)
    BY DEF Refers
  <2>1. CASE p = r
    BY <1>1, <1>2, <1>3, <2>1 DEF RecordSound
  <2>2. CASE p # r
    <3>1. s.rec[p] # Freed /\ t.rec[p] = s.rec[p] /\ s.rec[p].cell \in Cells
      BY <2>2, Refered
    <3> QED
      BY <1>1, <1>2, <2>2, <3>1 DEF Sound, Refers, RecordSound
  <2> QED
    BY <2>1, <2>2
<1>10. Counted(t)
  <2> SUFFICES ASSUME NEW i \in Interfaces, NEW d \in Cells, d \in Range(t.rows[Home[i]])
               PROVE  t.cell[d].count >= Cardinality(Refs(t, d)) + Cardinality(Refs(t, d) \cap Observed(t))
    BY DEF Counted
  <2> DEFINE m == Cardinality(Refs(s, d))
             S == Refs(s, d) \cap Observed(s)
             n == Cardinality(S)
  <2>1. Refs(t, d) = Refs(s, d)
    BY DEF Refs
  <2>2. \A q \in Records : q \in Observed(t) <=> q \in Observed(s) \/ q = r
    BY <1>5, HistoryAssumption DEF Observed
  <2>3. r \notin Observed(s)
    BY <1>4, HistoryAssumption DEF Observed
  <2>4. m \in Nat /\ n \in Nat /\ IsFiniteSet(S)
    BY RefsFinite
  <2>5. /\ s.cell[d].count >= m + n /\ s.cell[d].count \in Nat /\ t.cell[d].count \in Nat
        /\ t.cell[d].count >= s.cell[d].count
    <3>1. Home[i] \in Tables
      BY StoreAssumption, HistoryAssumption
    <3>2. s.cell[d] # Freed /\ t.cell[d] # Freed
      BY <3>1 DEF RowsApart
    <3> QED
      BY <3>2, CellTyped DEF Counted
  <2>6. CASE d = c
    <3>1. r \notin S /\ Refs(t, d) \cap Observed(t) = S \cup {r}
      BY <2>1, <2>2, <2>3, <2>6 DEF Refs, Observed
    <3>2. Cardinality(S \cup {r}) = n + 1
      <4> HIDE DEF S
      <4> QED
        BY <2>4, <3>1, FS_AddElement
    <3>3. Cardinality(Refs(t, d)) = m /\ Cardinality(Refs(t, d) \cap Observed(t)) = n + 1
      BY <2>1, <3>1, <3>2
    <3>4. t.cell[d].count = s.cell[d].count + 1
      BY <2>6
    <3> HIDE DEF m, n
    <3> QED
      BY <2>4, <2>5, <3>3, <3>4
  <2>7. CASE d # c
    <3>1. Refs(t, d) \cap Observed(t) = S
      BY <2>1, <2>2, <2>7 DEF Refs, Observed
    <3>2. Cardinality(Refs(t, d)) = m /\ Cardinality(Refs(t, d) \cap Observed(t)) = n
      BY <2>1, <3>1
    <3> HIDE DEF m, n
    <3> QED
      BY <2>4, <2>5, <3>2
  <2> QED
    BY <2>6, <2>7
<1> QED
  <2>1. Governed(t)
    BY GovernedKept
  <2>2. Sound(t, W, kind2, of2)
    BY <1>8, <1>9 DEF Sound
  <2> QED
    BY <1>2, <1>7, <1>10, <2>1, <2>2 DEF SoundElsewhere, IsSound

\* A Record that is in no place any more is deleted.
Destroys(s, t, r, c) ==
  /\ t.rows = s.rows /\ t.new = s.new /\ t.selected = s.selected /\ t.list = s.list
  /\ t.cell[c] # Freed /\ t.cell[c].count + 1 = s.cell[c].count /\ \A d \in Cells : d # c => t.cell[d] = s.cell[d]
  /\ t.rec[r] = Freed /\ \A q \in Records : q # r => t.rec[q] = s.rec[q]
\* A Record that is in no list any more is destroyed.
LEMMA DestroyedSound ==
  ASSUME OwnedTables, NEW s, NEW W \in SUBSET Records, NEW kind, NEW of, IsSound(s, W, kind, of),
         NEW t \in Stores, SameRules(s, t),
         NEW v \in Views, NEW r \in Records, kind[r] \in {"listed", "new"}, of[r] = v,
         s.rec[r] # Freed, r \notin Range(s.list[v]), r \notin s.new[v],
         NEW c \in Cells, c = s.rec[r].cell, Destroys(s, t, r, c)
  PROVE  SoundElsewhere(t, W, kind, of, r)
<1>a. /\ s \in Stores /\ Governed(s) /\ RowsApart(s) /\ Counted(s)
      /\ kind \in [Records -> Kinds] /\ of \in [Records -> Views \cup {None}] /\ Sound(s, W, kind, of)
  BY DEF IsSound
<1>b. /\ t.rows = s.rows /\ t.new = s.new /\ t.selected = s.selected /\ t.list = s.list
      /\ t.cell[c] # Freed /\ t.cell[c].count + 1 = s.cell[c].count /\ \A d \in Cells : d # c => t.cell[d] = s.cell[d]
      /\ t.rec[r] = Freed /\ \A q \in Records : q # r => t.rec[q] = s.rec[q]
  BY DEF Destroys
<1> USE <1>a, <1>b
<1>1. PICK kind2 \in [Records -> Kinds], of2 \in [Records -> Views \cup {None}] :
        /\ kind2[r] = "nowhere" /\ of2[r] = None
        /\ \A q \in Records : q # r => kind2[q] = kind[q] /\ of2[q] = of[q]
  <2>1. \E kind2, of2 : Relocated(kind, of, r, "nowhere", None, kind2, of2)
    BY Moved, KindsAre
  <2> QED
    BY <2>1 DEF Relocated
<1>2. RowsApart(t)
  BY DEF RowsApart
<1>3. Placed(t, W, kind2, of2)
  <2>1. Placed(s, W, kind, of)
    BY DEF Sound
  <2>2. \A u \in Views : r \notin Range(s.list[u]) /\ r \notin s.new[u]
    BY <2>1 DEF Placed
  <2>3. \A u \in Tables : \A j \in 1..Len(t.selected[u]) : SelectionSound(t, u, j, kind2, of2)
    <3> SUFFICES ASSUME NEW u \in Tables, NEW j \in 1..Len(s.selected[u]) PROVE SelectionSound(t, u, j, kind2, of2)
      OBVIOUS
    <3>1. SelectionSound(s, u, j, kind, of)
      BY <2>1 DEF Placed
    <3>2. r \notin Range(s.selected[u][j].recs)
      BY <3>1 DEF SelectionSound
    <3> QED
      BY <1>1, <3>1, <3>2 DEF SelectionSound
  <2> QED
    BY <1>1, <2>1, <2>2, <2>3 DEF Placed
<1>4. Refers(t, kind2, of2)
  <2> SUFFICES ASSUME NEW p \in Records, t.rec[p] # Freed PROVE RecordSound(t, p, kind2, of2)
    BY DEF Refers
  <2>1. p # r /\ s.rec[p] # Freed /\ t.rec[p] = s.rec[p] /\ s.rec[p].cell \in Cells
    BY Refered
  <2> QED
    BY <1>1, <2>1 DEF Sound, Refers, RecordSound
<1>5. Counted(t)
  <2> SUFFICES ASSUME NEW i \in Interfaces, NEW d \in Cells, d \in Range(t.rows[Home[i]])
               PROVE  t.cell[d].count >= Cardinality(Refs(t, d)) + Cardinality(Refs(t, d) \cap Observed(t))
    BY DEF Counted
  <2> DEFINE S == Refs(s, d)
             m == Cardinality(S)
             n == Cardinality(Refs(s, d) \cap Observed(s))
  <2>1. Observed(t) = Observed(s)
    BY DEF Observed
  <2>2. r \notin Observed(s)
    BY HistoryAssumption DEF Observed, Sound, Placed
  <2>3. m \in Nat /\ n \in Nat /\ IsFiniteSet(S)
    BY RefsFinite
  <2>4. s.cell[d].count >= m + n /\ s.cell[d].count \in Nat /\ t.cell[d].count \in Nat
    <3>1. Home[i] \in Tables
      BY StoreAssumption, HistoryAssumption
    <3>2. s.cell[d] # Freed /\ t.cell[d] # Freed
      BY <3>1 DEF RowsApart
    <3> QED
      BY <3>2, CellTyped DEF Counted
  <2>5. Refs(t, d) = S \ {r}
    BY DEF Refs
  <2>6. Refs(t, d) \cap Observed(t) = Refs(s, d) \cap Observed(s)
    BY <2>1, <2>2, <2>5
  <2>7. CASE d = c
    <3>1. r \in S
      BY <2>7 DEF Refs
    <3>2. Cardinality(S \ {r}) = m - 1
      <4> HIDE DEF S
      <4> QED
        BY <2>3, <3>1, FS_RemoveElement
    <3>3. Cardinality(Refs(t, d)) = m - 1 /\ Cardinality(Refs(t, d) \cap Observed(t)) = n
      BY <2>5, <2>6, <3>2
    <3>4. t.cell[d].count + 1 = s.cell[d].count
      BY <2>7
    <3> HIDE DEF m, n
    <3> QED
      BY <2>3, <2>4, <3>3, <3>4
  <2>8. CASE d # c
    <3>1. S \ {r} = S
      BY <2>8 DEF Refs
    <3>2. Cardinality(Refs(t, d)) = m /\ Cardinality(Refs(t, d) \cap Observed(t)) = n
      BY <2>5, <2>6, <3>1
    <3>3. t.cell[d] = s.cell[d]
      BY <2>8
    <3> HIDE DEF m, n
    <3> QED
      BY <2>3, <2>4, <3>2, <3>3
  <2> QED
    BY <2>7, <2>8
<1>6. Governed(t)
  BY GovernedKept
<1>7. Sound(t, W, kind2, of2)
  BY <1>3, <1>4 DEF Sound
<1> QED
  BY <1>1, <1>2, <1>5, <1>6, <1>7 DEF SoundElsewhere, IsSound

-----------------------------------------------------------------------------
(* What the operations of the store leave alone, and what a commit needs.   *)

AddRecs(s) == {r \in Records : \E k \in 1..Len(s.pending) : s.pending[k].oper = "Add" /\ s.pending[k].rec = r}

\* A record that an editor lists asks for a change through that editor, if at all.
Edited(s) == \A e \in Editors, r \in Records : r \in Range(s.list[e]) => s.rec[r].view \in {None, e}

\* Editors wait: for what they list to change, or for what they add, each once.
PendingSound(s) ==
  \A k \in 1..Len(s.pending) :
    LET q == s.pending[k]
    IN /\ q.view \in Editors
       /\ q.oper # "Add" => q.rec \in Range(s.list[q.view])
       /\ q.oper = "Modify" => q.value \in Values
       /\ q.oper = "Add" => \A j \in 1..Len(s.pending) :
                              s.pending[j].oper = "Add" /\ s.pending[j].rec = q.rec => j = k
Whole(s) == Good(s, AddRecs(s)) /\ Edited(s) /\ PendingSound(s)

\* The values that the view of an interface holds.
Shown(s, i) == [k \in 1..Len(s.list[i]) |-> s.cell[s.rec[s.list[i][k]].cell].value]

\* What owners list stays as it is.
Kept(s, t) ==
  /\ \A v \in Owners : t.list[v] = s.list[v]
  /\ \A v \in Owners, r \in Records : r \in Range(s.list[v]) => t.rec[r] = s.rec[r]
  /\ \A v \in Owners : Shown(t, v) = Shown(s, v)
ShownKept(s, t) == \A i \in Interfaces : t.list[i] = s.list[i] /\ Shown(t, i) = Shown(s, i)

\* So does what waits: an operation that no owner sees.
Idle(s, t) == Whole(t) /\ Kept(s, t) /\ t.pending = s.pending

\* Editors list what they have listed, with its values.
Worth(s, r) == s.cell[s.rec[r].cell].value
Steady(s, t) ==
  \A e \in Editors, r \in Records : r \in Range(s.list[e]) =>
    r \in Range(t.list[e]) /\ t.rec[r] = s.rec[r] /\ Worth(t, r) = Worth(s, r)

\* Who is who.
LEMMA OwnersAreViews ==
  ASSUME OwnedTables
  PROVE  /\ Owners \subseteq Views /\ Observers \subseteq Views /\ Interfaces \subseteq Owners /\ Editors \subseteq Owners
         /\ \A v \in Views : Home[v] \in Tables
         /\ \A v \in Observers : v \notin Owners
         /\ \A v \in Interfaces : v \notin Editors
BY StoreAssumption, HistoryAssumption DEF Owners, OwnedTables

\* A Record in the list of a view, and what it refers to.
LEMMA Listed ==
  ASSUME OwnedTables, NEW s, NEW W, Good(s, W), NEW v \in Views, NEW r \in Records, r \in Range(s.list[v])
  PROVE  /\ s \in Stores /\ s.rec[r] # Freed /\ s.rec[r] \in RecordStates /\ s.rec[r].cell \in Cells
         /\ s.rec[r].view \in Views \cup {None} /\ s.rec[r].auto \in BOOLEAN
         /\ s.rec[r].cell \in Range(s.rows[Home[v]]) /\ s.cell[s.rec[r].cell] # Freed
         /\ s.cell[s.rec[r].cell] \in CellStates
         /\ \A t \in Tables : t # Home[v] => s.rec[r].cell \notin Range(s.rows[t])
         /\ \A u \in Views : u # v => r \notin Range(s.list[u])
         /\ v \notin Editors => s.rec[r].auto
         /\ v \in Owners => \A q \in Records : q \in Range(s.list[v]) /\ s.rec[q].cell = s.rec[r].cell => q = r
<1>1. PICK kind \in [Records -> Kinds], of \in [Records -> Views \cup {None}] : Sound(s, W, kind, of)
  BY DEF Good
<1>2. s \in Stores /\ Home[v] \in Tables
  BY StoreAssumption DEF Good
<1>3. \A q \in Records : q \in Range(s.list[v]) => kind[q] = "listed" /\ of[q] = v /\ s.rec[q] # Freed
  BY <1>1 DEF Sound, Placed
<1>4. /\ s.rec[r] # Freed /\ s.rec[r] \in RecordStates /\ s.rec[r].cell \in Cells
      /\ s.rec[r].view \in Views \cup {None} /\ s.rec[r].auto \in BOOLEAN
  BY <1>2, <1>3, Refered
<1>5. RecordSound(s, r, kind, of)
  BY <1>1, <1>4 DEF Sound, Refers
<1>6. /\ s.rec[r].cell \in Range(s.rows[Home[v]]) /\ s.cell[s.rec[r].cell] # Freed
      /\ v \notin Editors => s.rec[r].auto
      /\ v \in Owners => \A q \in Records : q \in Range(s.list[v]) /\ s.rec[q].cell = s.rec[r].cell => q = r
  BY <1>3, <1>5 DEF RecordSound
<1>7. s.cell[s.rec[r].cell] \in CellStates
  BY <1>2, <1>4, <1>6, CellTyped
<1>8. \A t \in Tables : t # Home[v] => s.rec[r].cell \notin Range(s.rows[t])
  BY <1>2, <1>4, <1>6 DEF Good, RowsApart
<1>9. \A u \in Views : u # v => r \notin Range(s.list[u])
  BY <1>1, <1>3 DEF Sound, Placed
<1> QED
  BY <1>2, <1>4, <1>6, <1>7, <1>8, <1>9

\* What editors list refers to a TableRecord each.
LEMMA EditedApart ==
  ASSUME OwnedTables, NEW s, NEW W, Good(s, W), NEW v \in Editors, NEW r \in Records, r \in Range(s.list[v]),
         NEW e \in Editors, NEW q \in Records, q \in Range(s.list[e])
  PROVE  s.rec[q] # Freed /\ (s.rec[q].cell = s.rec[r].cell => q = r)
<1>1. v \in Views /\ v \in Owners /\ e \in Views /\ e \in Owners /\ Home[v] \in Tables /\ Home[e] \in Tables
  BY OwnersAreViews
<1>2. s.rec[q] # Freed /\ s.rec[q].cell \in Range(s.rows[Home[e]])
  BY <1>1, Listed
<1>3. CASE e = v
  BY <1>1, <1>2, <1>3, Listed
<1>4. CASE e # v
  <2>1. Home[e] # Home[v]
    BY <1>1, <1>4 DEF OwnedTables
  <2>2. s.rec[r].cell \notin Range(s.rows[Home[e]])
    BY <1>1, <2>1, Listed
  <2> QED
    BY <1>2, <2>2
<1> QED
  BY <1>3, <1>4

\* A Record that is to be added.
LEMMA Unlisted ==
  ASSUME OwnedTables, NEW s, NEW W \in SUBSET Records, Good(s, W), NEW r \in Records,
         (\E v \in Views : r \in s.new[v]) \/ r \in W
  PROVE  /\ s \in Stores /\ s.rec[r] # Freed /\ s.rec[r] \in RecordStates /\ s.rec[r].cell \in Cells
         /\ s.rec[r].view \in Views \cup {None} /\ s.rec[r].auto \in BOOLEAN
         /\ s.cell[s.rec[r].cell] \in CellStates
         /\ \A t \in Tables : s.rec[r].cell \notin Range(s.rows[t])
         /\ \A u \in Views : r \notin Range(s.list[u])
         /\ r \in W => s.rec[r].auto
<1>1. PICK kind \in [Records -> Kinds], of \in [Records -> Views \cup {None}] : Sound(s, W, kind, of)
  BY DEF Good
<1>2. s \in Stores
  BY DEF Good
<1>3. kind[r] \in {"new", "waiting"} /\ s.rec[r] # Freed /\ (r \in W => kind[r] = "waiting")
  BY <1>1 DEF Sound, Placed
<1>4. /\ s.rec[r] \in RecordStates /\ s.rec[r].cell \in Cells
      /\ s.rec[r].view \in Views \cup {None} /\ s.rec[r].auto \in BOOLEAN
  BY <1>2, <1>3, Refered
<1>5. RecordSound(s, r, kind, of)
  BY <1>1, <1>3 DEF Sound, Refers
<1>6. /\ \A t \in Tables : s.rec[r].cell \notin Range(s.rows[t])
      /\ s.cell[s.rec[r].cell] # Freed /\ (r \in W => s.rec[r].auto)
  BY <1>3, <1>5 DEF RecordSound
<1>7. s.cell[s.rec[r].cell] \in CellStates
  BY <1>2, <1>4, <1>6, CellTyped
<1>8. \A u \in Views : r \notin Range(s.list[u])
  BY <1>1, <1>3 DEF Sound, Placed
<1> QED
  BY <1>2, <1>3, <1>4, <1>6, <1>7, <1>8

\* Records of interfaces that stay, and values of their rows.
LEMMA ShownSame ==
  ASSUME OwnedTables, NEW s, NEW W, Good(s, W), NEW t,
         \A v \in Owners : t.list[v] = s.list[v],
         \A v \in Owners, r \in Records : r \in Range(s.list[v]) => t.rec[r] = s.rec[r],
         \A v \in Owners, c \in Cells : c \in Range(s.rows[Home[v]]) => t.cell[c].value = s.cell[c].value
  PROVE  Kept(s, t)
<1> SUFFICES ASSUME NEW i \in Owners PROVE Shown(t, i) = Shown(s, i)
  BY DEF Kept
<1>1. i \in Owners /\ i \in Views /\ s \in Stores
  BY OwnersAreViews DEF Good
<1>2. t.list[i] = s.list[i] /\ s.list[i] \in Seq(Records)
  BY <1>1, StoreTyped
<1>3. \A k \in 1..Len(s.list[i]) : s.list[i][k] \in Records /\ s.list[i][k] \in Range(s.list[i])
  BY <1>2, Ranged
<1>4. ASSUME NEW k \in 1..Len(s.list[i])
      PROVE  t.cell[t.rec[t.list[i][k]].cell].value = s.cell[s.rec[s.list[i][k]].cell].value
  <2> DEFINE r == s.list[i][k]
  <2>1. r \in Records /\ r \in Range(s.list[i]) /\ t.rec[r] = s.rec[r]
    BY <1>1, <1>3
  <2>2. s.rec[r].cell \in Cells /\ s.rec[r].cell \in Range(s.rows[Home[i]])
    BY <1>1, <2>1, Listed
  <2> HIDE DEF r
  <2>3. t.cell[s.rec[r].cell].value = s.cell[s.rec[r].cell].value
    BY <2>2
  <2> QED
    BY <1>2, <2>1, <2>3 DEF r
<1> QED
  BY <1>2, <1>4 DEF Shown

\* The same lists, Records and TableRecords hold the same.
LEMMA SameKept ==
  ASSUME NEW s, NEW t, t.list = s.list, t.rec = s.rec, t.cell = s.cell
  PROVE  Kept(s, t)
BY DEF Kept, Shown

\* What two steps leave, both leave.
LEMMA KeptTwice ==
  ASSUME NEW s, NEW t, NEW u, Kept(s, t), Kept(t, u)
  PROVE  Kept(s, u)
BY DEF Kept

\* Nothing that owners list is disturbed, nor what waits.
LEMMA KeptWhole ==
  ASSUME OwnedTables, NEW s, NEW t, Whole(s), Kept(s, t), t.pending = s.pending, Good(t, AddRecs(s))
  PROVE  Whole(t)
<1>1. Edited(t)
  BY OwnersAreViews DEF Kept, Whole, Edited
<1>2. PendingSound(t)
  BY OwnersAreViews DEF Kept, Whole, PendingSound
<1>3. AddRecs(t) = AddRecs(s)
  BY DEF AddRecs
<1> QED
  BY <1>1, <1>2, <1>3 DEF Whole

\* Operations on owners, groups and triggers alone.
LEMMA SameWhole ==
  ASSUME OwnedTables, NEW s, NEW t \in Stores, Whole(s), SameData(s, t), Governed(t), t.pending = s.pending
  PROVE  Idle(s, t)
<1>1. Kept(s, t)
  BY SameKept DEF SameData
<1>2. Good(t, AddRecs(s))
  BY SameDataGood DEF Whole
<1> QED
  BY <1>1, <1>2, KeptWhole DEF Idle

\* Two operations that no owner sees.
LEMMA IdleTwice ==
  ASSUME NEW s, NEW t, NEW u, Idle(s, t), Idle(t, u)
  PROVE  Idle(s, u)
BY KeptTwice DEF Idle

\* What owners list stays, and so its values.
LEMMA KeptSteady ==
  ASSUME OwnedTables, NEW s \in Stores, NEW t, Kept(s, t)
  PROVE  Steady(s, t)
<1> SUFFICES ASSUME NEW e \in Editors, NEW r \in Records, r \in Range(s.list[e])
             PROVE  r \in Range(t.list[e]) /\ t.rec[r] = s.rec[r] /\ Worth(t, r) = Worth(s, r)
  BY DEF Steady
<1>1. e \in Owners /\ e \in Views
  BY OwnersAreViews
<1>2. t.list[e] = s.list[e] /\ t.rec[r] = s.rec[r] /\ Shown(t, e) = Shown(s, e) /\ s.list[e] \in Seq(Records)
  BY <1>1, StoreTyped DEF Kept
<1>3. PICK k \in 1..Len(s.list[e]) : s.list[e][k] = r
  BY <1>2, Ranged
<1>4. Shown(s, e)[k] = Worth(s, r) /\ Shown(t, e)[k] = Worth(t, r)
  BY <1>2, <1>3 DEF Shown, Worth
<1> QED
  BY <1>2, <1>4

-----------------------------------------------------------------------------
(* What observers do that changes no Record, and what is asked.            *)

\* A store that stops is left as it was.
LEMMA StopWhole ==
  ASSUME OwnedTables, NEW s, Whole(s)
  PROVE  Idle(s, Stop(s))
<1> DEFINE t == Stop(s)
<1>1. s \in Stores /\ Governed(s)
  BY DEF Whole, Good
<1>2. t \in Stores /\ SameData(s, t) /\ SameRules(s, t) /\ t.pending = s.pending
  BY <1>1 DEF Stop, Stores, SameData, SameRules
<1>3. Governed(t)
  BY <1>1, <1>2, GovernedKept
<1> QED
  BY <1>2, <1>3, SameWhole

\* An observer becomes no owner: its table has one.
LEMMA ObserverHasOwner ==
  ASSUME OwnedTables, NEW s, Governed(s), NEW o \in Observers
  PROVE  s.owner[Home[o]] # None /\ s.owner[Home[o]] # o /\ Home[o] \in Tables
<1>1. PICK v \in Owners : Home[v] = Home[o]
  BY DEF OwnedTables
<1>2. s.owner[Home[o]] = v
  BY <1>1 DEF Governed
<1>3. v \in Views /\ v # o /\ None \notin Views /\ o \in Views
  BY <1>1, OwnersAreViews, StoreAssumption
<1> QED
  BY <1>2, <1>3, StoreAssumption

\* Table::ViewEnable, for an observer.
LEMMA EnableWhole ==
  ASSUME OwnedTables, NEW s, Whole(s), NEW o \in Observers, NEW wantsOwner \in BOOLEAN
  PROVE  Idle(s, ViewEnable(s, o, wantsOwner))
<1> DEFINE h == Home[o]
           t == ViewEnable(s, o, wantsOwner)
           infos == [s.infos EXCEPT ![h] = @ \ {o}]
<1>1. s \in Stores /\ Governed(s)
  BY DEF Whole, Good
<1>2. s.owner[h] # None /\ h \in Tables
  BY <1>1, ObserverHasOwner
<1>3. s.infos \in [Tables -> SUBSET Views] /\ s.owner \in [Tables -> Views \cup {None}] /\ s.granted \in [Tables -> SUBSET Rights]
  BY <1>1, StoreTyped
<1>4. infos \in [Tables -> SUBSET Views]
  BY <1>2, <1>3
<1>5. t = [s EXCEPT !.infos = infos, !.owner = s.owner, !.granted = s.granted]
  <2>1. t = [s EXCEPT !.infos[h] = @ \ {o}, !.owner[h] = s.owner[h], !.granted[h] = s.granted[h]]
    BY <1>2 DEF ViewEnable
  <2>2. [s.owner EXCEPT ![h] = s.owner[h]] = s.owner /\ [s.granted EXCEPT ![h] = s.granted[h]] = s.granted
    BY <1>3
  <2> QED
    BY <1>1, <2>1, <2>2 DEF Stores
<1> HIDE DEF infos, t
<1>6. /\ t \in Stores /\ SameData(s, t) /\ t.pending = s.pending /\ t.infos = infos
      /\ t.owner = s.owner /\ t.granted = s.granted /\ t.triggers = s.triggers /\ t.ready = s.ready
  BY <1>1, <1>4, <1>5 DEF Stores, SameData
<1>7. \A u \in Tables : infos[u] \subseteq s.infos[u]
  BY <1>3 DEF infos
<1>8. Governed(t)
  BY <1>1, <1>6, <1>7, OwnersAreViews DEF Governed
<1> QED
  BY <1>6, <1>8, SameWhole DEF t

\* Table::ViewGroupAdd.
LEMMA GroupAddWhole ==
  ASSUME OwnedTables, NEW s, Whole(s), NEW o \in Observers
  PROVE  Idle(s, ViewGroupAdd(s, o, s.owner[Home[o]]))
<1> DEFINE v == s.owner[Home[o]]
           t == ViewGroupAdd(s, o, v)
           group == [s.group EXCEPT ![Home[v]] = @ \cup {o}]
<1>1. s \in Stores /\ Governed(s) /\ o \in Views
  BY OwnersAreViews DEF Whole, Good
<1>2. Home[v] \in Tables
  <2>1. v \in Views
    BY <1>1, ObserverHasOwner, StoreTyped
  <2> QED
    BY <2>1, StoreAssumption
<1>3. group \in [Tables -> SUBSET Views]
  BY <1>1, <1>2, StoreTyped
<1>4. CASE s.owner[Home[v]] = v
  <2>1. t = [s EXCEPT !.group = group]
    BY <1>4 DEF ViewGroupAdd
  <2> HIDE DEF group, t
  <2>2. t \in Stores /\ SameData(s, t) /\ t.pending = s.pending /\ SameRules(s, t)
    BY <1>1, <1>3, <2>1 DEF Stores, SameData, SameRules
  <2>3. Governed(t)
    BY <1>1, <2>2, GovernedKept
  <2> QED
    BY <2>2, <2>3, SameWhole DEF t
<1>5. CASE s.owner[Home[v]] # v
  BY <1>5, StopWhole DEF ViewGroupAdd
<1> QED
  BY <1>4, <1>5

\* A trigger that waits for the records of a table, of a view that is not found.
LEMMA TriggerGoverned ==
  ASSUME OwnedTables, NEW s \in Stores, Governed(s), NEW v \in Views, v \notin s.infos[Home[v]]
  PROVE  /\ RecordAddDynamic(s, v) \in Stores /\ Governed(RecordAddDynamic(s, v))
         /\ SameData(s, RecordAddDynamic(s, v)) /\ RecordAddDynamic(s, v).pending = s.pending
         /\ RecordAddDynamic(s, v).infos = s.infos /\ RecordAddDynamic(s, v).stopped = s.stopped
<1> DEFINE h == Home[v]
           old == s.triggers[h]
           added == [view |-> v, rec |-> None]
           triggers == [s.triggers EXCEPT ![h] = Append(@, added)]
           t == RecordAddDynamic(s, v)
<1>1. h \in Tables /\ old \in Seq(Triggers) /\ added \in Triggers /\ s.triggers \in [Tables -> Seq(Triggers)]
  BY StoreAssumption, StoreTyped DEF Triggers
<1>2. /\ Append(old, added) \in Seq(Triggers) /\ Len(Append(old, added)) = Len(old) + 1 /\ Len(old) \in Nat
      /\ \A k \in 1..Len(old) : Append(old, added)[k] = old[k]
      /\ Append(old, added)[Len(old) + 1] = added
  <2> HIDE DEF old, added
  <2> QED
    BY <1>1, Appended
<1>3. triggers \in [Tables -> Seq(Triggers)]
  BY <1>1, <1>2
<1>4. t = [s EXCEPT !.triggers = triggers]
  BY DEF RecordAddDynamic
<1>5. added.view = v
  OBVIOUS
<1>6. /\ \A u \in Tables : u # h => triggers[u] = s.triggers[u]
      /\ triggers[h] = Append(old, added)
  BY <1>1
<1> HIDE DEF triggers, t, added
<1>7. /\ t \in Stores /\ SameData(s, t) /\ t.pending = s.pending /\ t.infos = s.infos /\ t.stopped = s.stopped
      /\ t.owner = s.owner /\ t.granted = s.granted /\ t.triggers = triggers /\ t.ready = s.ready
  BY <1>3, <1>4 DEF Stores, SameData
<1>8. \A u \in Tables : \A i \in 1..Len(t.triggers[u]) : t.triggers[u][i].view \notin t.infos[u]
  <2> SUFFICES ASSUME NEW u \in Tables, NEW i \in 1..Len(t.triggers[u]) PROVE t.triggers[u][i].view \notin s.infos[u]
    BY <1>7
  <2>1. CASE u # h
    BY <1>6, <1>7, <2>1 DEF Governed
  <2>2. CASE u = h
    <3>1. i \in 1..Len(old) \/ i = Len(old) + 1
      BY <1>2, <1>6, <1>7, <2>2
    <3>2. CASE i \in 1..Len(old)
      <4>1. t.triggers[u][i] = old[i]
        BY <1>2, <1>6, <1>7, <2>2, <3>2
      <4> QED
        BY <1>1, <2>2, <3>2, <4>1 DEF Governed
    <3>3. CASE i = Len(old) + 1
      BY <1>2, <1>5, <1>6, <1>7, <2>2, <3>3
    <3> QED
      BY <3>1, <3>2, <3>3
  <2> QED
    BY <2>1, <2>2
<1>9. \A k \in 1..Len(t.ready) : t.ready[k][2] \in 1..Len(t.triggers[t.ready[k][1]])
  <2> SUFFICES ASSUME NEW k \in 1..Len(s.ready) PROVE s.ready[k][2] \in 1..Len(triggers[s.ready[k][1]])
    BY <1>7
  <2>1. s.ready[k] \in Tables \X Nat
    BY StoreTyped, Ranged
  <2>2. s.ready[k][2] \in 1..Len(s.triggers[s.ready[k][1]]) /\ s.ready[k][1] \in Tables
    BY <2>1 DEF Governed
  <2>3. CASE s.ready[k][1] = h
    BY <1>2, <1>6, <2>2, <2>3
  <2>4. CASE s.ready[k][1] # h
    BY <1>6, <2>2, <2>4
  <2> QED
    BY <2>3, <2>4
<1>10. Governed(t)
  BY <1>7, <1>8, <1>9 DEF Governed
<1> QED
  BY <1>7, <1>10 DEF t

\* Asking for the records that are added, by a view that has been enabled.
LEMMA DynamicWhole ==
  ASSUME OwnedTables, NEW s, Whole(s), NEW o \in Observers, o \notin s.infos[Home[o]]
  PROVE  Idle(s, RecordAddDynamic(s, o))
<1>1. s \in Stores /\ Governed(s) /\ o \in Views
  BY OwnersAreViews DEF Whole, Good
<1> QED
  BY <1>1, TriggerGoverned, SameWhole

\* What an editor asks for what it lists.
LEMMA AskWhole ==
  ASSUME OwnedTables, NEW s, Whole(s), NEW e \in Editors, NEW r \in Records, r \in Range(s.list[e]),
         NEW oper \in {"Delete", "Modify"}, NEW x \in Values \cup {None}, oper = "Modify" => x \in Values
  PROVE  /\ Whole(Ask(s, Transaction(oper, e, r, x)))
         /\ Kept(s, Ask(s, Transaction(oper, e, r, x)))
         /\ Ask(s, Transaction(oper, e, r, x)).pending = Append(s.pending, Transaction(oper, e, r, x))
<1> DEFINE tran == Transaction(oper, e, r, x)
           q == s.pending
           pending == Append(q, tran)
           t == Ask(s, tran)
<1>1. s \in Stores /\ Governed(s) /\ e \in Views /\ q \in Seq(Transactions)
  BY OwnersAreViews, StoreTyped DEF Whole, Good
<1>2. /\ tran \in Transactions /\ tran.oper = oper /\ tran.view = e /\ tran.rec = r /\ tran.value = x
  BY <1>1 DEF Transaction, Transactions
<1>3. t = [s EXCEPT !.pending = pending]
  BY DEF Ask
<1> HIDE DEF tran, q
<1>4. /\ pending \in Seq(Transactions) /\ Len(pending) = Len(q) + 1 /\ Len(q) \in Nat
      /\ \A k \in 1..Len(q) : pending[k] = q[k]
      /\ pending[Len(q) + 1] = tran
  BY <1>1, <1>2, Appended
<1> HIDE DEF t, pending
<1>5. t \in Stores /\ SameData(s, t) /\ SameRules(s, t) /\ t.pending = pending
  BY <1>1, <1>3, <1>4 DEF Stores, SameData, SameRules
<1>6. Kept(s, t) /\ Edited(t)
  BY <1>5, SameKept DEF SameData, Whole, Edited
<1>7. \A k \in 1..Len(pending) : (k \in 1..Len(q) /\ pending[k] = q[k]) \/ (k = Len(q) + 1 /\ pending[k] = tran)
  BY <1>4
<1>8. \A k \in 1..Len(q) : k \in 1..Len(pending)
  BY <1>4
<1>9. AddRecs(t) = AddRecs(s)
  BY <1>2, <1>4, <1>5, <1>7, <1>8 DEF AddRecs, q
<1>10. PendingSound(t)
  <2> SUFFICES ASSUME NEW k \in 1..Len(pending)
               PROVE  /\ pending[k].view \in Editors
                      /\ pending[k].oper # "Add" => pending[k].rec \in Range(s.list[pending[k].view])
                      /\ pending[k].oper = "Modify" => pending[k].value \in Values
                      /\ pending[k].oper = "Add" => \A j \in 1..Len(pending) :
                              pending[j].oper = "Add" /\ pending[j].rec = pending[k].rec => j = k
    BY <1>5 DEF PendingSound, SameData
  <2>1. CASE k = Len(q) + 1 /\ pending[k] = tran
    BY <1>2, <2>1
  <2>2. CASE k \in 1..Len(q) /\ pending[k] = q[k]
    <3>1. /\ q[k].view \in Editors
          /\ q[k].oper # "Add" => q[k].rec \in Range(s.list[q[k].view])
          /\ q[k].oper = "Modify" => q[k].value \in Values
          /\ q[k].oper = "Add" => \A j \in 1..Len(q) : q[j].oper = "Add" /\ q[j].rec = q[k].rec => j = k
      BY <2>2 DEF Whole, PendingSound, q
    <3>2. \A j \in 1..Len(pending) : pending[j].oper = "Add" => j \in 1..Len(q) /\ pending[j] = q[j]
      BY <1>2, <1>7
    <3> QED
      BY <2>2, <3>1, <3>2
  <2> QED
    BY <1>7, <2>1, <2>2
<1>11. Good(t, AddRecs(s))
  BY <1>5, SameDataGood, GovernedKept DEF Whole, Good
<1> QED
  BY <1>5, <1>6, <1>9, <1>10, <1>11 DEF Whole, t, tran, pending, q

-----------------------------------------------------------------------------
(* Values that change, and new Records.                                    *)

\* All Records of a TableRecord have its value.
Writes(s, t, r, x) ==
  \A q \in Records : s.rec[q] # Freed =>
    Worth(t, q) = IF s.rec[q].cell = s.rec[r].cell THEN x ELSE Worth(s, q)
ValueIs(s, t, W, v, r, x) ==
  /\ Good(t, W) /\ t.rec = s.rec /\ t.list = s.list /\ t.pending = s.pending /\ t.stopped = s.stopped
  /\ Unused(t.cell) = Unused(s.cell)
  /\ \A i \in Interfaces : Home[i] # Home[v] => Shown(t, i) = Shown(s, i)
  /\ v \in Interfaces => \A k \in 1..Len(s.list[v]) :
                           s.list[v][k] = r => Shown(t, v) = [Shown(s, v) EXCEPT ![k] = x]
  /\ Writes(s, t, r, x)

\* The value of a Record in a list: the tables of other views do not show it.
LEMMA ValueChanged ==
  ASSUME OwnedTables, NEW s, NEW W, Good(s, W), NEW v \in Views, NEW r \in Records, r \in Range(s.list[v]),
         NEW x \in Values, NEW t, t = [s EXCEPT !.cell[s.rec[r].cell].value = x]
  PROVE  ValueIs(s, t, W, v, r, x)
<1> DEFINE c == s.rec[r].cell
           changed == [s.cell[c] EXCEPT !.value = x]
           cell == [s.cell EXCEPT ![c] = changed]
<1>1. /\ s \in Stores /\ c \in Cells /\ s.cell[c] \in CellStates /\ c \in Range(s.rows[Home[v]])
      /\ \A u \in Tables : u # Home[v] => c \notin Range(s.rows[u])
  BY Listed
<1>2. s.cell \in [Cells -> {Freed} \cup CellStates]
  BY <1>1, StoreTyped
<1>3. changed \in CellStates /\ changed.count = s.cell[c].count /\ changed.value = x /\ s.cell[c].count \in Nat
  BY <1>1 DEF CellStates
<1>4. Freed \notin CellStates
  BY StoreAssumption
<1>5. t = [s EXCEPT !.cell = cell]
  OBVIOUS
<1> HIDE DEF c, changed
<1>6. cell \in [Cells -> {Freed} \cup CellStates]
  BY <1>1, <1>2, <1>3
<1>7. cell[c] = changed /\ \A d \in Cells : d # c => cell[d] = s.cell[d]
  BY <1>1, <1>2
<1>8. \A d \in Cells : s.cell[d] # Freed => cell[d] # Freed
  BY <1>3, <1>4, <1>7
<1>9. \A i \in Interfaces, d \in Cells : d \in Range(s.rows[Home[i]]) => cell[d].count >= s.cell[d].count
  <2> SUFFICES ASSUME NEW i \in Interfaces, NEW d \in Cells, d \in Range(s.rows[Home[i]])
               PROVE  cell[d].count >= s.cell[d].count
    OBVIOUS
  <2>1. CASE d = c
    BY <1>3, <1>7, <2>1
  <2>2. CASE d # c
    <3>1. Home[i] \in Tables
      BY OwnersAreViews
    <3>2. s.cell[d] # Freed
      BY <3>1 DEF Good, RowsApart
    <3>3. s.cell[d].count \in Nat
      BY <1>1, <3>2, CellTyped
    <3> QED
      BY <1>7, <2>2, <3>3
  <2> QED
    BY <2>1, <2>2
<1> HIDE DEF cell
<1>10. /\ Good(t, W) /\ t.cell = cell /\ t.rec = s.rec /\ t.list = s.list
       /\ t.pending = s.pending /\ t.stopped = s.stopped
  BY ONLY OwnedTables, Good(s, W), <1>5, <1>6, <1>8, <1>9, CellsChange
<1>11. Unused(t.cell) = Unused(s.cell)
  <2>1. DOMAIN cell = Cells /\ DOMAIN s.cell = Cells
    BY <1>2, <1>6
  <2>2. \A d \in Cells : cell[d] = Freed <=> s.cell[d] = Freed
    BY <1>1, <1>3, <1>4, <1>7
  <2> QED
    BY <1>10, <2>1, <2>2 DEF Unused
<1>12. ASSUME NEW i \in Interfaces
       PROVE  /\ s.list[i] \in Seq(Records)
              /\ \A k \in 1..Len(s.list[i]) : /\ s.list[i][k] \in Records /\ s.list[i][k] \in Range(s.list[i])
                                              /\ s.rec[s.list[i][k]].cell \in Cells
                                              /\ s.rec[s.list[i][k]].cell \in Range(s.rows[Home[i]])
                                              /\ i = v /\ s.rec[s.list[i][k]].cell = c => s.list[i][k] = r
  <2>1. i \in Views /\ i \in Owners
    BY OwnersAreViews
  <2>2. s.list[i] \in Seq(Records)
    BY <1>1, <2>1, StoreTyped
  <2>3. ASSUME NEW k \in 1..Len(s.list[i])
        PROVE  /\ s.list[i][k] \in Records /\ s.list[i][k] \in Range(s.list[i])
               /\ s.rec[s.list[i][k]].cell \in Cells
               /\ s.rec[s.list[i][k]].cell \in Range(s.rows[Home[i]])
               /\ i = v /\ s.rec[s.list[i][k]].cell = c => s.list[i][k] = r
    <3> DEFINE p == s.list[i][k]
    <3>1. p \in Records /\ p \in Range(s.list[i])
      BY <2>2, <2>3, Ranged
    <3> HIDE DEF p
    <3>2. s.rec[p].cell \in Cells /\ s.rec[p].cell \in Range(s.rows[Home[i]])
      BY <2>1, <3>1, Listed
    <3>3. i = v /\ s.rec[p].cell = c => p = r
      BY <2>1, <3>1, Listed DEF c
    <3> QED
      BY <3>1, <3>2, <3>3 DEF p
  <2> QED
    BY <2>2, <2>3
<1>13. ASSUME NEW i \in Interfaces, Home[i] # Home[v] PROVE Shown(t, i) = Shown(s, i)
  <2>1. Home[i] \in Tables
    BY OwnersAreViews
  <2>2. \A k \in 1..Len(s.list[i]) : t.cell[t.rec[t.list[i][k]].cell].value = s.cell[s.rec[s.list[i][k]].cell].value
    BY <1>1, <1>7, <1>10, <1>12, <1>13, <2>1
  <2>3. t.list[i] = s.list[i]
    BY <1>10
  <2> QED
    BY <2>2, <2>3 DEF Shown
<1>14. ASSUME v \in Interfaces, NEW k \in 1..Len(s.list[v]), s.list[v][k] = r
       PROVE  Shown(t, v) = [Shown(s, v) EXCEPT ![k] = x]
  <2>1. IsInjective(s.list[v])
    BY DEF Good, Sound, Placed
  <2>2. \A j \in 1..Len(s.list[v]) : s.list[v][j] = r => j = k
    <3>1. DOMAIN s.list[v] = 1..Len(s.list[v])
      BY <1>12, <1>14, Ranged
    <3> QED
      BY <1>14, <2>1, <3>1 DEF IsInjective
  <2>3. \A j \in 1..Len(s.list[v]) :
          cell[s.rec[s.list[v][j]].cell].value = IF j = k THEN x ELSE s.cell[s.rec[s.list[v][j]].cell].value
    <3> SUFFICES ASSUME NEW j \in 1..Len(s.list[v])
                 PROVE  cell[s.rec[s.list[v][j]].cell].value = IF j = k THEN x ELSE s.cell[s.rec[s.list[v][j]].cell].value
      OBVIOUS
    <3>1. CASE j = k
      BY <1>3, <1>7, <1>14, <3>1 DEF c
    <3>2. CASE j # k
      <4>1. s.rec[s.list[v][j]].cell # c
        BY <1>12, <1>14, <2>2, <3>2
      <4> QED
        BY <1>7, <1>12, <1>14, <3>2, <4>1
    <3> QED
      BY <3>1, <3>2
  <2> QED
    BY <1>10, <2>3 DEF Shown
<1>15. Writes(s, t, r, x)
  <2> SUFFICES ASSUME NEW q \in Records, s.rec[q] # Freed
               PROVE  Worth(t, q) = IF s.rec[q].cell = s.rec[r].cell THEN x ELSE Worth(s, q)
    BY DEF Writes
  <2>1. s.rec[q].cell \in Cells /\ t.rec[q] = s.rec[q]
    BY <1>1, <1>10, Refered
  <2>2. c = s.rec[r].cell /\ Worth(t, q) = t.cell[s.rec[q].cell].value /\ Worth(s, q) = s.cell[s.rec[q].cell].value
    BY <2>1 DEF Worth, c
  <2>3. t.cell[s.rec[q].cell].value = IF s.rec[q].cell = c THEN x ELSE s.cell[s.rec[q].cell].value
    <3>1. changed.value = x
      BY <1>3
    <3>2. \A d \in Cells : cell[d].value = IF d = c THEN x ELSE s.cell[d].value
      BY ONLY <1>7, <3>1
    <3>3. t.cell = cell
      BY <1>10
    <3> QED
      BY ONLY <2>1, <3>2, <3>3
  <2> QED
    BY <2>2, <2>3
<1> QED
  BY <1>10, <1>11, <1>13, <1>14, <1>15 DEF ValueIs

\* Who assigns to what is listed outside of the tables of interfaces.
Assigned(s, t, r, x) ==
  /\ ShownKept(s, t) /\ t.list = s.list /\ t.rec = s.rec /\ t.pending = s.pending
  /\ t.stopped = s.stopped /\ Writes(s, t, r, x)
\* A value that changes outside of the tables of interfaces.
LEMMA ValueWhole ==
  ASSUME OwnedTables, NEW s, Whole(s), NEW v \in Views, NEW r \in Records, r \in Range(s.list[v]),
         \A i \in Interfaces : Home[i] # Home[v], NEW x \in Values, NEW t, t = [s EXCEPT !.cell[s.rec[r].cell].value = x]
  PROVE  Whole(t) /\ Assigned(s, t, r, x)
<1>1. /\ Good(t, AddRecs(s)) /\ t.rec = s.rec /\ t.list = s.list /\ t.pending = s.pending
      /\ t.stopped = s.stopped /\ Writes(s, t, r, x)
      /\ \A i \in Interfaces : Shown(t, i) = Shown(s, i)
  BY ValueChanged DEF Whole, ValueIs
<1>2. AddRecs(t) = AddRecs(s) /\ PendingSound(t) /\ Edited(t)
  BY <1>1 DEF Whole, AddRecs, PendingSound, Edited
<1> QED
  BY <1>1, <1>2 DEF Whole, Assigned, ShownKept

\* An editor assigns to what it lists: at once, or when all is committed.
Later(s, r) == ~(s.rec[r].auto \/ s.rec[r].view = None \/ Permission[s.rec[r].view] \subseteq OwnerAll)
Asked(s, t, tran) == Kept(s, t) /\ t.pending = Append(s.pending, tran)
Edits(s, t, e, r, x) ==
  \/ ~Later(s, r) /\ Assigned(s, t, r, x)
  \/ Later(s, r) /\ Asked(s, t, Transaction("Modify", e, r, x))
  \/ t.stopped /\ ShownKept(s, t)
\* Record::SetValue by an editor.
LEMMA EditWhole ==
  ASSUME OwnedTables, NEW s, Whole(s), NEW e \in Editors, NEW r \in Records, r \in Range(s.list[e]), NEW x \in Values
  PROVE  Whole(SetValue(s, r, x)) /\ Edits(s, SetValue(s, r, x), e, r, x)
<1>1. e \in Views /\ e \in Owners /\ \A i \in Interfaces : Home[i] # Home[e]
  BY OwnersAreViews DEF OwnedTables
<1>2. CASE s.rec[r].auto \/ s.rec[r].view = None \/ Permission[s.rec[r].view] \subseteq OwnerAll
  <2>1. SetValue(s, r, x) = [s EXCEPT !.cell[s.rec[r].cell].value = x]
    BY <1>2 DEF SetValue
  <2> QED
    BY <1>1, <1>2, <2>1, ValueWhole DEF Edits, Later
<1>3. CASE ~(s.rec[r].auto \/ s.rec[r].view = None \/ Permission[s.rec[r].view] \subseteq OwnerAll)
  <2>1. s.rec[r].view = e
    BY <1>3 DEF Whole, Edited
  <2>2. SetValue(s, r, x) = TranRecordModify(s, e, r, x)
    BY <1>3, <2>1 DEF SetValue
  <2>3. SetValue(s, r, x) \in {Ask(s, Transaction("Modify", e, r, x)), Stop(s)}
    BY <2>2 DEF TranRecordModify
  <2> DEFINE t == SetValue(s, r, x)
             a == Ask(s, Transaction("Modify", e, r, x))
  <2>4. CASE t = a
    <3>1. Whole(a) /\ Asked(s, a, Transaction("Modify", e, r, x))
      BY AskWhole DEF Asked
    <3> QED
      BY <1>3, <2>4, <3>1 DEF Edits, Later
  <2>5. CASE t = Stop(s)
    <3>1. Whole(Stop(s)) /\ ShownKept(s, Stop(s))
      BY StopWhole, OwnersAreViews DEF Idle, Kept, ShownKept
    <3>2. Stop(s).stopped
      BY DEF Stop, Whole, Good, Stores
    <3> QED
      BY <2>5, <3>1, <3>2 DEF Edits
  <2> QED
    BY <2>3, <2>4, <2>5
<1> QED
  BY <1>2, <1>3

\* View::TranRecordDelete.
LEMMA DeleteWhole ==
  ASSUME OwnedTables, NEW s, Whole(s), NEW e \in Editors, NEW r \in Records, r \in Range(s.list[e])
  PROVE  /\ Whole(TranRecordDelete(s, e, r)) /\ Kept(s, TranRecordDelete(s, e, r))
         /\ \/ Asked(s, TranRecordDelete(s, e, r), Transaction("Delete", e, r, None))
            \/ TranRecordDelete(s, e, r).stopped
<1> DEFINE t == TranRecordDelete(s, e, r)
           a == Ask(s, Transaction("Delete", e, r, None))
<1>1. t \in {a, Stop(s)}
  BY DEF TranRecordDelete
<1>2. Whole(a) /\ Asked(s, a, Transaction("Delete", e, r, None))
  BY AskWhole DEF Asked
<1>3. Whole(Stop(s)) /\ Kept(s, Stop(s)) /\ Stop(s).stopped
  BY StopWhole DEF Idle, Stop, Whole, Good, Stores
<1> HIDE DEF t
<1> QED
  BY <1>1, <1>2, <1>3 DEF Asked, t

\* An observer outside of the tables of interfaces assigns at once.
LEMMA WriteWhole ==
  ASSUME OwnedTables, NEW s, Whole(s), NEW o \in Observers, ~OfInterface(Home[o]),
         NEW r \in Records, r \in Range(s.list[o]), NEW x \in Values
  PROVE  Whole(SetValue(s, r, x)) /\ Assigned(s, SetValue(s, r, x), r, x)
<1>1. o \in Views /\ o \notin Editors /\ \A i \in Interfaces : Home[i] # Home[o]
  BY OwnersAreViews DEF OfInterface
<1>2. s.rec[r].auto
  BY <1>1, Listed DEF Whole
<1>3. SetValue(s, r, x) = [s EXCEPT !.cell[s.rec[r].cell].value = x]
  BY <1>2 DEF SetValue
<1> QED
  BY <1>1, <1>3, ValueWhole

Created(s, t, v, auto, x, c, r) ==
  /\ r \in Records /\ c \in Cells /\ s.rec[r] = Freed /\ s.cell[c] = Freed
  /\ t.new = [s.new EXCEPT ![v] = @ \cup {r}]
  /\ t.rec[r] = [cell |-> c, view |-> None, auto |-> auto]
  /\ t.cell[c] = [count |-> 1, value |-> x]
  /\ \A q \in Records : q # r => t.rec[q] = s.rec[q]
  /\ \A d \in Cells : d # c => t.cell[d] = s.cell[d]
  /\ Unused(t.cell) = Unused(s.cell) \ {c} /\ Unused(t.rec) = Unused(s.rec) \ {r}

\* The view creates a Record with a TableRecord of its own.
LEMMA RecordNewIs ==
  ASSUME OwnedTables, NEW s, NEW W \in SUBSET Records, Good(s, W), NEW v \in Views, NEW auto \in BOOLEAN,
         NEW x \in Values, Unused(s.cell) # {}, Unused(s.rec) # {},
         NEW t, t = RecordNew(s, v, auto, x)
  PROVE  /\ Good(t, W) /\ Kept(s, t) /\ t.pending = s.pending /\ t.stopped = s.stopped /\ t.list = s.list
         /\ Created(s, t, v, auto, x, Fresh(s.cell), Fresh(s.rec))
<1> DEFINE c == Fresh(s.cell)
           r == Fresh(s.rec)
           record == [cell |-> c, view |-> None, auto |-> auto]
           first == [count |-> 1, value |-> x]
           cell == [s.cell EXCEPT ![c] = first]
           rec == [s.rec EXCEPT ![r] = record]
           new == [s.new EXCEPT ![v] = @ \cup {r}]
<1>1. s \in Stores
  BY DEF Good
<1>2. r \in Records /\ c \in Cells /\ s.rec[r] = Freed /\ s.cell[c] = Freed
  BY <1>1, FreshOf
<1>3. /\ s.cell \in [Cells -> {Freed} \cup CellStates] /\ s.rec \in [Records -> {Freed} \cup RecordStates]
      /\ s.new \in [Views -> SUBSET Records]
  BY <1>1, StoreTyped
<1>4. first \in CellStates /\ record \in RecordStates
  BY <1>2 DEF CellStates, RecordStates
<1>5. first # Freed /\ record # Freed /\ record.cell = c
  BY <1>4, StoreAssumption
<1>6. t = [s EXCEPT !.cell = cell, !.rec = rec, !.new = new]
  BY <1>1 DEF RecordNew, NewRecord, Allocate, Stores
<1> HIDE DEF first, record, c, r
<1>7. cell \in [Cells -> {Freed} \cup CellStates] /\ rec \in [Records -> {Freed} \cup RecordStates]
      /\ new \in [Views -> SUBSET Records]
  BY <1>2, <1>3, <1>4
<1>8. /\ cell[c] = first /\ \A d \in Cells : d # c => cell[d] = s.cell[d]
      /\ rec[r] = record /\ \A q \in Records : q # r => rec[q] = s.rec[q]
      /\ \A u \in Views, q \in Records : q \in new[u] <=> q \in s.new[u] \/ (u = v /\ q = r)
  BY <1>2, <1>3
<1>9. Unused(cell) = Unused(s.cell) \ {c} /\ Unused(rec) = Unused(s.rec) \ {r}
  <2>1. DOMAIN cell = Cells /\ DOMAIN s.cell = Cells /\ DOMAIN rec = Records /\ DOMAIN s.rec = Records
    BY <1>3, <1>7
  <2> HIDE DEF cell, rec
  <2> QED
    BY <1>5, <1>8, <2>1 DEF Unused
<1> HIDE DEF cell, rec
<1>10. /\ t \in Stores /\ t.cell = cell /\ t.rec = rec /\ t.new = new /\ t.rows = s.rows /\ t.list = s.list
       /\ t.selected = s.selected /\ SameRules(s, t) /\ t.pending = s.pending /\ t.stopped = s.stopped
  <2> HIDE DEF new
  <2> QED
    BY <1>1, <1>6, <1>7 DEF Stores, SameRules
<1> HIDE DEF new
<1>11. /\ t.cell[c] # Freed /\ \A d \in Cells : d # c => t.cell[d] = s.cell[d]
       /\ t.rec[r] # Freed /\ t.rec[r].cell = c
       /\ \A q \in Records : q # r => t.rec[q] = s.rec[q]
       /\ \A u \in Views, q \in Records : q \in t.new[u] <=> q \in s.new[u] \/ (u = v /\ q = r)
  BY <1>5, <1>8, <1>10
<1>12. Good(t, W)
  BY ONLY OwnedTables, W \in SUBSET Records, Good(s, W), v \in Views, <1>2, <1>10, <1>11, NewGood
<1>13. Kept(s, t)
  <2>1. \A u \in Owners, q \in Records : q \in Range(s.list[u]) => t.rec[q] = s.rec[q]
    BY <1>2, <1>11, OwnersAreViews, Listed
  <2>2. \A i \in Owners, d \in Cells : d \in Range(s.rows[Home[i]]) => t.cell[d] = s.cell[d]
    BY <1>2, <1>11, OwnersAreViews DEF Good, RowsApart
  <2> QED
    BY <1>10, <2>1, <2>2, ShownSame
<1>14. Created(s, t, v, auto, x, c, r)
  BY <1>2, <1>8, <1>9, <1>10 DEF Created, new, first, record
<1> QED
  BY <1>10, <1>12, <1>13, <1>14 DEF c, r

\* Table::RecordNew through the view of an editor.
LEMMA EditNewWhole ==
  ASSUME OwnedTables, NEW s, Whole(s), NEW e \in Editors, NEW auto \in BOOLEAN, NEW x \in Values, RoomFor(s, 2)
  PROVE  Idle(s, RecordNew(s, e, auto, x))
<1>1. Unused(s.cell) # {} /\ Unused(s.rec) # {}
  BY FS_EmptySet DEF RoomFor
<1>2. AddRecs(s) \in SUBSET Records /\ e \in Views
  BY OwnersAreViews DEF AddRecs
<1> DEFINE t == RecordNew(s, e, auto, x)
           W == AddRecs(s)
<1>3. Good(s, W)
  BY DEF Whole
<1> HIDE DEF W
<1>4. W \in SUBSET Records
  BY <1>2 DEF W
<1>5. Good(t, W) /\ Kept(s, t) /\ t.pending = s.pending
  BY <1>1, <1>2, <1>3, <1>4, RecordNewIs
<1> QED
  BY <1>3, <1>5, KeptWhole DEF W, Idle

\* Owners let everyone add to their tables.
LEMMA OthersMayAdd ==
  ASSUME OwnedTables, NEW s, Governed(s), NEW v \in Owners, NEW w
  PROVE  Allowed(s, Home[v], w, "Add")
BY DEF Governed, Allowed, OwnedTables

\* What a row that is added to the table and the list of an owner shows.
RowAppears(s, t, v, r) ==
  /\ \A u \in Views : u # v => t.list[u] = s.list[u]
  /\ t.list[v] = Append(s.list[v], r)
  /\ \A u \in Views, q \in Records : q \in Range(t.list[u]) <=> q \in Range(s.list[u]) \/ (u = v /\ q = r)
  /\ \A i \in Interfaces : i # v => Shown(t, i) = Shown(s, i)
  /\ v \in Interfaces => Shown(t, v) = Append(Shown(s, v), s.cell[s.rec[r].cell].value)

\* A new row is shown after the others, with its value.
LEMMA RowShown ==
  ASSUME OwnedTables, NEW s, NEW W \in SUBSET Records, Good(s, W), NEW t,
         NEW v \in Owners, NEW r \in Records, (\E u \in Views : r \in s.new[u]) \/ r \in W, AddsRow(s, t, v, r)
  PROVE  RowAppears(s, t, v, r)
<1> DEFINE c == s.rec[r].cell
<1> USE DEF AddsRow
<1>1. s \in Stores /\ v \in Views /\ s.list \in [Views -> Seq(Records)]
  BY OwnersAreViews, StoreTyped DEF Good
<1>2. \A u \in Views : r \notin Range(s.list[u])
  BY Unlisted
<1>3. \A u \in Views : u # v => t.list[u] = s.list[u]
  BY <1>1
<1>4. t.list[v] = Append(s.list[v], r) /\ s.list[v] \in Seq(Records)
  BY <1>1
<1>5. \A u \in Views, q \in Records : q \in Range(t.list[u]) <=> q \in Range(s.list[u]) \/ (u = v /\ q = r)
  BY <1>1, <1>3, <1>4, Appended
<1>6. ASSUME NEW u \in Views, NEW k \in 1..Len(s.list[u])
      PROVE  s.list[u][k] \in Records /\ t.rec[s.list[u][k]] = s.rec[s.list[u][k]]
  <2>1. s.list[u][k] \in Records /\ s.list[u][k] \in Range(s.list[u])
    BY <1>1, <1>6, Ranged
  <2> QED
    BY <1>2, <2>1
<1>7. ASSUME NEW i \in Interfaces, i # v PROVE Shown(t, i) = Shown(s, i)
  <2>1. i \in Views /\ t.list[i] = s.list[i]
    BY <1>3, <1>7, OwnersAreViews
  <2>2. \A k \in 1..Len(s.list[i]) : t.cell[t.rec[t.list[i][k]].cell].value = s.cell[s.rec[s.list[i][k]].cell].value
    BY <1>6, <2>1
  <2> QED
    BY <2>1, <2>2 DEF Shown
<1>8. Shown(t, v) = Append(Shown(s, v), s.cell[c].value)
  <2> DEFINE e == s.list[v]
             n == Len(e)
             y == s.cell[c].value
             a == Shown(s, v)
             b == Shown(t, v)
             f == Append(e, r)
  <2>1. /\ n \in Nat /\ Len(f) = n + 1 /\ \A k \in 1..n : f[k] = e[k]
        /\ f[n + 1] = r
    BY <1>4, Appended
  <2>2. a = [k \in 1..n |-> s.cell[s.rec[e[k]].cell].value]
    BY DEF Shown
  <2>3. b = [k \in 1..n + 1 |-> t.cell[t.rec[f[k]].cell].value]
    BY <1>4, <2>1 DEF Shown
  <2>a. \A k \in 1..n : t.rec[e[k]] = s.rec[e[k]]
    BY <1>1, <1>6
  <2> HIDE DEF a, b, f, e, n, y
  <2>4. \A k \in 1..n : b[k] = a[k]
    <3> SUFFICES ASSUME NEW k \in 1..n PROVE b[k] = a[k]
      OBVIOUS
    <3>1. k \in 1..n + 1 /\ f[k] = e[k] /\ t.rec[e[k]] = s.rec[e[k]]
      BY <2>1, <2>a
    <3> QED
      BY <2>2, <2>3, <3>1
  <2>5. b[n + 1] = y
    <3>1. n + 1 \in 1..n + 1 /\ f[n + 1] = r
      BY <2>1
    <3> QED
      BY <2>3, <3>1 DEF y
  <2>6. a \in Seq(Range(a)) /\ Len(a) = n /\ DOMAIN a = 1..n
    <3>1. DOMAIN a = 1..n
      BY <2>2
    <3>2. a = [k \in 1..n |-> a[k]]
      BY <2>2
    <3>3. \A k \in 1..n : a[k] \in Range(a)
      BY <3>1 DEF Range
    <3> QED
      BY <2>1, <3>1, <3>2, <3>3
  <2>7. b = [k \in 1..n + 1 |-> b[k]]
    BY <2>3
  <2>8. /\ DOMAIN Append(a, y) = 1..n + 1 /\ \A k \in 1..n : Append(a, y)[k] = a[k]
        /\ Append(a, y)[n + 1] = y /\ Append(a, y) = [k \in 1..n + 1 |-> Append(a, y)[k]]
    <3>1. a \in Seq(Range(a) \cup {y})
      BY <2>1, <2>6
    <3>2. Append(a, y) \in Seq(Range(a) \cup {y}) /\ Len(Append(a, y)) = n + 1
      BY <2>6, <3>1, Appended
    <3>3. y \in Range(a) \cup {y}
      OBVIOUS
    <3>4. /\ \A k \in 1..n : Append(a, y)[k] = a[k]
          /\ Append(a, y)[n + 1] = y
      BY <2>6, <3>1, <3>3, Appended
    <3> DEFINE g == Append(a, y)
    <3> HIDE DEF g
    <3>5. DOMAIN g = 1..n + 1 /\ g = [k \in 1..n + 1 |-> g[k]]
      <4>1. g \in Seq(Range(a) \cup {y}) /\ Len(g) = n + 1
        BY <3>2 DEF g
      <4> QED
        BY <4>1
    <3> QED
      BY <3>4, <3>5 DEF g
  <2>9. \A k \in 1..n + 1 : b[k] = Append(a, y)[k]
    BY <2>1, <2>4, <2>5, <2>8
  <2>10. b = Append(a, y)
    BY <2>7, <2>8, <2>9
  <2> QED
    BY <2>10 DEF a, b, y
<1> QED
  BY <1>3, <1>4, <1>5, <1>7, <1>8 DEF RowAppears

-----------------------------------------------------------------------------
(* Commits.                                                                *)

Fire(s, t, r, i) == [s EXCEPT !.triggers[t][i].rec = r, !.ready = Append(@, <<t, i>>)]

\* One trigger fires: its record is set, and it is ready.
LEMMA TriggerFires ==
  ASSUME NEW s \in Stores, Governed(s), NEW t \in Tables, NEW r \in Records, NEW i \in 1..Len(s.triggers[t]),
         NEW u, u = Fire(s, t, r, i)
  PROVE  /\ u \in Stores /\ Governed(u) /\ SameData(s, u) /\ u.pending = s.pending /\ u.stopped = s.stopped
         /\ Len(u.triggers[t]) = Len(s.triggers[t])
<1> DEFINE old == s.triggers[t]
           n == Len(old)
           one == [old[i] EXCEPT !.rec = r]
           these == [old EXCEPT ![i] = one]
           triggers == [s.triggers EXCEPT ![t] = these]
           ready == Append(s.ready, <<t, i>>)
<1>1. /\ s.triggers \in [Tables -> Seq(Triggers)] /\ old \in Seq(Triggers) /\ n \in Nat /\ DOMAIN old = 1..n
      /\ \A k \in 1..n : old[k] \in Triggers
  <2>1. s.triggers \in [Tables -> Seq(Triggers)] /\ old \in Seq(Triggers)
    BY StoreTyped
  <2> QED
    BY <2>1, Ranged
<1>2. one \in Triggers /\ one.view = old[i].view
  BY <1>1 DEF Triggers
<1>3. s.ready \in Seq(Tables \X Nat) /\ <<t, i>> \in Tables \X Nat
  BY <1>1, StoreTyped
<1>4. u = [s EXCEPT !.triggers = triggers, !.ready = ready]
  BY <1>1 DEF Fire
<1> HIDE DEF one
<1>5. these \in Seq(Triggers) /\ Len(these) = n /\ these[i] = one /\ \A k \in 1..n : k # i => these[k] = old[k]
  BY <1>1, <1>2
<1> HIDE DEF these
<1>6. triggers \in [Tables -> Seq(Triggers)] /\ triggers[t] = these /\ \A v \in Tables : v # t => triggers[v] = s.triggers[v]
  BY <1>1, <1>5
<1>7. /\ ready \in Seq(Tables \X Nat) /\ Len(ready) = Len(s.ready) + 1 /\ Len(s.ready) \in Nat
      /\ \A k \in 1..Len(s.ready) : ready[k] = s.ready[k]
      /\ ready[Len(s.ready) + 1] = <<t, i>>
  BY <1>3, Appended
<1> HIDE DEF triggers, ready
<1>8. /\ u \in Stores /\ SameData(s, u) /\ u.pending = s.pending /\ u.stopped = s.stopped
      /\ u.owner = s.owner /\ u.granted = s.granted /\ u.infos = s.infos /\ u.triggers = triggers /\ u.ready = ready
  BY <1>4, <1>6, <1>7 DEF Stores, SameData
<1>9. \A v \in Tables : Len(triggers[v]) = Len(s.triggers[v])
  BY <1>5, <1>6
<1>10. \A v \in Tables : \A k \in 1..Len(u.triggers[v]) : u.triggers[v][k].view \notin u.infos[v]
  <2> SUFFICES ASSUME NEW v \in Tables, NEW k \in 1..Len(s.triggers[v]) PROVE triggers[v][k].view \notin s.infos[v]
    BY <1>8, <1>9
  <2>1. s.triggers[v][k].view \notin s.infos[v]
    BY DEF Governed
  <2>2. triggers[v][k].view = s.triggers[v][k].view
    BY <1>2, <1>5, <1>6
  <2> QED
    BY <2>1, <2>2
<1>11. \A k \in 1..Len(ready) : ready[k][2] \in 1..Len(triggers[ready[k][1]])
  <2> SUFFICES ASSUME NEW k \in 1..Len(ready) PROVE ready[k][2] \in 1..Len(triggers[ready[k][1]])
    OBVIOUS
  <2>1. CASE k = Len(s.ready) + 1
    <3>1. ready[k][1] = t /\ ready[k][2] = i
      BY <1>7, <2>1
    <3> QED
      BY <1>5, <1>6, <3>1
  <2>2. CASE k \in 1..Len(s.ready)
    <3>1. ready[k] = s.ready[k] /\ s.ready[k] \in Tables \X Nat
      BY <1>3, <1>7, <2>2, Ranged
    <3>2. s.ready[k][2] \in 1..Len(s.triggers[s.ready[k][1]]) /\ s.ready[k][1] \in Tables
      BY <2>2, <3>1 DEF Governed
    <3> QED
      BY <1>9, <3>1, <3>2
  <2> QED
    BY <1>7, <2>1, <2>2
<1>12. Governed(u)
  BY <1>8, <1>10, <1>11 DEF Governed
<1> QED
  BY <1>6, <1>5, <1>8, <1>12

\* What the triggers do to the store as a record is added.
LEMMA FiredIs ==
  ASSUME NEW s \in Stores, Governed(s), NEW t \in Tables, NEW r \in Records
  PROVE  /\ Fired(s, t, r) \in Stores /\ Governed(Fired(s, t, r)) /\ SameData(s, Fired(s, t, r))
         /\ Fired(s, t, r).pending = s.pending /\ Fired(s, t, r).stopped = s.stopped
<1> DEFINE n == Len(s.triggers[t])
           D == 1..n
           U == {x \in Stores : /\ Governed(x) /\ SameData(s, x) /\ x.pending = s.pending /\ x.stopped = s.stopped
                                /\ Len(x.triggers[t]) = n}
           e == [i \in DOMAIN s.triggers[t] |-> i]
           Step(x, i) == IF x.triggers[t][i].rec # None THEN x
                         ELSE [x EXCEPT !.triggers[t][i].rec = r, !.ready = Append(@, <<t, i>>)]
           Value(h, S) == IF S = {} THEN s ELSE Step(h[S \ {Max(S)}], e[Max(S)])
           fold == CHOOSE h : h = [S \in SUBSET (DOMAIN e) |-> Value(h, S)]
<1>1. n \in Nat /\ DOMAIN s.triggers[t] = D /\ DOMAIN e = D
  <2>1. s.triggers[t] \in Seq(Triggers)
    BY StoreTyped
  <2> QED
    BY <2>1
<1>2. Fired(s, t, r) = fold[D]
  <2>1. Fired(s, t, r) = fold[DOMAIN e]
    BY DEF Fired, FoldLeft, MapThenFoldSet
  <2> HIDE DEF fold, e
  <2> QED
    BY <1>1, <2>1
<1> HIDE DEF n
<1>3. s \in U
  BY DEF SameData, n
<1>4. \A i \in D, x \in U : Step(x, i) \in U
  <2> SUFFICES ASSUME NEW i \in D, NEW x \in U PROVE Step(x, i) \in U
    OBVIOUS
  <2> DEFINE u == Fire(x, t, r, i)
  <2>1. i \in 1..Len(x.triggers[t])
    OBVIOUS
  <2>2. u = Fire(x, t, r, i)
    OBVIOUS
  <2> HIDE DEF u
  <2>3. /\ u \in Stores /\ Governed(u) /\ SameData(x, u) /\ u.pending = x.pending /\ u.stopped = x.stopped
        /\ Len(u.triggers[t]) = Len(x.triggers[t])
    <3>1. x \in Stores /\ Governed(x)
      OBVIOUS
    <3> QED
      BY <2>1, <2>2, <3>1, TriggerFires
  <2>4. u \in U
    BY <2>3 DEF SameData
  <2>5. Step(x, i) \in {x, u}
    BY <2>2 DEF Fire
  <2> HIDE DEF U, Step
  <2> QED
    BY <2>4, <2>5
<1> HIDE DEF U, Step
<1> DEFINE next == [S \in SUBSET D |-> Max(S)]
           G == [i \in D |-> [x \in U |-> Step(x, i)]]
           T == [S \in SUBSET D |-> U]
<1>5. IsFiniteSet(D) /\ \A S \in SUBSET D : S # {} => Max(S) \in S
  <2>1. IsFiniteSet(D)
    BY <1>1, FS_Interval
  <2>2. \A S \in SUBSET D : S # {} => Max(S) \in S
    BY <1>1, MaxOfPlaces
  <2> QED
    BY <2>1, <2>2
<1>6. FoldStays(D, next, U, T, s, G)
  BY <1>3, <1>4, <1>5 DEF FoldStays
<1>7. PICK h : FoldsAs(h, D, next, U, s, G) /\ \A S \in SUBSET D : h[S] \in T[S]
  <2> HIDE DEF D, next, U, T, G
  <2> QED
    BY <1>6, FoldWithin
<1>a. h \in [SUBSET D -> U] /\ \A S \in SUBSET D : h[S] = Value(h, S)
  <2>1. h \in [SUBSET D -> U]
    BY <1>7 DEF FoldsAs
  <2>2. ASSUME NEW S \in SUBSET D, S # {} PROVE h[S] = Step(h[S \ {Max(S)}], e[Max(S)])
    <3>1. Max(S) \in D /\ h[S \ {Max(S)}] \in U /\ next[S] = Max(S)
      BY <1>5, <2>1, <2>2
    <3>2. h[S] = G[Max(S)][h[S \ {Max(S)}]]
      BY <1>7, <2>2, <3>1 DEF FoldsAs
    <3> QED
      BY <1>1, <3>1, <3>2
  <2>3. h[{}] = s
    BY <1>7 DEF FoldsAs
  <2> QED
    BY <2>1, <2>2, <2>3
<1>8. fold = [S \in SUBSET D |-> Value(fold, S)]
  <2> HIDE DEF Value
  <2>1. h = [S \in SUBSET (DOMAIN e) |-> Value(h, S)]
    BY <1>1, <1>a
  <2> QED
    BY <1>1, <2>1
<1> HIDE DEF fold
<1>9. fold[{}] \in T[{}] /\ \A S \in SUBSET D : S # {} /\ fold[S \ {next[S]}] \in T[S \ {next[S]}] => fold[S] \in T[S]
  <2>1. fold[{}] = s /\ {} \in SUBSET D
    BY <1>8
  <2>2. ASSUME NEW S \in SUBSET D, S # {}, fold[S \ {Max(S)}] \in U PROVE fold[S] \in U
    <3>1. fold[S] = Step(fold[S \ {Max(S)}], e[Max(S)]) /\ Max(S) \in D
      BY <1>5, <1>8, <2>2
    <3> QED
      BY <1>1, <1>4, <2>2, <3>1
  <2> QED
    BY <1>3, <2>1, <2>2
<1>10. fold[D] \in T[D]
  <2> HIDE DEF T, D
  <2>1. IsFiniteSet(D) /\ \A S \in SUBSET D : S # {} => next[S] \in S
    BY <1>5
  <2> HIDE DEF next
  <2> QED
    BY <1>9, <2>1, FoldedWithin
<1>11. fold[D] \in U
  BY <1>10
<1> QED
  BY <1>2, <1>11 DEF U

\* A row for a Record, which is put in the list of the view that owns the table.
Placing(s, v, r, w) ==
  [s EXCEPT !.rows[Home[v]] = Append(@, s.rec[r].cell), !.rec[r].view = w, !.list[v] = Append(@, r)]

IsPlaced(s, t, v, r, w) ==
  /\ t \in Stores /\ SameRules(s, t)
  /\ t.rows = [s.rows EXCEPT ![Home[v]] = Append(@, s.rec[r].cell)]
  /\ t.list = [s.list EXCEPT ![v] = Append(@, r)]
  /\ t.rec[r] \in RecordStates /\ t.rec[r].cell = s.rec[r].cell
  /\ t.rec[r].auto = s.rec[r].auto /\ t.rec[r].view = w
  /\ \A q \in Records : q # r => t.rec[q] = s.rec[q]
  /\ t.cell = s.cell /\ t.new = s.new /\ t.selected = s.selected
  /\ t.pending = s.pending /\ t.stopped = s.stopped

\* The fields of a store in which a Record has been put in a view.
LEMMA PlacingIs ==
  ASSUME NEW s \in Stores, NEW v \in Views, NEW r \in Records, s.rec[r] \in RecordStates,
         NEW w \in Views \cup {None}, NEW t, t = Placing(s, v, r, w)
  PROVE  IsPlaced(s, t, v, r, w)
<1> DEFINE c == s.rec[r].cell
           record == [s.rec[r] EXCEPT !.view = w]
           rec == [s.rec EXCEPT ![r] = record]
           rows == [s.rows EXCEPT ![Home[v]] = Append(@, c)]
           list == [s.list EXCEPT ![v] = Append(@, r)]
<1>1. /\ s.rec \in [Records -> {Freed} \cup RecordStates] /\ s.rows \in [Tables -> Seq(Cells)]
      /\ s.list \in [Views -> Seq(Records)] /\ Home[v] \in Tables
  BY StoreTyped, StoreAssumption
<1>2. record \in RecordStates /\ record.cell = c /\ record.auto = s.rec[r].auto /\ record.view = w /\ c \in Cells
  BY DEF RecordStates
<1>3. t = [s EXCEPT !.rows = rows, !.rec = rec, !.list = list]
  BY DEF Placing
<1> HIDE DEF c, record
<1>4. rec \in [Records -> {Freed} \cup RecordStates] /\ rec[r] = record /\ \A q \in Records : q # r => rec[q] = s.rec[q]
  BY <1>1, <1>2
<1>5. rows \in [Tables -> Seq(Cells)]
  <2>1. Append(s.rows[Home[v]], c) \in Seq(Cells)
    BY <1>1, <1>2, Appended
  <2> QED
    BY <1>1, <2>1
<1>6. list \in [Views -> Seq(Records)]
  <2>1. Append(s.list[v], r) \in Seq(Records)
    BY <1>1, Appended
  <2> QED
    BY <1>1, <2>1
<1> HIDE DEF rec
<1>7. /\ t \in Stores /\ SameRules(s, t) /\ t.rows = rows /\ t.list = list /\ t.rec = rec
      /\ t.cell = s.cell /\ t.new = s.new /\ t.selected = s.selected
      /\ t.pending = s.pending /\ t.stopped = s.stopped
  <2> HIDE DEF rows, list
  <2> QED
    BY <1>3, <1>4, <1>5, <1>6 DEF Stores, SameRules
<1> QED
  BY <1>2, <1>4, <1>7 DEF c, IsPlaced

\* An editor adds a new Record at once.
LEMMA EditAddWhole ==
  ASSUME OwnedTables, NEW s, Whole(s), NEW e \in Editors, NEW r \in Records, r \in s.new[e]
  PROVE  /\ Whole(RecordAdd(s, e, r)) /\ ShownKept(s, RecordAdd(s, e, r))
         /\ Steady(s, RecordAdd(s, e, r)) /\ RecordAdd(s, e, r).pending = s.pending
<1> DEFINE W == AddRecs(s)
           u == Placing(s, e, r, e)
           new == [s.new EXCEPT ![e] = @ \ {r}]
           t == [u EXCEPT !.new = new]
<1>1. e \in Views /\ e \in Owners /\ e \notin Interfaces /\ W \in SUBSET Records /\ Good(s, W) /\ Governed(s)
  BY OwnersAreViews DEF AddRecs, Whole, Good
<1> HIDE DEF W
<1>2. /\ s \in Stores /\ s.rec[r] # Freed /\ s.rec[r] \in RecordStates
      /\ \A v \in Views : r \notin Range(s.list[v])
  BY <1>1, Unlisted
<1>3. Allowed(s, Home[e], e, "Add")
  BY <1>1, OthersMayAdd
<1>4. RecordAdd(s, e, r) = t
  BY <1>2, <1>3 DEF RecordAdd, TableRecordAdd, Placing, Stores
<1>5. /\ u \in Stores /\ SameRules(s, u)
      /\ u.rows = [s.rows EXCEPT ![Home[e]] = Append(@, s.rec[r].cell)]
      /\ u.list = [s.list EXCEPT ![e] = Append(@, r)]
      /\ u.rec[r] \in RecordStates /\ u.rec[r].cell = s.rec[r].cell /\ u.rec[r].auto = s.rec[r].auto /\ u.rec[r].view = e
      /\ \A q \in Records : q # r => u.rec[q] = s.rec[q]
      /\ u.cell = s.cell /\ u.new = s.new /\ u.selected = s.selected
      /\ u.pending = s.pending /\ u.stopped = s.stopped
  <2>1. u = Placing(s, e, r, e)
    OBVIOUS
  <2> HIDE DEF u
  <2> QED
    BY <1>1, <1>2, <2>1, PlacingIs DEF IsPlaced
<1> HIDE DEF u
<1>6. new \in [Views -> SUBSET Records]
  BY <1>2, StoreTyped
<1>7. /\ t \in Stores /\ SameRules(s, t) /\ t.rows = u.rows /\ t.list = u.list /\ t.rec = u.rec /\ t.cell = u.cell
      /\ t.selected = u.selected /\ t.pending = u.pending /\ t.new = new
  <2> HIDE DEF new
  <2> QED
    BY <1>5, <1>6 DEF Stores, SameRules
<1> HIDE DEF t
<1>8. \A v \in Views, q \in Records : q \in t.new[v] <=> q \in s.new[v] /\ q # r
  <2>1. PICK kind \in [Records -> Kinds], of \in [Records -> Views \cup {None}] : Sound(s, W, kind, of)
    BY <1>1 DEF Good
  <2>2. \A v \in Views : r \in s.new[v] => v = e
    BY <1>1, <2>1 DEF Sound, Placed
  <2>3. s.new \in [Views -> SUBSET Records]
    BY <1>2, StoreTyped
  <2> QED
    BY <1>1, <1>7, <2>2, <2>3
<1>9. r \notin W
  BY <1>1 DEF Good, Sound, Placed
<1>10. Freed \notin RecordStates
  BY StoreAssumption
<1>11. AddsRow(s, t, e, r)
  BY <1>5, <1>7, <1>8, <1>10 DEF AddsRow
<1>12. t.rec[r].view = e /\ t.pending = s.pending /\ \A q \in Records : q # r => t.rec[q] = s.rec[q]
  BY <1>5, <1>7
<1> HIDE DEF new
<1>13. Good(t, W \ {r})
  <2>1. Governed(t)
    BY <1>1, <1>7, GovernedKept
  <2> QED
    BY <1>1, <1>2, <1>7, <1>11, <2>1, RowAdded
<1>14. Good(t, W)
  BY <1>9, <1>13
<1>a. RowAppears(s, t, e, r)
  BY <1>1, <1>11, RowShown
<1>15. /\ \A v \in Views : v # e => t.list[v] = s.list[v]
       /\ \A v \in Views, q \in Records : q \in Range(t.list[v]) <=> q \in Range(s.list[v]) \/ (v = e /\ q = r)
       /\ \A i \in Interfaces : i # e => Shown(t, i) = Shown(s, i)
  BY <1>a DEF RowAppears
<1>16. ShownKept(s, t)
  BY <1>1, <1>15, OwnersAreViews DEF ShownKept
<1>17. Edited(t)
  <2>1. Edited(s)
    BY DEF Whole
  <2> QED
    BY <1>1, <1>2, <1>12, <1>15, <2>1, OwnersAreViews DEF Edited
<1>18. PendingSound(t)
  <2>1. \A k \in 1..Len(s.pending) : s.pending[k].rec \in Records /\ s.pending[k].view \in Views
    <3> SUFFICES ASSUME NEW k \in 1..Len(s.pending) PROVE s.pending[k].rec \in Records /\ s.pending[k].view \in Views
      OBVIOUS
    <3>1. s.pending[k] \in Transactions
      BY <1>2, StoreTyped, Ranged
    <3> QED
      BY <3>1 DEF Transactions
  <2> QED
    BY <1>12, <1>15, <2>1 DEF PendingSound, Whole
<1>19. AddRecs(t) = W
  BY <1>12 DEF AddRecs, W
<1>20. Steady(s, t)
  <2>1. t.cell = s.cell
    BY <1>5, <1>7
  <2> QED
    BY <1>1, <1>2, <1>12, <1>15, <2>1, OwnersAreViews DEF Steady, Worth
<1> QED
  BY <1>4, <1>12, <1>14, <1>16, <1>17, <1>18, <1>19, <1>20 DEF Whole, t

\* A transaction adds its row.
AddCarriedOut(s, t, v, r) ==
  /\ RowAppears(s, t, v, r) /\ t.cell = s.cell /\ t.new = s.new
  /\ \A q \in Records : q # r => t.rec[q] = s.rec[q]
  /\ t.rec[r].cell = s.rec[r].cell /\ t.rec[r] # Freed
  /\ t.pending = s.pending /\ t.stopped = s.stopped

CommitAdded(s, t, W, v, r) == Good(t, W \ {r}) /\ Edited(t) /\ AddCarriedOut(s, t, v, r)

\* The commit of an addition.
LEMMA CommitAddIs ==
  ASSUME OwnedTables, NEW s, NEW W \in SUBSET Records, Good(s, W), Edited(s), NEW r \in W, NEW v \in Owners,
         NEW tran, tran.view = v, tran.rec = r, NEW w \in {None, v}, v \in Interfaces => s.cell[s.rec[r].cell].count >= 1
  PROVE  CommitAdded(s, CommitAdd(s, tran, w), W, v, r)
<1> DEFINE u == Placing(s, v, r, w)
           t == Fired(u, Home[v], r)
<1>1. r \in Records /\ v \in Views /\ w \in Views \cup {None} /\ Home[v] \in Tables /\ Governed(s)
  BY OwnersAreViews DEF Good
<1>2. /\ s \in Stores /\ s.rec[r] # Freed /\ s.rec[r] \in RecordStates /\ s.rec[r].auto
      /\ \A x \in Views : r \notin Range(s.list[x])
  BY <1>1, Unlisted
<1>3. Allowed(s, Home[v], w, "Add")
  BY <1>1, OthersMayAdd
<1>4. CommitAdd(s, tran, w) = t
  BY <1>2, <1>3 DEF CommitAdd, TableRecordAdd, Placing, Stores
<1>5. /\ u \in Stores /\ SameRules(s, u)
      /\ u.rows = [s.rows EXCEPT ![Home[v]] = Append(@, s.rec[r].cell)]
      /\ u.list = [s.list EXCEPT ![v] = Append(@, r)]
      /\ u.rec[r] \in RecordStates /\ u.rec[r].cell = s.rec[r].cell /\ u.rec[r].auto = s.rec[r].auto /\ u.rec[r].view = w
      /\ \A q \in Records : q # r => u.rec[q] = s.rec[q]
      /\ u.cell = s.cell /\ u.new = s.new /\ u.selected = s.selected
      /\ u.pending = s.pending /\ u.stopped = s.stopped
  <2>1. u = Placing(s, v, r, w)
    OBVIOUS
  <2> HIDE DEF u
  <2> QED
    <3>1. IsPlaced(s, u, v, r, w)
      BY <1>1, <1>2, <2>1, PlacingIs
    <3> QED
      BY <3>1 DEF IsPlaced
<1> HIDE DEF u
<1>6. Governed(u)
  BY <1>1, <1>5, GovernedKept
<1>7. t \in Stores /\ Governed(t) /\ SameData(u, t) /\ t.pending = u.pending /\ t.stopped = u.stopped
  BY <1>1, <1>5, <1>6, FiredIs
<1> HIDE DEF t
<1>8. \A x \in Views, q \in Records : q \in s.new[x] => q # r
  BY DEF Good, Sound, Placed
<1>9. Freed \notin RecordStates
  BY StoreAssumption
<1>10. AddsRow(s, t, v, r)
  BY <1>5, <1>7, <1>8, <1>9 DEF AddsRow, SameData
<1>11. Good(t, W \ {r})
  BY <1>1, <1>2, <1>7, <1>10, RowAdded
<1>12. RowAppears(s, t, v, r)
  BY <1>1, <1>10, RowShown
<1>13. AddCarriedOut(s, t, v, r)
  BY <1>5, <1>7, <1>9, <1>12 DEF AddCarriedOut, SameData
<1>14. t.rec[r].view = w
  BY <1>5, <1>7 DEF SameData
<1>15. Edited(t)
  BY <1>2, <1>12, <1>13, <1>14, OwnersAreViews DEF Edited, AddCarriedOut, RowAppears
<1> QED
  BY <1>4, <1>11, <1>13, <1>15 DEF t, CommitAdded

\* What the store is while the transactions of editors are carried out.
Remaining(q, S) == {r \in Records : \E k \in 1..Len(q) : k \notin S /\ q[k].oper = "Add" /\ q[k].rec = r}
Longer(s, t) == \A e \in Editors, r \in Records : r \in Range(s.list[e]) => r \in Range(t.list[e])

\* The last of the changes in S to a record is what it gets.
Modifies(q, j, r) == q[j].oper = "Modify" /\ q[j].rec = r
Due(s, q, S, r, x) ==
  /\ (\A j \in S : ~Modifies(q, j, r)) => Worth(s, r) = x
  /\ \A m \in S : Modifies(q, m, r) /\ (\A j \in S : j > m => ~Modifies(q, j, r)) => q[m].value = x
Carried(s, x, q, S) ==
  x.stopped \/ /\ \A j \in S : q[j].oper # "Delete"
               /\ \A e \in Editors, r \in Records : r \in Range(s.list[e]) =>
                    /\ r \in Range(x.list[e]) /\ x.rec[r].cell = s.rec[r].cell
                    /\ Due(s, q, S, r, Worth(x, r))
Carrying(s, x, q, S) ==
  /\ Carried(s, x, q, S)
  /\ Good(x, Remaining(q, S)) /\ Edited(x) /\ ShownKept(s, x) /\ Longer(s, x) /\ x.pending = << >>

\* A transaction is carried out after others that change what is listed.
LEMMA CarriedOn ==
  ASSUME OwnedTables, NEW s, NEW q, NEW S \in SUBSET Nat, NEW k \in S, \A j \in S : j <= k,
         NEW x, NEW t, Carried(s, x, q, S \ {k}), ~x.stopped, q[k].oper # "Delete",
         \A e \in Editors, r \in Records : r \in Range(x.list[e]) =>
           /\ r \in Range(t.list[e]) /\ t.rec[r].cell = x.rec[r].cell
           /\ Worth(t, r) = IF Modifies(q, k, r) THEN q[k].value ELSE Worth(x, r)
  PROVE  Carried(s, t, q, S)
<1>1. \A j \in S : q[j].oper # "Delete"
  BY DEF Carried
<1>2. ASSUME NEW e \in Editors, NEW r \in Records, r \in Range(s.list[e])
      PROVE  /\ r \in Range(t.list[e]) /\ t.rec[r].cell = s.rec[r].cell
             /\ Due(s, q, S, r, Worth(t, r))
  <2>1. r \in Range(x.list[e]) /\ x.rec[r].cell = s.rec[r].cell /\ Due(s, q, S \ {k}, r, Worth(x, r))
    BY <1>2 DEF Carried
  <2>2. /\ r \in Range(t.list[e]) /\ t.rec[r].cell = x.rec[r].cell
        /\ Worth(t, r) = IF Modifies(q, k, r) THEN q[k].value ELSE Worth(x, r)
    BY <2>1
  <2>3. CASE Modifies(q, k, r)
    <3>1. \A m \in S : (\A j \in S : j > m => ~Modifies(q, j, r)) => m = k
      BY <2>3
    <3> QED
      BY <2>1, <2>2, <2>3, <3>1 DEF Due
  <2>4. CASE ~Modifies(q, k, r)
    <3>1. \A m \in S : Modifies(q, m, r) => m \in S \ {k}
      BY <2>4
    <3>2. Due(s, q, S, r, Worth(x, r))
      BY <2>1, <2>4, <3>1 DEF Due
    <3> QED
      BY <2>1, <2>2, <2>4, <3>2
  <2> QED
    BY <2>3, <2>4
<1> QED
  BY <1>1, <1>2 DEF Carried

\* The commit of one transaction after others.
LEMMA CommitOneIs ==
  ASSUME OwnedTables, NEW s, PendingSound(s), s.pending \in Seq(Transactions), NEW q, q = s.pending,
         NEW S \in SUBSET (1..Len(q)), NEW k \in S, \A j \in S : j <= k, NEW x, Carrying(s, x, q, S \ {k})
  PROVE  Carrying(s, CommitOne(x, q[k], None), q, S)
<1> DEFINE tran == q[k]
           r == tran.rec
           v == tran.view
           W == Remaining(q, S \ {k})
           t == CommitOne(x, tran, None)
<1>1. /\ tran.oper \in {"Add", "Delete", "Modify"} /\ r \in Records /\ v \in Editors /\ k \in 1..Len(q)
      /\ tran.oper # "Add" => r \in Range(s.list[v])
      /\ tran.oper = "Modify" => tran.value \in Values
      /\ tran.oper = "Add" => \A j \in 1..Len(q) : q[j].oper = "Add" /\ q[j].rec = r => j = k
  <2>1. tran \in Transactions
    BY Ranged
  <2> QED
    BY <2>1 DEF Transactions, PendingSound
<1>2. /\ W \in SUBSET Records /\ Good(x, W) /\ Edited(x) /\ ShownKept(s, x) /\ Longer(s, x) /\ x.pending = << >>
      /\ v \in Views /\ v \in Owners /\ v \notin Interfaces /\ \A i \in Interfaces : Home[i] # Home[v]
  BY <1>1, OwnersAreViews DEF Carrying, Remaining, OwnedTables
<1>c. Carried(s, x, q, S \ {k}) /\ S \in SUBSET Nat
  BY DEF Carrying
<1> HIDE DEF tran
<1>3. Remaining(q, S) \subseteq W
  BY DEF Remaining
<1>4. CASE x.stopped
  <2>1. t = x
    BY <1>4 DEF CommitOne
  <2>2. Good(x, Remaining(q, S))
    BY <1>2, <1>3, FewerWait
  <2>3. Carried(s, t, q, S)
    BY <1>4, <2>1 DEF Carried
  <2> QED
    BY <1>2, <2>1, <2>2, <2>3 DEF Carrying, tran
<1>5. CASE ~x.stopped /\ tran.oper = "Add"
  <2>1. t = CommitAdd(x, tran, None)
    BY <1>5 DEF CommitOne
  <2>2. r \in W
    BY <1>1, <1>5 DEF Remaining, tran
  <2>3. r \notin Remaining(q, S)
    BY <1>1, <1>5 DEF Remaining
  <2> HIDE DEF r, v, W
  <2>4. Good(t, W \ {r}) /\ Edited(t) /\ AddCarriedOut(x, t, v, r)
    <3>1. tran.view = v /\ tran.rec = r /\ None \in {None, v}
      BY DEF r, v
    <3>2. CommitAdded(x, CommitAdd(x, tran, None), W, v, r)
      BY <1>2, <2>2, <3>1, CommitAddIs
    <3> QED
      BY <2>1, <3>2 DEF CommitAdded
  <2>5. Good(t, Remaining(q, S))
    BY <1>3, <2>3, <2>4, FewerWait
  <2>6. ShownKept(s, t) /\ Longer(s, t)
    BY <1>2, <2>4, OwnersAreViews DEF AddCarriedOut, RowAppears, ShownKept, Longer
  <2>7. Carried(s, t, q, S)
    <3>1. ASSUME NEW e \in Editors, NEW p \in Records, p \in Range(x.list[e])
          PROVE  p \in Range(t.list[e]) /\ t.rec[p].cell = x.rec[p].cell /\ Worth(t, p) = Worth(x, p)
      BY <2>4, <3>1, OwnersAreViews DEF AddCarriedOut, RowAppears, Worth
    <3>2. \A p : ~Modifies(q, k, p)
      BY <1>5 DEF Modifies, tran
    <3>3. q[k].oper # "Delete"
      BY <1>5 DEF tran
    <3> HIDE DEF t
    <3> QED
      BY <1>5, <1>c, <3>1, <3>2, <3>3, CarriedOn
  <2> QED
    BY <1>2, <2>4, <2>5, <2>6, <2>7 DEF Carrying, AddCarriedOut, tran
<1>6. CASE ~x.stopped /\ tran.oper = "Delete"
  <2>1. t = Stop(x)
    BY <1>6 DEF CommitOne, CommitDelete
  <2>2. x \in Stores
    BY <1>2 DEF Good
  <2> HIDE DEF t
  <2>3. t \in Stores /\ SameData(x, t) /\ SameRules(x, t) /\ t.pending = x.pending
    BY <2>1, <2>2 DEF Stop, Stores, SameData, SameRules
  <2>4. Good(t, W)
    BY <1>2, <2>3, SameDataGood, GovernedKept DEF Good
  <2>5. Good(t, Remaining(q, S))
    BY <1>3, <2>4, FewerWait
  <2>6. ShownKept(s, t) /\ Longer(s, t) /\ Edited(t)
    BY <1>2, <2>3 DEF SameData, ShownKept, Longer, Edited, Shown
  <2>7. Carried(s, t, q, S)
    BY <2>1, <2>2 DEF Carried, Stop, Stores
  <2> QED
    BY <1>2, <2>3, <2>5, <2>6, <2>7 DEF Carrying, t, tran
<1>7. CASE ~x.stopped /\ tran.oper = "Modify"
  <2> DEFINE y == tran.value
  <2>1. t = [x EXCEPT !.cell[x.rec[r].cell].value = y]
    BY <1>7 DEF CommitOne, CommitModify
  <2>2. r \in Range(x.list[v]) /\ y \in Values
    BY <1>1, <1>2, <1>7 DEF Longer
  <2> HIDE DEF t, r, v, W, y
  <2>3. /\ Good(t, W) /\ t.rec = x.rec /\ t.list = x.list /\ t.pending = x.pending /\ Writes(x, t, r, y)
        /\ \A i \in Interfaces : Home[i] # Home[v] => Shown(t, i) = Shown(x, i)
    <3>1. ValueIs(x, t, W, v, r, y)
      BY <1>1, <1>2, <2>1, <2>2, ValueChanged DEF r
    <3> QED
      BY <3>1 DEF ValueIs
  <2>4. Good(t, Remaining(q, S))
    BY <1>3, <2>3, FewerWait
  <2>5. ShownKept(s, t) /\ Longer(s, t) /\ Edited(t)
    BY <1>2, <2>3 DEF ShownKept, Longer, Edited
  <2>6. Carried(s, t, q, S)
    <3>1. ASSUME NEW e \in Editors, NEW p \in Records, p \in Range(x.list[e])
          PROVE  /\ p \in Range(t.list[e]) /\ t.rec[p].cell = x.rec[p].cell
                 /\ Worth(t, p) = IF p = r THEN y ELSE Worth(x, p)
      <4>1. x.rec[p] # Freed /\ (x.rec[p].cell = x.rec[r].cell => p = r)
        BY <1>1, <1>2, <2>2, <3>1, EditedApart
      <4> QED
        BY <2>3, <3>1, <4>1 DEF Writes
    <3>2. /\ q[k].oper # "Delete" /\ q[k].value = y /\ \A p : Modifies(q, k, p) <=> p = r
      BY <1>7 DEF Modifies, tran, y, r
    <3> QED
      BY <1>7, <1>c, <3>1, <3>2, CarriedOn
  <2> QED
    BY <1>2, <2>3, <2>4, <2>5, <2>6 DEF Carrying, t, tran
<1> QED
  BY <1>1, <1>4, <1>5, <1>6, <1>7

\* DBTransactionsCommit: what editors have asked for is carried out.
LEMMA CommitAllWhole ==
  ASSUME OwnedTables, NEW s, Whole(s)
  PROVE  /\ Whole(CommitAll(s)) /\ ShownKept(s, CommitAll(s)) /\ CommitAll(s).pending = << >>
         /\ Carried(s, CommitAll(s), s.pending, 1..Len(s.pending))
<1> DEFINE e == s.pending
           n == Len(e)
           D == 1..n
           base == [s EXCEPT !.pending = << >>]
           U == Stores
           T == [S \in SUBSET D |-> {x \in U : Carrying(s, x, e, S)}]
           Step(x, k) == CommitOne(x, e[k], None)
           Value(h, S) == IF S = {} THEN base ELSE Step(h[S \ {Max(S)}], Max(S))
           fold == CHOOSE h : h = [S \in SUBSET (DOMAIN e) |-> Value(h, S)]
<1>1. s \in Stores /\ e \in Seq(Transactions) /\ Governed(s) /\ PendingSound(s)
  BY StoreTyped DEF Whole, Good
<1>2. n \in Nat /\ DOMAIN e = D
  BY <1>1
<1>3. CommitAll(s) = fold[D]
  <2>1. CommitAll(s) = fold[DOMAIN e]
    BY DEF CommitAll, CommitView, FoldLeft, MapThenFoldSet
  <2> HIDE DEF fold, e
  <2> QED
    BY <1>2, <2>1
<1>4. Carrying(s, base, e, {}) /\ base \in Stores
  <2>1. base \in Stores /\ SameData(s, base) /\ SameRules(s, base) /\ base.pending = << >>
    <3> DEFINE none == << >>
    <3>1. none \in Seq(Transactions) /\ base = [s EXCEPT !.pending = none]
      OBVIOUS
    <3> HIDE DEF none, base
    <3>2. base \in Stores /\ SameData(s, base) /\ SameRules(s, base) /\ base.pending = none
      BY <1>1, <3>1 DEF Stores, SameData, SameRules
    <3> QED
      BY <3>2 DEF none
  <2> HIDE DEF base
  <2>2. Remaining(e, {}) = AddRecs(s)
    BY DEF Remaining, AddRecs
  <2>3. Good(base, AddRecs(s))
    BY <1>1, <2>1, SameDataGood, GovernedKept DEF Whole
  <2>4. Edited(base)
    BY <2>1 DEF Whole, Edited, SameData
  <2>5. ShownKept(s, base) /\ Longer(s, base)
    BY <2>1 DEF ShownKept, Shown, Longer, SameData
  <2>6. Carried(s, base, e, {})
    BY <2>1 DEF Carried, Due, Worth, SameData
  <2> QED
    BY <2>1, <2>2, <2>3, <2>4, <2>5, <2>6 DEF Carrying
<1> HIDE DEF n, base, e
<1>5. base \in T[{}] /\ base \in U /\ \A S \in SUBSET D : T[S] \subseteq U
  BY <1>4
<1>6. \A S \in SUBSET D : S # {} => \A x \in T[S \ {Max(S)}] : Step(x, Max(S)) \in T[S]
  <2> SUFFICES ASSUME NEW S \in SUBSET D, S # {}, NEW x \in T[S \ {Max(S)}] PROVE Step(x, Max(S)) \in T[S]
    OBVIOUS
  <2>1. Max(S) \in S /\ \A j \in S : j <= Max(S)
    <3>1. \A j \in S : j \in Nat
      BY <1>2
    <3> QED
      BY <1>2, <3>1, MaxOfPlaces
  <2>2. Carrying(s, x, e, S \ {Max(S)})
    OBVIOUS
  <2>3. Carrying(s, Step(x, Max(S)), e, S)
    BY <1>1, <2>1, <2>2, CommitOneIs DEF e, n
  <2>4. Step(x, Max(S)) \in Stores
    BY <2>3 DEF Carrying, Good
  <2> QED
    BY <2>3, <2>4
<1> HIDE DEF T, Step, U
<1> DEFINE next == [S \in SUBSET D |-> Max(S)]
           G == [k \in D |-> [x \in U |-> IF Step(x, k) \in U THEN Step(x, k) ELSE base]]
<1>f1. IsFiniteSet(D) /\ \A S \in SUBSET D : S # {} => Max(S) \in S
  <2>1. IsFiniteSet(D)
    BY <1>2, FS_Interval
  <2>2. \A S \in SUBSET D : S # {} => Max(S) \in S
    BY <1>2, MaxOfPlaces
  <2> QED
    BY <2>1, <2>2
<1>f2. FoldStays(D, next, U, T, base, G)
  <2>1. base \in T[{}] /\ base \in U /\ \A S \in SUBSET D : T[S] \subseteq U
    BY <1>5
  <2>2. ASSUME NEW S \in SUBSET D, S # {}, NEW x \in T[S \ {next[S]}] PROVE G[next[S]][x] \in T[S]
    <3>1. next[S] = Max(S) /\ Max(S) \in D /\ x \in U
      BY <1>f1, <2>1, <2>2
    <3>2. Step(x, Max(S)) \in T[S] /\ Step(x, Max(S)) \in U
      BY <1>6, <2>1, <2>2, <3>1
    <3> QED
      BY <3>1, <3>2
  <2>3. G \in [D -> [U -> U]]
    BY <2>1
  <2> QED
    BY <1>f1, <2>1, <2>2, <2>3 DEF FoldStays
<1>f3. PICK h : FoldsAs(h, D, next, U, base, G) /\ \A S \in SUBSET D : h[S] \in T[S]
  <2> HIDE DEF D, next, G
  <2> QED
    BY <1>f2, FoldWithin
<1>f4. h \in [SUBSET D -> U] /\ \A S \in SUBSET D : h[S] = Value(h, S)
  <2>1. h \in [SUBSET D -> U] /\ \A S \in SUBSET D : T[S] \subseteq U
    BY <1>f3, <1>5 DEF FoldsAs
  <2>2. ASSUME NEW S \in SUBSET D, S # {} PROVE h[S] = Step(h[S \ {Max(S)}], Max(S))
    <3>1. Max(S) \in D /\ h[S \ {Max(S)}] \in U /\ next[S] = Max(S) /\ h[S \ {Max(S)}] \in T[S \ {Max(S)}]
      BY <1>f1, <1>f3, <2>1, <2>2
    <3>2. h[S] = G[Max(S)][h[S \ {Max(S)}]]
      BY <1>f3, <2>2, <3>1 DEF FoldsAs
    <3>3. Step(h[S \ {Max(S)}], Max(S)) \in U
      BY <1>6, <2>1, <2>2, <3>1
    <3> QED
      BY <3>1, <3>2, <3>3
  <2>3. h[{}] = base
    BY <1>f3 DEF FoldsAs
  <2> QED
    BY <2>1, <2>2, <2>3
<1>f5. fold = [S \in SUBSET D |-> Value(fold, S)]
  <2> HIDE DEF Value
  <2>1. h = [S \in SUBSET (DOMAIN e) |-> Value(h, S)]
    BY <1>2, <1>f4
  <2> QED
    BY <1>2, <2>1
<1> HIDE DEF fold
<1>f6. fold[D] \in T[D]
  <2>1. fold[{}] \in T[{}]
    BY <1>f5, <1>5
  <2>2. ASSUME NEW S \in SUBSET D, S # {}, fold[S \ {next[S]}] \in T[S \ {next[S]}] PROVE fold[S] \in T[S]
    <3>1. fold[S] = Step(fold[S \ {Max(S)}], Max(S)) /\ next[S] = Max(S)
      BY <1>f5, <2>2
    <3> QED
      BY <1>6, <2>2, <3>1
  <2>3. IsFiniteSet(D) /\ \A S \in SUBSET D : S # {} => next[S] \in S
    BY <1>f1
  <2> HIDE DEF D, next, Step
  <2> QED
    BY <2>1, <2>2, <2>3, FoldedWithin
<1>7. Carrying(s, CommitAll(s), e, D)
  BY <1>3, <1>f6 DEF T
<1>8. Remaining(e, D) = {}
  BY DEF Remaining, n
<1> DEFINE t == CommitAll(s)
<1> HIDE DEF t
<1>9. Good(t, {}) /\ Edited(t) /\ ShownKept(s, t) /\ t.pending = << >> /\ Carried(s, t, e, D)
  BY <1>7, <1>8 DEF Carrying, t
<1>10. AddRecs(t) = {} /\ PendingSound(t)
  BY <1>9 DEF AddRecs, PendingSound
<1> QED
  BY <1>9, <1>10 DEF Whole, t, e, n

\* The Record that waits takes the place of the new one: its TableRecord stays.
Replaced(s, v, r, q) ==
  [s EXCEPT !.rec = [@ EXCEPT ![q] = [cell |-> s.rec[r].cell, view |-> None, auto |-> TRUE], ![r] = Freed],
            !.new[v] = @ \ {r}]
AddTransaction(v, q) == Transaction("Add", v, q, None)

TranAdded(s, t, W, v, r, q) ==
  /\ Good(t, W \cup {q}) /\ Kept(s, t) /\ q \in Records /\ q \notin W /\ r \notin W /\ q # r
  /\ t.cell = s.cell /\ t.rec[q] # Freed /\ t.rec[q].cell = s.rec[r].cell
  /\ \A p \in Records : p # r /\ p # q => t.rec[p] = s.rec[p]
  /\ t.pending = Append(s.pending, AddTransaction(v, q)) /\ t.stopped = s.stopped /\ t.list = s.list
  /\ Unused(t.rec) = (Unused(s.rec) \ {q}) \cup {r}

\* View::TranRecordAdd: the new Record gives way to one that waits.
LEMMA TranRecordAddIs ==
  ASSUME OwnedTables, NEW s, NEW W \in SUBSET Records, Good(s, W), NEW v \in Owners, NEW r \in Records, r \in s.new[v],
         Unused(s.rec) # {}
  PROVE  TranAdded(s, TranRecordAdd(s, v, r), W, v, r, Fresh(s.rec))
<1> DEFINE q == Fresh(s.rec)
           c == s.rec[r].cell
           record == [cell |-> c, view |-> None, auto |-> TRUE]
           rec == [s.rec EXCEPT ![q] = record, ![r] = Freed]
           new == [s.new EXCEPT ![v] = @ \ {r}]
           u == Replaced(s, v, r, q)
           t == Ask(u, AddTransaction(v, q))
<1>1. v \in Views /\ Home[v] \in Tables /\ Governed(s)
  BY OwnersAreViews DEF Good
<1>2. /\ s \in Stores /\ s.rec[r] # Freed /\ c \in Cells /\ s.cell[c] \in CellStates
  BY <1>1, Unlisted
<1>3. q \in Records /\ s.rec[q] = Freed /\ q # r
  BY <1>2, FreshOf
<1>4. /\ s.cell \in [Cells -> {Freed} \cup CellStates] /\ s.rec \in [Records -> {Freed} \cup RecordStates]
      /\ s.new \in [Views -> SUBSET Records] /\ s.pending \in Seq(Transactions)
  BY <1>2, StoreTyped
<1>5. record \in RecordStates /\ record # Freed /\ record.cell = c /\ record.auto
  <2>1. record \in RecordStates
    BY <1>2 DEF RecordStates
  <2> QED
    BY <2>1, StoreAssumption
<1>6. s.cell[c].count \in Nat
  BY <1>2 DEF CellStates
<1>7. TranRecordAdd(s, v, r) = t
  <2> DEFINE a == [s EXCEPT !.new = new]
             more == [s.cell EXCEPT ![c].count = @ + 1]
             copied == RecordOf(a, c)
             destroyed == Destroy(copied, r)
             cell == [more EXCEPT ![c].count = @ + (0 - 1)]
  <2>1. cell = s.cell /\ more[c].count # 0
    <3> DEFINE one == s.cell[c]
               two == [one EXCEPT !.count = @ + 1]
    <3>1. one.count \in Nat /\ one \in CellStates
      BY <1>2, <1>6
    <3> HIDE DEF one
    <3>2. two.count = one.count + 1 /\ [two EXCEPT !.count = @ + (0 - 1)] = one /\ two.count # 0
      <4>1. PICK n \in Nat, y \in Values : one = [count |-> n, value |-> y]
        BY <3>1 DEF CellStates
      <4>2. two = [count |-> n + 1, value |-> y]
        BY <4>1
      <4> HIDE DEF two
      <4>3. two.count = n + 1 /\ two.count + (0 - 1) = n
        BY <4>2
      <4>4. [two EXCEPT !.count = n] = [count |-> n, value |-> y]
        BY <4>2
      <4>5. [two EXCEPT !.count = @ + (0 - 1)] = [two EXCEPT !.count = n]
        BY <4>3
      <4> QED
        BY <4>1, <4>2, <4>3, <4>4, <4>5
    <3>3. more[c] = two
      BY <1>2, <1>4 DEF one
    <3>4. cell[c] = one
      BY <1>2, <1>4, <3>2, <3>3
    <3> QED
      BY <1>2, <1>4, <3>2, <3>3, <3>4 DEF one
  <2>2. copied = [s EXCEPT !.new = new, !.cell = more, !.rec = [s.rec EXCEPT ![q] = record]]
    BY <1>2 DEF RecordOf, Allocate, CountBy, Stores
  <2>3. copied.rec[r].cell = c /\ copied.cell = more
    <3> HIDE DEF new, more, record, copied
    <3>1. copied.cell = more /\ copied.rec = [s.rec EXCEPT ![q] = record]
      BY <1>2, <2>2 DEF Stores
    <3> QED
      BY <1>3, <1>4, <3>1
  <2>4. destroyed = [copied EXCEPT !.cell = cell, !.rec = [@ EXCEPT ![r] = Freed]]
    <3> HIDE DEF copied
    <3> QED
      BY <2>1, <2>3 DEF Destroy, CountBy
  <2>5. destroyed = u
    <3> HIDE DEF cell, more, record, copied
    <3>1. destroyed = [s EXCEPT !.new = new, !.cell = s.cell, !.rec = [[s.rec EXCEPT ![q] = record] EXCEPT ![r] = Freed]]
      BY <1>2, <2>1, <2>2, <2>4 DEF Stores
    <3> QED
      BY <1>2, <3>1 DEF Replaced, record, Stores
  <2>6. Allowed(s, Home[v], v, "Add")
    BY <1>1, OthersMayAdd
  <2>7. TranRecordAdd(s, v, r) = Ask(destroyed, AddTransaction(v, Fresh(s.rec)))
    <3>1. a = [s EXCEPT !.new[v] = @ \ {r}] /\ a.rec = s.rec
      BY <1>2 DEF Stores
    <3> QED
      BY <2>6, <3>1 DEF TranRecordAdd, AddTransaction
  <2> HIDE DEF destroyed, u
  <2> QED
    BY <2>5, <2>7
<1>8. /\ rec \in [Records -> {Freed} \cup RecordStates] /\ new \in [Views -> SUBSET Records]
      /\ rec[q] = record /\ rec[r] = Freed /\ \A p \in Records : p # r /\ p # q => rec[p] = s.rec[p]
  BY <1>3, <1>4, <1>5
<1> DEFINE tran == AddTransaction(v, q)
<1>9. tran \in Transactions /\ Append(s.pending, tran) \in Seq(Transactions)
  <2>1. tran \in Transactions
    BY <1>1, <1>3 DEF AddTransaction, Transaction, Transactions
  <2> HIDE DEF tran
  <2> QED
    BY <1>4, <2>1, Appended
<1> HIDE DEF q, c, record
<1>10. t = [s EXCEPT !.rec = rec, !.new = new, !.pending = Append(s.pending, tran)]
  BY <1>2 DEF Ask, Replaced, record, c, Stores
<1>11. Unused(rec) = (Unused(s.rec) \ {q}) \cup {r}
  <2>1. DOMAIN rec = Records /\ DOMAIN s.rec = Records
    BY <1>4, <1>8
  <2> HIDE DEF rec
  <2> QED
    BY <1>3, <1>5, <1>8, <2>1 DEF Unused
<1> HIDE DEF rec, t, tran
<1>12. /\ t \in Stores /\ SameRules(s, t) /\ t.rec = rec /\ t.new = new /\ t.pending = Append(s.pending, tran)
       /\ t.rows = s.rows /\ t.list = s.list /\ t.selected = s.selected /\ t.cell = s.cell /\ t.stopped = s.stopped
  <2> DEFINE pending == Append(s.pending, tran)
  <2>1. t = [s EXCEPT !.rec = rec, !.new = new, !.pending = pending] /\ pending \in Seq(Transactions)
    BY <1>9, <1>10
  <2> HIDE DEF new, pending
  <2>2. /\ t \in Stores /\ SameRules(s, t) /\ t.rec = rec /\ t.new = new /\ t.pending = pending
        /\ t.rows = s.rows /\ t.list = s.list /\ t.selected = s.selected /\ t.cell = s.cell /\ t.stopped = s.stopped
    BY <1>2, <1>8, <2>1 DEF Stores, SameRules
  <2> QED
    BY <2>2 DEF pending
<1>13. \A w \in Views, p \in Records : p \in t.new[w] <=> p \in s.new[w] /\ p # r
  <2>1. \A w \in Views : r \in s.new[w] => w = v
    BY <1>1 DEF Good, Sound, Placed
  <2> QED
    BY <1>1, <1>4, <1>12, <2>1
<1> HIDE DEF new
<1>14. /\ t.rec[r] = Freed /\ t.rec[q] # Freed /\ t.rec[q].cell = s.rec[r].cell /\ t.rec[q].auto
       /\ \A p \in Records : p # r /\ p # q => t.rec[p] = s.rec[p]
  BY <1>5, <1>8, <1>12 DEF c
<1>15. Good(t, W \cup {q}) /\ r \notin W /\ q \notin W
  BY <1>1, <1>2, <1>3, <1>12, <1>13, <1>14, ReplacedGood
<1>16. Kept(s, t)
  <2>1. \A w \in Owners, p \in Records : p \in Range(s.list[w]) => p # r /\ p # q
    BY <1>1, <1>3, Unlisted, Listed, OwnersAreViews
  <2> QED
    BY <1>12, <1>14, <2>1, ShownSame
<1>17. TranAdded(s, t, W, v, r, q)
  BY <1>3, <1>11, <1>12, <1>14, <1>15, <1>16 DEF TranAdded, tran
<1> QED
  BY <1>7, <1>17 DEF q, t

\* An editor asks for a new Record to be added.
LEMMA EditAddLaterWhole ==
  ASSUME OwnedTables, NEW s, Whole(s), NEW e \in Editors, NEW r \in Records, r \in s.new[e], RoomFor(s, 1)
  PROVE  /\ Whole(TranRecordAdd(s, e, r)) /\ Kept(s, TranRecordAdd(s, e, r))
         /\ \E q \in Records : TranRecordAdd(s, e, r).pending = Append(s.pending, AddTransaction(e, q))
<1> DEFINE q == Fresh(s.rec)
           t == TranRecordAdd(s, e, r)
           W == AddRecs(s)
           old == s.pending
           tran == AddTransaction(e, q)
           pending == Append(old, tran)
<1>1. Unused(s.rec) # {} /\ e \in Owners /\ e \in Views /\ W \in SUBSET Records /\ Good(s, W) /\ s \in Stores
  <2>1. Unused(s.rec) # {}
    BY FS_EmptySet DEF RoomFor
  <2>2. W \in SUBSET Records
    BY DEF AddRecs
  <2>3. Good(s, W)
    BY DEF Whole
  <2> QED
    BY <2>1, <2>2, <2>3, OwnersAreViews DEF Good
<1> HIDE DEF W
<1>2. TranAdded(s, t, W, e, r, q)
  BY <1>1, TranRecordAddIs
<1> HIDE DEF t, q
<1>3. Good(t, W \cup {q}) /\ Kept(s, t) /\ t.pending = pending /\ q \in Records /\ q \notin W
  BY <1>2 DEF TranAdded
<1>4. tran.oper = "Add" /\ tran.view = e /\ tran.rec = q /\ tran \in Transactions /\ old \in Seq(Transactions)
  BY <1>1, <1>3, StoreTyped DEF AddTransaction, Transaction, Transactions
<1> HIDE DEF tran, old
<1>5. /\ Len(pending) = Len(old) + 1 /\ Len(old) \in Nat
      /\ \A k \in 1..Len(old) : pending[k] = old[k]
      /\ pending[Len(old) + 1] = tran
  BY <1>4, Appended
<1> HIDE DEF pending
<1>6. \A k \in 1..Len(pending) : (k \in 1..Len(old) /\ pending[k] = old[k]) \/ (k = Len(old) + 1 /\ pending[k] = tran)
  BY <1>5
<1>7. /\ \A k \in 1..Len(old) : k \in 1..Len(pending)
      /\ Len(old) + 1 \in 1..Len(pending)
  BY <1>5
<1>8. AddRecs(t) = W \cup {q}
  <2>1. AddRecs(t) \subseteq W \cup {q}
    BY <1>3, <1>4, <1>6 DEF AddRecs, W, old
  <2>2. q \in AddRecs(t)
    BY <1>3, <1>4, <1>5, <1>7 DEF AddRecs
  <2>3. ASSUME NEW p \in W PROVE p \in AddRecs(t)
    <3>1. PICK k \in 1..Len(old) : old[k].oper = "Add" /\ old[k].rec = p
      BY <2>3 DEF W, AddRecs, old
    <3>2. k \in 1..Len(pending) /\ pending[k] = old[k] /\ p \in Records
      BY <1>1, <1>5, <1>7, <2>3, <3>1
    <3> QED
      BY <1>3, <3>1, <3>2 DEF AddRecs
  <2> QED
    BY <2>1, <2>2, <2>3
<1>9. Edited(t)
  BY <1>3, OwnersAreViews DEF Kept, Whole, Edited
<1>10. \A j \in 1..Len(old) : old[j].oper = "Add" => old[j].rec # q
  <2>1. \A j \in 1..Len(old) : old[j].rec \in Records
    <3> SUFFICES ASSUME NEW j \in 1..Len(old) PROVE old[j].rec \in Records
      OBVIOUS
    <3>1. old[j] \in Transactions
      BY <1>4, Ranged
    <3> QED
      BY <3>1 DEF Transactions
  <2> QED
    BY <1>3, <2>1 DEF W, AddRecs, old
<1>11. PendingSound(t)
  <2> SUFFICES ASSUME NEW k \in 1..Len(pending)
               PROVE  /\ pending[k].view \in Editors
                      /\ pending[k].oper # "Add" => pending[k].rec \in Range(t.list[pending[k].view])
                      /\ pending[k].oper = "Modify" => pending[k].value \in Values
                      /\ pending[k].oper = "Add" => \A j \in 1..Len(pending) :
                              pending[j].oper = "Add" /\ pending[j].rec = pending[k].rec => j = k
    BY <1>3 DEF PendingSound
  <2>1. CASE k = Len(old) + 1 /\ pending[k] = tran
    BY <1>4, <1>6, <1>10, <2>1
  <2>2. CASE k \in 1..Len(old) /\ pending[k] = old[k]
    <3>1. /\ old[k].view \in Editors
          /\ old[k].oper # "Add" => old[k].rec \in Range(s.list[old[k].view])
          /\ old[k].oper = "Modify" => old[k].value \in Values
          /\ old[k].oper = "Add" => \A j \in 1..Len(old) : old[j].oper = "Add" /\ old[j].rec = old[k].rec => j = k
      BY <2>2 DEF Whole, PendingSound, old
    <3>2. old[k].rec \in Range(s.list[old[k].view]) => old[k].rec \in Range(t.list[old[k].view])
      BY <1>3, <3>1, OwnersAreViews DEF Kept
    <3> QED
      BY <1>4, <1>6, <1>10, <2>2, <3>1, <3>2
  <2> QED
    BY <1>6, <2>1, <2>2
<1>12. t.pending = Append(s.pending, AddTransaction(e, q))
  BY <1>3 DEF pending, old, tran
<1> QED
  BY <1>3, <1>8, <1>9, <1>11, <1>12 DEF Whole, t

-----------------------------------------------------------------------------
(* The commit of an interface.                                             *)

\* The only transaction of the interface is the last one: the others are dropped.
LastOnly(s, i, old, tran) ==
  /\ s.pending = Append(old, tran) /\ old \in Seq(Transactions) /\ tran \in Transactions /\ tran.view = i
  /\ \A k \in 1..Len(old) : old[k].view # i

\* A commit of the view of an interface carries out its own transaction alone.
LEMMA CommitViewIs ==
  ASSUME OwnedTables, NEW s \in Stores, NEW i \in Views, NEW old, NEW tran, LastOnly(s, i, old, tran)
  PROVE  CommitView(s, i) = CommitOne([s EXCEPT !.pending = << >>], tran, i)
<1> DEFINE e == s.pending
           n == Len(e)
           D == 1..n
           base == [s EXCEPT !.pending = << >>]
           last == CommitOne(base, tran, i)
           U == {base, last}
           T == [S \in SUBSET D |-> IF n \in S THEN {last} ELSE {base}]
           Step(x, k) == CommitOne(x, e[k], i)
           Value(h, S) == IF S = {} THEN base ELSE Step(h[S \ {Max(S)}], Max(S))
           fold == CHOOSE h : h = [S \in SUBSET (DOMAIN e) |-> Value(h, S)]
<1>1. /\ e \in Seq(Transactions) /\ n = Len(old) + 1 /\ Len(old) \in Nat
      /\ \A k \in 1..Len(old) : e[k] = old[k] /\ old[k].view # i
      /\ e[n] = tran /\ tran.view = i
  BY Appended DEF LastOnly
<1>2. n \in Nat /\ DOMAIN e = D /\ n \in D
  BY <1>1
<1>3. CommitView(s, i) = fold[D]
  <2>1. CommitView(s, i) = fold[DOMAIN e]
    BY DEF CommitView, FoldLeft, MapThenFoldSet
  <2> HIDE DEF fold, e
  <2> QED
    BY <1>2, <2>1
<1>4. i # None
  BY StoreAssumption
<1>5. \A k \in D : k # n => \A x \in U : Step(x, k) = x
  <2> SUFFICES ASSUME NEW k \in D, k # n, NEW x \in U PROVE Step(x, k) = x
    OBVIOUS
  <2>1. k \in 1..Len(old)
    BY <1>1
  <2>2. e[k].view # i
    BY <1>1, <2>1
  <2> QED
    BY <1>4, <2>2 DEF CommitOne
<1>6. Step(base, n) = last
  BY <1>1
<1> HIDE DEF n, base, e, last, Step
<1>7. base \in T[{}] /\ base \in U /\ \A S \in SUBSET D : T[S] \subseteq U
  OBVIOUS
<1>8. \A S \in SUBSET D : S # {} => \A x \in T[S \ {Max(S)}] : Step(x, Max(S)) \in T[S]
  <2> SUFFICES ASSUME NEW S \in SUBSET D, S # {}, NEW x \in T[S \ {Max(S)}] PROVE Step(x, Max(S)) \in T[S]
    OBVIOUS
  <2>1. Max(S) \in S /\ Max(S) \in D /\ \A y \in S : Max(S) >= y
    BY <1>2, MaxOfPlaces
  <2>2. CASE n \in S
    <3>1. Max(S) = n
      BY <1>2, <2>1, <2>2
    <3>2. x = base
      BY <3>1
    <3> QED
      BY <1>6, <2>2, <3>1, <3>2
  <2>3. CASE n \notin S
    <3>1. x = base /\ Max(S) # n
      BY <2>1, <2>3
    <3> QED
      BY <1>5, <1>7, <2>1, <2>3, <3>1
  <2> QED
    BY <2>2, <2>3
<1> HIDE DEF T, U
<1> DEFINE next == [S \in SUBSET D |-> Max(S)]
           G == [k \in D |-> [x \in U |-> IF Step(x, k) \in U THEN Step(x, k) ELSE base]]
<1>f1. IsFiniteSet(D) /\ \A S \in SUBSET D : S # {} => Max(S) \in S
  <2>1. IsFiniteSet(D)
    BY <1>2, FS_Interval
  <2>2. \A S \in SUBSET D : S # {} => Max(S) \in S
    BY <1>2, MaxOfPlaces
  <2> QED
    BY <2>1, <2>2
<1>f2. FoldStays(D, next, U, T, base, G)
  <2>1. base \in T[{}] /\ base \in U /\ \A S \in SUBSET D : T[S] \subseteq U
    BY <1>7
  <2>2. ASSUME NEW S \in SUBSET D, S # {}, NEW x \in T[S \ {next[S]}] PROVE G[next[S]][x] \in T[S]
    <3>1. next[S] = Max(S) /\ Max(S) \in D /\ x \in U
      BY <1>f1, <2>1, <2>2
    <3>2. Step(x, Max(S)) \in T[S] /\ Step(x, Max(S)) \in U
      BY <1>8, <2>1, <2>2, <3>1
    <3> QED
      BY <3>1, <3>2
  <2>3. G \in [D -> [U -> U]]
    BY <2>1
  <2> QED
    BY <1>f1, <2>1, <2>2, <2>3 DEF FoldStays
<1>f3. PICK h : FoldsAs(h, D, next, U, base, G) /\ \A S \in SUBSET D : h[S] \in T[S]
  <2> HIDE DEF D, next, G
  <2> QED
    BY <1>f2, FoldWithin
<1>f4. h \in [SUBSET D -> U] /\ \A S \in SUBSET D : h[S] = Value(h, S)
  <2>1. h \in [SUBSET D -> U] /\ \A S \in SUBSET D : T[S] \subseteq U
    BY <1>f3, <1>7 DEF FoldsAs
  <2>2. ASSUME NEW S \in SUBSET D, S # {} PROVE h[S] = Step(h[S \ {Max(S)}], Max(S))
    <3>1. Max(S) \in D /\ h[S \ {Max(S)}] \in U /\ next[S] = Max(S) /\ h[S \ {Max(S)}] \in T[S \ {Max(S)}]
      BY <1>f1, <1>f3, <2>1, <2>2
    <3>2. h[S] = G[Max(S)][h[S \ {Max(S)}]]
      BY <1>f3, <2>2, <3>1 DEF FoldsAs
    <3>3. Step(h[S \ {Max(S)}], Max(S)) \in U
      BY <1>8, <2>1, <2>2, <3>1
    <3> QED
      BY <3>1, <3>2, <3>3
  <2>3. h[{}] = base
    BY <1>f3 DEF FoldsAs
  <2> QED
    BY <2>1, <2>2, <2>3
<1>f5. fold = [S \in SUBSET D |-> Value(fold, S)]
  <2> HIDE DEF Value
  <2>1. h = [S \in SUBSET (DOMAIN e) |-> Value(h, S)]
    BY <1>2, <1>f4
  <2> QED
    BY <1>2, <2>1
<1> HIDE DEF fold
<1>f6. fold[D] \in T[D]
  <2>1. fold[{}] \in T[{}]
    BY <1>f5, <1>7
  <2>2. ASSUME NEW S \in SUBSET D, S # {}, fold[S \ {next[S]}] \in T[S \ {next[S]}] PROVE fold[S] \in T[S]
    <3>1. fold[S] = Step(fold[S \ {Max(S)}], Max(S)) /\ next[S] = Max(S)
      BY <1>f5, <2>2
    <3> QED
      BY <1>8, <2>2, <3>1
  <2>3. IsFiniteSet(D) /\ \A S \in SUBSET D : S # {} => next[S] \in S
    BY <1>f1
  <2> HIDE DEF D, next, Step
  <2> QED
    BY <2>1, <2>2, <2>3, FoldedWithin
<1>9. fold[D] = last
  BY <1>2, <1>f6 DEF T
<1> QED
  BY <1>3, <1>9 DEF last, base

\* The store after an interface has added what it commits.
NewCommitted(s, t, i, x) ==
  /\ Good(t, {}) /\ Edited(t) /\ t.pending = << >> /\ t.stopped = s.stopped
  /\ \A c \in Cells : c \in Unused(s.cell) /\ c # Fresh(s.cell) => c \in Unused(t.cell)
  /\ \E q \in Records : Unused(t.rec) = Unused(s.rec) \ {q}
  /\ \A v \in Views : v # i \/ s.stopped => t.list[v] = s.list[v]
  /\ \A j \in Interfaces : j # i \/ s.stopped => Shown(t, j) = Shown(s, j)
  /\ ~s.stopped => /\ \E q \in Records : t.list[i] = Append(s.list[i], q)
                   /\ Shown(t, i) = Append(Shown(s, i), x)

\* A new record of an interface is added and committed at once.
LEMMA CommitNewIs ==
  ASSUME OwnedTables, NEW s, Good(s, AddRecs(s)), Edited(s), PendingSound(s), NEW i \in Interfaces, NEW x \in Values,
         Unused(s.cell) # {}, Unused(s.rec) # {}, \E p, q \in Unused(s.rec) : p # q
  PROVE  NewCommitted(s, CommitNew(s, i, x), i, x)
<1> DEFINE W == AddRecs(s)
           r == Fresh(s.rec)
           c == Fresh(s.cell)
           a == RecordNew(s, i, TRUE, x)
           q == Fresh(a.rec)
           b == TranRecordAdd(a, i, r)
           tran == AddTransaction(i, q)
           base == [b EXCEPT !.pending = << >>]
           t == CommitNew(s, i, x)
<1>1. i \in Views /\ i \in Owners /\ i \notin Editors /\ W \in SUBSET Records /\ Good(s, W) /\ s \in Stores
  BY OwnersAreViews DEF AddRecs, Good
<1> HIDE DEF W, r, c, a
<1>2. /\ Good(a, W) /\ Kept(s, a) /\ a.pending = s.pending /\ a.stopped = s.stopped /\ a.list = s.list
      /\ Created(s, a, i, TRUE, x, c, r)
  BY <1>1, RecordNewIs DEF a, c, r
<1>3. /\ r \in Records /\ c \in Cells /\ r \in a.new[i] /\ a.rec[r].cell = c
      /\ a.cell[c].count = 1 /\ a.cell[c].value = x
      /\ Unused(a.cell) = Unused(s.cell) \ {c} /\ Unused(a.rec) = Unused(s.rec) \ {r} /\ Unused(a.rec) # {}
      /\ \A p \in Records : p # r => a.rec[p] = s.rec[p]
  <2>1. s.new \in [Views -> SUBSET Records]
    BY <1>1, StoreTyped
  <2>2. Created(s, a, i, TRUE, x, c, r)
    BY <1>2
  <2> QED
    BY <1>1, <2>1, <2>2 DEF Created
<1> HIDE DEF q, b
<1>4. TranAdded(a, b, W, i, r, q)
  BY <1>1, <1>2, <1>3, TranRecordAddIs DEF b, q
<1>5. /\ Good(b, W \cup {q}) /\ Kept(a, b) /\ q \in Records /\ q # r
      /\ b.cell = a.cell /\ b.rec[q] # Freed /\ b.rec[q].cell = c
      /\ b.pending = Append(s.pending, tran) /\ b.stopped = s.stopped /\ b.list = s.list
      /\ Unused(b.rec) = (Unused(a.rec) \ {q}) \cup {r}
  BY <1>2, <1>3, <1>4 DEF TranAdded
<1>6. tran \in Transactions /\ tran.view = i /\ tran.oper = "Add" /\ tran.rec = q
  BY <1>1, <1>5 DEF AddTransaction, Transaction, Transactions
<1>7. LastOnly(b, i, s.pending, tran)
  <2>1. s.pending \in Seq(Transactions)
    BY <1>1, StoreTyped
  <2>2. \A k \in 1..Len(s.pending) : s.pending[k].view # i
    BY <1>1 DEF PendingSound
  <2> HIDE DEF tran
  <2> QED
    BY <1>5, <1>6, <2>1, <2>2 DEF LastOnly
<1> HIDE DEF tran
<1>8. b \in Stores
  BY <1>5 DEF Good
<1>9. t = CommitOne(base, tran, i)
  BY <1>1, <1>7, <1>8, CommitViewIs DEF CommitNew, b, a, r
<1>10. base \in Stores /\ SameData(b, base) /\ SameRules(b, base) /\ base.pending = << >> /\ base.stopped = b.stopped
  <2> DEFINE none == << >>
  <2>1. none \in Seq(Transactions) /\ base = [b EXCEPT !.pending = none]
    OBVIOUS
  <2> HIDE DEF none, base
  <2>2. base \in Stores /\ SameData(b, base) /\ SameRules(b, base) /\ base.pending = none /\ base.stopped = b.stopped
    BY <1>8, <2>1 DEF Stores, SameData, SameRules
  <2> QED
    BY <2>2 DEF none
<1> HIDE DEF base, t
<1>11. Good(base, W \cup {q})
  BY <1>5, <1>10, SameDataGood, GovernedKept DEF Good
<1>12. Kept(s, base)
  BY <1>2, <1>5, <1>10, KeptTwice, SameKept DEF SameData
<1>13. Edited(base)
  BY <1>12, OwnersAreViews DEF Kept, Edited
<1>14. /\ base.list = s.list /\ \A j \in Interfaces : Shown(base, j) = Shown(s, j)
       /\ base.rec[q].cell = c /\ base.cell[c].count = 1 /\ base.cell[c].value = x
       /\ Unused(base.cell) = Unused(s.cell) \ {c} /\ base.stopped = s.stopped
  BY <1>3, <1>5, <1>10, <1>12, OwnersAreViews DEF SameData, Kept
<1>15. Unused(base.rec) = Unused(s.rec) \ {q} /\ q \in Unused(a.rec)
  <2>1. r \in Unused(s.rec) /\ q \in Unused(a.rec)
    <3>1. s.rec[r] = Freed /\ DOMAIN s.rec = Records
      BY <1>1, <1>2, StoreTyped DEF Created
    <3>2. a \in Stores
      BY <1>2 DEF Good
    <3>3. a.rec[q] = Freed /\ DOMAIN a.rec = Records
      BY <1>3, <3>2, FreshOf, StoreTyped DEF q
    <3> QED
      BY <1>3, <1>5, <3>1, <3>3 DEF Unused
  <2> QED
    BY <1>3, <1>5, <1>10, <2>1 DEF SameData
<1>16. ASSUME s.stopped PROVE NewCommitted(s, t, i, x)
  <2>1. t = base
    BY <1>9, <1>14, <1>16 DEF CommitOne
  <2>2. Good(t, {})
    BY <1>11, <2>1, FewerWait
  <2> QED
    BY <1>5, <1>10, <1>13, <1>14, <1>15, <1>16, <2>1, <2>2 DEF NewCommitted, c
<1>17. ASSUME ~s.stopped PROVE NewCommitted(s, t, i, x)
  <2>1. t = CommitAdd(base, tran, i)
    BY <1>6, <1>9, <1>14, <1>17 DEF CommitOne
  <2>2. W \cup {q} \in SUBSET Records /\ q \in W \cup {q} /\ i \in {None, i} /\ base.cell[base.rec[q].cell].count >= 1
    BY <1>1, <1>5, <1>14
  <2>3. CommitAdded(base, CommitAdd(base, tran, i), W \cup {q}, i, q)
    BY <1>1, <1>6, <1>11, <1>13, <2>2, CommitAddIs
  <2>4. Good(t, (W \cup {q}) \ {q}) /\ Edited(t) /\ AddCarriedOut(base, t, i, q)
    BY <2>1, <2>3 DEF CommitAdded
  <2>5. Good(t, {})
    BY <2>4, FewerWait
  <2>6. /\ RowAppears(base, t, i, q) /\ t.cell = base.cell
        /\ \A p \in Records : p # q => t.rec[p] = base.rec[p]
        /\ t.rec[q] # Freed /\ t.pending = << >> /\ t.stopped = s.stopped
    BY <1>10, <1>14, <2>4 DEF AddCarriedOut
  <2>7. Unused(t.rec) = Unused(base.rec)
    <3>1. base.rec[q] # Freed
      BY <1>5, <1>10 DEF SameData
    <3>2. DOMAIN t.rec = Records /\ DOMAIN base.rec = Records
      BY <1>10, <2>5, StoreTyped DEF Good
    <3> QED
      BY <2>6, <3>1, <3>2 DEF Unused
  <2>8. /\ \A v \in Views : v # i => t.list[v] = s.list[v]
        /\ \A j \in Interfaces : j # i => Shown(t, j) = Shown(s, j)
        /\ t.list[i] = Append(s.list[i], q)
        /\ Shown(t, i) = Append(Shown(s, i), x)
    BY <1>14, <2>6 DEF RowAppears
  <2> QED
    BY <1>5, <1>14, <1>15, <1>17, <2>4, <2>5, <2>6, <2>7, <2>8 DEF NewCommitted, c
<1> QED
  BY <1>16, <1>17 DEF t

-----------------------------------------------------------------------------
(* The places of an interface's values: its iterator goes around the list.  *)

Places(n, d, c, a) ==
  /\ d \in Nat \ {0} /\ c \in Nat
  /\ n = IF c < d THEN c ELSE d
  /\ a \in 0..n /\ (n > 0 => a > 0) /\ (c <= d => a = c)
  /\ c % d = a % d
Following(n, a) == IF a = n THEN 1 ELSE a + 1

\* One more is counted: it is divided by the depth as the place is.
LEMMA CountedOn ==
  ASSUME NEW d \in Nat \ {0}, NEW c \in Nat
  PROVE  (c + 1) % d = IF (c % d) + 1 = d THEN 0 ELSE (c % d) + 1
<1> DEFINE q == c \div d
           r == c % d
<1>1. q \in Nat /\ r \in 0..(d - 1) /\ c = d * q + r
  BY QuotientRemainder
<1> HIDE DEF q, r
<1>2. CASE r + 1 = d
  <2>1. c + 1 = d * (q + 1) + 0 /\ q + 1 \in Nat /\ 0 \in 0..(d - 1)
    BY <1>1, <1>2
  <2>2. (d * (q + 1) + 0) % d = 0
    BY <2>1, Quotient
  <2> QED
    BY <1>2, <2>1, <2>2 DEF r
<1>3. CASE r + 1 # d
  <2>1. c + 1 = d * q + (r + 1) /\ r + 1 \in 0..(d - 1)
    BY <1>1, <1>3
  <2>2. (d * q + (r + 1)) % d = r + 1
    BY <1>1, <2>1, Quotient
  <2> QED
    BY <1>3, <2>1, <2>2 DEF r
<1> QED
  BY <1>2, <1>3

\* After one more commit the iterator is at the next place.
LEMMA PlacesMove ==
  ASSUME NEW n \in Nat, NEW d, NEW c, NEW a, Places(n, d, c, a)
  PROVE  /\ c < d => Places(n + 1, d, c + 1, n + 1)
         /\ c >= d => /\ n = d /\ n > 0 /\ Following(n, a) \in 1..n /\ Places(n, d, c + 1, Following(n, a))
                      /\ (c % d = 0 <=> a = n)
<1>1. d \in Nat \ {0} /\ c \in Nat /\ a \in 0..n
  BY DEF Places
<1>2. ASSUME c < d PROVE Places(n + 1, d, c + 1, n + 1)
  <2>1. n = c
    BY <1>2 DEF Places
  <2> QED
    BY <1>1, <1>2, <2>1 DEF Places
<1>3. ASSUME c >= d
      PROVE  /\ n = d /\ n > 0 /\ Following(n, a) \in 1..n /\ Places(n, d, c + 1, Following(n, a))
             /\ (c % d = 0 <=> a = n)
  <2>1. n = d /\ n > 0 /\ a \in 1..d /\ c % d = a % d
    BY <1>1, <1>3 DEF Places
  <2>2. (c + 1) % d = IF (c % d) + 1 = d THEN 0 ELSE (c % d) + 1
    BY <1>1, CountedOn
  <2>3. d % d = 0
    <3>1. (d * 1 + 0) % d = 0
      BY <1>1, Quotient
    <3>2. d * 1 + 0 = d
      BY <1>1
    <3> QED
      BY <3>1, <3>2
  <2>4. ASSUME NEW b \in 0..(d - 1) PROVE b % d = b
    <3>1. b \in Nat /\ b < d
      BY <1>1
    <3> QED
      BY <1>1, <3>1, QuotientRemainder
  <2>5. CASE a = d
    <3>1. c % d = 0 /\ Following(n, a) = 1
      BY <2>1, <2>3, <2>5 DEF Following
    <3>2. (c + 1) % d = 1 % d
      <4>1. CASE d = 1
        BY <2>2, <2>3, <3>1, <4>1
      <4>2. CASE d # 1
        <5>1. 1 \in 0..(d - 1)
          BY <1>1, <4>2
        <5>2. 1 % d = 1
          BY <2>4, <5>1
        <5>3. (c + 1) % d = 1
          BY <2>2, <3>1, <4>2
        <5> QED
          BY <5>2, <5>3
      <4> QED
        BY <4>1, <4>2
    <3> QED
      BY <1>1, <1>3, <2>1, <2>5, <3>1, <3>2 DEF Places
  <2>6. CASE a # d
    <3>1. a \in 0..(d - 1) /\ Following(n, a) = a + 1
      BY <2>1, <2>6 DEF Following
    <3>2. c % d = a
      BY <2>1, <2>4, <3>1
    <3>3. (c + 1) % d = (a + 1) % d
      <4>1. CASE a + 1 = d
        BY <2>2, <2>3, <3>2, <4>1
      <4>2. CASE a + 1 # d
        <5>1. a + 1 \in 0..(d - 1)
          BY <1>1, <3>1, <4>2
        <5>2. (a + 1) % d = a + 1
          BY <2>4, <5>1
        <5>3. (c + 1) % d = a + 1
          BY <2>2, <3>2, <4>2
        <5> QED
          BY <5>2, <5>3
      <4> QED
        BY <4>1, <4>2
    <3> QED
      BY <1>1, <1>3, <2>1, <2>6, <3>1, <3>2, <3>3 DEF Places
  <2> QED
    BY <2>5, <2>6
<1> QED
  BY <1>2, <1>3

\* A search that takes any record goes through the list.
LEMMA SearchesAll ==
  ASSUME NEW s, NEW v, s.list[v] \in Seq(Records), NEW n, n = Len(s.list[v])
  PROVE  /\ n > 0 => RecordSearchFirst(s, v, Records) = 1
         /\ RecordSearchLast(s, v, Records) = n
         /\ \A a \in 0..n : RecordSearchNext(s, v, a, Records) = IF a < n THEN a + 1 ELSE 0
<1>1. Matching(s, v, Records) = 1..n /\ n \in Nat
  BY Ranged DEF Matching
<1>2. ASSUME n > 0 PROVE RecordSearchFirst(s, v, Records) = 1
  <2>1. 1 \in 1..n /\ 1..n # {}
    BY <1>1, <1>2
  <2>2. Min(1..n) = 1
    BY <1>1, <2>1 DEF Min
  <2> QED
    BY <1>1, <2>1, <2>2 DEF RecordSearchFirst
<1>3. RecordSearchLast(s, v, Records) = n
  <2>1. (1..n) \cup {0} = 0..n
    BY <1>1
  <2>2. Max(0..n) = n
    BY <1>1 DEF Max
  <2> QED
    BY <1>1, <2>1, <2>2 DEF RecordSearchLast
<1>4. ASSUME NEW a \in 0..n PROVE RecordSearchNext(s, v, a, Records) = IF a < n THEN a + 1 ELSE 0
  <2>1. {k \in 1..n : k > a} = (a + 1)..n
    BY <1>1
  <2>2. CASE a < n
    <3>1. (a + 1)..n # {} /\ Min((a + 1)..n) = a + 1
      BY <1>1, <2>2 DEF Min
    <3> QED
      BY <1>1, <2>1, <2>2, <3>1 DEF RecordSearchNext
  <2>3. CASE ~(a < n)
    <3>1. (a + 1)..n = {}
      BY <1>1, <2>3
    <3> QED
      BY <1>1, <2>1, <2>3, <3>1 DEF RecordSearchNext
  <2> QED
    BY <2>2, <2>3
<1> QED
  BY <1>2, <1>3, <1>4

\* What the variables say of the view of an interface.
PlacesOf(s, i) == Places(Len(s.list[i]), depth[i], count[i], at[i])
SlotOf(s, i) == Following(Len(s.list[i]), at[i])

\* The record that is written over is the one after the iterator, and around.
LEMMA NextSlotIs ==
  ASSUME NEW s, NEW i, s.list[i] \in Seq(Records), PlacesOf(s, i), ~Filling(i)
  PROVE  NextSlot(s, i) = SlotOf(s, i) /\ SlotOf(s, i) \in 1..Len(s.list[i])
<1> DEFINE n == Len(s.list[i])
           first == RecordSearchFirst(s, i, Records)
           next == RecordSearchNext(s, i, at[i], Records)
<1>1. n \in Nat /\ count[i] \in Nat /\ depth[i] \in Nat /\ at[i] \in 0..n /\ count[i] >= depth[i]
  BY DEF Places, PlacesOf, Filling
<1>2. n > 0 => first = 1
  BY SearchesAll
<1>3. next = IF at[i] < n THEN at[i] + 1 ELSE 0
  BY <1>1, SearchesAll
<1> HIDE DEF n, first, next
<1>4. /\ n > 0 /\ Following(n, at[i]) \in 1..n
      /\ (count[i] % depth[i] = 0 <=> at[i] = n)
  BY <1>1, PlacesMove DEF PlacesOf, n
<1>5. NextSlot(s, i) = IF count[i] % depth[i] = 0 \/ next = 0 THEN first ELSE next
  BY DEF NextSlot, first, next
<1>6. NextSlot(s, i) = Following(n, at[i])
  BY <1>1, <1>2, <1>3, <1>4, <1>5 DEF Following
<1> QED
  BY <1>4, <1>6 DEF SlotOf, n

\* What the commit of an interface does to its view.
After(s, t, i, x) ==
  /\ Filling(i) => /\ \E q \in Records : t.list[i] = Append(s.list[i], q)
                   /\ Shown(t, i) = Append(Shown(s, i), x)
  /\ ~Filling(i) => t.list[i] = s.list[i] /\ Shown(t, i) = [Shown(s, i) EXCEPT ![SlotOf(s, i)] = x]
Committing(s, t, i, x) ==
  /\ Whole(t) /\ t.stopped = s.stopped
  /\ ~Filling(i) => /\ Unused(t.cell) = Unused(s.cell) /\ Unused(t.rec) = Unused(s.rec)
                    /\ Steady(s, t) /\ t.pending = s.pending
  /\ \E c : Unused(s.cell) \ {c} \subseteq Unused(t.cell)
  /\ \E r : Unused(s.rec) \ {r} \subseteq Unused(t.rec)
  /\ \A j \in Interfaces : j # i => t.list[j] = s.list[j] /\ Shown(t, j) = Shown(s, j)
  /\ After(s, t, i, x)

\* Interface::Commit adds a value to one view, or writes over its oldest.
LEMMA CommitIs ==
  ASSUME OwnedTables, NEW s, Whole(s), ~s.stopped, NEW i \in Interfaces, PlacesOf(s, i), NEW x \in Values,
         Filling(i) => Unused(s.cell) # {} /\ \E p, q \in Unused(s.rec) : p # q
  PROVE  Committing(s, Commit(s, i, x), i, x)
<1> DEFINE t == Commit(s, i, x)
<1>1. s \in Stores /\ i \in Views /\ i \notin Editors /\ s.list[i] \in Seq(Records)
  BY OwnersAreViews, StoreTyped DEF Whole, Good
<1>2. ASSUME Filling(i) PROVE Committing(s, t, i, x)
  <2>1. t = CommitNew(s, i, x)
    BY <1>2 DEF Commit
  <2> HIDE DEF t
  <2>2. Unused(s.cell) # {} /\ Unused(s.rec) # {} /\ \E p, q \in Unused(s.rec) : p # q
    BY <1>2
  <2>3. NewCommitted(s, t, i, x)
    BY <2>1, <2>2, CommitNewIs DEF Whole
  <2>4. Whole(t)
    <3>1. Good(t, {}) /\ Edited(t) /\ t.pending = << >>
      BY <2>3 DEF NewCommitted
    <3>2. AddRecs(t) = {} /\ PendingSound(t)
      BY <3>1 DEF AddRecs, PendingSound
    <3> QED
      BY <3>1, <3>2 DEF Whole
  <2>5. Unused(s.cell) \ {Fresh(s.cell)} \subseteq Unused(t.cell)
    <3>1. Unused(s.cell) \subseteq Cells
      BY <1>1, StoreTyped DEF Unused
    <3> QED
      BY <2>3, <3>1 DEF NewCommitted
  <2> QED
    <3>1. \A j \in Interfaces : j # i => t.list[j] = s.list[j] /\ Shown(t, j) = Shown(s, j)
      BY <2>3, OwnersAreViews DEF NewCommitted
    <3>2. After(s, t, i, x)
      BY <1>2, <2>3 DEF NewCommitted, After
    <3>3. t.stopped = s.stopped /\ \E r : Unused(s.rec) \ {r} \subseteq Unused(t.rec)
      BY <2>3 DEF NewCommitted
    <3> QED
      BY <1>2, <2>4, <2>5, <3>1, <3>2, <3>3 DEF Committing
<1>3. ASSUME ~Filling(i) PROVE Committing(s, t, i, x)
  <2> DEFINE k == SlotOf(s, i)
             r == s.list[i][k]
  <2>1. k \in 1..Len(s.list[i]) /\ NextSlot(s, i) = k
    BY <1>1, <1>3, NextSlotIs
  <2>2. r \in Records /\ r \in Range(s.list[i])
    BY <1>1, <2>1, Ranged
  <2>3. t = SetValue(s, r, x)
    BY <1>3, <2>1 DEF Commit, Overwrite
  <2> HIDE DEF r, t, k
  <2>4. s.rec[r].auto
    BY <1>1, <2>2, Listed DEF Whole
  <2>5. t = [s EXCEPT !.cell[s.rec[r].cell].value = x]
    BY <2>3, <2>4 DEF SetValue
  <2>6. Good(s, AddRecs(s))
    BY DEF Whole
  <2>7. /\ Good(t, AddRecs(s)) /\ t.rec = s.rec /\ t.list = s.list /\ t.pending = s.pending /\ t.stopped = s.stopped
        /\ Unused(t.cell) = Unused(s.cell)
        /\ \A j \in Interfaces : Home[j] # Home[i] => Shown(t, j) = Shown(s, j)
        /\ \A m \in 1..Len(s.list[i]) : s.list[i][m] = r => Shown(t, i) = [Shown(s, i) EXCEPT ![m] = x]
        /\ Writes(s, t, r, x)
    <3> DEFINE W == AddRecs(s)
    <3>1. Good(s, W)
      BY <2>6
    <3> HIDE DEF W
    <3>2. ValueIs(s, t, W, i, r, x)
      BY <1>1, <2>2, <2>5, <3>1, ValueChanged
    <3> QED
      BY <3>2 DEF W, ValueIs
  <2>8. AddRecs(t) = AddRecs(s) /\ PendingSound(t) /\ Edited(t)
    BY <2>7 DEF Whole, AddRecs, PendingSound, Edited
  <2>9. \A j \in Interfaces : j # i => Home[j] # Home[i]
    BY OwnersAreViews DEF OwnedTables
  <2>10. s.list[i][k] = r
    BY DEF r
  <2>11. After(s, t, i, x)
    BY <1>3, <2>1, <2>7, <2>10 DEF After, k
  <2>12. Steady(s, t)
    <3> SUFFICES ASSUME NEW e \in Editors, NEW p \in Records, p \in Range(s.list[e])
                 PROVE  p \in Range(t.list[e]) /\ t.rec[p] = s.rec[p] /\ Worth(t, p) = Worth(s, p)
      BY DEF Steady
    <3>1. e \in Views /\ Home[e] # Home[i] /\ Home[e] \in Tables
      BY OwnersAreViews DEF OwnedTables
    <3>2. /\ s.rec[p] # Freed /\ s.rec[p].cell \in Range(s.rows[Home[e]])
      BY <2>6, <3>1, Listed
    <3>3. s.rec[r].cell \notin Range(s.rows[Home[e]])
      BY <1>1, <2>2, <2>6, <3>1, Listed
    <3> QED
      BY <2>7, <3>2, <3>3 DEF Writes
  <2> QED
    BY <1>3, <2>7, <2>8, <2>9, <2>11, <2>12 DEF Committing, Whole
<1> QED
  BY <1>2, <1>3

-----------------------------------------------------------------------------
(* The end of a delta cycle.                                               *)

\* The triggers that are ready import nothing.
LEMMA TriggersImportNothing ==
  ASSUME OwnedTables, NEW s, Whole(s)
  PROVE  Idle(s, ExecuteTriggers(s)) /\ ExecuteTriggers(s).stopped = s.stopped
<1> DEFINE e == s.ready
           n == Len(e)
           D == 1..n
           base == s
           U == {s}
           T == [S \in SUBSET D |-> {s}]
           Step(x, k) == RecordImportFromTrigger(x, e[k][1], e[k][2])
           Value(h, S) == IF S = {} THEN base ELSE Step(h[S \ {Max(S)}], Max(S))
           fold == CHOOSE h : h = [S \in SUBSET (DOMAIN e) |-> Value(h, S)]
           t == ExecuteTriggers(s)
<1>1. s \in Stores /\ Governed(s) /\ e \in Seq(Tables \X Nat)
  BY StoreTyped DEF Whole, Good
<1>2. n \in Nat /\ DOMAIN e = D
  BY <1>1
<1>3. t = [fold[D] EXCEPT !.ready = << >>]
  <2>1. t = [fold[DOMAIN e] EXCEPT !.ready = << >>]
    BY DEF ExecuteTriggers, FoldLeft, MapThenFoldSet
  <2> HIDE DEF fold, e
  <2> QED
    BY <1>2, <2>1
<1>4. \A k \in D : Step(s, k) = s
  <2> SUFFICES ASSUME NEW k \in D PROVE Step(s, k) = s
    OBVIOUS
  <2>1. e[k][1] \in Tables /\ e[k][2] \in 1..Len(s.triggers[e[k][1]])
    BY <1>1, Ranged DEF Governed
  <2>2. s.triggers[e[k][1]][e[k][2]].view \notin s.infos[e[k][1]]
    BY <1>1, <2>1 DEF Governed
  <2> QED
    BY <2>2 DEF RecordImportFromTrigger
<1> HIDE DEF n, base, e, Step
<1>5. base \in T[{}] /\ base \in U /\ \A S \in SUBSET D : T[S] \subseteq U
  BY DEF base
<1>6. \A S \in SUBSET D : S # {} => \A x \in T[S \ {Max(S)}] : Step(x, Max(S)) \in T[S]
  <2> SUFFICES ASSUME NEW S \in SUBSET D, S # {}, NEW x \in T[S \ {Max(S)}] PROVE Step(x, Max(S)) \in T[S]
    OBVIOUS
  <2>1. Max(S) \in S
    BY <1>2, MaxOfPlaces
  <2> QED
    BY <1>4, <2>1
<1> HIDE DEF T, U
<1> DEFINE next == [S \in SUBSET D |-> Max(S)]
           G == [k \in D |-> [x \in U |-> IF Step(x, k) \in U THEN Step(x, k) ELSE base]]
<1>f1. IsFiniteSet(D) /\ \A S \in SUBSET D : S # {} => Max(S) \in S
  <2>1. IsFiniteSet(D)
    BY <1>2, FS_Interval
  <2>2. \A S \in SUBSET D : S # {} => Max(S) \in S
    BY <1>2, MaxOfPlaces
  <2> QED
    BY <2>1, <2>2
<1>f2. FoldStays(D, next, U, T, base, G)
  <2>1. base \in T[{}] /\ base \in U /\ \A S \in SUBSET D : T[S] \subseteq U
    BY <1>5
  <2>2. ASSUME NEW S \in SUBSET D, S # {}, NEW x \in T[S \ {next[S]}] PROVE G[next[S]][x] \in T[S]
    <3>1. next[S] = Max(S) /\ Max(S) \in D /\ x \in U
      BY <1>f1, <2>1, <2>2
    <3>2. Step(x, Max(S)) \in T[S] /\ Step(x, Max(S)) \in U
      BY <1>6, <2>1, <2>2, <3>1
    <3> QED
      BY <3>1, <3>2
  <2>3. G \in [D -> [U -> U]]
    BY <2>1
  <2> QED
    BY <1>f1, <2>1, <2>2, <2>3 DEF FoldStays
<1>f3. PICK h : FoldsAs(h, D, next, U, base, G) /\ \A S \in SUBSET D : h[S] \in T[S]
  <2> HIDE DEF D, next, G
  <2> QED
    BY <1>f2, FoldWithin
<1>f4. h \in [SUBSET D -> U] /\ \A S \in SUBSET D : h[S] = Value(h, S)
  <2>1. h \in [SUBSET D -> U] /\ \A S \in SUBSET D : T[S] \subseteq U
    BY <1>f3, <1>5 DEF FoldsAs
  <2>2. ASSUME NEW S \in SUBSET D, S # {} PROVE h[S] = Step(h[S \ {Max(S)}], Max(S))
    <3>1. Max(S) \in D /\ h[S \ {Max(S)}] \in U /\ next[S] = Max(S) /\ h[S \ {Max(S)}] \in T[S \ {Max(S)}]
      BY <1>f1, <1>f3, <2>1, <2>2
    <3>2. h[S] = G[Max(S)][h[S \ {Max(S)}]]
      BY <1>f3, <2>2, <3>1 DEF FoldsAs
    <3>3. Step(h[S \ {Max(S)}], Max(S)) \in U
      BY <1>6, <2>1, <2>2, <3>1
    <3> QED
      BY <3>1, <3>2, <3>3
  <2>3. h[{}] = base
    BY <1>f3 DEF FoldsAs
  <2> QED
    BY <2>1, <2>2, <2>3
<1>f5. fold = [S \in SUBSET D |-> Value(fold, S)]
  <2> HIDE DEF Value
  <2>1. h = [S \in SUBSET (DOMAIN e) |-> Value(h, S)]
    BY <1>2, <1>f4
  <2> QED
    BY <1>2, <2>1
<1> HIDE DEF fold
<1>f6. fold[D] \in T[D]
  <2>1. fold[{}] \in T[{}]
    BY <1>f5, <1>5
  <2>2. ASSUME NEW S \in SUBSET D, S # {}, fold[S \ {next[S]}] \in T[S \ {next[S]}] PROVE fold[S] \in T[S]
    <3>1. fold[S] = Step(fold[S \ {Max(S)}], Max(S)) /\ next[S] = Max(S)
      BY <1>f5, <2>2
    <3> QED
      BY <1>6, <2>2, <3>1
  <2>3. IsFiniteSet(D) /\ \A S \in SUBSET D : S # {} => next[S] \in S
    BY <1>f1
  <2> HIDE DEF D, next, Step
  <2> QED
    BY <2>1, <2>2, <2>3, FoldedWithin
<1>7. t = [s EXCEPT !.ready = << >>]
  BY <1>3, <1>f6 DEF T
<1>8. t \in Stores /\ SameData(s, t) /\ t.pending = s.pending /\ t.stopped = s.stopped /\ Governed(t)
  <2> DEFINE none == << >>
  <2>1. none \in Seq(Tables \X Nat) /\ t = [s EXCEPT !.ready = none] /\ Len(none) = 0
    BY <1>7
  <2> HIDE DEF none, t
  <2>2. /\ t \in Stores /\ SameData(s, t) /\ t.pending = s.pending /\ t.stopped = s.stopped /\ t.ready = none
        /\ t.owner = s.owner /\ t.granted = s.granted /\ t.infos = s.infos /\ t.triggers = s.triggers
    BY <1>1, <2>1 DEF Stores, SameData
  <2>3. Governed(t)
    BY <1>1, <2>1, <2>2 DEF Governed
  <2> QED
    BY <2>2, <2>3
<1> QED
  BY <1>8, SameWhole

\* What leaves out one element at most is smaller by one at most.
LEMMA OneFewer ==
  ASSUME NEW A, IsFiniteSet(A), NEW B, IsFiniteSet(B), NEW c, A \ {c} \subseteq B
  PROVE  Cardinality(A) \in Nat /\ Cardinality(B) \in Nat /\ Cardinality(B) + 1 >= Cardinality(A)
<1>1. IsFiniteSet(A \ {c}) /\ Cardinality(A) \in Nat /\ Cardinality(B) \in Nat
      /\ Cardinality(A \ {c}) = IF c \in A THEN Cardinality(A) - 1 ELSE Cardinality(A)
  BY FS_CardinalityType, FS_RemoveElement
<1>2. Cardinality(A \ {c}) <= Cardinality(B)
  BY FS_Subset
<1> QED
  BY <1>1, <1>2

\* Two Records are left when there is room for two.
LEMMA TwoOf ==
  ASSUME NEW A, IsFiniteSet(A), Cardinality(A) >= 2
  PROVE  A # {} /\ \E p, q \in A : p # q
<1>1. A # {}
  BY FS_EmptySet
<1>2. PICK p \in A : TRUE
  BY <1>1
<1>3. A # {p}
  BY FS_Singleton
<1> QED
  BY <1>1, <1>2, <1>3

Unspent(s) == IsFiniteSet(Unused(s.cell)) /\ IsFiniteSet(Unused(s.rec))
\* What is free can be counted.
LEMMA UnusedFinite ==
  ASSUME OwnedTables, NEW s \in Stores
  PROVE  Unspent(s)
<1>1. Unused(s.cell) \subseteq Cells /\ Unused(s.rec) \subseteq Records
  BY StoreTyped DEF Unused
<1> QED
  BY <1>1, FS_Subset DEF OwnedTables, Unspent

\* The store after the interfaces at the places S of the order have committed.
Done(order, S) == {order[k] : k \in S}
ToFill(order, S) == {i \in Range(order) : Filling(i)} \ Done(order, S)
Still(s, t, i) == t.list[i] = s.list[i] /\ Shown(t, i) = Shown(s, i)
Delta(x, order, bit, S) ==
  /\ Whole(x) /\ ~x.stopped
  /\ \A i \in Interfaces : IF i \in Done(order, S) THEN After(db, x, i, bit[i]) ELSE Still(db, x, i)
  /\ RoomFor(x, 2 * Cardinality(ToFill(order, S)))
  /\ (\A i \in Range(order) : ~Filling(i)) => Steady(db, x) /\ x.pending = db.pending
AllPlaces == \A i \in Interfaces : PlacesOf(db, i)

\* The next interface commits.
LEMMA DeltaStep ==
  ASSUME OwnedTables, AllPlaces, NEW order \in Seq(Interfaces), IsInjective(order), NEW bit \in [Interfaces -> Values],
         NEW S \in SUBSET (1..Len(order)), NEW k \in S, NEW x, Delta(x, order, bit, S \ {k})
  PROVE  Delta(Commit(x, order[k], bit[order[k]]), order, bit, S)
<1> DEFINE i == order[k]
           t == Commit(x, i, bit[i])
           before == ToFill(order, S \ {k})
           after == ToFill(order, S)
<1>1. i \in Interfaces /\ i \in Range(order) /\ bit[i] \in Values
  BY Ranged
<1>2. i \notin Done(order, S \ {k}) /\ Done(order, S) = Done(order, S \ {k}) \cup {i}
  <2>1. \A m \in S \ {k} : order[m] # i
    BY Ranged DEF IsInjective
  <2> QED
    BY <2>1 DEF Done
<1>3. Whole(x) /\ ~x.stopped /\ Still(db, x, i) /\ x \in Stores /\ RoomFor(x, 2 * Cardinality(before))
  BY <1>1, <1>2 DEF Delta, Whole, Good
<1>4. PlacesOf(x, i) /\ SlotOf(x, i) = SlotOf(db, i)
  BY <1>1, <1>3 DEF AllPlaces, PlacesOf, SlotOf, Still
<1>5. IsFiniteSet(before)
  <2>1. Range(order) \subseteq Interfaces /\ Interfaces \subseteq Views /\ IsFiniteSet(Views)
    BY Ranged, OwnersAreViews DEF OwnedTables
  <2>2. before \subseteq Views
    BY <2>1 DEF ToFill
  <2> QED
    BY <2>1, <2>2, FS_Subset
<1>6. /\ Filling(i) => after = before \ {i} /\ i \in before
      /\ ~Filling(i) => after = before
  BY <1>1, <1>2 DEF ToFill
<1>7. /\ Cardinality(before) \in Nat /\ Cardinality(after) \in Nat
      /\ Filling(i) => Cardinality(before) = Cardinality(after) + 1
      /\ ~Filling(i) => Cardinality(before) = Cardinality(after)
  <2> HIDE DEF i, before, after
  <2>1. Cardinality(before) \in Nat
    BY <1>5, FS_CardinalityType
  <2>2. i \in before => Cardinality(before \ {i}) = Cardinality(before) - 1 /\ IsFiniteSet(before \ {i})
    BY <1>5, FS_RemoveElement
  <2>3. i \in before => Cardinality(before \ {i}) \in Nat
    BY <2>2, FS_CardinalityType
  <2>4. CASE Filling(i)
    <3>1. after = before \ {i} /\ i \in before
      BY <1>6, <2>4
    <3>2. Cardinality(after) = Cardinality(before) - 1 /\ Cardinality(after) \in Nat
      BY <2>2, <2>3, <3>1
    <3> QED
      BY <2>1, <2>4, <3>2
  <2>5. CASE ~Filling(i)
    BY <1>6, <2>1, <2>5
  <2> QED
    BY <2>4, <2>5
<1> HIDE DEF i, t, before, after
<1>8. Unspent(x)
  BY <1>3, UnusedFinite
<1>9. /\ Cardinality(Unused(x.cell)) >= 2 * Cardinality(before)
      /\ Cardinality(Unused(x.rec)) >= 2 * Cardinality(before)
  BY <1>3 DEF RoomFor
<1>10. Filling(i) => Unused(x.cell) # {} /\ \E p, q \in Unused(x.rec) : p # q
  <2> SUFFICES ASSUME Filling(i) PROVE Unused(x.cell) # {} /\ \E p, q \in Unused(x.rec) : p # q
    OBVIOUS
  <2>1. IsFiniteSet(Unused(x.cell)) /\ IsFiniteSet(Unused(x.rec))
    BY <1>8 DEF Unspent
  <2>2. Cardinality(Unused(x.cell)) \in Nat /\ Cardinality(Unused(x.rec)) \in Nat
    BY <2>1, FS_CardinalityType
  <2>3. Cardinality(Unused(x.cell)) >= 2 /\ Cardinality(Unused(x.rec)) >= 2
    BY <1>7, <1>9, <2>2
  <2> QED
    BY <2>1, <2>3, TwoOf
<1>11. Committing(x, t, i, bit[i])
  BY <1>1, <1>3, <1>4, <1>10, CommitIs DEF t
<1>12. Whole(t) /\ ~t.stopped /\ t \in Stores /\ Unspent(t)
  <2>1. Whole(t) /\ ~t.stopped /\ t \in Stores
    BY <1>3, <1>11 DEF Committing, Whole, Good
  <2> QED
    BY <2>1, UnusedFinite
<1>13. RoomFor(t, 2 * Cardinality(after))
  <2>1. CASE Filling(i)
    <3>1. PICK c : Unused(x.cell) \ {c} \subseteq Unused(t.cell)
      BY <1>11 DEF Committing
    <3>2. PICK r : Unused(x.rec) \ {r} \subseteq Unused(t.rec)
      BY <1>11 DEF Committing
    <3>3. /\ Cardinality(Unused(x.cell)) \in Nat /\ Cardinality(Unused(t.cell)) \in Nat
          /\ Cardinality(Unused(t.cell)) + 1 >= Cardinality(Unused(x.cell))
      BY <1>8, <1>12, <3>1, OneFewer DEF Unspent
    <3>4. /\ Cardinality(Unused(x.rec)) \in Nat /\ Cardinality(Unused(t.rec)) \in Nat
          /\ Cardinality(Unused(t.rec)) + 1 >= Cardinality(Unused(x.rec))
      BY <1>8, <1>12, <3>2, OneFewer DEF Unspent
    <3> QED
      BY <1>7, <1>9, <2>1, <3>3, <3>4 DEF RoomFor
  <2>2. CASE ~Filling(i)
    <3>1. Unused(t.cell) = Unused(x.cell) /\ Unused(t.rec) = Unused(x.rec)
      BY <1>11, <2>2 DEF Committing
    <3> QED
      BY <1>7, <1>9, <2>2, <3>1 DEF RoomFor
  <2> QED
    BY <2>1, <2>2
<1>14. ASSUME NEW j \in Interfaces
       PROVE  IF j \in Done(order, S) THEN After(db, t, j, bit[j]) ELSE Still(db, t, j)
  <2>1. CASE j = i
    <3>1. After(x, t, i, bit[i])
      BY <1>11 DEF Committing
    <3>2. After(db, t, i, bit[i])
      BY <1>3, <1>4, <3>1 DEF After, Still
    <3> QED
      BY <1>2, <2>1, <3>2
  <2>2. CASE j # i
    <3>1. t.list[j] = x.list[j] /\ Shown(t, j) = Shown(x, j)
      BY <1>11, <2>2 DEF Committing
    <3>2. IF j \in Done(order, S \ {k}) THEN After(db, x, j, bit[j]) ELSE Still(db, x, j)
      BY DEF Delta
    <3> QED
      BY <1>2, <2>2, <3>1, <3>2 DEF After, Still
  <2> QED
    BY <2>1, <2>2
<1>15. ASSUME \A j \in Range(order) : ~Filling(j) PROVE Steady(db, t) /\ t.pending = db.pending
  <2>1. Steady(x, t) /\ t.pending = x.pending
    BY <1>1, <1>11, <1>15 DEF Committing
  <2>2. Steady(db, x) /\ x.pending = db.pending
    BY <1>15 DEF Delta
  <2> QED
    BY <2>1, <2>2 DEF Steady
<1> QED
  BY <1>12, <1>13, <1>14, <1>15 DEF Delta, t, i, after

\* What the end of a delta cycle does to the store.  If no interface adds a record,
\* what editors list gets the last of the changes asked for.
AllCarriedOut(s, t) ==
  t.stopped \/ /\ \A j \in 1..Len(s.pending) : s.pending[j].oper # "Delete"
               /\ \A e \in Editors, r \in Records : r \in Range(s.list[e]) =>
                    t.rec[r].cell = s.rec[r].cell /\ Due(s, s.pending, 1..Len(s.pending), r, Worth(t, r))
DeltaEnds(s, t, order, bit) ==
  /\ Whole(t) /\ t.pending = << >>
  /\ (\A i \in Range(order) : ~Filling(i)) => AllCarriedOut(s, t)
  /\ \A i \in Interfaces : IF i \in Range(order) THEN After(s, t, i, bit[i]) ELSE Still(s, t, i)
\* The end of a delta cycle, as a whole.
LEMMA DeltaWhole ==
  ASSUME OwnedTables, AllPlaces, Whole(db), ~db.stopped, NEW order \in Seq(Interfaces), IsInjective(order),
         NEW bit \in [Interfaces -> Values], RoomFor(db, 2 * Cardinality({i \in Range(order) : Filling(i)}))
  PROVE  DeltaEnds(db, ExecuteTriggers(CommitAll(FoldLeft(LAMBDA s, i : Commit(s, i, bit[i]), db, order))), order, bit)
<1> DEFINE e == order
           n == Len(e)
           D == 1..n
           base == db
           U == Stores
           T == [S \in SUBSET D |-> {x \in U : Delta(x, order, bit, S)}]
           Step(x, k) == Commit(x, e[k], bit[e[k]])
           Value(h, S) == IF S = {} THEN base ELSE Step(h[S \ {Max(S)}], Max(S))
           fold == CHOOSE h : h = [S \in SUBSET (DOMAIN e) |-> Value(h, S)]
           committed == FoldLeft(LAMBDA s, i : Commit(s, i, bit[i]), db, order)
           all == CommitAll(committed)
           t == ExecuteTriggers(all)
<1>1. db \in Stores
  BY DEF Whole, Good
<1>2. n \in Nat /\ DOMAIN e = D
  OBVIOUS
<1>3. committed = fold[D]
  <2>1. committed = fold[DOMAIN e]
    BY DEF FoldLeft, MapThenFoldSet
  <2> HIDE DEF fold, e
  <2> QED
    BY <1>2, <2>1
<1>4. Delta(db, order, bit, {})
  <2>1. Done(order, {}) = {} /\ ToFill(order, {}) = {i \in Range(order) : Filling(i)}
    BY DEF Done, ToFill
  <2> QED
    BY <2>1 DEF Delta, Still, Steady
<1> HIDE DEF n, base, e, committed
<1>5. base \in T[{}] /\ base \in U /\ \A S \in SUBSET D : T[S] \subseteq U
  BY <1>1, <1>4 DEF base
<1>6. \A S \in SUBSET D : S # {} => \A x \in T[S \ {Max(S)}] : Step(x, Max(S)) \in T[S]
  <2> SUFFICES ASSUME NEW S \in SUBSET D, S # {}, NEW x \in T[S \ {Max(S)}] PROVE Step(x, Max(S)) \in T[S]
    OBVIOUS
  <2>1. Max(S) \in S
    BY <1>2, MaxOfPlaces
  <2>2. Delta(x, order, bit, S \ {Max(S)})
    OBVIOUS
  <2>3. Delta(Step(x, Max(S)), order, bit, S)
    BY <2>1, <2>2, DeltaStep DEF e, n
  <2>4. Step(x, Max(S)) \in Stores
    BY <2>3 DEF Delta, Whole, Good
  <2> QED
    BY <2>3, <2>4
<1> HIDE DEF T, Step, U
<1> DEFINE next == [S \in SUBSET D |-> Max(S)]
           G == [k \in D |-> [x \in U |-> IF Step(x, k) \in U THEN Step(x, k) ELSE base]]
<1>f1. IsFiniteSet(D) /\ \A S \in SUBSET D : S # {} => Max(S) \in S
  <2>1. IsFiniteSet(D)
    BY <1>2, FS_Interval
  <2>2. \A S \in SUBSET D : S # {} => Max(S) \in S
    BY <1>2, MaxOfPlaces
  <2> QED
    BY <2>1, <2>2
<1>f2. FoldStays(D, next, U, T, base, G)
  <2>1. base \in T[{}] /\ base \in U /\ \A S \in SUBSET D : T[S] \subseteq U
    BY <1>5
  <2>2. ASSUME NEW S \in SUBSET D, S # {}, NEW x \in T[S \ {next[S]}] PROVE G[next[S]][x] \in T[S]
    <3>1. next[S] = Max(S) /\ Max(S) \in D /\ x \in U
      BY <1>f1, <2>1, <2>2
    <3>2. Step(x, Max(S)) \in T[S] /\ Step(x, Max(S)) \in U
      BY <1>6, <2>1, <2>2, <3>1
    <3> QED
      BY <3>1, <3>2
  <2>3. G \in [D -> [U -> U]]
    BY <2>1
  <2> QED
    BY <1>f1, <2>1, <2>2, <2>3 DEF FoldStays
<1>f3. PICK h : FoldsAs(h, D, next, U, base, G) /\ \A S \in SUBSET D : h[S] \in T[S]
  <2> HIDE DEF D, next, G
  <2> QED
    BY <1>f2, FoldWithin
<1>f4. h \in [SUBSET D -> U] /\ \A S \in SUBSET D : h[S] = Value(h, S)
  <2>1. h \in [SUBSET D -> U] /\ \A S \in SUBSET D : T[S] \subseteq U
    BY <1>f3, <1>5 DEF FoldsAs
  <2>2. ASSUME NEW S \in SUBSET D, S # {} PROVE h[S] = Step(h[S \ {Max(S)}], Max(S))
    <3>1. Max(S) \in D /\ h[S \ {Max(S)}] \in U /\ next[S] = Max(S) /\ h[S \ {Max(S)}] \in T[S \ {Max(S)}]
      BY <1>f1, <1>f3, <2>1, <2>2
    <3>2. h[S] = G[Max(S)][h[S \ {Max(S)}]]
      BY <1>f3, <2>2, <3>1 DEF FoldsAs
    <3>3. Step(h[S \ {Max(S)}], Max(S)) \in U
      BY <1>6, <2>1, <2>2, <3>1
    <3> QED
      BY <3>1, <3>2, <3>3
  <2>3. h[{}] = base
    BY <1>f3 DEF FoldsAs
  <2> QED
    BY <2>1, <2>2, <2>3
<1>f5. fold = [S \in SUBSET D |-> Value(fold, S)]
  <2> HIDE DEF Value
  <2>1. h = [S \in SUBSET (DOMAIN e) |-> Value(h, S)]
    BY <1>2, <1>f4
  <2> QED
    BY <1>2, <2>1
<1> HIDE DEF fold
<1>f6. fold[D] \in T[D]
  <2>1. fold[{}] \in T[{}]
    BY <1>f5, <1>5
  <2>2. ASSUME NEW S \in SUBSET D, S # {}, fold[S \ {next[S]}] \in T[S \ {next[S]}] PROVE fold[S] \in T[S]
    <3>1. fold[S] = Step(fold[S \ {Max(S)}], Max(S)) /\ next[S] = Max(S)
      BY <1>f5, <2>2
    <3> QED
      BY <1>6, <2>2, <3>1
  <2>3. IsFiniteSet(D) /\ \A S \in SUBSET D : S # {} => next[S] \in S
    BY <1>f1
  <2> HIDE DEF D, next, Step
  <2> QED
    BY <2>1, <2>2, <2>3, FoldedWithin
<1>7. Delta(committed, order, bit, D)
  BY <1>3, <1>f6 DEF T
<1>8. Done(order, D) = Range(order)
  BY Ranged DEF Done, n, e
<1>9. /\ Whole(all) /\ ShownKept(committed, all) /\ all.pending = << >>
      /\ Carried(committed, all, committed.pending, 1..Len(committed.pending))
  BY <1>7, CommitAllWhole DEF Delta
<1> HIDE DEF all
<1>10. Whole(t) /\ Kept(all, t) /\ t.pending = << >> /\ t.stopped = all.stopped /\ Steady(all, t)
  <2>1. Idle(all, t) /\ t.stopped = all.stopped /\ all \in Stores
    BY <1>9, TriggersImportNothing DEF Whole, Good
  <2> QED
    BY <1>9, <2>1, KeptSteady DEF Idle
<1> HIDE DEF t
<1>11. \A i \in Interfaces : t.list[i] = committed.list[i] /\ Shown(t, i) = Shown(committed, i)
  BY <1>9, <1>10, OwnersAreViews DEF ShownKept, Kept
<1>12. \A i \in Interfaces : IF i \in Range(order) THEN After(db, t, i, bit[i]) ELSE Still(db, t, i)
  BY <1>7, <1>8, <1>11 DEF Delta, After, Still
<1>13. ASSUME \A i \in Range(order) : ~Filling(i) PROVE AllCarriedOut(db, t)
  <2>1. Steady(db, committed) /\ committed.pending = db.pending
    BY <1>7, <1>13 DEF Delta
  <2>2. Carried(committed, all, db.pending, 1..Len(db.pending))
    BY <1>9, <2>1
  <2> SUFFICES ASSUME ~all.stopped
               PROVE  /\ \A j \in 1..Len(db.pending) : db.pending[j].oper # "Delete"
                      /\ \A v \in Editors, r \in Records : r \in Range(db.list[v]) =>
                           t.rec[r].cell = db.rec[r].cell /\ Due(db, db.pending, 1..Len(db.pending), r, Worth(t, r))
    BY <1>10 DEF AllCarriedOut
  <2>3. \A j \in 1..Len(db.pending) : db.pending[j].oper # "Delete"
    BY <2>2 DEF Carried
  <2>4. ASSUME NEW v \in Editors, NEW r \in Records, r \in Range(db.list[v])
        PROVE  t.rec[r].cell = db.rec[r].cell /\ Due(db, db.pending, 1..Len(db.pending), r, Worth(t, r))
    <3>1. r \in Range(committed.list[v]) /\ committed.rec[r] = db.rec[r] /\ Worth(committed, r) = Worth(db, r)
      BY <2>1, <2>4 DEF Steady
    <3>2. /\ r \in Range(all.list[v]) /\ all.rec[r].cell = committed.rec[r].cell
          /\ Due(committed, db.pending, 1..Len(db.pending), r, Worth(all, r))
      BY <2>2, <3>1 DEF Carried
    <3>3. t.rec[r] = all.rec[r] /\ Worth(t, r) = Worth(all, r)
      BY <1>10, <3>2 DEF Steady
    <3> QED
      BY <3>1, <3>2, <3>3 DEF Due
  <2> QED
    BY <2>3, <2>4
<1> QED
  BY <1>10, <1>12, <1>13 DEF DeltaEnds, t, all, committed

-----------------------------------------------------------------------------
(* Observers select.                                                       *)

\* The selection of a view, if there is one.
LEMMA SelectionIs ==
  ASSUME NEW s \in Stores, NEW v \in Views, NEW e, e = s.selected[Home[v]]
  PROVE  /\ Home[v] \in Tables /\ e \in Seq(Selections) /\ Len(e) \in Nat /\ SelectionOf(s, v) \in 0..Len(e)
         /\ SelectionOf(s, v) # 0 => e[SelectionOf(s, v)].view = v
         /\ SelectionOf(s, v) = 0 => \A j \in 1..Len(e) : e[j].view # v
<1> DEFINE I == {j \in 1..Len(e) : e[j].view = v}
<1>1. Home[v] \in Tables /\ e \in Seq(Selections) /\ Len(e) \in Nat
  BY StoreAssumption, StoreTyped
<1>2. SelectionOf(s, v) = IF I # {} THEN Min(I) ELSE 0
  BY DEF SelectionOf, SelectInSeq
<1>3. I # {} => Min(I) \in I
  <2> SUFFICES ASSUME I # {} PROVE Min(I) \in I
    OBVIOUS
  <2>1. I \subseteq Nat
    BY <1>1
  <2>2. \E x \in I : \A y \in I : x <= y
    BY <2>1, LeastNatural
  <2> QED
    BY <2>2 DEF Min
<1>4. CASE I = {}
  <2>1. SelectionOf(s, v) = 0
    BY <1>2, <1>4
  <2> QED
    BY <1>1, <1>4, <2>1
<1>5. CASE I # {}
  <2>1. SelectionOf(s, v) \in I
    BY <1>2, <1>3, <1>5
  <2> QED
    BY <1>1, <2>1
<1> QED
  BY <1>4, <1>5

\* A Record of the row c goes to the i-th selection.
Picking(s, v, c, i) ==
  [RecordOf(s, c) EXCEPT !.selected[Home[v]][i].recs = Append(@, Fresh(s.rec))]
SameViews(s, t) ==
  \A u \in Tables : /\ Len(t.selected[u]) = Len(s.selected[u])
                    /\ \A j \in 1..Len(s.selected[u]) : t.selected[u][j].view = s.selected[u][j].view
Picks(s, t, v, c, r, i) ==
  /\ t.rows = s.rows /\ t.list = s.list /\ t.new = s.new
  /\ \A d \in Cells : s.cell[d] # Freed => t.cell[d] # Freed /\ t.cell[d].count >= s.cell[d].count
  /\ t.cell[c].count = s.cell[c].count + 1
  /\ t.rec[r] # Freed /\ t.rec[r].cell = c /\ t.rec[r].auto
  /\ \A q \in Records : q # r => t.rec[q] = s.rec[q]
  /\ \A u \in Tables : /\ Len(t.selected[u]) = Len(s.selected[u])
                       /\ \A j \in 1..Len(s.selected[u]) :
                            /\ t.selected[u][j].view = s.selected[u][j].view
                            /\ t.selected[u][j].recs = IF u = Home[v] /\ j = i THEN Append(s.selected[u][j].recs, r)
                                                       ELSE s.selected[u][j].recs
\* A Record that is picked is in the selection.
LEMMA PicksGood ==
  ASSUME OwnedTables, NEW s, NEW W \in SUBSET Records, Good(s, W), NEW t \in Stores, SameRules(s, t),
         NEW v \in Observers, NEW c \in Range(s.rows[Home[v]]), NEW r \in Records, s.rec[r] = Freed,
         NEW i \in 1..Len(s.selected[Home[v]]), s.selected[Home[v]][i].view = v, Picks(s, t, v, c, r, i)
  PROVE  Good(t, W)
BY SelectedGood DEF Picks

PickedRecord(s, t, W) ==
  /\ Good(t, W) /\ Kept(s, t) /\ SameViews(s, t) /\ t.rows = s.rows /\ t.pending = s.pending
  /\ \E q : Unused(s.rec) \ {q} \subseteq Unused(t.rec)
\* One row is picked.
LEMMA PickingIs ==
  ASSUME OwnedTables, NEW s, NEW W \in SUBSET Records, Good(s, W), NEW v \in Observers,
         NEW c \in Range(s.rows[Home[v]]), Unused(s.rec) # {},
         NEW i \in 1..Len(s.selected[Home[v]]), s.selected[Home[v]][i].view = v
  PROVE  PickedRecord(s, Picking(s, v, c, i), W)
<1> DEFINE h == Home[v]
           r == Fresh(s.rec)
           record == [cell |-> c, view |-> None, auto |-> TRUE]
           more == [s.cell[c] EXCEPT !.count = @ + 1]
           cell == [s.cell EXCEPT ![c] = more]
           rec == [s.rec EXCEPT ![r] = record]
           sel == s.selected[h][i]
           longer == [sel EXCEPT !.recs = Append(@, r)]
           all == [s.selected[h] EXCEPT ![i] = longer]
           selected == [s.selected EXCEPT ![h] = all]
           t == Picking(s, v, c, i)
<1>1. s \in Stores /\ v \in Views /\ h \in Tables
  BY OwnersAreViews DEF Good
<1>2. /\ s.cell \in [Cells -> {Freed} \cup CellStates] /\ s.rec \in [Records -> {Freed} \cup RecordStates]
      /\ s.selected \in [Tables -> Seq(Selections)] /\ s.selected[h] \in Seq(Selections) /\ s.rows[h] \in Seq(Cells)
  BY <1>1, StoreTyped
<1>3. c \in Cells /\ s.cell[c] # Freed /\ s.cell[c] \in CellStates /\ s.cell[c].count \in Nat
  <2>1. c \in Cells
    BY <1>2, Ranged
  <2>2. s.cell[c] # Freed
    BY <1>1, <2>1 DEF Good, RowsApart
  <2> QED
    BY <1>1, <2>1, <2>2, CellTyped
<1>4. r \in Records /\ s.rec[r] = Freed
  BY <1>1, FreshOf
<1>5. sel \in Selections /\ sel.recs \in Seq(Records)
  <2>1. sel \in Selections
    BY <1>2, Ranged
  <2> QED
    BY <2>1 DEF Selections
<1>6. t = [s EXCEPT !.cell = cell, !.rec = rec, !.selected = selected]
  BY <1>1 DEF Picking, RecordOf, Allocate, CountBy, Stores
<1>7. record \in RecordStates /\ record # Freed /\ record.cell = c /\ record.auto
  <2>1. record \in RecordStates
    BY <1>3 DEF RecordStates
  <2> QED
    BY <2>1, StoreAssumption
<1>8. more \in CellStates /\ more # Freed /\ more.count = s.cell[c].count + 1 /\ more.value = s.cell[c].value
  <2>1. more \in CellStates /\ more.count = s.cell[c].count + 1 /\ more.value = s.cell[c].value
    BY <1>3 DEF CellStates
  <2> QED
    BY <2>1, StoreAssumption
<1>9. longer \in Selections /\ longer.view = sel.view /\ longer.recs = Append(sel.recs, r)
  <2>1. Append(sel.recs, r) \in Seq(Records)
    BY <1>4, <1>5, Appended
  <2> QED
    BY <1>5, <2>1 DEF Selections
<1> HIDE DEF record, more, longer, r
<1>10. /\ all \in Seq(Selections) /\ Len(all) = Len(s.selected[h])
       /\ \A j \in 1..Len(s.selected[h]) : all[j] = IF j = i THEN longer ELSE s.selected[h][j]
  BY <1>2, <1>9
<1> HIDE DEF all
<1>11. /\ cell \in [Cells -> {Freed} \cup CellStates] /\ rec \in [Records -> {Freed} \cup RecordStates]
       /\ selected \in [Tables -> Seq(Selections)]
       /\ cell[c] = more /\ \A d \in Cells : d # c => cell[d] = s.cell[d]
       /\ rec[r] = record /\ \A q \in Records : q # r => rec[q] = s.rec[q]
       /\ selected[h] = all /\ \A u \in Tables : u # h => selected[u] = s.selected[u]
  BY <1>1, <1>2, <1>3, <1>4, <1>7, <1>8, <1>10
<1> HIDE DEF cell, rec, selected, t
<1>12. /\ t \in Stores /\ SameRules(s, t) /\ t.cell = cell /\ t.rec = rec /\ t.selected = selected
       /\ t.rows = s.rows /\ t.list = s.list /\ t.new = s.new /\ t.pending = s.pending
  BY <1>1, <1>6, <1>11 DEF Stores, SameRules
<1>13. \A u \in Tables : \A j \in 1..Len(s.selected[u]) :
          /\ Len(selected[u]) = Len(s.selected[u])
          /\ selected[u][j].view = s.selected[u][j].view
          /\ selected[u][j].recs = IF u = h /\ j = i THEN Append(s.selected[u][j].recs, r) ELSE s.selected[u][j].recs
  BY <1>9, <1>10, <1>11
<1>14. \A u \in Tables : Len(selected[u]) = Len(s.selected[u])
  BY <1>10, <1>11
<1>15. \A d \in Cells : s.cell[d] # Freed => cell[d] # Freed /\ cell[d].count >= s.cell[d].count
  <2> SUFFICES ASSUME NEW d \in Cells, s.cell[d] # Freed PROVE cell[d] # Freed /\ cell[d].count >= s.cell[d].count
    OBVIOUS
  <2>1. s.cell[d].count \in Nat
    BY <1>1, CellTyped
  <2> QED
    BY <1>3, <1>8, <1>11, <2>1
<1>16. Picks(s, t, v, c, r, i)
  BY <1>7, <1>8, <1>11, <1>12, <1>13, <1>14, <1>15 DEF Picks, h
<1>17. Good(t, W)
  BY <1>4, <1>12, <1>16, PicksGood
<1>18. Kept(s, t)
  <2>1. \A w \in Owners, q \in Records : q \in Range(s.list[w]) => t.rec[q] = s.rec[q]
    BY <1>4, <1>11, <1>12, OwnersAreViews, Listed
  <2>2. \A w \in Owners, d \in Cells : d \in Range(s.rows[Home[w]]) => t.cell[d].value = s.cell[d].value
    BY <1>8, <1>11, <1>12
  <2> QED
    BY <1>12, <2>1, <2>2, ShownSame
<1>19. Unused(s.rec) \ {r} \subseteq Unused(t.rec)
  <2>1. DOMAIN t.rec = Records /\ DOMAIN s.rec = Records
    BY <1>2, <1>11, <1>12
  <2> QED
    BY <1>11, <1>12, <2>1 DEF Unused
<1>20. SameViews(s, t)
  BY <1>12, <1>13, <1>14 DEF SameViews
<1> QED
  BY <1>12, <1>17, <1>18, <1>19, <1>20 DEF PickedRecord, t

\* What has been selected after some rows: there is room for the others.
Selecting(s, x, v, i, left) ==
  /\ Idle(s, x) /\ x.rows = s.rows
  /\ i \in 1..Len(x.selected[Home[v]]) /\ x.selected[Home[v]][i].view = v
  /\ Cardinality(Unused(x.rec)) >= Cardinality(left)
\* The next row is looked at.
LEMMA SelectStep ==
  ASSUME OwnedTables, NEW s, NEW v \in Observers, NEW i, NEW left, IsFiniteSet(left), NEW k \in left,
         NEW c \in Range(s.rows[Home[v]]), NEW matches, NEW x, Selecting(s, x, v, i, left)
  PROVE  Selecting(s, IF x.cell[c].value \notin matches THEN x ELSE Picking(x, v, c, i), v, i, left \ {k})
<1> DEFINE W == AddRecs(x)
           h == Home[v]
           t == Picking(x, v, c, i)
<1>1. /\ x \in Stores /\ Whole(x) /\ Good(x, W) /\ W \in SUBSET Records /\ Unspent(x) /\ h \in Tables
      /\ c \in Range(x.rows[h])
  <2>1. x \in Stores
    BY DEF Selecting, Idle, Whole, Good
  <2> QED
    BY <2>1, UnusedFinite, OwnersAreViews DEF Selecting, Idle, Whole, AddRecs
<1>2. /\ Cardinality(left) \in Nat /\ Cardinality(left \ {k}) \in Nat /\ Cardinality(left \ {k}) + 1 = Cardinality(left)
      /\ Cardinality(Unused(x.rec)) \in Nat /\ IsFiniteSet(left \ {k})
  <2>1. Cardinality(left) \in Nat /\ Cardinality(Unused(x.rec)) \in Nat
    BY <1>1, FS_CardinalityType DEF Unspent
  <2>2. IsFiniteSet(left \ {k}) /\ Cardinality(left \ {k}) = Cardinality(left) - 1
    BY FS_RemoveElement
  <2>3. Cardinality(left \ {k}) \in Nat
    BY <2>2, FS_CardinalityType
  <2> QED
    BY <2>1, <2>2, <2>3
<1>3. Cardinality(Unused(x.rec)) >= Cardinality(left)
  BY DEF Selecting
<1>4. CASE x.cell[c].value \notin matches
  <2>1. Cardinality(Unused(x.rec)) >= Cardinality(left \ {k})
    BY <1>2, <1>3
  <2> QED
    BY <1>4, <2>1 DEF Selecting
<1>5. CASE ~(x.cell[c].value \notin matches)
  <2>1. Unused(x.rec) # {}
    BY <1>2, <1>3, FS_EmptySet
  <2>2. i \in 1..Len(x.selected[h]) /\ x.selected[h][i].view = v
    BY DEF Selecting
  <2> HIDE DEF W
  <2>3. PickedRecord(x, t, W)
    BY <1>1, <2>1, <2>2, PickingIs
  <2> HIDE DEF t
  <2>4. /\ Good(t, W) /\ Kept(x, t) /\ SameViews(x, t) /\ t.rows = x.rows /\ t.pending = x.pending
    BY <2>3 DEF PickedRecord
  <2>5. PICK q : Unused(x.rec) \ {q} \subseteq Unused(t.rec)
    BY <2>3 DEF PickedRecord
  <2>6. t \in Stores /\ Unspent(t)
    BY <2>4, UnusedFinite DEF Good
  <2>7. Cardinality(Unused(t.rec)) \in Nat /\ Cardinality(Unused(t.rec)) + 1 >= Cardinality(Unused(x.rec))
    BY <1>1, <2>5, <2>6, OneFewer DEF Unspent
  <2>8. Cardinality(Unused(t.rec)) >= Cardinality(left \ {k})
    BY <1>2, <1>3, <2>7
  <2>9. Idle(x, t)
    BY <1>1, <2>4, KeptWhole DEF W, Idle
  <2>10. Idle(s, t) /\ t.rows = s.rows
    BY <2>4, <2>9, IdleTwice DEF Selecting
  <2>11. i \in 1..Len(t.selected[h]) /\ t.selected[h][i].view = v
    BY <1>1, <2>2, <2>4 DEF SameViews
  <2> QED
    BY <1>5, <2>8, <2>10, <2>11 DEF Selecting, t
<1> QED
  BY <1>4, <1>5

\* A view that has selected nothing yet gets a selection.
Listing(s, v) ==
  IF SelectionOf(s, v) # 0 THEN s
  ELSE [s EXCEPT !.selected[Home[v]] = Append(@, [view |-> v, recs |-> <<>>])]
\* A view that had no selection has an empty one.
LEMMA ListingIs ==
  ASSUME OwnedTables, NEW s, Whole(s), NEW v \in Observers, NEW left, Cardinality(Unused(s.rec)) >= Cardinality(left)
  PROVE  Selecting(s, Listing(s, v), v, SelectionOf(Listing(s, v), v), left)
<1> DEFINE h == Home[v]
           e == s.selected[h]
           none == << >>
           sel == [view |-> v, recs |-> none]
           all == Append(e, sel)
           selected == [s.selected EXCEPT ![h] = all]
           t == Listing(s, v)
           i == SelectionOf(t, v)
           W == AddRecs(s)
<1>1. s \in Stores /\ v \in Views /\ h \in Tables /\ Governed(s) /\ W \in SUBSET Records /\ Good(s, W)
  BY OwnersAreViews DEF Whole, Good, AddRecs
<1>2. CASE SelectionOf(s, v) # 0
  <2>1. t = s /\ i = SelectionOf(s, v)
    BY <1>2 DEF Listing
  <2>2. i \in 1..Len(e) /\ e[i].view = v
    BY <1>1, <1>2, <2>1, SelectionIs
  <2>3. Kept(s, s)
    BY SameKept
  <2> QED
    BY <2>1, <2>2, <2>3 DEF Selecting, Idle
<1>3. CASE SelectionOf(s, v) = 0
  <2>1. e \in Seq(Selections) /\ \A j \in 1..Len(e) : e[j].view # v
    BY <1>1, <1>3, SelectionIs
  <2>2. sel \in Selections /\ sel.view = v /\ none \in Seq(Records)
    BY <1>1 DEF Selections
  <2>3. t = [s EXCEPT !.selected = selected]
    BY <1>1, <1>3 DEF Listing, Stores
  <2> HIDE DEF sel, none
  <2>4. all \in Seq(Selections) /\ Len(all) = Len(e) + 1 /\ Len(e) \in Nat /\ all[Len(e) + 1] = sel
    BY <2>1, <2>2, Appended
  <2>5. selected = [s.selected EXCEPT ![h] = Append(@, [view |-> v, recs |-> << >>])]
    BY DEF sel, none
  <2> HIDE DEF all
  <2>6. s.selected \in [Tables -> Seq(Selections)]
    BY <1>1, StoreTyped
  <2>7. selected \in [Tables -> Seq(Selections)] /\ selected[h] = all
    BY <1>1, <2>4, <2>6
  <2> HIDE DEF t, selected
  <2>8. /\ t \in Stores /\ SameRules(s, t) /\ t.selected = selected /\ t.cell = s.cell /\ t.rec = s.rec
        /\ t.rows = s.rows /\ t.list = s.list /\ t.new = s.new /\ t.pending = s.pending
    BY <1>1, <2>3, <2>7 DEF Stores, SameRules
  <2> HIDE DEF W
  <2>9. Good(t, W)
    BY <1>1, <2>1, <2>5, <2>8, ListedGood
  <2>10. Kept(s, t)
    BY <2>8, SameKept
  <2>11. Whole(t)
    BY <2>8, <2>9, <2>10, KeptWhole DEF W
  <2>12. i # 0
    <3>1. t.selected[h] = all /\ Len(e) + 1 \in 1..Len(all) /\ all[Len(e) + 1].view = v
      BY <2>2, <2>4, <2>7, <2>8
    <3> HIDE DEF i
    <3>2. i = 0 => \A j \in 1..Len(all) : all[j].view # v
      BY <1>1, <2>8, <3>1, SelectionIs DEF i
    <3> QED
      BY <3>1, <3>2
  <2>13. i \in 1..Len(t.selected[h]) /\ t.selected[h][i].view = v
    BY <1>1, <2>8, <2>12, SelectionIs
  <2> QED
    BY <2>8, <2>10, <2>11, <2>13 DEF Selecting, Idle, t
<1> QED
  BY <1>2, <1>3

\* Selecting from rows of the table.
LEMMA SelectWhole ==
  ASSUME OwnedTables, NEW s, Whole(s), NEW v \in Observers, NEW rows \in Seq(Cells),
         Range(rows) \subseteq Range(s.rows[Home[v]]), Cardinality(Unused(s.rec)) >= Len(rows), NEW matches
  PROVE  Idle(s, Select(s, v, rows, matches)) /\ Select(s, v, rows, matches).rows = s.rows
<1> DEFINE e == rows
           n == Len(e)
           D == 1..n
           base == Listing(s, v)
           i == SelectionOf(base, v)
           U == Stores
           T == [S \in SUBSET D |-> {x \in U : Selecting(s, x, v, i, D \ S)}]
           Step(x, k) == IF x.cell[e[k]].value \notin matches THEN x ELSE Picking(x, v, e[k], i)
           Value(h, S) == IF S = {} THEN base ELSE Step(h[S \ {Max(S)}], Max(S))
           fold == CHOOSE h : h = [S \in SUBSET (DOMAIN e) |-> Value(h, S)]
           t == Select(s, v, rows, matches)
<1>1. n \in Nat /\ DOMAIN e = D
  OBVIOUS
<1>2. t = fold[D]
  <2>1. t = fold[DOMAIN e]
    BY DEF Select, Listing, Picking, FoldLeft, MapThenFoldSet
  <2> HIDE DEF fold, e
  <2> QED
    BY <1>1, <2>1
<1>3. IsFiniteSet(D) /\ Cardinality(D) = n
  <2>1. IsFiniteSet(D) /\ Cardinality(D) = IF 1 > n THEN 0 ELSE n - 1 + 1
    <3> HIDE DEF n
    <3> QED
      BY <1>1, FS_Interval
  <2> HIDE DEF n
  <2> QED
    BY <1>1, <2>1
<1>4. Selecting(s, base, v, i, D)
  <2>1. Cardinality(Unused(s.rec)) >= Cardinality(D)
    BY <1>3
  <2> HIDE DEF D
  <2> QED
    BY <2>1, ListingIs
<1> HIDE DEF n, base, e, i, t
<1>5. base \in T[{}] /\ base \in U /\ \A S \in SUBSET D : T[S] \subseteq U
  <2>1. D \ {} = D /\ base \in Stores
    BY <1>4 DEF Selecting, Idle, Whole, Good
  <2> QED
    BY <1>4, <2>1
<1>6. \A S \in SUBSET D : S # {} => \A x \in T[S \ {Max(S)}] : Step(x, Max(S)) \in T[S]
  <2> SUFFICES ASSUME NEW S \in SUBSET D, S # {}, NEW x \in T[S \ {Max(S)}] PROVE Step(x, Max(S)) \in T[S]
    OBVIOUS
  <2> DEFINE k == Max(S)
             left == D \ (S \ {k})
  <2>1. k \in S /\ k \in D
    BY <1>1, MaxOfPlaces
  <2>2. IsFiniteSet(left) /\ k \in left /\ D \ S = left \ {k}
    BY <1>3, <2>1, FS_Subset
  <2>3. e[k] \in Range(s.rows[Home[v]])
    BY <2>1, Ranged DEF e, n
  <2>4. Selecting(s, x, v, i, left)
    OBVIOUS
  <2> HIDE DEF left, k
  <2>5. Selecting(s, Step(x, k), v, i, left \ {k})
    BY <2>2, <2>3, <2>4, SelectStep
  <2>6. Step(x, k) \in Stores
    BY <2>5 DEF Selecting, Idle, Whole, Good
  <2> QED
    BY <2>2, <2>5, <2>6 DEF k
<1> HIDE DEF T, Step, U
<1> DEFINE next == [S \in SUBSET D |-> Max(S)]
           G == [k \in D |-> [x \in U |-> IF Step(x, k) \in U THEN Step(x, k) ELSE base]]
<1>f1. IsFiniteSet(D) /\ \A S \in SUBSET D : S # {} => Max(S) \in S
  <2>1. IsFiniteSet(D)
    BY <1>1, FS_Interval
  <2>2. \A S \in SUBSET D : S # {} => Max(S) \in S
    BY <1>1, MaxOfPlaces
  <2> QED
    BY <2>1, <2>2
<1>f2. FoldStays(D, next, U, T, base, G)
  <2>1. base \in T[{}] /\ base \in U /\ \A S \in SUBSET D : T[S] \subseteq U
    BY <1>5
  <2>2. ASSUME NEW S \in SUBSET D, S # {}, NEW x \in T[S \ {next[S]}] PROVE G[next[S]][x] \in T[S]
    <3>1. next[S] = Max(S) /\ Max(S) \in D /\ x \in U
      BY <1>f1, <2>1, <2>2
    <3>2. Step(x, Max(S)) \in T[S] /\ Step(x, Max(S)) \in U
      BY <1>6, <2>1, <2>2, <3>1
    <3> QED
      BY <3>1, <3>2
  <2>3. G \in [D -> [U -> U]]
    BY <2>1
  <2> QED
    BY <1>f1, <2>1, <2>2, <2>3 DEF FoldStays
<1>f3. PICK h : FoldsAs(h, D, next, U, base, G) /\ \A S \in SUBSET D : h[S] \in T[S]
  <2> HIDE DEF D, next, G
  <2> QED
    BY <1>f2, FoldWithin
<1>f4. h \in [SUBSET D -> U] /\ \A S \in SUBSET D : h[S] = Value(h, S)
  <2>1. h \in [SUBSET D -> U] /\ \A S \in SUBSET D : T[S] \subseteq U
    BY <1>f3, <1>5 DEF FoldsAs
  <2>2. ASSUME NEW S \in SUBSET D, S # {} PROVE h[S] = Step(h[S \ {Max(S)}], Max(S))
    <3>1. Max(S) \in D /\ h[S \ {Max(S)}] \in U /\ next[S] = Max(S) /\ h[S \ {Max(S)}] \in T[S \ {Max(S)}]
      BY <1>f1, <1>f3, <2>1, <2>2
    <3>2. h[S] = G[Max(S)][h[S \ {Max(S)}]]
      BY <1>f3, <2>2, <3>1 DEF FoldsAs
    <3>3. Step(h[S \ {Max(S)}], Max(S)) \in U
      BY <1>6, <2>1, <2>2, <3>1
    <3> QED
      BY <3>1, <3>2, <3>3
  <2>3. h[{}] = base
    BY <1>f3 DEF FoldsAs
  <2> QED
    BY <2>1, <2>2, <2>3
<1>f5. fold = [S \in SUBSET D |-> Value(fold, S)]
  <2> HIDE DEF Value
  <2>1. h = [S \in SUBSET (DOMAIN e) |-> Value(h, S)]
    BY <1>1, <1>f4
  <2> QED
    BY <1>1, <2>1
<1> HIDE DEF fold
<1>f6. fold[D] \in T[D]
  <2>1. fold[{}] \in T[{}]
    BY <1>f5, <1>5
  <2>2. ASSUME NEW S \in SUBSET D, S # {}, fold[S \ {next[S]}] \in T[S \ {next[S]}] PROVE fold[S] \in T[S]
    <3>1. fold[S] = Step(fold[S \ {Max(S)}], Max(S)) /\ next[S] = Max(S)
      BY <1>f5, <2>2
    <3> QED
      BY <1>6, <2>2, <3>1
  <2>3. IsFiniteSet(D) /\ \A S \in SUBSET D : S # {} => next[S] \in S
    BY <1>f1
  <2> HIDE DEF D, next, Step
  <2> QED
    BY <2>1, <2>2, <2>3, FoldedWithin
<1>7. Selecting(s, t, v, i, D \ D)
  BY <1>2, <1>f6 DEF T
<1> QED
  BY <1>7 DEF Selecting, t

\* Table::RecordsSelect by range.
LEMMA ObserveWhole ==
  ASSUME OwnedTables, NEW s, Whole(s), NEW o \in Observers, NEW first \in Nat \ {0}, NEW last \in Nat,
         first <= last, last <= Len(s.rows[Home[o]]), RoomFor(s, last - first + 1)
  PROVE  Idle(s, RecordsSelect(s, o, first, last))
<1> DEFINE e == s.rows[Home[o]]
           rows == SubSeq(e, first, last)
<1>1. CASE SelectionOf(s, o) # 0
  BY <1>1, StopWhole DEF RecordsSelect
<1>2. CASE SelectionOf(s, o) = 0
  <2>1. e \in Seq(Cells) /\ Len(e) \in Nat
    BY OwnersAreViews, StoreTyped DEF Whole, Good
  <2>2. RecordsSelect(s, o, first, last) = Select(s, o, rows, Values)
    BY <1>2, <2>1 DEF RecordsSelect
  <2> HIDE DEF e
  <2>3. /\ rows \in Seq(Cells) /\ Len(rows) = last - first + 1
        /\ \A k \in 1..Len(rows) : rows[k] = e[first + k - 1] /\ first + k - 1 \in 1..Len(e)
    BY <2>1 DEF e
  <2>4. Range(rows) \subseteq Range(e)
    <3> SUFFICES ASSUME NEW x \in Range(rows) PROVE x \in Range(e)
      OBVIOUS
    <3> HIDE DEF rows
    <3>1. PICK k \in 1..Len(rows) : rows[k] = x
      BY <2>3, Ranged
    <3>2. x = e[first + k - 1] /\ first + k - 1 \in 1..Len(e)
      BY <2>3, <3>1
    <3> QED
      BY <2>1, <3>2, Ranged
  <2> HIDE DEF rows
  <2>5. Cardinality(Unused(s.rec)) >= Len(rows)
    BY <2>3 DEF RoomFor
  <2> QED
    BY <2>2, <2>3, <2>4, <2>5, SelectWhole DEF e
<1> QED
  BY <1>1, <1>2

\* The reference that is given up too often is not one of an interface's row.
LEMMA ObserveMatchingWhole ==
  ASSUME OwnedTables, NEW s, Whole(s), NEW o \in Observers, ~OfInterface(Home[o]), NEW matches,
         RoomFor(s, Len(s.rows[Home[o]]))
  PROVE  Idle(s, RecordsSelectMatching(s, o, matches))
<1> DEFINE rows == s.rows[Home[o]]
           a == Select(s, o, rows, matches)
           c == Last(rows)
           less == [a.cell[c] EXCEPT !.count = @ + (0 - 1)]
           cell == [a.cell EXCEPT ![c] = less]
           b == CountBy(a, c, 0 - 1)
           t == RecordsSelectMatching(s, o, matches)
           W == AddRecs(a)
<1>1. rows \in Seq(Cells) /\ Home[o] \in Tables
  BY OwnersAreViews, StoreTyped DEF Whole, Good
<1>2. Idle(s, a) /\ a.rows = s.rows /\ Whole(a)
  <2>1. Cardinality(Unused(s.rec)) >= Len(rows)
    BY DEF RoomFor
  <2> HIDE DEF rows
  <2> QED
    BY <1>1, <2>1, SelectWhole DEF rows, Idle
<1>3. CASE rows = << >>
  BY <1>2, <1>3 DEF RecordsSelectMatching
<1>4. CASE rows # << >> /\ a.cell[c].count = 0
  <2>1. t = Stop(a)
    BY <1>4 DEF RecordsSelectMatching
  <2> HIDE DEF a, t
  <2> QED
    BY <1>2, <2>1, StopWhole, IdleTwice DEF t
<1>5. CASE rows # << >> /\ a.cell[c].count # 0
  <2>1. t = b
    BY <1>5 DEF RecordsSelectMatching
  <2> HIDE DEF a, t, W
  <2>2. a \in Stores /\ Good(a, W) /\ a.cell \in [Cells -> {Freed} \cup CellStates]
    BY <1>2, StoreTyped DEF Whole, Good, W
  <2>3. c \in Cells /\ c \in Range(rows)
    <3>1. Len(rows) \in 1..Len(rows)
      BY <1>1, <1>5
    <3> QED
      BY <1>1, <3>1, Ranged DEF Last
  <2>4. a.cell[c] \in CellStates /\ a.cell[c].count \in Nat /\ a.cell[c].count >= 1
    <3>1. a.cell[c] # Freed
      BY <1>1, <1>2, <2>2, <2>3 DEF Good, RowsApart
    <3> QED
      BY <1>5, <2>2, <2>3, <3>1, CellTyped
  <2>5. \A i \in Interfaces : c \notin Range(s.rows[Home[i]])
    <3>1. \A i \in Interfaces : Home[i] # Home[o] /\ Home[i] \in Tables
      BY OwnersAreViews DEF OfInterface
    <3> QED
      BY <1>1, <2>3, <3>1 DEF Whole, Good, RowsApart
  <2> HIDE DEF c, rows
  <2>6. b = [a EXCEPT !.cell = cell]
    BY DEF CountBy
  <2>7. less \in CellStates /\ less.value = a.cell[c].value /\ less # Freed
    <3>1. less \in CellStates /\ less.value = a.cell[c].value
      BY <2>4 DEF CellStates
    <3> QED
      BY <3>1, StoreAssumption
  <2> HIDE DEF less
  <2>8. cell \in [Cells -> {Freed} \cup CellStates] /\ cell[c] = less /\ \A d \in Cells : d # c => cell[d] = a.cell[d]
    BY <2>2, <2>3, <2>7
  <2> HIDE DEF cell, b
  <2>9. \A d \in Cells : a.cell[d] # Freed => cell[d] # Freed
    BY <2>7, <2>8
  <2>10. \A i \in Interfaces, d \in Cells : d \in Range(a.rows[Home[i]]) => cell[d].count >= a.cell[d].count
    <3> SUFFICES ASSUME NEW i \in Interfaces, NEW d \in Cells, d \in Range(a.rows[Home[i]])
                 PROVE  cell[d].count >= a.cell[d].count
      OBVIOUS
    <3>1. d # c
      BY <1>2, <2>5
    <3>2. a.cell[d] # Freed
      BY <2>2, OwnersAreViews DEF Good, RowsApart
    <3>3. a.cell[d].count \in Nat
      BY <2>2, <3>2, CellTyped
    <3> QED
      BY <2>8, <3>1, <3>3
  <2>11. Good(b, W) /\ b.cell = cell /\ b.rec = a.rec /\ b.list = a.list /\ b.pending = a.pending
    BY <2>2, <2>6, <2>8, <2>9, <2>10, CellsChange
  <2>12. Kept(a, b)
    <3>1. \A d \in Cells : b.cell[d].value = a.cell[d].value
      BY <2>7, <2>8, <2>11
    <3> QED
      BY <2>2, <2>11, <3>1, ShownSame
  <2>13. Idle(a, b)
    BY <1>2, <2>11, <2>12, KeptWhole DEF W, Idle
  <2> QED
    BY <1>2, <2>1, <2>13, IdleTwice DEF t
<1> QED
  BY <1>3, <1>4, <1>5

\* An observer gives back what it lists.
LEMMA UnselectWhole ==
  ASSUME OwnedTables, NEW s, Whole(s), NEW o \in Observers, NEW r \in Records, r \in Range(s.list[o])
  PROVE  Idle(s, RecordsUnselect(s, o, r))
<1> DEFINE c == s.rec[r].cell
           e == RemoveFirst(s.list[o], r)
           list == [s.list EXCEPT ![o] = e]
           u == [s EXCEPT !.list = list]
           less == [s.cell[c] EXCEPT !.count = @ + (0 - 1)]
           cell == [s.cell EXCEPT ![c] = less]
           b == [s EXCEPT !.list = list, !.cell = cell]
           t == RecordsUnselect(s, o, r)
           W == AddRecs(s)
<1>1. s \in Stores /\ o \in Views /\ Good(s, W) /\ W \in SUBSET Records /\ o \notin Owners /\ Governed(s)
  BY OwnersAreViews DEF Whole, Good, AddRecs
<1>2. /\ c \in Cells /\ s.cell[c] \in CellStates /\ s.cell[c].count \in Nat /\ s.rec[r] # Freed
  BY <1>1, Listed DEF Whole, CellStates
<1>3. s.list \in [Views -> Seq(Records)] /\ s.cell \in [Cells -> {Freed} \cup CellStates]
  BY <1>1, StoreTyped
<1>4. /\ e \in Seq(Records) /\ IsInjective(e)
      /\ \A y : y \in Range(e) <=> y \in Range(s.list[o]) /\ y # r
  <2>1. IsInjective(s.list[o])
    BY <1>1 DEF Good, Sound, Placed
  <2> QED
    BY <1>1, <1>3, <2>1, FirstRemoved
<1>5. t = IF s.cell[c].count = 0 THEN Stop(u) ELSE b
  BY <1>1 DEF RecordsUnselect, CountBy, Stores
<1> HIDE DEF e, t, W
<1>6. /\ list \in [Views -> Seq(Records)] /\ list[o] = e /\ \A v \in Views : v # o => list[v] = s.list[v]
  BY <1>1, <1>3, <1>4
<1> HIDE DEF list
<1>7. \A v \in Views : IsInjective(list[v])
  BY <1>1, <1>4, <1>6 DEF Good, Sound, Placed
<1>8. \A v \in Views, q \in Records : q \in Range(list[v]) <=> q \in Range(s.list[v]) /\ ~(v = o /\ q = r)
  BY <1>4, <1>6
<1>9. \A v \in Owners : list[v] = s.list[v]
  BY <1>1, <1>6, OwnersAreViews
<1>10. CASE s.cell[c].count = 0
  <2> HIDE DEF u
  <2>1. /\ u \in Stores /\ SameRules(s, u) /\ u.list = list /\ u.cell = s.cell /\ u.rec = s.rec /\ u.rows = s.rows
        /\ u.new = s.new /\ u.selected = s.selected /\ u.pending = s.pending
    BY <1>1, <1>6 DEF Stores, SameRules, u
  <2>2. RowsApart(u)
    BY <1>1, <2>1 DEF Good, RowsApart
  <2>3. Counted(u)
    BY <1>1, <1>8, <2>1, FewerObserved DEF Good
  <2>4. PICK kind \in [Records -> Kinds], of \in [Records -> Views \cup {None}] : Sound(s, W, kind, of)
    BY <1>1 DEF Good
  <2>5. /\ \A v \in Views : /\ IsInjective(u.list[v]) /\ u.new[v] \subseteq s.new[v]
                            /\ \A q \in Records : q \in Range(u.list[v]) => q \in Range(s.list[v])
    BY <1>7, <1>8, <2>1
  <2>6. \A v \in Tables : /\ Len(u.selected[v]) <= Len(s.selected[v])
                          /\ \A j \in 1..Len(u.selected[v]) : u.selected[v][j] = s.selected[v][j]
    <3>1. \A v \in Tables : Len(s.selected[v]) \in Nat
      BY <1>1, StoreTyped
    <3> QED
      BY <2>1, <3>1
  <2>7. Sound(u, W, kind, of)
    BY <1>1, <2>1, <2>4, <2>5, <2>6, ShrunkSound
  <2>8. Good(u, W)
    BY <1>1, <2>1, <2>2, <2>3, <2>7, GovernedKept DEF Good
  <2>9. Kept(s, u)
    BY <1>1, <1>9, <2>1, ShownSame
  <2>10. Idle(s, u)
    BY <2>1, <2>8, <2>9, KeptWhole DEF W, Idle
  <2> QED
    BY <1>5, <1>10, <2>10, StopWhole, IdleTwice DEF t, Idle
<1>11. CASE s.cell[c].count # 0
  <2>1. less \in CellStates /\ less.count + 1 = s.cell[c].count /\ less.value = s.cell[c].value
    BY <1>2, <1>11 DEF CellStates
  <2>2. less # Freed
    BY <2>1, StoreAssumption
  <2> HIDE DEF less, c
  <2>3. cell \in [Cells -> {Freed} \cup CellStates] /\ cell[c] = less /\ \A d \in Cells : d # c => cell[d] = s.cell[d]
    BY <1>2, <1>3, <2>1
  <2> HIDE DEF cell, b
  <2>4. /\ b \in Stores /\ SameRules(s, b) /\ b.list = list /\ b.cell = cell /\ b.rec = s.rec /\ b.rows = s.rows
        /\ b.new = s.new /\ b.selected = s.selected /\ b.pending = s.pending
    BY <1>1, <1>6, <2>3 DEF Stores, SameRules, b
  <2>5. /\ \A v \in Views : IsInjective(b.list[v])
        /\ \A v \in Views, q \in Records : q \in Range(b.list[v]) <=> q \in Range(s.list[v]) /\ ~(v = o /\ q = r)
    BY <1>7, <1>8, <2>4
  <2>6. b.cell[c] # Freed /\ b.cell[c].count + 1 = s.cell[c].count /\ \A d \in Cells : d # c => b.cell[d] = s.cell[d]
    BY <2>1, <2>2, <2>3, <2>4
  <2>7. c = s.rec[r].cell
    BY DEF c
  <2>8. Good(b, W)
    BY <1>1, <1>2, <2>4, <2>5, <2>6, <2>7, UnselectedGood
  <2>9. \A i \in Owners, d \in Cells : d \in Range(s.rows[Home[i]]) => b.cell[d].value = s.cell[d].value
    BY <2>1, <2>3, <2>4
  <2>10. Kept(s, b)
    BY <1>1, <1>9, <2>4, <2>9, ShownSame
  <2>11. Whole(b)
    BY <2>4, <2>8, <2>10, KeptWhole DEF W
  <2> QED
    BY <1>5, <1>11, <2>4, <2>10, <2>11 DEF t, c, Idle
<1> QED
  BY <1>10, <1>11

-----------------------------------------------------------------------------
(* Observers import what was selected.                                     *)

\* A Record of the selection goes to the list of the view, and is counted again.
Importing(s, v, r) ==
  [CountBy(s, s.rec[r].cell, 1) EXCEPT !.rec[r] = ViewSet(@, v), !.list[v] = Append(@, r)]
Popped(s, h) == [s EXCEPT !.selected[h] = Front(@)]

ImportDone(s, t, W, kind, of, r) ==
  t \in Stores /\ Kept(s, t) /\ SamePlace(s, t) /\ SoundElsewhere(t, W, kind, of, r)
\* One Record of a selection is imported.
LEMMA ImportingIs ==
  ASSUME OwnedTables, NEW s, NEW W \in SUBSET Records, NEW kind, NEW of, IsSound(s, W, kind, of),
         NEW v \in Observers, NEW w, Home[w] = Home[v], NEW r \in Records, OfSelection(s, kind, of, r, w)
  PROVE  ImportDone(s, Importing(s, v, r), W, kind, of, r)
<1> DEFINE c == s.rec[r].cell
           more == [s.cell[c] EXCEPT !.count = @ + 1]
           cell == [s.cell EXCEPT ![c] = more]
           record == ViewSet(s.rec[r], v)
           rec == [s.rec EXCEPT ![r] = record]
           e == Append(s.list[v], r)
           list == [s.list EXCEPT ![v] = e]
           t == Importing(s, v, r)
<1>1. /\ s \in Stores /\ Good(s, W) /\ Sound(s, W, kind, of) /\ RowsApart(s) /\ v \in Views /\ v \notin Owners
      /\ Home[v] \in Tables
  BY IsGood, OwnersAreViews DEF IsSound
<1>2. kind[r] = "selected" /\ s.rec[r] # Freed
  BY <1>1 DEF OfSelection, Sound, Placed
<1>3. /\ s.cell \in [Cells -> {Freed} \cup CellStates] /\ s.rec \in [Records -> {Freed} \cup RecordStates]
      /\ s.list \in [Views -> Seq(Records)]
  BY <1>1, StoreTyped
<1>4. c \in Cells /\ s.rec[r] \in RecordStates
  BY <1>1, <1>2, Refered
<1>5. s.cell[c] \in CellStates /\ s.cell[c].count \in Nat
  <2>1. RecordSound(s, r, kind, of)
    BY <1>1, <1>2 DEF Sound, Refers
  <2> QED
    BY <1>1, <1>4, <2>1, CellTyped DEF RecordSound
<1>6. t = [s EXCEPT !.cell = cell, !.rec = rec, !.list = list]
  BY <1>1 DEF Importing, CountBy, Stores
<1>7. more \in CellStates /\ more # Freed /\ more.count = s.cell[c].count + 1 /\ more.value = s.cell[c].value
  <2>1. more \in CellStates /\ more.count = s.cell[c].count + 1 /\ more.value = s.cell[c].value
    BY <1>5 DEF CellStates
  <2> QED
    BY <2>1, StoreAssumption
<1>8. record \in RecordStates /\ record # Freed /\ record.cell = c /\ record.auto = s.rec[r].auto
  <2>1. record \in RecordStates /\ record.cell = c /\ record.auto = s.rec[r].auto
    BY <1>1, <1>4 DEF RecordStates, ViewSet
  <2> QED
    BY <2>1, StoreAssumption
<1>9. e \in Seq(Records)
  BY <1>1, <1>3, Appended
<1>10. c = s.rec[r].cell
  BY DEF c
<1>11. list = [s.list EXCEPT ![v] = Append(@, r)]
  BY DEF list
<1> HIDE DEF c, more, record, e
<1>12. /\ cell \in [Cells -> {Freed} \cup CellStates] /\ rec \in [Records -> {Freed} \cup RecordStates]
       /\ list \in [Views -> Seq(Records)]
       /\ cell[c] = more /\ \A d \in Cells : d # c => cell[d] = s.cell[d]
       /\ rec[r] = record /\ \A q \in Records : q # r => rec[q] = s.rec[q]
       /\ \A u \in Views : u # v => list[u] = s.list[u]
  BY <1>1, <1>3, <1>4, <1>7, <1>8, <1>9
<1> HIDE DEF cell, rec, list, t
<1>13. /\ t \in Stores /\ SameRules(s, t) /\ t.cell = cell /\ t.rec = rec /\ t.list = list
       /\ t.rows = s.rows /\ t.new = s.new /\ t.selected = s.selected /\ t.pending = s.pending
  BY <1>1, <1>6, <1>12 DEF Stores, SameRules
<1>14. \A d \in Cells : s.cell[d] # Freed => cell[d] # Freed /\ cell[d].count >= s.cell[d].count
  <2> SUFFICES ASSUME NEW d \in Cells, s.cell[d] # Freed PROVE cell[d] # Freed /\ cell[d].count >= s.cell[d].count
    OBVIOUS
  <2>1. s.cell[d].count \in Nat
    BY <1>1, CellTyped
  <2> QED
    BY <1>5, <1>7, <1>12, <2>1
<1>15. Imports(s, t, v, r, c)
  BY <1>7, <1>8, <1>11, <1>12, <1>13, <1>14 DEF Imports
<1>16. SoundElsewhere(t, W, kind, of, r)
  BY <1>2, <1>10, <1>13, <1>15, ImportsSound
<1>17. Kept(s, t)
  <2>1. \A u \in Owners : t.list[u] = s.list[u]
    BY <1>1, <1>12, <1>13, OwnersAreViews
  <2>2. \A u \in Owners, q \in Records : q \in Range(s.list[u]) => t.rec[q] = s.rec[q]
    <3>1. \A u \in Owners, q \in Records : q \in Range(s.list[u]) => q # r
      BY <1>1, <1>2, OwnersAreViews DEF Sound, Placed
    <3> QED
      BY <1>12, <1>13, <3>1
  <2>3. \A i \in Owners, d \in Cells : d \in Range(s.rows[Home[i]]) => t.cell[d].value = s.cell[d].value
    BY <1>7, <1>12, <1>13
  <2> QED
    BY <1>1, <2>1, <2>2, <2>3, ShownSame
<1> QED
  BY <1>13, <1>16, <1>17 DEF ImportDone, SamePlace, t

\* The store, without the selection that is imported, once some of it is.
ImportedSome(s, x, W, w, e, h, left) ==
  /\ x \in Stores /\ Kept(s, x) /\ SamePlace(s, x)
  /\ \E kind, of : /\ IsSound(Popped(x, h), W, kind, of)
                   /\ \A k \in left : OfSelection(Popped(x, h), kind, of, e[k], w)

\* To import and to leave the selection behind may be done in either order.
PoppedSame(s, y, h) ==
  /\ y \in Stores /\ SameRules(s, y) /\ y.cell = s.cell /\ y.rec = s.rec /\ y.rows = s.rows
  /\ y.list = s.list /\ y.new = s.new /\ y.pending = s.pending
  /\ y.selected[h] = Front(s.selected[h]) /\ \A u \in Tables : u # h => y.selected[u] = s.selected[u]
\* A store without the last selection of a table.
LEMMA PoppedIs ==
  ASSUME NEW s \in Stores, NEW h \in Tables, s.selected[h] # << >>
  PROVE  PoppedSame(s, Popped(s, h), h)
<1> DEFINE e == s.selected[h]
           front == Front(e)
           selected == [s.selected EXCEPT ![h] = front]
           y == Popped(s, h)
<1>1. e \in Seq(Selections) /\ s.selected \in [Tables -> Seq(Selections)]
  BY StoreTyped
<1>2. y = [s EXCEPT !.selected = selected]
  BY DEF Popped
<1> HIDE DEF e
<1>3. front \in Seq(Selections)
  BY <1>1 DEF Front, e
<1>4. front = Front(s.selected[h])
  BY DEF e
<1> HIDE DEF front
<1>5. /\ selected \in [Tables -> Seq(Selections)] /\ selected[h] = front
      /\ \A u \in Tables : u # h => selected[u] = s.selected[u]
  BY <1>1, <1>3
<1> HIDE DEF selected, y
<1>6. /\ y \in Stores /\ SameRules(s, y) /\ y.cell = s.cell /\ y.rec = s.rec /\ y.rows = s.rows
      /\ y.list = s.list /\ y.new = s.new /\ y.pending = s.pending /\ y.selected = selected
  BY <1>2, <1>5 DEF Stores, SameRules
<1> QED
  BY <1>4, <1>5, <1>6 DEF PoppedSame, y

\* Importing does not ask what is selected.
LEMMA ImportPopped ==
  ASSUME NEW s \in Stores, NEW h \in Tables, NEW v \in Views, NEW r \in Records
  PROVE  Popped(Importing(s, v, r), h) = Importing(Popped(s, h), v, r)
BY DEF Popped, Importing, CountBy, Stores
\* The selection can be put back.
LEMMA ImportRestored ==
  ASSUME NEW s \in Stores, NEW h \in Tables, NEW v \in Views, NEW r \in Records
  PROVE  Importing(s, v, r) = [Importing(Popped(s, h), v, r) EXCEPT !.selected = s.selected]
BY DEF Popped, Importing, CountBy, Stores

\* The next Record is imported.
LEMMA ImportStep ==
  ASSUME OwnedTables, NEW s, NEW W \in SUBSET Records, NEW v \in Observers, NEW w, Home[w] = Home[v],
         NEW e \in Seq(Records), IsInjective(e), NEW left \in SUBSET (1..Len(e)), NEW k \in left,
         s.selected[Home[v]] # << >>, NEW x, ImportedSome(s, x, W, w, e, Home[v], left)
  PROVE  ImportedSome(s, Importing(x, v, e[k]), W, w, e, Home[v], left \ {k})
<1> DEFINE h == Home[v]
           r == e[k]
           y == Popped(x, h)
           t == Importing(x, v, r)
           z == Importing(y, v, r)
<1>1. h \in Tables /\ v \in Views /\ r \in Records
  BY OwnersAreViews, Ranged
<1>2. x \in Stores /\ Kept(s, x) /\ SamePlace(s, x) /\ x.selected[h] # << >>
  BY DEF ImportedSome, SamePlace
<1>3. PICK kind, of : IsSound(y, W, kind, of) /\ \A m \in left : OfSelection(y, kind, of, e[m], w)
  BY DEF ImportedSome
<1>4. t = [z EXCEPT !.selected = x.selected] /\ z = Popped(t, h)
  BY <1>1, <1>2, ImportRestored, ImportPopped
<1>5. PoppedSame(x, y, h)
  BY <1>1, <1>2, PoppedIs
<1> HIDE DEF h, r, y, t
<1>6. ImportDone(y, z, W, kind, of, r)
  <2>1. OfSelection(y, kind, of, r, w)
    BY <1>3 DEF r
  <2> QED
    BY <1>1, <1>3, <2>1, ImportingIs
<1> HIDE DEF z
<1>7. z \in Stores /\ Kept(y, z) /\ SamePlace(y, z) /\ SoundElsewhere(z, W, kind, of, r)
  BY <1>6 DEF ImportDone
<1>8. /\ t \in Stores /\ t.selected = x.selected /\ t.list = z.list /\ t.rec = z.rec /\ t.cell = z.cell
      /\ t.pending = z.pending /\ t.rows = z.rows
  <2>1. x.selected \in [Tables -> Seq(Selections)]
    BY <1>2, StoreTyped
  <2> QED
    BY <1>4, <1>7, <2>1 DEF Stores
<1>9. Kept(s, t)
  <2>1. Kept(x, y)
    BY <1>5, SameKept DEF PoppedSame
  <2>2. Kept(z, t)
    BY <1>8, SameKept
  <2> QED
    BY <1>2, <1>7, <2>1, <2>2, KeptTwice
<1>10. SamePlace(s, t)
  BY <1>2, <1>5, <1>7, <1>8 DEF SamePlace, PoppedSame
<1>11. PICK kind2 \in [Records -> Kinds], of2 \in [Records -> Views \cup {None}] :
         /\ IsSound(z, W, kind2, of2)
         /\ \A q \in Records : q # r => kind2[q] = kind[q] /\ of2[q] = of[q]
  BY <1>7 DEF SoundElsewhere
<1>12. ASSUME NEW m \in left \ {k} PROVE OfSelection(z, kind2, of2, e[m], w)
  <2>1. e[m] # r /\ e[m] \in Records
    BY Ranged DEF r, IsInjective
  <2>2. OfSelection(y, kind, of, e[m], w)
    BY <1>3
  <2> QED
    BY <1>7, <1>11, <2>1, <2>2 DEF OfSelection, SamePlace
<1> QED
  BY <1>4, <1>8, <1>9, <1>10, <1>11, <1>12 DEF ImportedSome, t, r, h

\* The last selection, as an observer imports it.
LEMMA LastSelection ==
  ASSUME OwnedTables, NEW s, NEW W \in SUBSET Records, Good(s, W), NEW v \in Observers, NEW h, h = Home[v],
         s.selected[h] # << >>, NEW last, last = Last(s.selected[h])
  PROVE  /\ last.recs \in Seq(Records) /\ IsInjective(last.recs) /\ Home[last.view] = h
         /\ ImportedSome(s, s, W, last.view, last.recs, h, 1..Len(last.recs))
<1> DEFINE all == s.selected[h]
           n == Len(all)
           e == last.recs
           w == last.view
           y == Popped(s, h)
<1>1. s \in Stores /\ h \in Tables /\ RowsApart(s) /\ Counted(s) /\ Governed(s)
  BY OwnersAreViews DEF Good
<1>2. all \in Seq(Selections) /\ n \in Nat /\ n \in 1..n /\ last = all[n]
  <2>1. all \in Seq(Selections)
    BY <1>1, StoreTyped
  <2> QED
    BY <2>1 DEF Last
<1>3. last \in Selections /\ e \in Seq(Records)
  <2>1. last \in Selections
    BY <1>2, Ranged
  <2> QED
    BY <2>1 DEF Selections
<1>4. PICK kind \in [Records -> Kinds], of \in [Records -> Views \cup {None}] : Sound(s, W, kind, of)
  BY DEF Good
<1>5. SelectionSound(s, h, n, kind, of)
  BY <1>1, <1>2, <1>4 DEF Sound, Placed
<1>6. /\ IsInjective(e) /\ Home[w] = h
      /\ \A r \in Records : r \in Range(e) => kind[r] = "selected" /\ of[r] = w
      /\ \A j \in 1..n : all[j].view = w => j = n
  BY <1>2, <1>5 DEF SelectionSound
<1>7. PoppedSame(s, y, h)
  BY <1>1, PoppedIs
<1>8. /\ y.selected[h] = Front(all) /\ Len(y.selected[h]) = n - 1 /\ \A j \in 1..(n - 1) : y.selected[h][j] = all[j]
  <2>1. Len(Front(all)) = n - 1 /\ \A j \in 1..(n - 1) : Front(all)[j] = all[j]
    BY <1>2 DEF Front
  <2> QED
    BY <1>7, <2>1 DEF PoppedSame
<1>9. \A u \in Tables : u # h => y.selected[u] = s.selected[u]
  BY <1>7 DEF PoppedSame
<1>10. \A u \in Tables : Len(s.selected[u]) \in Nat
  BY <1>1, StoreTyped
<1>11. \A u \in Tables : \A j \in 1..Len(y.selected[u]) : y.selected[u][j].view # w
  <2> SUFFICES ASSUME NEW u \in Tables, NEW j \in 1..Len(y.selected[u]) PROVE y.selected[u][j].view # w
    OBVIOUS
  <2>1. CASE u = h
    BY <1>2, <1>6, <1>8, <2>1
  <2>2. CASE u # h
    <3>1. SelectionSound(s, u, j, kind, of)
      BY <1>4, <1>9, <2>2 DEF Sound, Placed
    <3>2. Home[s.selected[u][j].view] = u
      BY <3>1 DEF SelectionSound
    <3> QED
      BY <1>6, <1>9, <2>2, <3>2
  <2> QED
    BY <2>1, <2>2
<1> HIDE DEF y, e, w
<1>12. /\ y \in Stores /\ SameRules(s, y) /\ y.cell = s.cell /\ y.rec = s.rec /\ y.rows = s.rows
       /\ y.list = s.list /\ y.new = s.new
  BY <1>7 DEF PoppedSame
<1>13. Sound(y, W, kind, of)
  <2>1. \A u \in Tables : /\ Len(y.selected[u]) <= Len(s.selected[u])
                          /\ \A j \in 1..Len(y.selected[u]) : y.selected[u][j] = s.selected[u][j]
    <3> SUFFICES ASSUME NEW u \in Tables
                 PROVE  /\ Len(y.selected[u]) <= Len(s.selected[u])
                        /\ \A j \in 1..Len(y.selected[u]) : y.selected[u][j] = s.selected[u][j]
      OBVIOUS
    <3>1. CASE u = h
      BY <1>2, <1>8, <3>1
    <3>2. CASE u # h
      BY <1>9, <1>10, <3>2
    <3> QED
      BY <3>1, <3>2
  <2>2. \A u \in Views : /\ IsInjective(y.list[u]) /\ y.new[u] \subseteq s.new[u]
                         /\ \A q \in Records : q \in Range(y.list[u]) => q \in Range(s.list[u])
    BY <1>4, <1>12 DEF Sound, Placed
  <2> QED
    BY <1>1, <1>4, <1>12, <2>1, <2>2, ShrunkSound
<1>14. IsSound(y, W, kind, of)
  <2>1. RowsApart(y) /\ Counted(y)
    BY <1>1, <1>12, FewerObserved DEF RowsApart
  <2> QED
    BY <1>1, <1>12, <1>13, <2>1, GovernedKept DEF IsSound
<1>15. \A k \in 1..Len(e) : OfSelection(y, kind, of, e[k], w)
  <2> SUFFICES ASSUME NEW k \in 1..Len(e) PROVE OfSelection(y, kind, of, e[k], w)
    OBVIOUS
  <2>1. e[k] \in Records /\ e[k] \in Range(e)
    BY <1>3, Ranged DEF e
  <2> QED
    BY <1>6, <1>11, <2>1 DEF OfSelection, e, w
<1>16. Kept(s, s) /\ SamePlace(s, s)
  BY SameKept DEF SamePlace
<1>17. ImportedSome(s, s, W, w, e, h, 1..Len(e))
  BY <1>1, <1>14, <1>15, <1>16 DEF ImportedSome, y
<1> QED
  BY <1>3, <1>6, <1>17 DEF e, w

\* Table::RecordsImportSelected.
LEMMA ImportWhole ==
  ASSUME OwnedTables, NEW s, Whole(s), NEW v \in Observers
  PROVE  Idle(s, RecordsImportSelected(s, v))
<1> DEFINE hv == Home[v]
           last == Last(s.selected[hv])
           e == last.recs
           w == last.view
           n == Len(e)
           D == 1..n
           base == s
           W == AddRecs(s)
           U == Stores
           T == [S \in SUBSET D |-> {x \in U : ImportedSome(s, x, W, w, e, hv, D \ S)}]
           Step(x, k) == Importing(x, v, e[k])
           Value(h, S) == IF S = {} THEN base ELSE Step(h[S \ {Max(S)}], Max(S))
           fold == CHOOSE h : h = [S \in SUBSET (DOMAIN e) |-> Value(h, S)]
           t == RecordsImportSelected(s, v)
<1>1. CASE t = s
  <2>1. Kept(s, s)
    BY SameKept
  <2> QED
    BY <1>1, <2>1 DEF Idle
<1>2. ASSUME t # s PROVE Idle(s, t)
  <2>1. SelectionOf(s, v) # 0 /\ t = Popped(fold[DOMAIN e], hv)
    BY <1>2 DEF RecordsImportSelected, Popped, Importing, FoldLeft, MapThenFoldSet
  <2>2. /\ Good(s, W) /\ W \in SUBSET Records /\ s \in Stores /\ v \in Views
    BY OwnersAreViews DEF Whole, Good, AddRecs
  <2>3. s.selected[hv] # << >>
    BY <2>1, <2>2, SelectionIs
  <2> HIDE DEF W
  <2>4. /\ e \in Seq(Records) /\ IsInjective(e) /\ Home[w] = hv /\ ImportedSome(s, s, W, w, e, hv, D)
    BY <2>2, <2>3, LastSelection
  <2>5. n \in Nat /\ DOMAIN e = D
    BY <2>4
  <2>6. t = Popped(fold[D], hv)
    <3> HIDE DEF fold, e
    <3> QED
      BY <2>1, <2>5
  <2> HIDE DEF n, base, e, w, t
  <2>7. base \in T[{}] /\ base \in U /\ \A S \in SUBSET D : T[S] \subseteq U
    BY <2>2, <2>4 DEF base
  <2>8. \A S \in SUBSET D : S # {} => \A x \in T[S \ {Max(S)}] : Step(x, Max(S)) \in T[S]
    <3> SUFFICES ASSUME NEW S \in SUBSET D, S # {}, NEW x \in T[S \ {Max(S)}] PROVE Step(x, Max(S)) \in T[S]
      OBVIOUS
    <3> DEFINE k == Max(S)
               left == D \ (S \ {k})
    <3>1. k \in S /\ k \in D
      BY <2>5, MaxOfPlaces
    <3>2. left \in SUBSET (1..Len(e)) /\ k \in left /\ D \ S = left \ {k}
      BY <3>1 DEF n
    <3>3. ImportedSome(s, x, W, w, e, hv, left)
      OBVIOUS
    <3> HIDE DEF left, k
    <3>4. ImportedSome(s, Step(x, k), W, w, e, hv, left \ {k})
      BY <2>2, <2>3, <2>4, <3>2, <3>3, ImportStep
    <3>5. Step(x, k) \in Stores
      BY <3>4 DEF ImportedSome
    <3> QED
      BY <3>2, <3>4, <3>5 DEF k
  <2> HIDE DEF T, Step, U
  <2>9. fold[D] \in T[D]
  <3> DEFINE next == [S \in SUBSET D |-> Max(S)]
             G == [k \in D |-> [x \in U |-> IF Step(x, k) \in U THEN Step(x, k) ELSE base]]
  <3>f1. IsFiniteSet(D) /\ \A S \in SUBSET D : S # {} => Max(S) \in S
    <4>1. IsFiniteSet(D)
      BY <2>5, FS_Interval
    <4>2. \A S \in SUBSET D : S # {} => Max(S) \in S
      BY <2>5, MaxOfPlaces
    <4> QED
      BY <4>1, <4>2
  <3>f2. FoldStays(D, next, U, T, base, G)
    <4>1. base \in T[{}] /\ base \in U /\ \A S \in SUBSET D : T[S] \subseteq U
      BY <2>7
    <4>2. ASSUME NEW S \in SUBSET D, S # {}, NEW x \in T[S \ {next[S]}] PROVE G[next[S]][x] \in T[S]
      <5>1. next[S] = Max(S) /\ Max(S) \in D /\ x \in U
        BY <3>f1, <4>1, <4>2
      <5>2. Step(x, Max(S)) \in T[S] /\ Step(x, Max(S)) \in U
        BY <2>8, <4>1, <4>2, <5>1
      <5> QED
        BY <5>1, <5>2
    <4>3. G \in [D -> [U -> U]]
      BY <4>1
    <4> QED
      BY <3>f1, <4>1, <4>2, <4>3 DEF FoldStays
  <3>f3. PICK h : FoldsAs(h, D, next, U, base, G) /\ \A S \in SUBSET D : h[S] \in T[S]
    <4> HIDE DEF D, next, G
    <4> QED
      BY <3>f2, FoldWithin
  <3>f4. h \in [SUBSET D -> U] /\ \A S \in SUBSET D : h[S] = Value(h, S)
    <4>1. h \in [SUBSET D -> U] /\ \A S \in SUBSET D : T[S] \subseteq U
      BY <3>f3, <2>7 DEF FoldsAs
    <4>2. ASSUME NEW S \in SUBSET D, S # {} PROVE h[S] = Step(h[S \ {Max(S)}], Max(S))
      <5>1. Max(S) \in D /\ h[S \ {Max(S)}] \in U /\ next[S] = Max(S) /\ h[S \ {Max(S)}] \in T[S \ {Max(S)}]
        BY <3>f1, <3>f3, <4>1, <4>2
      <5>2. h[S] = G[Max(S)][h[S \ {Max(S)}]]
        BY <3>f3, <4>2, <5>1 DEF FoldsAs
      <5>3. Step(h[S \ {Max(S)}], Max(S)) \in U
        BY <2>8, <4>1, <4>2, <5>1
      <5> QED
        BY <5>1, <5>2, <5>3
    <4>3. h[{}] = base
      BY <3>f3 DEF FoldsAs
    <4> QED
      BY <4>1, <4>2, <4>3
  <3>f5. fold = [S \in SUBSET D |-> Value(fold, S)]
    <4> HIDE DEF Value
    <4>1. h = [S \in SUBSET (DOMAIN e) |-> Value(h, S)]
      BY <2>5, <3>f4
    <4> QED
      BY <2>5, <4>1
  <3> HIDE DEF fold
  <3>f6. fold[D] \in T[D]
    <4>1. fold[{}] \in T[{}]
      BY <3>f5, <2>7
    <4>2. ASSUME NEW S \in SUBSET D, S # {}, fold[S \ {next[S]}] \in T[S \ {next[S]}] PROVE fold[S] \in T[S]
      <5>1. fold[S] = Step(fold[S \ {Max(S)}], Max(S)) /\ next[S] = Max(S)
        BY <3>f5, <4>2
      <5> QED
        BY <2>8, <4>2, <5>1
    <4>3. IsFiniteSet(D) /\ \A S \in SUBSET D : S # {} => next[S] \in S
      BY <3>f1
    <4> HIDE DEF D, next, Step
    <4> QED
      BY <4>1, <4>2, <4>3, FoldedWithin
    <3> QED
      BY <3>f6
  <2> HIDE DEF fold
  <2>10. ImportedSome(s, fold[D], W, w, e, hv, {})
    BY <2>9 DEF T
  <2>11. fold[D] \in Stores /\ Kept(s, fold[D]) /\ SamePlace(s, fold[D]) /\ Good(t, W)
    BY <2>6, <2>10, IsGood DEF ImportedSome
  <2>12. PoppedSame(fold[D], t, hv)
    <3>1. hv \in Tables /\ fold[D].selected[hv] # << >>
      BY <2>3, <2>11, OwnersAreViews DEF SamePlace
    <3> QED
      BY <2>6, <2>11, <3>1, PoppedIs
  <2>13. Kept(s, t) /\ t.pending = s.pending
    <3>1. Kept(fold[D], t)
      BY <2>12, SameKept DEF PoppedSame
    <3> QED
      BY <2>11, <2>12, <3>1, KeptTwice DEF PoppedSame, SamePlace
  <2> QED
    BY <2>11, <2>13, KeptWhole DEF W, Idle
<1> QED
  BY <1>1, <1>2

-----------------------------------------------------------------------------
(* An observer leaves: its Records are deleted.                            *)

Vacated(s, v) == [s EXCEPT !.list[v] = << >>, !.new[v] = {}]
Swept(s, r) == IF s.stopped \/ s.rec[r] = Freed THEN Stop(s) ELSE Destroy(s, r)
VacatedSame(s, y, v) ==
  /\ y \in Stores /\ SameRules(s, y) /\ y.cell = s.cell /\ y.rec = s.rec /\ y.rows = s.rows
  /\ y.selected = s.selected /\ y.pending = s.pending /\ y.stopped = s.stopped /\ y.group = s.group
  /\ y.dead = s.dead /\ y.list[v] = << >> /\ y.new[v] = {}
  /\ \A u \in Views : u # v => y.list[u] = s.list[u] /\ y.new[u] = s.new[u]
\* A store in which a view lists nothing.
LEMMA VacatedIs ==
  ASSUME NEW s \in Stores, NEW v \in Views
  PROVE  VacatedSame(s, Vacated(s, v), v)
<1> DEFINE none == << >>
           empty == {}
           list == [s.list EXCEPT ![v] = none]
           new == [s.new EXCEPT ![v] = empty]
           y == Vacated(s, v)
<1>1. s.list \in [Views -> Seq(Records)] /\ s.new \in [Views -> SUBSET Records]
  BY StoreTyped
<1>2. none \in Seq(Records) /\ empty \in SUBSET Records
  OBVIOUS
<1>3. y = [s EXCEPT !.list = list, !.new = new]
  BY DEF Vacated
<1>4. none = << >> /\ empty = {}
  OBVIOUS
<1> HIDE DEF none, empty
<1>5. /\ list \in [Views -> Seq(Records)] /\ list[v] = none /\ \A u \in Views : u # v => list[u] = s.list[u]
      /\ new \in [Views -> SUBSET Records] /\ new[v] = empty /\ \A u \in Views : u # v => new[u] = s.new[u]
  BY <1>1, <1>2
<1> HIDE DEF list, new, y
<1>6. /\ y \in Stores /\ SameRules(s, y) /\ y.cell = s.cell /\ y.rec = s.rec /\ y.rows = s.rows
      /\ y.selected = s.selected /\ y.pending = s.pending /\ y.stopped = s.stopped /\ y.group = s.group
      /\ y.dead = s.dead /\ y.list = list /\ y.new = new
  BY <1>3, <1>5 DEF Stores, SameRules
<1> QED
  BY <1>4, <1>5, <1>6 DEF VacatedSame, y

\* Destroying does not ask what is listed.
LEMMA SweptVacated ==
  ASSUME NEW s \in Stores, NEW v \in Views, NEW r \in Records
  PROVE  /\ Vacated(Swept(s, r), v) = Swept(Vacated(s, v), r)
         /\ Swept(s, r) = [Swept(Vacated(s, v), r) EXCEPT !.list = s.list, !.new = s.new]
BY DEF Vacated, Swept, Stop, Destroy, CountBy, Stores

\* What is left after some of the Records are deleted.
SweptSome(s, x, v, W, left) ==
  /\ x \in Stores /\ Kept(s, x) /\ x.list = s.list /\ x.new = s.new /\ x.pending = s.pending /\ x.group = s.group
  /\ \E kind, of : /\ IsSound(Vacated(x, v), W, kind, of)
                   /\ \A r \in left : kind[r] \in {"listed", "new"} /\ of[r] = v

SweptOne(s, t, W, kind, of, r) ==
  t \in Stores /\ Kept(s, t) /\ t.pending = s.pending /\ t.group = s.group /\ SoundElsewhere(t, W, kind, of, r)
\* One Record of a view that is deleted.
LEMMA SweptIs ==
  ASSUME OwnedTables, NEW s, NEW W \in SUBSET Records, NEW kind, NEW of, IsSound(s, W, kind, of),
         NEW v \in Observers, NEW r \in Records, kind[r] \in {"listed", "new"}, of[r] = v,
         s.list[v] = << >>, s.new[v] = {}
  PROVE  SweptOne(s, Swept(s, r), W, kind, of, r)
<1> DEFINE c == s.rec[r].cell
           less == [s.cell[c] EXCEPT !.count = @ + (0 - 1)]
           cell == [s.cell EXCEPT ![c] = less]
           rec == [s.rec EXCEPT ![r] = Freed]
           b == [s EXCEPT !.cell = cell, !.rec = rec]
           t == Swept(s, r)
<1>1. /\ s \in Stores /\ Good(s, W) /\ Sound(s, W, kind, of) /\ RowsApart(s) /\ v \in Views /\ v \notin Owners
      /\ kind \in [Records -> Kinds] /\ of \in [Records -> Views \cup {None}] /\ Governed(s)
  BY IsGood, OwnersAreViews DEF IsSound
<1>2. t \in {Stop(s), Destroy(s, r)} /\ (t # Stop(s) => s.rec[r] # Freed /\ t = b /\ s.cell[c].count # 0)
  BY <1>1 DEF Swept, Destroy, CountBy, Stores
<1> HIDE DEF t
<1>3. CASE t = Stop(s)
  <2>1. t \in Stores /\ SameData(s, t) /\ SameRules(s, t) /\ t.pending = s.pending /\ t.group = s.group
    BY <1>1, <1>3 DEF Stop, Stores, SameData, SameRules
  <2>2. RowsApart(t) /\ Counted(t) /\ Sound(t, W, kind, of) /\ Governed(t)
    BY <1>1, <2>1, DataKept, GovernedKept DEF IsSound
  <2>3. Kept(s, t)
    BY <2>1, SameKept DEF SameData
  <2> QED
    BY <1>1, <2>1, <2>2, <2>3 DEF SweptOne, SoundElsewhere, IsSound, t
<1>4. CASE t # Stop(s)
  <2>1. s.rec[r] # Freed /\ t = b /\ s.cell[c].count # 0
    BY <1>2, <1>4
  <2>2. c \in Cells /\ s.rec[r] \in RecordStates
    BY <1>1, <2>1, Refered
  <2>3. s.cell[c] \in CellStates /\ s.cell[c].count \in Nat
    <3>1. RecordSound(s, r, kind, of)
      BY <1>1, <2>1 DEF Sound, Refers
    <3> QED
      BY <1>1, <2>2, <3>1, CellTyped DEF RecordSound
  <2>4. less \in CellStates /\ less # Freed /\ less.count + 1 = s.cell[c].count /\ less.value = s.cell[c].value
    <3>1. less \in CellStates /\ less.count + 1 = s.cell[c].count /\ less.value = s.cell[c].value
      BY <2>1, <2>3 DEF CellStates
    <3> QED
      BY <3>1, StoreAssumption
  <2>5. c = s.rec[r].cell
    BY DEF c
  <2>6. s.cell \in [Cells -> {Freed} \cup CellStates] /\ s.rec \in [Records -> {Freed} \cup RecordStates]
    BY <1>1, StoreTyped
  <2> HIDE DEF c, less
  <2>7. /\ cell \in [Cells -> {Freed} \cup CellStates] /\ rec \in [Records -> {Freed} \cup RecordStates]
        /\ cell[c] = less /\ \A d \in Cells : d # c => cell[d] = s.cell[d]
        /\ rec[r] = Freed /\ \A q \in Records : q # r => rec[q] = s.rec[q]
    BY <2>2, <2>4, <2>6
  <2> HIDE DEF cell, rec
  <2>8. /\ t \in Stores /\ SameRules(s, t) /\ t.cell = cell /\ t.rec = rec /\ t.list = s.list
        /\ t.rows = s.rows /\ t.new = s.new /\ t.selected = s.selected /\ t.pending = s.pending /\ t.group = s.group
    BY <1>1, <2>1, <2>7 DEF Stores, SameRules
  <2>9. Destroys(s, t, r, c)
    BY <2>4, <2>7, <2>8 DEF Destroys
  <2>10. r \notin Range(s.list[v]) /\ r \notin s.new[v]
    <3>1. << >> \in Seq(Records)
      OBVIOUS
    <3>2. Range(<< >>) = {}
      BY <3>1, Ranged
    <3> QED
      BY <3>2
  <2>11. SoundElsewhere(t, W, kind, of, r)
    BY <1>1, <2>1, <2>2, <2>5, <2>8, <2>9, <2>10, DestroyedSound
  <2>12. Kept(s, t)
    <3>1. \A u \in Owners, q \in Records : q \in Range(s.list[u]) => t.rec[q] = s.rec[q]
      <4>1. \A u \in Owners, q \in Records : q \in Range(s.list[u]) => q # r
        BY <1>1, OwnersAreViews DEF Sound, Placed
      <4> QED
        BY <2>7, <2>8, <4>1
    <3>2. \A i \in Owners, d \in Cells : d \in Range(s.rows[Home[i]]) => t.cell[d].value = s.cell[d].value
      BY <2>4, <2>7, <2>8
    <3> QED
      BY <1>1, <2>8, <3>1, <3>2, ShownSame
  <2> QED
    BY <2>8, <2>11, <2>12 DEF SweptOne, t
<1> QED
  BY <1>3, <1>4

\* The next Record of the view.
LEMMA SweptStep ==
  ASSUME OwnedTables, NEW s, NEW W \in SUBSET Records, NEW v \in Observers, NEW left \in SUBSET Records, NEW r \in left,
         NEW x, SweptSome(s, x, v, W, left)
  PROVE  SweptSome(s, Swept(x, r), v, W, left \ {r})
<1> DEFINE y == Vacated(x, v)
           t == Swept(x, r)
           z == Swept(y, r)
<1>1. x \in Stores /\ Kept(s, x) /\ v \in Views /\ x.list = s.list /\ x.new = s.new /\ x.pending = s.pending /\ x.group = s.group
  BY OwnersAreViews DEF SweptSome
<1>2. PICK kind, of : IsSound(y, W, kind, of) /\ \A q \in left : kind[q] \in {"listed", "new"} /\ of[q] = v
  BY DEF SweptSome
<1>3. t = [z EXCEPT !.list = x.list, !.new = x.new] /\ z = Vacated(t, v)
  BY <1>1, SweptVacated
<1>4. VacatedSame(x, y, v)
  BY <1>1, VacatedIs
<1> HIDE DEF y, t
<1>5. SweptOne(y, z, W, kind, of, r)
  BY <1>2, <1>4, SweptIs DEF VacatedSame
<1> HIDE DEF z
<1>6. z \in Stores /\ Kept(y, z) /\ z.pending = y.pending /\ z.group = y.group /\ SoundElsewhere(z, W, kind, of, r)
  BY <1>5 DEF SweptOne
<1>7. /\ t \in Stores /\ t.list = x.list /\ t.new = x.new /\ t.rec = z.rec /\ t.cell = z.cell
      /\ t.pending = z.pending /\ t.group = z.group
  <2>1. x.list \in [Views -> Seq(Records)] /\ x.new \in [Views -> SUBSET Records]
    BY <1>1, StoreTyped
  <2> QED
    BY <1>3, <1>6, <2>1 DEF Stores
<1>8. Kept(s, t)
  <2>1. \A u \in Owners : u \in Views /\ u # v
    BY OwnersAreViews
  <2>2. \A u \in Owners : z.list[u] = x.list[u]
    BY <1>4, <1>6, <2>1 DEF Kept, VacatedSame
  <2>3. \A u \in Owners, q \in Records : q \in Range(x.list[u]) => t.rec[q] = x.rec[q]
    BY <1>4, <1>6, <1>7, <2>1 DEF Kept, VacatedSame
  <2>4. \A i \in Owners : Shown(t, i) = Shown(x, i)
    <3> SUFFICES ASSUME NEW i \in Owners PROVE Shown(t, i) = Shown(x, i)
      OBVIOUS
    <3>1. Shown(z, i) = Shown(y, i)
      BY <1>6 DEF Kept
    <3>2. Shown(t, i) = Shown(z, i)
      BY <1>7, <2>2 DEF Shown
    <3>3. Shown(y, i) = Shown(x, i)
      BY <1>4, <2>1 DEF Shown, VacatedSame
    <3> QED
      BY <3>1, <3>2, <3>3
  <2>5. Kept(x, t)
    BY <1>7, <2>3, <2>4 DEF Kept
  <2> QED
    BY <1>1, <2>5, KeptTwice
<1>9. PICK kind2 \in [Records -> Kinds], of2 \in [Records -> Views \cup {None}] :
        /\ IsSound(z, W, kind2, of2)
        /\ \A q \in Records : q # r => kind2[q] = kind[q] /\ of2[q] = of[q]
  BY <1>6 DEF SoundElsewhere
<1>10. \A q \in left \ {r} : kind2[q] \in {"listed", "new"} /\ of2[q] = v
  BY <1>2, <1>9
<1> QED
  BY <1>1, <1>3, <1>4, <1>6, <1>7, <1>8, <1>9, <1>10 DEF SweptSome, t, VacatedSame

\* The store without its view, before any Record is deleted.
LEMMA VacatedSound ==
  ASSUME OwnedTables, NEW s, NEW W \in SUBSET Records, Good(s, W), NEW v \in Observers
  PROVE  SweptSome(s, s, v, W, Range(s.list[v]) \cup s.new[v])
<1> DEFINE y == Vacated(s, v)
<1>1. /\ s \in Stores /\ v \in Views /\ Governed(s) /\ RowsApart(s) /\ Counted(s)
      /\ s.list[v] \in Seq(Records) /\ s.new[v] \subseteq Records
  BY OwnersAreViews, StoreTyped DEF Good
<1>2. PICK kind \in [Records -> Kinds], of \in [Records -> Views \cup {None}] : Sound(s, W, kind, of)
  BY DEF Good
<1>3. VacatedSame(s, y, v)
  BY <1>1, VacatedIs
<1> HIDE DEF y
<1>4. /\ y \in Stores /\ SameRules(s, y) /\ y.cell = s.cell /\ y.rec = s.rec /\ y.rows = s.rows /\ y.selected = s.selected
      /\ y.list[v] = << >> /\ y.new[v] = {}
      /\ \A u \in Views : u # v => y.list[u] = s.list[u] /\ y.new[u] = s.new[u]
  BY <1>3 DEF VacatedSame
<1>5. Range(<< >>) = {} /\ IsInjective(<< >>)
  <2>1. << >> \in Seq(Records)
    OBVIOUS
  <2> QED
    BY <2>1, Ranged
<1>6. \A u \in Views : /\ IsInjective(y.list[u]) /\ y.new[u] \subseteq s.new[u]
                       /\ \A q \in Records : q \in Range(y.list[u]) => q \in Range(s.list[u])
  <2>1. \A u \in Views : IsInjective(s.list[u])
    BY <1>2 DEF Sound, Placed
  <2> SUFFICES ASSUME NEW u \in Views
               PROVE  /\ IsInjective(y.list[u]) /\ y.new[u] \subseteq s.new[u]
                      /\ \A q \in Records : q \in Range(y.list[u]) => q \in Range(s.list[u])
    OBVIOUS
  <2>2. CASE u = v
    BY <1>4, <1>5, <2>2
  <2>3. CASE u # v
    BY <1>4, <2>1, <2>3
  <2> QED
    BY <2>2, <2>3
<1>7. \A u \in Tables : /\ Len(y.selected[u]) <= Len(s.selected[u])
                        /\ \A j \in 1..Len(y.selected[u]) : y.selected[u][j] = s.selected[u][j]
  <2>1. \A u \in Tables : Len(s.selected[u]) \in Nat
    BY <1>1, StoreTyped
  <2> QED
    BY <1>4, <2>1
<1>8. Sound(y, W, kind, of)
  BY <1>1, <1>2, <1>4, <1>6, <1>7, ShrunkSound
<1>9. RowsApart(y) /\ Counted(y) /\ Governed(y)
  BY <1>1, <1>4, <1>6, FewerObserved, GovernedKept DEF RowsApart
<1>10. \A r \in Range(s.list[v]) \cup s.new[v] : kind[r] \in {"listed", "new"} /\ of[r] = v
  <2>1. Range(s.list[v]) \subseteq Records
    BY <1>1, Ranged
  <2> QED
    BY <1>1, <1>2, <2>1 DEF Sound, Placed
<1>11. Kept(s, s)
  BY SameKept
<1> QED
  BY <1>1, <1>4, <1>8, <1>9, <1>10, <1>11 DEF SweptSome, IsSound, y

\* View::~View of an observer.
LEMMA LeaveWhole ==
  ASSUME OwnedTables, NEW s, Whole(s), NEW v \in Observers
  PROVE  Idle(s, ViewDelete(s, v))
<1> DEFINE D == Range(s.list[v]) \cup s.new[v]
           base == s
           W == AddRecs(s)
           U == Stores
           T == [S \in SUBSET D |-> {x \in U : SweptSome(s, x, v, W, D \ S)}]
           Step(x, r) == Swept(x, r)
           Next1(S) == CHOOSE x \in S : TRUE
           Value(h, S) == IF S = {} THEN base ELSE Step(h[S \ {Next1(S)}], Next1(S))
           fold == CHOOSE h : h = [S \in SUBSET D |-> Value(h, S)]
           x0 == fold[D]
           y == Vacated(x0, v)
           group == [y.group EXCEPT ![Home[v]] = @ \ {v}]
           dead == y.dead \cup {v}
           b == [y EXCEPT !.dead = dead, !.group = group]
           t == ViewDelete(s, v)
<1>1. /\ s \in Stores /\ v \in Views /\ Governed(s) /\ Good(s, W) /\ W \in SUBSET Records /\ Home[v] \in Tables
      /\ s.list[v] \in Seq(Records) /\ s.new[v] \subseteq Records /\ s.owner[Home[v]] # v
  <2>1. s \in Stores /\ v \in Views /\ Governed(s) /\ Good(s, W) /\ W \in SUBSET Records
    BY OwnersAreViews DEF Whole, Good, AddRecs
  <2> QED
    BY <2>1, StoreTyped, ObserverHasOwner
<1>2. D \in SUBSET Records
  BY <1>1, Ranged
<1>3. IsFiniteSet(D)
  BY <1>2, FS_Subset DEF OwnedTables
<1>4. SweptSome(s, base, v, W, D)
  BY <1>1, VacatedSound
<1>5. t = s \/ t = [[x0 EXCEPT !.list[v] = << >>, !.new[v] = {}, !.dead = @ \cup {v}] EXCEPT !.group[Home[v]] = @ \ {v}]
  BY <1>1 DEF ViewDelete, FoldSet, MapThenFoldSet, Swept
<1> HIDE DEF t, D, base, W
<1>6. \A S \in SUBSET D : S # {} => Next1(S) \in S
  OBVIOUS
<1>7. base \in T[{}] /\ base \in U /\ \A S \in SUBSET D : T[S] \subseteq U
  BY <1>1, <1>4 DEF base
<1>8. \A S \in SUBSET D : S # {} => \A x \in T[S \ {Next1(S)}] : Step(x, Next1(S)) \in T[S]
  <2> SUFFICES ASSUME NEW S \in SUBSET D, S # {}, NEW x \in T[S \ {Next1(S)}] PROVE Step(x, Next1(S)) \in T[S]
    OBVIOUS
  <2> DEFINE r == Next1(S)
             left == D \ (S \ {r})
  <2>1. left \in SUBSET Records /\ r \in left /\ D \ S = left \ {r}
    BY <1>2, <1>6
  <2>2. SweptSome(s, x, v, W, left)
    OBVIOUS
  <2> HIDE DEF left, r
  <2>3. SweptSome(s, Swept(x, r), v, W, left \ {r})
    BY <1>1, <2>1, <2>2, SweptStep
  <2>4. Swept(x, r) \in Stores
    BY <2>3 DEF SweptSome
  <2> QED
    BY <2>1, <2>3, <2>4 DEF r
<1> HIDE DEF T, Step, U, Next1
<1> DEFINE next == [S \in SUBSET D |-> Next1(S)]
           G == [k \in D |-> [x \in U |-> IF Step(x, k) \in U THEN Step(x, k) ELSE base]]
<1>f1. IsFiniteSet(D) /\ \A S \in SUBSET D : S # {} => Next1(S) \in S
  BY <1>3, <1>6
<1>f2. FoldStays(D, next, U, T, base, G)
  <2>1. base \in T[{}] /\ base \in U /\ \A S \in SUBSET D : T[S] \subseteq U
    BY <1>7
  <2>2. ASSUME NEW S \in SUBSET D, S # {}, NEW x \in T[S \ {next[S]}] PROVE G[next[S]][x] \in T[S]
    <3>1. next[S] = Next1(S) /\ Next1(S) \in D /\ x \in U
      BY <1>f1, <2>1, <2>2
    <3>2. Step(x, Next1(S)) \in T[S] /\ Step(x, Next1(S)) \in U
      BY <1>8, <2>1, <2>2, <3>1
    <3> QED
      BY <3>1, <3>2
  <2>3. G \in [D -> [U -> U]]
    BY <2>1
  <2> QED
    BY <1>f1, <2>1, <2>2, <2>3 DEF FoldStays
<1>f3. PICK h : FoldsAs(h, D, next, U, base, G) /\ \A S \in SUBSET D : h[S] \in T[S]
  <2> HIDE DEF D, next, G
  <2> QED
    BY <1>f2, FoldWithin
<1>f4. h \in [SUBSET D -> U] /\ \A S \in SUBSET D : h[S] = Value(h, S)
  <2>1. h \in [SUBSET D -> U] /\ \A S \in SUBSET D : T[S] \subseteq U
    BY <1>f3, <1>7 DEF FoldsAs
  <2>2. ASSUME NEW S \in SUBSET D, S # {} PROVE h[S] = Step(h[S \ {Next1(S)}], Next1(S))
    <3>1. Next1(S) \in D /\ h[S \ {Next1(S)}] \in U /\ next[S] = Next1(S) /\ h[S \ {Next1(S)}] \in T[S \ {Next1(S)}]
      BY <1>f1, <1>f3, <2>1, <2>2
    <3>2. h[S] = G[Next1(S)][h[S \ {Next1(S)}]]
      BY <1>f3, <2>2, <3>1 DEF FoldsAs
    <3>3. Step(h[S \ {Next1(S)}], Next1(S)) \in U
      BY <1>8, <2>1, <2>2, <3>1
    <3> QED
      BY <3>1, <3>2, <3>3
  <2>3. h[{}] = base
    BY <1>f3 DEF FoldsAs
  <2> QED
    BY <2>1, <2>2, <2>3
<1>f5. fold = [S \in SUBSET D |-> Value(fold, S)]
  <2> HIDE DEF Value
  <2>1. h = [S \in SUBSET (D) |-> Value(h, S)]
    BY <1>f4
  <2> QED
    BY <2>1
<1> HIDE DEF fold
<1>f6. fold[D] \in T[D]
  <2>1. fold[{}] \in T[{}]
    BY <1>f5, <1>7
  <2>2. ASSUME NEW S \in SUBSET D, S # {}, fold[S \ {next[S]}] \in T[S \ {next[S]}] PROVE fold[S] \in T[S]
    <3>1. fold[S] = Step(fold[S \ {Next1(S)}], Next1(S)) /\ next[S] = Next1(S)
      BY <1>f5, <2>2
    <3> QED
      BY <1>8, <2>2, <3>1
  <2>3. IsFiniteSet(D) /\ \A S \in SUBSET D : S # {} => next[S] \in S
    BY <1>f1
  <2> HIDE DEF D, next, Step
  <2> QED
    BY <2>1, <2>2, <2>3, FoldedWithin
<1>9. SweptSome(s, x0, v, W, {})
  BY <1>f6 DEF T
<1>10. x0 \in Stores /\ Kept(s, x0) /\ x0.list = s.list /\ x0.pending = s.pending /\ x0.group = s.group /\ Good(y, W)
  BY <1>9, IsGood DEF SweptSome
<1> HIDE DEF x0
<1>11. VacatedSame(x0, y, v)
  BY <1>1, <1>10, VacatedIs
<1>12. t = s \/ t = b
  BY <1>5, <1>10 DEF Vacated, Stores
<1> HIDE DEF y
<1>13. y.group \in [Tables -> SUBSET Views] /\ y.dead \in SUBSET Views /\ y \in Stores /\ y.group = s.group
  BY <1>10, <1>11, StoreTyped DEF VacatedSame
<1>14. CASE t = s
  <2>1. Kept(s, s)
    BY SameKept
  <2> QED
    BY <1>14, <2>1 DEF t, Idle
<1>15. CASE t = b
  <2>1. dead \in SUBSET Views /\ group \in [Tables -> SUBSET Views]
    BY <1>1, <1>13, StoreTyped
  <2> HIDE DEF dead, group
  <2>2. b \in Stores /\ SameData(y, b) /\ SameRules(y, b) /\ b.pending = y.pending
    BY <1>13, <2>1 DEF Stores, SameData, SameRules
  <2> HIDE DEF b
  <2>3. Good(b, W)
    BY <1>10, <2>2, SameDataGood, GovernedKept DEF Good
  <2>4. Kept(s, b)
    <3>1. \A u \in Owners : u \in Views /\ u # v
      BY OwnersAreViews
    <3>2. b.cell = x0.cell /\ b.rec = x0.rec /\ \A u \in Owners : b.list[u] = x0.list[u]
      BY <1>11, <2>2, <3>1 DEF VacatedSame, SameData
    <3>3. \A i \in Owners : Shown(b, i) = Shown(x0, i)
      BY <3>2 DEF Shown
    <3>4. Kept(x0, b)
      BY <3>2, <3>3 DEF Kept
    <3> QED
      BY <1>10, <3>4, KeptTwice
  <2>5. b.pending = s.pending
    BY <1>10, <1>11, <2>2 DEF VacatedSame
  <2>6. Whole(b)
    BY <2>3, <2>4, <2>5, KeptWhole DEF W
  <2> QED
    BY <1>15, <2>4, <2>5, <2>6 DEF t, Idle
<1> QED
  BY <1>12, <1>14, <1>15

-----------------------------------------------------------------------------
(* How it begins.                                                          *)

Fields(s) ==
  /\ s \in Stores /\ s.rows = NewStore.rows /\ s.rec = NewStore.rec /\ s.list = NewStore.list
  /\ s.new = NewStore.new /\ s.selected = NewStore.selected /\ s.pending = << >> /\ ~s.stopped
\* Before any view is enabled.
LEMMA NewStoreIs ==
  /\ Fields(NewStore) /\ NewStore.triggers = [t \in Tables |-> << >>] /\ NewStore.ready = << >>
  /\ NewStore.owner = [t \in Tables |-> None] /\ NewStore.infos = [t \in Tables |-> {v \in Views : Home[v] = t}]
<1> DEFINE none == << >>
           triggers == [t \in Tables |-> none]
           infos == [t \in Tables |-> {v \in Views : Home[v] = t}]
           list == [v \in Views |-> none]
           s == NewStore
<1>1. /\ s.cell = [c \in Cells |-> Freed] /\ s.rec = [r \in Records |-> Freed] /\ s.rows = triggers
      /\ s.owner = [t \in Tables |-> None] /\ s.granted = [t \in Tables |-> {}] /\ s.group = [t \in Tables |-> {}]
      /\ s.infos = infos /\ s.triggers = triggers /\ s.list = list /\ s.dead = {}
      /\ s.new = [v \in Views |-> {}] /\ s.selected = triggers /\ s.pending = none /\ s.ready = none /\ s.stopped = FALSE
  BY DEF NewStore
<1>2. /\ none \in Seq(Cells) /\ none \in Seq(Triggers) /\ none \in Seq(Records) /\ none \in Seq(Selections)
      /\ none \in Seq(Transactions) /\ none \in Seq(Tables \X Nat)
  OBVIOUS
<1>3. /\ triggers \in [Tables -> Seq(Cells)] /\ triggers \in [Tables -> Seq(Triggers)]
      /\ triggers \in [Tables -> Seq(Selections)] /\ list \in [Views -> Seq(Records)]
      /\ infos \in [Tables -> SUBSET Views]
  <2> HIDE DEF none
  <2> QED
    BY <1>2
<1>4. /\ s.cell \in [Cells -> {Freed} \cup CellStates] /\ s.rec \in [Records -> {Freed} \cup RecordStates]
      /\ s.owner \in [Tables -> Views \cup {None}] /\ s.granted \in [Tables -> SUBSET Rights]
      /\ s.group \in [Tables -> SUBSET Views] /\ s.dead \in SUBSET Views /\ s.new \in [Views -> SUBSET Records]
  BY <1>1
<1>5. s = [cell |-> s.cell, rec |-> s.rec, rows |-> s.rows, owner |-> s.owner, granted |-> s.granted, group |-> s.group,
           infos |-> s.infos, triggers |-> s.triggers, list |-> s.list, dead |-> s.dead, new |-> s.new,
           selected |-> s.selected, pending |-> s.pending, ready |-> s.ready, stopped |-> s.stopped]
  BY DEF NewStore
<1>6. s \in Stores
  <2> HIDE DEF none, triggers, infos, list, s
  <2>1. /\ s.rows \in [Tables -> Seq(Cells)] /\ s.infos \in [Tables -> SUBSET Views] /\ s.triggers \in [Tables -> Seq(Triggers)]
        /\ s.list \in [Views -> Seq(Records)] /\ s.selected \in [Tables -> Seq(Selections)]
        /\ s.pending \in Seq(Transactions) /\ s.ready \in Seq(Tables \X Nat) /\ s.stopped \in BOOLEAN
    BY <1>1, <1>2, <1>3
  <2> QED
    BY <1>4, <1>5, <2>1 DEF Stores
<1> QED
  BY <1>1, <1>6 DEF Fields

\* The owners in S have been enabled.
Owned(x, S) ==
  /\ Fields(x) /\ x.triggers = NewStore.triggers /\ x.ready = << >>
  /\ \A v \in Owners : IF v \in S
                       THEN x.owner[Home[v]] = v /\ x.granted[Home[v]] = Permission[v] /\ v \notin x.infos[Home[v]]
                       ELSE x.owner[Home[v]] = None /\ v \in x.infos[Home[v]]
\* The next owner is enabled.
LEMMA OwnedStep ==
  ASSUME OwnedTables, NEW x, NEW S \in SUBSET Owners, NEW v \in S, Owned(x, S \ {v})
  PROVE  Owned(ViewEnable(x, v, TRUE), S)
<1> DEFINE h == Home[v]
           infos == [x.infos EXCEPT ![h] = @ \ {v}]
           owner == [x.owner EXCEPT ![h] = v]
           granted == [x.granted EXCEPT ![h] = Permission[v]]
           t == ViewEnable(x, v, TRUE)
<1>1. x \in Stores /\ v \in Owners /\ v \in Views /\ h \in Tables /\ Permission[v] \in SUBSET Rights
  BY OwnersAreViews, StoreAssumption DEF Owned, Fields
<1>2. x.owner[h] = None /\ v \in x.infos[h]
  BY <1>1 DEF Owned
<1>3. /\ x.infos \in [Tables -> SUBSET Views] /\ x.owner \in [Tables -> Views \cup {None}]
      /\ x.granted \in [Tables -> SUBSET Rights]
  BY <1>1, StoreTyped
<1>4. t = [x EXCEPT !.infos = infos, !.owner = owner, !.granted = granted]
  BY <1>1, <1>2, <1>3 DEF ViewEnable, Stores
<1>5. /\ infos \in [Tables -> SUBSET Views] /\ owner \in [Tables -> Views \cup {None}] /\ granted \in [Tables -> SUBSET Rights]
      /\ infos[h] = x.infos[h] \ {v} /\ owner[h] = v /\ granted[h] = Permission[v]
      /\ \A u \in Tables : u # h => infos[u] = x.infos[u] /\ owner[u] = x.owner[u] /\ granted[u] = x.granted[u]
  BY <1>1, <1>3
<1> HIDE DEF infos, owner, granted, t
<1>6. /\ t \in Stores /\ SameData(x, t) /\ t.infos = infos /\ t.owner = owner /\ t.granted = granted
      /\ t.triggers = x.triggers /\ t.ready = x.ready /\ t.pending = x.pending /\ t.stopped = x.stopped
  BY <1>1, <1>4, <1>5 DEF Stores, SameData
<1>7. Fields(t) /\ t.triggers = NewStore.triggers /\ t.ready = << >>
  BY <1>6 DEF Owned, Fields, SameData
<1>8. \A u \in Owners : Home[u] \in Tables /\ (u # v => Home[u] # h)
  BY <1>1, OwnersAreViews DEF OwnedTables
<1>9. ASSUME NEW u \in Owners
      PROVE  IF u \in S THEN t.owner[Home[u]] = u /\ t.granted[Home[u]] = Permission[u] /\ u \notin t.infos[Home[u]]
                        ELSE t.owner[Home[u]] = None /\ u \in t.infos[Home[u]]
  <2>1. CASE u = v
    BY <1>5, <1>6, <2>1
  <2>2. CASE u # v
    BY <1>5, <1>6, <1>8, <2>2 DEF Owned
  <2> QED
    BY <2>1, <2>2
<1> QED
  BY <1>7, <1>9 DEF Owned, t

\* The interfaces in S have asked for the records that are added.
Asking(x, y) ==
  /\ x \in Stores /\ Governed(x) /\ SameData(y, x) /\ x.pending = << >> /\ x.infos = y.infos /\ ~x.stopped

\* After the constructors.
LEMMA OpenedWhole ==
  ASSUME OwnedTables
  PROVE  /\ Whole(Opened) /\ ~Opened.stopped /\ Opened.pending = << >>
         /\ \A i \in Interfaces : Opened.list[i] = << >>
<1> DEFINE enabling == FoldSet(LAMBDA v, s : ViewEnable(s, v, TRUE), NewStore, Interfaces \cup Editors)
<1>1. Owned(enabling, Owners)
  <2> DEFINE D == Interfaces \cup Editors
             base == NewStore
             U == Stores
             T == [S \in SUBSET D |-> {x \in U : Owned(x, S)}]
             Step(x, r) == ViewEnable(x, r, TRUE)
             Next1(S) == CHOOSE x \in S : TRUE
             Value(h, S) == IF S = {} THEN base ELSE Step(h[S \ {Next1(S)}], Next1(S))
             fold == CHOOSE h : h = [S \in SUBSET D |-> Value(h, S)]
  <2>1. IsFiniteSet(D) /\ D = Owners
    BY OwnersAreViews, FS_Subset DEF OwnedTables, Owners
  <2>2. enabling = fold[D]
    BY DEF FoldSet, MapThenFoldSet
  <2>3. Owned(base, {}) /\ base \in Stores
    <3>1. \A v \in Owners : Home[v] \in Tables /\ v \in Views
      BY OwnersAreViews
    <3> QED
      BY <3>1, NewStoreIs DEF Owned, Fields
  <2> HIDE DEF enabling, base
  <2>4. \A S \in SUBSET D : S # {} => Next1(S) \in S
    OBVIOUS
  <2>5. base \in T[{}] /\ base \in U /\ \A S \in SUBSET D : T[S] \subseteq U
    BY <2>3
  <2>6. \A S \in SUBSET D : S # {} => \A x \in T[S \ {Next1(S)}] : Step(x, Next1(S)) \in T[S]
    <3> SUFFICES ASSUME NEW S \in SUBSET D, S # {}, NEW x \in T[S \ {Next1(S)}] PROVE Step(x, Next1(S)) \in T[S]
      OBVIOUS
    <3>1. Next1(S) \in S /\ S \in SUBSET Owners
      BY <2>1, <2>4
    <3>2. Owned(x, S \ {Next1(S)})
      OBVIOUS
    <3> HIDE DEF Next1
    <3>3. Owned(Step(x, Next1(S)), S)
      BY <3>1, <3>2, OwnedStep
    <3>4. Step(x, Next1(S)) \in Stores
      BY <3>3 DEF Owned, Fields
    <3> QED
      BY <3>3, <3>4
  <2> HIDE DEF T, Step, U, Next1
  <2>7. fold[D] \in T[D]
  <3> DEFINE next == [S \in SUBSET D |-> Next1(S)]
             G == [k \in D |-> [x \in U |-> IF Step(x, k) \in U THEN Step(x, k) ELSE base]]
  <3>f1. IsFiniteSet(D) /\ \A S \in SUBSET D : S # {} => Next1(S) \in S
    BY <2>1, <2>4
  <3>f2. FoldStays(D, next, U, T, base, G)
    <4>1. base \in T[{}] /\ base \in U /\ \A S \in SUBSET D : T[S] \subseteq U
      BY <2>5
    <4>2. ASSUME NEW S \in SUBSET D, S # {}, NEW x \in T[S \ {next[S]}] PROVE G[next[S]][x] \in T[S]
      <5>1. next[S] = Next1(S) /\ Next1(S) \in D /\ x \in U
        BY <3>f1, <4>1, <4>2
      <5>2. Step(x, Next1(S)) \in T[S] /\ Step(x, Next1(S)) \in U
        BY <2>6, <4>1, <4>2, <5>1
      <5> QED
        BY <5>1, <5>2
    <4>3. G \in [D -> [U -> U]]
      BY <4>1
    <4> QED
      BY <3>f1, <4>1, <4>2, <4>3 DEF FoldStays
  <3>f3. PICK h : FoldsAs(h, D, next, U, base, G) /\ \A S \in SUBSET D : h[S] \in T[S]
    <4> HIDE DEF D, next, G
    <4> QED
      BY <3>f2, FoldWithin
  <3>f4. h \in [SUBSET D -> U] /\ \A S \in SUBSET D : h[S] = Value(h, S)
    <4>1. h \in [SUBSET D -> U] /\ \A S \in SUBSET D : T[S] \subseteq U
      BY <3>f3, <2>5 DEF FoldsAs
    <4>2. ASSUME NEW S \in SUBSET D, S # {} PROVE h[S] = Step(h[S \ {Next1(S)}], Next1(S))
      <5>1. Next1(S) \in D /\ h[S \ {Next1(S)}] \in U /\ next[S] = Next1(S) /\ h[S \ {Next1(S)}] \in T[S \ {Next1(S)}]
        BY <3>f1, <3>f3, <4>1, <4>2
      <5>2. h[S] = G[Next1(S)][h[S \ {Next1(S)}]]
        BY <3>f3, <4>2, <5>1 DEF FoldsAs
      <5>3. Step(h[S \ {Next1(S)}], Next1(S)) \in U
        BY <2>6, <4>1, <4>2, <5>1
      <5> QED
        BY <5>1, <5>2, <5>3
    <4>3. h[{}] = base
      BY <3>f3 DEF FoldsAs
    <4> QED
      BY <4>1, <4>2, <4>3
  <3>f5. fold = [S \in SUBSET D |-> Value(fold, S)]
    <4> HIDE DEF Value
    <4>1. h = [S \in SUBSET (D) |-> Value(h, S)]
      BY <3>f4
    <4> QED
      BY <4>1
  <3> HIDE DEF fold
  <3>f6. fold[D] \in T[D]
    <4>1. fold[{}] \in T[{}]
      BY <3>f5, <2>5
    <4>2. ASSUME NEW S \in SUBSET D, S # {}, fold[S \ {next[S]}] \in T[S \ {next[S]}] PROVE fold[S] \in T[S]
      <5>1. fold[S] = Step(fold[S \ {Next1(S)}], Next1(S)) /\ next[S] = Next1(S)
        BY <3>f5, <4>2
      <5> QED
        BY <2>6, <4>2, <5>1
    <4>3. IsFiniteSet(D) /\ \A S \in SUBSET D : S # {} => next[S] \in S
      BY <3>f1
    <4> HIDE DEF D, next, Step
    <4> QED
      BY <4>1, <4>2, <4>3, FoldedWithin
    <3> QED
      BY <3>f6
  <2> HIDE DEF fold
  <2> QED
    BY <2>1, <2>2, <2>7 DEF T
<1>2. /\ enabling \in Stores /\ Governed(enabling) /\ ~enabling.stopped /\ Fields(enabling)
  <2> HIDE DEF enabling
  <2>1. /\ enabling \in Stores /\ Fields(enabling) /\ ~enabling.stopped
        /\ enabling.triggers = [t \in Tables |-> << >>] /\ enabling.ready = << >>
    BY <1>1, NewStoreIs DEF Owned, Fields
  <2>2. Governed(enabling)
    BY <1>1, <2>1 DEF Owned, Governed
  <2> QED
    BY <2>1, <2>2
<1>3. Asking(Opened, enabling)
  <2> DEFINE D == Interfaces
             base == enabling
             U == Stores
             T == [S \in SUBSET D |-> {x \in U : Asking(x, enabling)}]
             Step(x, r) == RecordAddDynamic(x, r)
             Next1(S) == CHOOSE x \in S : TRUE
             Value(h, S) == IF S = {} THEN base ELSE Step(h[S \ {Next1(S)}], Next1(S))
             fold == CHOOSE h : h = [S \in SUBSET D |-> Value(h, S)]
  <2>1. IsFiniteSet(D)
    BY OwnersAreViews, FS_Subset DEF OwnedTables
  <2>2. Opened = fold[D]
    BY DEF Opened, FoldSet, MapThenFoldSet
  <2> HIDE DEF enabling
  <2>3. Asking(base, enabling) /\ base \in Stores
    BY <1>2 DEF Asking, SameData, Fields
  <2> HIDE DEF base
  <2>4. \A S \in SUBSET D : S # {} => Next1(S) \in S
    OBVIOUS
  <2>5. base \in T[{}] /\ base \in U /\ \A S \in SUBSET D : T[S] \subseteq U
    BY <2>3
  <2>6. \A S \in SUBSET D : S # {} => \A x \in T[S \ {Next1(S)}] : Step(x, Next1(S)) \in T[S]
    <3> SUFFICES ASSUME NEW S \in SUBSET D, S # {}, NEW x \in T[S \ {Next1(S)}] PROVE Step(x, Next1(S)) \in T[S]
      OBVIOUS
    <3> DEFINE i == Next1(S)
    <3>1. i \in Interfaces
      BY <2>4
    <3>2. Asking(x, enabling) /\ x \in Stores
      OBVIOUS
    <3> HIDE DEF i, Next1
    <3>3. i \in Views /\ i \notin x.infos[Home[i]]
      BY <3>1, <3>2, OwnersAreViews DEF Asking, Governed
    <3>4. Asking(Step(x, i), enabling)
      BY <3>2, <3>3, TriggerGoverned DEF Asking, SameData
    <3>5. Step(x, i) \in Stores
      BY <3>4 DEF Asking
    <3> QED
      BY <3>4, <3>5 DEF i
  <2> HIDE DEF T, Step, U, Next1
  <2>7. fold[D] \in T[D]
  <3> DEFINE next == [S \in SUBSET D |-> Next1(S)]
             G == [k \in D |-> [x \in U |-> IF Step(x, k) \in U THEN Step(x, k) ELSE base]]
  <3>f1. IsFiniteSet(D) /\ \A S \in SUBSET D : S # {} => Next1(S) \in S
    BY <2>1, <2>4
  <3>f2. FoldStays(D, next, U, T, base, G)
    <4>1. base \in T[{}] /\ base \in U /\ \A S \in SUBSET D : T[S] \subseteq U
      BY <2>5
    <4>2. ASSUME NEW S \in SUBSET D, S # {}, NEW x \in T[S \ {next[S]}] PROVE G[next[S]][x] \in T[S]
      <5>1. next[S] = Next1(S) /\ Next1(S) \in D /\ x \in U
        BY <3>f1, <4>1, <4>2
      <5>2. Step(x, Next1(S)) \in T[S] /\ Step(x, Next1(S)) \in U
        BY <2>6, <4>1, <4>2, <5>1
      <5> QED
        BY <5>1, <5>2
    <4>3. G \in [D -> [U -> U]]
      BY <4>1
    <4> QED
      BY <3>f1, <4>1, <4>2, <4>3 DEF FoldStays
  <3>f3. PICK h : FoldsAs(h, D, next, U, base, G) /\ \A S \in SUBSET D : h[S] \in T[S]
    <4> HIDE DEF D, next, G
    <4> QED
      BY <3>f2, FoldWithin
  <3>f4. h \in [SUBSET D -> U] /\ \A S \in SUBSET D : h[S] = Value(h, S)
    <4>1. h \in [SUBSET D -> U] /\ \A S \in SUBSET D : T[S] \subseteq U
      BY <3>f3, <2>5 DEF FoldsAs
    <4>2. ASSUME NEW S \in SUBSET D, S # {} PROVE h[S] = Step(h[S \ {Next1(S)}], Next1(S))
      <5>1. Next1(S) \in D /\ h[S \ {Next1(S)}] \in U /\ next[S] = Next1(S) /\ h[S \ {Next1(S)}] \in T[S \ {Next1(S)}]
        BY <3>f1, <3>f3, <4>1, <4>2
      <5>2. h[S] = G[Next1(S)][h[S \ {Next1(S)}]]
        BY <3>f3, <4>2, <5>1 DEF FoldsAs
      <5>3. Step(h[S \ {Next1(S)}], Next1(S)) \in U
        BY <2>6, <4>1, <4>2, <5>1
      <5> QED
        BY <5>1, <5>2, <5>3
    <4>3. h[{}] = base
      BY <3>f3 DEF FoldsAs
    <4> QED
      BY <4>1, <4>2, <4>3
  <3>f5. fold = [S \in SUBSET D |-> Value(fold, S)]
    <4> HIDE DEF Value
    <4>1. h = [S \in SUBSET (D) |-> Value(h, S)]
      BY <3>f4
    <4> QED
      BY <4>1
  <3> HIDE DEF fold
  <3>f6. fold[D] \in T[D]
    <4>1. fold[{}] \in T[{}]
      BY <3>f5, <2>5
    <4>2. ASSUME NEW S \in SUBSET D, S # {}, fold[S \ {next[S]}] \in T[S \ {next[S]}] PROVE fold[S] \in T[S]
      <5>1. fold[S] = Step(fold[S \ {Next1(S)}], Next1(S)) /\ next[S] = Next1(S)
        BY <3>f5, <4>2
      <5> QED
        BY <2>6, <4>2, <5>1
    <4>3. IsFiniteSet(D) /\ \A S \in SUBSET D : S # {} => next[S] \in S
      BY <3>f1
    <4> HIDE DEF D, next, Step
    <4> QED
      BY <4>1, <4>2, <4>3, FoldedWithin
    <3> QED
      BY <3>f6
  <2> HIDE DEF fold
  <2> QED
    BY <2>2, <2>7 DEF T
<1> HIDE DEF enabling
<1> DEFINE s == Opened
<1>4. s \in Stores /\ Governed(s) /\ Fields(s) /\ ~s.stopped
  BY <1>2, <1>3 DEF Asking, Fields, SameData
<1>5. /\ s.rows = [t \in Tables |-> << >>] /\ s.rec = [r \in Records |-> Freed] /\ s.list = [v \in Views |-> << >>]
      /\ s.new = [v \in Views |-> {}] /\ s.selected = [t \in Tables |-> << >>] /\ s.pending = << >>
  <2>1. Fields(s)
    BY <1>4
  <2> HIDE DEF s
  <2> QED
    BY <2>1 DEF Fields, NewStore
<1> HIDE DEF s
<1>6. Range(<< >>) = {} /\ IsInjective(<< >>) /\ Len(<< >>) = 0
  <2>1. << >> \in Seq(Records)
    OBVIOUS
  <2> QED
    BY <2>1, Ranged
<1>7. RowsApart(s)
  BY <1>5, <1>6 DEF RowsApart
<1>8. Counted(s)
  <2>1. \A i \in Interfaces : Home[i] \in Tables
    BY OwnersAreViews
  <2> QED
    BY <1>5, <1>6, <2>1 DEF Counted
<1>9. Good(s, {})
  <2> DEFINE kind == [r \in Records |-> "nowhere"]
             of == [r \in Records |-> None]
  <2>1. kind \in [Records -> Kinds] /\ of \in [Records -> Views \cup {None}]
    BY KindsAre
  <2>2. Placed(s, {}, kind, of)
    BY <1>5, <1>6 DEF Placed
  <2>3. Refers(s, kind, of)
    BY <1>5 DEF Refers
  <2> HIDE DEF kind, of
  <2> QED
    BY <1>4, <1>7, <1>8, <2>1, <2>2, <2>3 DEF Good, Sound
<1>10. AddRecs(s) = {} /\ PendingSound(s)
  BY <1>5, <1>6 DEF AddRecs, PendingSound
<1>11. Edited(s)
  BY <1>5, <1>6, OwnersAreViews DEF Edited
<1>12. \A i \in Interfaces : s.list[i] = << >>
  BY <1>5, OwnersAreViews
<1> QED
  BY <1>4, <1>5, <1>9, <1>10, <1>11, <1>12 DEF Whole, s

-----------------------------------------------------------------------------
(* What an interface has committed last, read from its iterator on.         *)

Around(n, a, k) == ((a + k - 1) % n) + 1
\* One turn around at most.
LEMMA AroundIs ==
  ASSUME NEW n \in Nat \ {0}, NEW a \in 1..n, NEW k \in 1..n
  PROVE  Around(n, a, k) = IF a + k <= n THEN a + k ELSE a + k - n
<1>1. CASE a + k <= n
  <2>1. a + k - 1 = n * 0 + (a + k - 1) /\ a + k - 1 \in 0..(n - 1)
    BY <1>1
  <2>2. (n * 0 + (a + k - 1)) % n = a + k - 1
    BY <2>1, Quotient
  <2> QED
    BY <1>1, <2>1, <2>2 DEF Around
<1>2. CASE ~(a + k <= n)
  <2>1. a + k - 1 = n * 1 + (a + k - 1 - n) /\ a + k - 1 - n \in 0..(n - 1)
    BY <1>2
  <2>2. (n * 1 + (a + k - 1 - n)) % n = a + k - 1 - n
    BY <2>1, Quotient
  <2> QED
    BY <1>2, <2>1, <2>2 DEF Around
<1> QED
  BY <1>1, <1>2

\* From the place after a on, and around, e holds what p does.
Ring(e, a, p) == Len(p) = Len(e) /\ \A k \in 1..Len(e) : e[Around(Len(e), a, k)] = p[k]

\* A value is added at the end of a list that was not turned.
LEMMA RingGrows ==
  ASSUME NEW e \in Seq(Values), NEW p \in Seq(Values), NEW x \in Values, Ring(e, Len(e), p)
  PROVE  Ring(Append(e, x), Len(e) + 1, Append(p, x))
<1> DEFINE n == Len(e)
<1>1. n \in Nat /\ Len(p) = n
  BY DEF Ring
<1>2. \A k \in 1..n : e[k] = p[k]
  <2> SUFFICES ASSUME NEW k \in 1..n PROVE e[k] = p[k]
    OBVIOUS
  <2>1. n \in Nat \ {0} /\ n \in 1..n
    BY <1>1
  <2>2. Around(n, n, k) = k
    BY <1>1, <2>1, AroundIs
  <2> QED
    BY <2>2 DEF Ring
<1>3. Len(Append(e, x)) = n + 1 /\ Len(Append(p, x)) = n + 1
  BY <1>1, AppendProperties
<1>4. \A k \in 1..(n + 1) : Append(e, x)[k] = Append(p, x)[k]
  <2> SUFFICES ASSUME NEW k \in 1..(n + 1) PROVE Append(e, x)[k] = Append(p, x)[k]
    OBVIOUS
  <2>1. CASE k \in 1..n
    BY <1>1, <1>2, <2>1, AppendProperties
  <2>2. CASE k = n + 1
    BY <1>1, <2>2, AppendProperties
  <2> QED
    BY <1>1, <2>1, <2>2
<1>5. \A k \in 1..(n + 1) : Around(n + 1, n + 1, k) = k
  <2> SUFFICES ASSUME NEW k \in 1..(n + 1) PROVE Around(n + 1, n + 1, k) = k
    OBVIOUS
  <2>1. n + 1 \in Nat \ {0} /\ n + 1 \in 1..(n + 1)
    BY <1>1
  <2> QED
    BY <1>1, <2>1, AroundIs
<1> QED
  BY <1>3, <1>4, <1>5 DEF Ring

\* The oldest value is written over: the last ones are one later.
LEMMA RingTurns ==
  ASSUME NEW e \in Seq(Values), NEW p \in Seq(Values), NEW x \in Values, NEW a \in 1..Len(e), Ring(e, a, p)
  PROVE  /\ Latest(Append(p, x), Len(e)) \in Seq(Values)
         /\ Ring([e EXCEPT ![Following(Len(e), a)] = x], Following(Len(e), a), Latest(Append(p, x), Len(e)))
<1> DEFINE n == Len(e)
           b == Following(n, a)
           f == [e EXCEPT ![b] = x]
           all == Append(p, x)
           q == Latest(all, n)
<1>1. n \in Nat \ {0} /\ Len(p) = n /\ b \in 1..n /\ a \in 1..n
  BY DEF Ring, Following
<1>2. f \in Seq(Values) /\ Len(f) = n /\ \A k \in 1..n : f[k] = IF k = b THEN x ELSE e[k]
  BY <1>1
<1>3. /\ all \in Seq(Values) /\ Len(all) = n + 1 /\ all[n + 1] = x
      /\ \A k \in 1..n : all[k] = p[k]
  BY <1>1, AppendProperties
<1>4. q = SubSeq(all, 2, n + 1)
  <2>1. n + 1 - n + 1 = 2
    BY <1>1
  <2> QED
    BY <1>3, <2>1 DEF Latest
<1>5. q \in Seq(Values) /\ Len(q) = n /\ \A k \in 1..n : q[k] = all[k + 1]
  <2> HIDE DEF all, q
  <2>1. q \in Seq(Values) /\ q = [k \in 1..n |-> all[k + 1]]
    BY <1>1, <1>3, <1>4
  <2> QED
    BY <1>1, <2>1
<1>6. ASSUME NEW k \in 1..n PROVE f[Around(n, b, k)] = q[k]
  <2>1. CASE k = n
    <3>1. Around(n, b, k) = b
      BY <1>1, <2>1, AroundIs
    <3> QED
      BY <1>1, <1>2, <1>3, <1>5, <2>1, <3>1
  <2>2. CASE k # n
    <3>1. k + 1 \in 1..n
      BY <1>1, <2>2
    <3>2. /\ Around(n, b, k) = IF b + k <= n THEN b + k ELSE b + k - n
          /\ Around(n, a, k + 1) = IF a + (k + 1) <= n THEN a + (k + 1) ELSE a + (k + 1) - n
      BY <1>1, <3>1, AroundIs
    <3>3. Around(n, b, k) = Around(n, a, k + 1) /\ Around(n, b, k) # b /\ Around(n, b, k) \in 1..n
      <4>1. b = IF a = n THEN 1 ELSE a + 1
        BY DEF Following
      <4> HIDE DEF b, n
      <4>2. n \in Nat /\ a \in Nat /\ k \in Nat /\ a >= 1 /\ a <= n /\ k >= 1 /\ k < n
        BY <1>1, <2>2
      <4> QED
        BY <3>2, <4>1, <4>2
    <3>4. e[Around(n, a, k + 1)] = p[k + 1]
      BY <3>1 DEF Ring
    <3> QED
      BY <1>2, <1>3, <1>5, <3>1, <3>3, <3>4
  <2> QED
    BY <2>1, <2>2
<1> HIDE DEF f, q, n, b
<1>7. Ring(f, b, q)
  BY <1>2, <1>5, <1>6 DEF Ring
<1> QED
  BY <1>5, <1>7 DEF f, q, n, b, all

\* What an interface shows are values, one for each record of its view.
LEMMA ShownIs ==
  ASSUME OwnedTables, NEW s, Whole(s), NEW i \in Interfaces
  PROVE  /\ s.list[i] \in Seq(Records) /\ Shown(s, i) \in Seq(Values) /\ Len(Shown(s, i)) = Len(s.list[i])
<1>1. s \in Stores /\ i \in Views /\ s.list[i] \in Seq(Records) /\ Good(s, AddRecs(s))
  BY OwnersAreViews, StoreTyped DEF Whole, Good
<1>2. \A k \in 1..Len(s.list[i]) : s.cell[s.rec[s.list[i][k]].cell].value \in Values
  <2> SUFFICES ASSUME NEW k \in 1..Len(s.list[i]) PROVE s.cell[s.rec[s.list[i][k]].cell].value \in Values
    OBVIOUS
  <2>1. s.list[i][k] \in Records /\ s.list[i][k] \in Range(s.list[i])
    BY <1>1, Ranged
  <2>2. s.cell[s.rec[s.list[i][k]].cell] \in CellStates
    BY <1>1, <2>1, Listed
  <2> QED
    BY <2>2 DEF CellStates
<1> DEFINE n == Len(s.list[i])
           val == [k \in 1..n |-> s.cell[s.rec[s.list[i][k]].cell].value]
<1>3. n \in Nat /\ val \in [1..n -> Values]
  BY <1>1, <1>2
<1>4. Shown(s, i) = val
  BY DEF Shown
<1> HIDE DEF n, val
<1>5. val \in Seq(Values) /\ Len(val) = n
  BY <1>3
<1> QED
  BY <1>1, <1>4, <1>5 DEF n

-----------------------------------------------------------------------------
(* The inductive invariant of the specification.                           *)

Keeps(i) ==
  /\ PlacesOf(db, i) /\ past[i] \in Seq(Values) /\ Ring(Shown(db, i), at[i], past[i])
  /\ read[i] # None /\ count[i] <= depth[i] => read[i] = Last(past[i])
ClientsTyped ==
  /\ depth \in [Interfaces -> Nat] /\ count \in [Interfaces -> 0..MaxCommits] /\ at \in [Interfaces -> Nat]
  /\ past \in [Interfaces -> Seq(Values)] /\ DOMAIN read = Interfaces
StoreKept == Whole(db) /\ ClientsTyped /\ \A i \in Interfaces : Keeps(i)

\* Of the initial states.
LEMMA StoreKeptHolds ==
  ASSUME CarefulClients, Init
  PROVE  StoreKept
<1>1. OwnedTables /\ db = Opened /\ Whole(db) /\ \A i \in Interfaces : db.list[i] = << >>
  BY OpenedWhole DEF CarefulClients, Init
<1>2. << >> \in Seq(Values) /\ Len(<< >>) = 0
  OBVIOUS
<1>3. ASSUME NEW i \in Interfaces PROVE Keeps(i)
  <2>1. depth[i] \in Nat \ {0} /\ count[i] = 0 /\ at[i] = 0 /\ past[i] = << >> /\ read[i] = None
    BY HistoryAssumption DEF Init
  <2>2. Len(db.list[i]) = 0 /\ Len(Shown(db, i)) = 0
    BY <1>1, <1>2, ShownIs
  <2>3. Places(0, depth[i], 0, 0)
    BY <2>1 DEF Places
  <2>4. Ring(Shown(db, i), 0, << >>)
    BY <1>2, <2>2 DEF Ring
  <2> QED
    BY <1>2, <2>1, <2>2, <2>3, <2>4 DEF Keeps, PlacesOf
<1>4. ClientsTyped
  <2>1. depth \in [Interfaces -> Nat]
    BY HistoryAssumption DEF Init
  <2> QED
    BY <1>2, <2>1, HistoryAssumption DEF Init, ClientsTyped
<1> QED
  BY <1>1, <1>3, <1>4 DEF StoreKept

\* What leaves the lists and the values of interfaces alone.
LEMMA CallKeeps ==
  ASSUME StoreKept, UNCHANGED interfaceVars, Whole(db'), ShownKept(db, db')
  PROVE  StoreKept'
<1>1. /\ depth' = depth /\ count' = count /\ at' = at /\ past' = past /\ read' = read
  BY DEF interfaceVars
<1>2. ASSUME NEW i \in Interfaces PROVE Keeps(i)'
  <2>1. Keeps(i) /\ db'.list[i] = db.list[i] /\ Shown(db, i)' = Shown(db, i)
    BY DEF StoreKept, ShownKept, Shown
  <2> QED
    BY <1>1, <2>1 DEF Keeps, PlacesOf
<1> QED
  BY <1>1, <1>2 DEF StoreKept, ClientsTyped

\* The end of a delta cycle, of the interfaces that ran.
LEMMA DeltaIs ==
  ASSUME OwnedTables, StoreKept, NEW order \in Orders, NEW bit \in [Interfaces -> Values], EndDelta(order, bit)
  PROVE  DeltaEnds(db, db', order, bit) /\ Range(order) \subseteq Interfaces
<1>1. order \in Seq(Interfaces) /\ IsInjective(order) /\ Range(order) \subseteq Interfaces
  <2>1. order \in Seq(Interfaces) /\ IsInjective(order)
    BY DEF Orders
  <2> QED
    BY <2>1, Ranged
<1>2. AllPlaces /\ Whole(db) /\ ~db.stopped /\ RoomFor(db, 2 * Cardinality({i \in Range(order) : Filling(i)}))
  BY DEF AllPlaces, StoreKept, Keeps, EndDelta, Running
<1>3. db' = ExecuteTriggers(CommitAll(FoldLeft(LAMBDA s, i : Commit(s, i, bit[i]), db, order)))
  BY DEF EndDelta
<1>4. DeltaEnds(db, ExecuteTriggers(CommitAll(FoldLeft(LAMBDA s, i : Commit(s, i, bit[i]), db, order))), order, bit)
  BY <1>1, <1>2, DeltaWhole
<1> QED
  BY <1>1, <1>3, <1>4

\* Each interface that ran has committed one value more.
LEMMA DeltaKeeps ==
  ASSUME OwnedTables, StoreKept, NEW order \in Orders, NEW bit \in [Interfaces -> Values], EndDelta(order, bit)
  PROVE  StoreKept'
<1> DEFINE ran == Range(order)
<1>1. DeltaEnds(db, db', order, bit) /\ ran \subseteq Interfaces
  BY DeltaIs
<1>2. Whole(db')
  BY <1>1 DEF DeltaEnds
<1>3. /\ depth' = depth /\ read' = [i \in Interfaces |-> None]
      /\ count' = [i \in Interfaces |-> IF i \in ran THEN count[i] + 1 ELSE count[i]]
      /\ at' = [i \in Interfaces |-> IF i \notin ran THEN at[i]
                                     ELSE IF Filling(i) THEN RecordSearchLast(db', i, Records) ELSE NextSlot(db, i)]
      /\ past' = [i \in Interfaces |->
                    IF Len(IF i \in ran THEN Append(past[i], bit[i]) ELSE past[i]) > depth[i]
                    THEN Latest(IF i \in ran THEN Append(past[i], bit[i]) ELSE past[i], depth[i])
                    ELSE IF i \in ran THEN Append(past[i], bit[i]) ELSE past[i]]
      /\ \A i \in ran : count[i] < MaxCommits
  BY DEF EndDelta
<1>4. ASSUME NEW i \in Interfaces
      PROVE  /\ count'[i] \in 0..MaxCommits /\ at'[i] \in Nat /\ past'[i] \in Seq(Values)
             /\ Keeps(i)'
  <2> DEFINE e == Shown(db, i)
             n == Len(e)
             p == past[i]
             x == bit[i]
             grown == Append(p, x)
  <2>1. /\ db.list[i] \in Seq(Records) /\ e \in Seq(Values) /\ Len(db.list[i]) = n /\ n \in Nat
        /\ p \in Seq(Values) /\ Len(p) = n /\ x \in Values
        /\ Places(n, depth[i], count[i], at[i]) /\ Ring(e, at[i], p)
    <3>1. /\ db.list[i] \in Seq(Records) /\ e \in Seq(Values) /\ Len(db.list[i]) = n
      BY ShownIs DEF StoreKept
    <3>2. p \in Seq(Values) /\ PlacesOf(db, i) /\ Ring(e, at[i], p)
      BY DEF StoreKept, Keeps
    <3> QED
      BY <3>1, <3>2 DEF PlacesOf, Ring
  <2>2. /\ depth[i] \in Nat \ {0} /\ count[i] \in Nat /\ at[i] \in 0..n
        /\ n = (IF count[i] < depth[i] THEN count[i] ELSE depth[i])
    BY <2>1 DEF Places
  <2>3. count[i] \in 0..MaxCommits /\ depth'[i] = depth[i] /\ read'[i] = None
    BY <1>3 DEF StoreKept, ClientsTyped
  <2>4. Len(grown) = n + 1 /\ grown \in Seq(Values)
    BY <2>1, AppendProperties
  <2>5. ASSUME Places(Len(db'.list[i]), depth[i], count'[i], at'[i]), past'[i] \in Seq(Values),
               Ring(Shown(db', i), at'[i], past'[i])
        PROVE  Keeps(i)'
    <3>1. Shown(db, i)' = Shown(db', i)
      BY DEF Shown
    <3> QED
      BY <2>3, <2>5, <3>1 DEF Keeps, PlacesOf
  <2>6. CASE i \notin ran
    <3>1. count'[i] = count[i] /\ at'[i] = at[i] /\ past'[i] = p
      <4>1. ~(Len(p) > depth[i])
        BY <2>1, <2>2
      <4> QED
        BY <1>3, <2>6, <4>1
    <3>2. db'.list[i] = db.list[i] /\ Shown(db', i) = e
      BY <1>1, <2>6 DEF DeltaEnds, Still
    <3> QED
      BY <2>1, <2>2, <2>3, <2>5, <3>1, <3>2
  <2>7. CASE i \in ran /\ Filling(i)
    <3>1. count[i] < depth[i] /\ n = count[i] /\ at[i] = n
      BY <2>1, <2>2, <2>7 DEF Filling, Places
    <3>2. /\ \E q \in Records : db'.list[i] = Append(db.list[i], q)
          /\ Shown(db', i) = Append(e, x)
      BY <1>1, <2>7 DEF DeltaEnds, After
    <3>3. Len(db'.list[i]) = n + 1 /\ db'.list[i] \in Seq(Records)
      BY <2>1, <3>2, AppendProperties
    <3>4. count'[i] = n + 1 /\ at'[i] = n + 1 /\ past'[i] = grown
      <4>1. RecordSearchLast(db', i, Records) = n + 1
        BY <3>3, SearchesAll
      <4>2. ~(Len(grown) > depth[i])
        BY <2>2, <2>4, <3>1
      <4> QED
        BY <1>3, <2>7, <3>1, <4>1, <4>2
    <3>5. Places(n + 1, depth[i], n + 1, n + 1)
      BY <2>1, <3>1, PlacesMove
    <3>6. Ring(Append(e, x), n + 1, grown)
      BY <2>1, <3>1, RingGrows
    <3>7. count'[i] \in 0..MaxCommits
      BY <1>3, <2>3, <2>7, <3>1, <3>4, HistoryAssumption
    <3> HIDE DEF n, e, grown
    <3> QED
      BY <2>1, <2>4, <2>5, <3>2, <3>3, <3>4, <3>5, <3>6, <3>7
  <2>8. CASE i \in ran /\ ~Filling(i)
    <3>1. count[i] >= depth[i]
      BY <2>2, <2>8 DEF Filling
    <3> DEFINE b == Following(n, at[i])
    <3>2. n = depth[i] /\ n > 0 /\ b \in 1..n /\ Places(n, depth[i], count[i] + 1, b)
      BY <2>1, <3>1, PlacesMove
    <3>3. at[i] \in 1..n
      BY <2>1, <2>2, <3>2 DEF Places
    <3>4. NextSlot(db, i) = b
      <4>1. PlacesOf(db, i)
        BY <2>1 DEF PlacesOf
      <4>2. SlotOf(db, i) = b
        BY <2>1 DEF SlotOf
      <4> QED
        BY <2>1, <2>8, <4>1, <4>2, NextSlotIs
    <3>5. db'.list[i] = db.list[i] /\ Shown(db', i) = [e EXCEPT ![b] = x]
      <4>1. SlotOf(db, i) = b
        BY <2>1 DEF SlotOf
      <4> QED
        BY <1>1, <2>8, <4>1 DEF DeltaEnds, After
    <3>6. count'[i] = count[i] + 1 /\ at'[i] = b /\ past'[i] = Latest(grown, n)
      <4>1. Len(grown) > depth[i]
        BY <2>2, <2>4, <3>2
      <4> QED
        BY <1>3, <2>8, <3>2, <3>4, <4>1
    <3>7. Latest(grown, n) \in Seq(Values) /\ Ring([e EXCEPT ![b] = x], b, Latest(grown, n))
      BY <2>1, <3>3, RingTurns
    <3>8. count'[i] \in 0..MaxCommits
      BY <1>3, <2>3, <2>8, <3>6, HistoryAssumption
    <3> HIDE DEF n, e, grown, b
    <3> QED
      BY <2>1, <2>5, <3>2, <3>5, <3>6, <3>7, <3>8
  <2> QED
    BY <2>6, <2>7, <2>8
<1>5. ClientsTyped'
  <2>1. depth' \in [Interfaces -> Nat] /\ DOMAIN read' = Interfaces
    BY <1>3 DEF StoreKept, ClientsTyped
  <2>2. /\ count' \in [Interfaces -> 0..MaxCommits] /\ at' \in [Interfaces -> Nat]
        /\ past' \in [Interfaces -> Seq(Values)]
    BY <1>3, <1>4
  <2> QED
    BY <2>1, <2>2 DEF ClientsTyped
<1> QED
  BY <1>2, <1>4, <1>5 DEF StoreKept

\* HistoryDepth, before anything has been committed.
LEMMA DepthKeeps ==
  ASSUME CarefulClients, StoreKept, NEW i \in Interfaces, NEW n, HistoryDepth(i, n)
  PROVE  StoreKept'
<1>1. /\ count[i] = 0 /\ n \in Nat \ {0} /\ depth' = [depth EXCEPT ![i] = n] /\ db' = db
      /\ count' = count /\ at' = at /\ past' = past /\ read' = read
  BY HistoryAssumption DEF HistoryDepth, CarefulClients
<1>2. ASSUME NEW j \in Interfaces PROVE Keeps(j)'
  <2>1. Keeps(j) /\ Shown(db, j)' = Shown(db, j)
    BY <1>1 DEF StoreKept, Shown
  <2>2. depth'[j] = IF j = i THEN n ELSE depth[j]
    BY <1>1 DEF StoreKept, ClientsTyped
  <2>3. CASE j # i
    BY <1>1, <2>1, <2>2, <2>3 DEF Keeps, PlacesOf
  <2>4. CASE j = i
    <3>1. Places(Len(db.list[i]), depth[i], 0, at[i]) /\ depth[i] \in Nat
      BY <1>1, <2>1, <2>4 DEF Keeps, PlacesOf, Places
    <3>2. Len(db.list[i]) = 0 /\ at[i] = 0
      BY <3>1 DEF Places
    <3>3. Places(0, n, 0, 0)
      BY <1>1 DEF Places
    <3>4. PlacesOf(db, i)'
      BY <1>1, <2>2, <2>4, <3>2, <3>3 DEF PlacesOf
    <3>5. read[i] # None => read[i] = Last(past[i])
      BY <1>1, <2>1, <2>4, <3>1 DEF Keeps
    <3> QED
      BY <1>1, <2>1, <2>4, <3>4, <3>5 DEF Keeps
  <2> QED
    BY <2>3, <2>4
<1>3. Whole(db)' /\ ClientsTyped'
  BY <1>1 DEF StoreKept, ClientsTyped
<1> QED
  BY <1>2, <1>3 DEF StoreKept

\* GetCommittedValue: while no record has been written over, the last one of the
\* view is the one committed last.
LEMMA ReadKeeps ==
  ASSUME OwnedTables, StoreKept, NEW i \in Interfaces, GetCommittedValue(i)
  PROVE  StoreKept'
<1>1. /\ db' = db /\ depth' = depth /\ count' = count /\ at' = at /\ past' = past
      /\ read' = [read EXCEPT ![i] = Committed(i)] /\ db.list[i] # << >>
  BY DEF GetCommittedValue
<1> DEFINE e == Shown(db, i)
           n == Len(e)
<1>2. /\ db.list[i] \in Seq(Records) /\ e \in Seq(Values) /\ Len(db.list[i]) = n /\ n \in Nat \ {0}
      /\ past[i] \in Seq(Values) /\ Len(past[i]) = n
      /\ Places(n, depth[i], count[i], at[i]) /\ Ring(e, at[i], past[i])
  <2>1. /\ db.list[i] \in Seq(Records) /\ e \in Seq(Values) /\ Len(db.list[i]) = n
    BY ShownIs DEF StoreKept
  <2>2. past[i] \in Seq(Values) /\ PlacesOf(db, i) /\ Ring(e, at[i], past[i])
    BY DEF StoreKept, Keeps
  <2>3. Len(db.list[i]) \in Nat \ {0}
    BY <1>1, <2>1
  <2> QED
    BY <2>1, <2>2, <2>3 DEF PlacesOf, Ring
<1>3. Committed(i) = e[n]
  <2>1. RecordSearchLast(db, i, Records) = n
    BY <1>2, SearchesAll
  <2>2. n \in 1..Len(db.list[i])
    BY <1>2
  <2>3. e[n] = db.cell[db.rec[db.list[i][n]].cell].value
    BY <2>2 DEF Shown
  <2> HIDE DEF e, n
  <2> QED
    BY <2>1, <2>3 DEF Committed, ValueAt
<1>4. ASSUME count[i] <= depth[i] PROVE e[n] = Last(past[i])
  <2> HIDE DEF e, n
  <2>1. n = count[i] /\ at[i] = n
    BY <1>2, <1>4 DEF Places
  <2>2. Around(n, n, n) = n
    <3>1. n \in 1..n
      BY <1>2
    <3>2. Around(n, n, n) = IF n + n <= n THEN n + n ELSE n + n - n
      BY <1>2, <3>1, AroundIs
    <3> QED
      BY <1>2, <3>2
  <2>3. e[n] = past[i][n]
    BY <1>2, <2>1, <2>2 DEF Ring, n
  <2> QED
    BY <1>2, <2>3 DEF Last
<1>5. ASSUME NEW j \in Interfaces PROVE Keeps(j)'
  <2>1. Keeps(j) /\ Shown(db, j)' = Shown(db, j)
    BY <1>1 DEF StoreKept, Shown
  <2>2. read'[j] = IF j = i THEN Committed(i) ELSE read[j]
    BY <1>1 DEF StoreKept, ClientsTyped
  <2>3. read'[j] # None /\ count[j] <= depth[j] => read'[j] = Last(past[j])
    BY <1>3, <1>4, <2>1, <2>2 DEF Keeps
  <2> QED
    BY <1>1, <2>1, <2>3 DEF Keeps, PlacesOf
<1>6. Whole(db)' /\ ClientsTyped'
  BY <1>1 DEF StoreKept, ClientsTyped
<1> QED
  BY <1>5, <1>6 DEF StoreKept

-----------------------------------------------------------------------------
(* What is asked for waits, or has its effect already.                     *)

\* Only what an editor may not change at once waits for the commit.  Unless a
\* deletion waits too, the last of the changes to a record that wait is the one
\* asked for, and what no change waits for has the value that was asked for.
Doomed(s) == \E k \in 1..Len(s.pending) : s.pending[k].oper = "Delete"
Promises(s, a) ==
  /\ DOMAIN a = Records
  /\ ~s.stopped =>
       /\ \A k \in 1..Len(s.pending) : s.pending[k].oper = "Modify" => Later(s, s.pending[k].rec)
       /\ ~Doomed(s) => \A r \in Records : a[r] # None =>
            /\ \E v \in Editors : r \in Range(s.list[v])
            /\ Due(s, s.pending, 1..Len(s.pending), r, a[r])
Promised == calls \in Nat /\ Promises(db, asked)

\* What waits is of the Records that there are.
LEMMA WaitingIs ==
  ASSUME OwnedTables, NEW s, Whole(s)
  PROVE  /\ s \in Stores /\ s.pending \in Seq(Transactions) /\ Len(s.pending) \in Nat
         /\ \A k \in 1..Len(s.pending) :
              /\ s.pending[k].rec \in Records /\ s.pending[k].oper \in {"Add", "Delete", "Modify"}
              /\ s.pending[k].view \in Editors
              /\ s.pending[k].oper # "Add" => s.pending[k].rec \in Range(s.list[s.pending[k].view])
<1>1. s \in Stores /\ s.pending \in Seq(Transactions) /\ PendingSound(s)
  BY StoreTyped DEF Whole, Good
<1>2. \A k \in 1..Len(s.pending) : s.pending[k] \in Transactions
  BY <1>1, Ranged
<1>3. \A k \in 1..Len(s.pending) : s.pending[k].rec \in Records /\ s.pending[k].oper \in {"Add", "Delete", "Modify"}
  BY <1>2 DEF Transactions
<1> QED
  BY <1>1, <1>3 DEF PendingSound

\* Nothing that editors list changes, and nothing more waits.
LEMMA SteadyPromises ==
  ASSUME OwnedTables, NEW s, Whole(s), ~s.stopped, NEW a, Promises(s, a),
         NEW t, Steady(s, t), t.pending = s.pending
  PROVE  Promises(t, a)
<1>1. \A k \in 1..Len(s.pending) : s.pending[k].oper = "Modify" => Later(t, s.pending[k].rec)
  BY WaitingIs DEF Promises, Steady, Later
<1>2. ASSUME ~Doomed(s), NEW r \in Records, a[r] # None
      PROVE  /\ \E v \in Editors : r \in Range(t.list[v])
             /\ Due(t, s.pending, 1..Len(s.pending), r, a[r])
  <2>1. PICK v \in Editors : r \in Range(s.list[v])
    BY <1>2 DEF Promises
  <2>2. Due(s, s.pending, 1..Len(s.pending), r, a[r])
    BY <1>2 DEF Promises
  <2>3. r \in Range(t.list[v]) /\ Worth(t, r) = Worth(s, r)
    BY <2>1 DEF Steady
  <2> QED
    BY <2>2, <2>3 DEF Due
<1> QED
  BY <1>1, <1>2 DEF Promises, Doomed

\* A store that no owner sees changed.
LEMMA IdlePromises ==
  ASSUME OwnedTables, NEW s, Whole(s), ~s.stopped, NEW a, Promises(s, a), NEW t, Idle(s, t)
  PROVE  Promises(t, a)
<1>1. s \in Stores
  BY DEF Whole, Good
<1>2. Steady(s, t) /\ t.pending = s.pending
  BY <1>1, KeptSteady DEF Idle
<1> QED
  BY <1>2, SteadyPromises

\* One transaction more waits: a change that may wait is what its record was asked
\* for last.
Asks(a, tran) == IF tran.oper = "Modify" THEN [a EXCEPT ![tran.rec] = tran.value] ELSE a
\* One transaction more waits, as asked.
LEMMA AskedPromises ==
  ASSUME OwnedTables, NEW s, Whole(s), ~s.stopped, NEW a, Promises(s, a), NEW tran \in Transactions,
         tran.oper = "Modify" => Later(s, tran.rec) /\ \E v \in Editors : tran.rec \in Range(s.list[v]),
         NEW t, Asked(s, t, tran)
  PROVE  Promises(t, Asks(a, tran))
<1> DEFINE old == s.pending
           n == Len(old)
           b == Asks(a, tran)
<1>1. s \in Stores /\ old \in Seq(Transactions) /\ n \in Nat
  BY WaitingIs
<1>2. Steady(s, t)
  BY <1>1, KeptSteady DEF Asked
<1>3. /\ Len(t.pending) = n + 1 /\ t.pending[n + 1] = tran /\ \A k \in 1..n : t.pending[k] = old[k]
  BY <1>1, Appended DEF Asked
<1>4. \A k \in 1..n : old[k].oper = "Modify" => Later(t, old[k].rec)
  BY <1>2, WaitingIs DEF Promises, Steady, Later
<1>5. tran.rec \in Records
  BY DEF Transactions
<1>6. tran.oper = "Modify" => Later(t, tran.rec)
  BY <1>2, <1>5 DEF Steady, Later
<1>7. /\ DOMAIN b = Records
      /\ \A r \in Records : b[r] = IF tran.oper = "Modify" /\ r = tran.rec THEN tran.value ELSE a[r]
  BY <1>5 DEF Promises, Asks
<1> HIDE DEF b, n
<1>8. \A k \in 1..(n + 1) : k \in 1..n \/ k = n + 1
  BY <1>1
<1>9. ASSUME ~Doomed(t), NEW r \in Records, b[r] # None
      PROVE  /\ \E v \in Editors : r \in Range(t.list[v])
             /\ Due(t, t.pending, 1..(n + 1), r, b[r])
  <2>1. CASE Modifies(t.pending, n + 1, r)
    <3>1. tran.oper = "Modify" /\ tran.rec = r /\ b[r] = tran.value
      BY <1>3, <1>7, <2>1 DEF Modifies
    <3>2. \E v \in Editors : r \in Range(t.list[v])
      BY <1>2, <3>1 DEF Steady
    <3>3. ASSUME NEW m \in 1..(n + 1), \A j \in 1..(n + 1) : j > m => ~Modifies(t.pending, j, r) PROVE m = n + 1
      <4>1. n + 1 \in 1..(n + 1)
        BY <1>1
      <4>2. ~(n + 1 > m)
        BY <2>1, <3>3, <4>1
      <4> QED
        BY <1>1, <4>2
    <3>4. n + 1 \in 1..(n + 1)
      BY <1>1
    <3> QED
      BY <1>3, <2>1, <3>1, <3>2, <3>3, <3>4 DEF Due
  <2>2. CASE ~Modifies(t.pending, n + 1, r)
    <3>1. b[r] = a[r]
      BY <1>3, <1>7, <2>2 DEF Modifies
    <3>2. ~Doomed(s)
      <4>1. \A k \in 1..n : k \in 1..(n + 1)
        BY <1>1
      <4> QED
        BY <1>3, <1>9, <4>1 DEF Doomed, n
    <3>3. PICK v \in Editors : r \in Range(s.list[v])
      BY <1>9, <3>1, <3>2 DEF Promises
    <3>4. Due(s, old, 1..n, r, a[r])
      BY <1>9, <3>1, <3>2 DEF Promises, n
    <3>5. r \in Range(t.list[v]) /\ Worth(t, r) = Worth(s, r)
      BY <1>2, <3>3 DEF Steady
    <3>6. \A j \in 1..n : j \in 1..(n + 1) /\ (Modifies(t.pending, j, r) <=> Modifies(old, j, r))
      BY <1>1, <1>3 DEF Modifies
    <3>7. (\A j \in 1..(n + 1) : ~Modifies(t.pending, j, r)) => Worth(t, r) = a[r]
      BY <3>4, <3>5, <3>6 DEF Due
    <3>8. ASSUME NEW m \in 1..(n + 1), Modifies(t.pending, m, r),
                 \A j \in 1..(n + 1) : j > m => ~Modifies(t.pending, j, r)
          PROVE  t.pending[m].value = a[r]
      <4>1. m \in 1..n
        BY <1>8, <2>2, <3>8
      <4>2. Modifies(old, m, r) /\ \A j \in 1..n : j > m => ~Modifies(old, j, r)
        BY <3>6, <3>8, <4>1
      <4> QED
        BY <1>3, <3>4, <4>1, <4>2 DEF Due
    <3> QED
      BY <3>1, <3>5, <3>7, <3>8 DEF Due
  <2> QED
    BY <2>1, <2>2
<1> QED
  BY <1>3, <1>4, <1>6, <1>7, <1>8, <1>9 DEF Promises, b

\* An editor assigns at once to what may not wait: nothing waits for it.
LEMMA EditedPromises ==
  ASSUME OwnedTables, NEW s, Whole(s), ~s.stopped, NEW a, Promises(s, a),
         NEW e \in Editors, NEW r \in Records, r \in Range(s.list[e]), NEW x, ~Later(s, r),
         NEW t, Assigned(s, t, r, x)
  PROVE  Promises(t, [a EXCEPT ![r] = x])
<1> DEFINE b == [a EXCEPT ![r] = x]
<1>1. /\ t.list = s.list /\ t.rec = s.rec /\ t.pending = s.pending /\ Writes(s, t, r, x) /\ Good(s, AddRecs(s))
  BY DEF Assigned, Whole
<1>2. \A k \in 1..Len(s.pending) : s.pending[k].oper = "Modify" => Later(t, s.pending[k].rec)
  BY <1>1 DEF Promises, Later
<1>3. DOMAIN b = Records /\ \A q \in Records : b[q] = IF q = r THEN x ELSE a[q]
  BY DEF Promises
<1> HIDE DEF b
<1>4. ASSUME ~Doomed(s), NEW q \in Records, b[q] # None
      PROVE  /\ \E v \in Editors : q \in Range(s.list[v])
             /\ Due(t, s.pending, 1..Len(s.pending), q, b[q])
  <2>1. CASE q = r
    <3>1. s.rec[r] # Freed
      BY <1>1, EditedApart
    <3>2. Worth(t, r) = x
      BY <1>1, <3>1 DEF Writes
    <3>3. \A k \in 1..Len(s.pending) : ~Modifies(s.pending, k, r)
      BY <1>2, <1>1 DEF Modifies, Later
    <3> QED
      BY <1>3, <2>1, <3>2, <3>3 DEF Due
  <2>2. CASE q # r
    <3>1. PICK v \in Editors : q \in Range(s.list[v])
      BY <1>3, <1>4, <2>2 DEF Promises
    <3>2. Due(s, s.pending, 1..Len(s.pending), q, a[q])
      BY <1>3, <1>4, <2>2 DEF Promises
    <3>3. s.rec[q] # Freed /\ s.rec[q].cell # s.rec[r].cell
      BY <1>1, <2>2, <3>1, EditedApart
    <3>4. Worth(t, q) = Worth(s, q)
      BY <1>1, <3>3 DEF Writes
    <3> QED
      BY <1>3, <2>2, <3>1, <3>2, <3>4 DEF Due
  <2> QED
    BY <2>1, <2>2
<1> QED
  BY <1>1, <1>2, <1>3, <1>4 DEF Promises, Doomed, b

\* An observer writes over what does not wait.
Overwritten(s, r, a) ==
  LET waiting == {s.pending[k].rec : k \in DOMAIN s.pending}
      over == {q \in Records : s.rec[q] # Freed /\ s.rec[q].cell = s.rec[r].cell} \ waiting
  IN [q \in Records |-> IF q \in over THEN None ELSE a[q]]
\* What an observer writes over is asked for no more.
LEMMA WrittenPromises ==
  ASSUME OwnedTables, NEW s, Whole(s), ~s.stopped, NEW a, Promises(s, a), NEW r, NEW x, NEW t, Assigned(s, t, r, x)
  PROVE  Promises(t, Overwritten(s, r, a))
<1> DEFINE b == Overwritten(s, r, a)
<1>1. /\ t.list = s.list /\ t.rec = s.rec /\ t.pending = s.pending /\ Writes(s, t, r, x) /\ Good(s, AddRecs(s))
      /\ AddRecs(s) \in SUBSET Records
  BY DEF Assigned, Whole, AddRecs
<1>2. \A k \in 1..Len(s.pending) : s.pending[k].oper = "Modify" => Later(t, s.pending[k].rec)
  BY <1>1 DEF Promises, Later
<1>3. DOMAIN s.pending = 1..Len(s.pending)
  BY WaitingIs, Ranged
<1>4. /\ DOMAIN b = Records
      /\ \A q \in Records : b[q] # None =>
           /\ b[q] = a[q]
           /\ s.rec[q] # Freed /\ s.rec[q].cell = s.rec[r].cell => \E k \in 1..Len(s.pending) : s.pending[k].rec = q
  BY <1>3 DEF Overwritten
<1> HIDE DEF b
<1>5. ASSUME ~Doomed(s), NEW q \in Records, b[q] # None
      PROVE  /\ \E v \in Editors : q \in Range(s.list[v])
             /\ Due(t, s.pending, 1..Len(s.pending), q, b[q])
  <2>1. PICK v \in Editors : q \in Range(s.list[v])
    BY <1>4, <1>5 DEF Promises
  <2>2. Due(s, s.pending, 1..Len(s.pending), q, a[q]) /\ b[q] = a[q]
    BY <1>4, <1>5 DEF Promises
  <2>3. s.rec[q] # Freed /\ v \in Views
    BY <1>1, <2>1, EditedApart, OwnersAreViews
  <2>4. CASE s.rec[q].cell # s.rec[r].cell
    <3>1. Worth(t, q) = Worth(s, q)
      BY <1>1, <2>3, <2>4 DEF Writes
    <3> QED
      BY <2>1, <2>2, <3>1 DEF Due
  <2>5. CASE s.rec[q].cell = s.rec[r].cell
    <3>1. PICK k \in 1..Len(s.pending) : s.pending[k].rec = q
      BY <1>4, <1>5, <2>3, <2>5
    <3>2. s.pending[k].oper # "Delete"
      BY <1>5 DEF Doomed
    <3>3. s.pending[k].oper # "Add"
      <4>1. s.pending[k].oper = "Add" => q \in AddRecs(s)
        BY <3>1 DEF AddRecs
      <4>2. q \in AddRecs(s) => q \notin Range(s.list[v])
        BY <1>1, <2>3, Unlisted
      <4> QED
        BY <2>1, <4>1, <4>2
    <3>4. Modifies(s.pending, k, q)
      BY <3>1, <3>2, <3>3, WaitingIs DEF Modifies
    <3> QED
      BY <2>1, <2>2, <3>4 DEF Due
  <2> QED
    BY <2>4, <2>5
<1> QED
  BY <1>1, <1>2, <1>4, <1>5 DEF Promises, Doomed, b

\* The invariant: what the store holds, and what it is to hold.
Settled == StoreKept /\ Promised

\* An operation on the store, once it is known to leave what interfaces keep.
LEMMA CallsKeeps ==
  ASSUME OwnedTables, Settled, NEW s, Calls(s), Whole(s), Kept(db, s) \/ ShownKept(db, s), Promises(s, asked')
  PROVE  Settled'
<1>1. db' = s /\ UNCHANGED interfaceVars /\ calls' = calls + 1
  BY DEF Calls, Call
<1>2. ShownKept(db, s)
  BY OwnersAreViews DEF Kept, ShownKept
<1>3. StoreKept'
  BY <1>1, <1>2, CallKeeps DEF Settled
<1>4. calls' \in Nat /\ Promises(db, asked)'
  <2>1. Promises(db, asked)' <=> Promises(s, asked')
    BY <1>1 DEF Promises, Doomed, Later, Due, Worth
  <2> QED
    BY <1>1, <2>1 DEF Settled, Promised
<1> QED
  BY <1>3, <1>4 DEF Settled, Promised

\* One that no owner sees.
LEMMA IdleKeeps ==
  ASSUME OwnedTables, Settled, NEW s, Does(s), Idle(db, s)
  PROVE  Settled'
<1>1. Whole(db) /\ ~db.stopped /\ Promises(db, asked) /\ Calls(s) /\ asked' = asked
  BY DEF Settled, StoreKept, Promised, Does, Calls, Call, Running
<1>2. Promises(s, asked')
  BY <1>1, IdlePromises
<1> QED
  BY <1>1, <1>2, CallsKeeps DEF Idle

\* What a process does with a view that observes a table.
LEMMA ObserverKeeps ==
  ASSUME CarefulClients, Settled, NEW o \in Observers,
         \/ Enable(o, FALSE) \/ Enable(o, TRUE) \/ Join(o) \/ Leave(o) \/ Import(o) \/ ObserveAdded(o)
         \/ \E a, b \in 1..Cardinality(Cells) : Observe(o, a, b)
         \/ \E x \in Values : ObserveMatching(o, {x})
         \/ \E r \in Records : \/ Unselect(o, r) \/ \E x \in Values : Write(o, r, x)
  PROVE  Settled'
<1>1. OwnedTables /\ Whole(db)
  BY DEF CarefulClients, Settled, StoreKept
<1>2. ASSUME NEW wants \in BOOLEAN, Enable(o, wants) PROVE Settled'
  BY <1>1, <1>2, EnableWhole, IdleKeeps DEF Enable
<1>3. ASSUME Join(o) PROVE Settled'
  BY <1>1, <1>3, GroupAddWhole, IdleKeeps DEF Join
<1>4. ASSUME Leave(o) PROVE Settled'
  BY <1>1, <1>4, LeaveWhole, IdleKeeps DEF Leave
<1>5. ASSUME Import(o) PROVE Settled'
  BY <1>1, <1>5, ImportWhole, IdleKeeps DEF Import
<1>6. ASSUME ObserveAdded(o) PROVE Settled'
  BY <1>1, <1>6, DynamicWhole, IdleKeeps DEF ObserveAdded, CarefulClients
<1>7. ASSUME NEW a \in 1..Cardinality(Cells), NEW b \in 1..Cardinality(Cells), Observe(o, a, b) PROVE Settled'
  <2>1. /\ Does(RecordsSelect(db, o, a, b)) /\ a <= b /\ b <= Len(db.rows[Home[o]]) /\ RoomFor(db, b - a + 1)
    BY <1>7 DEF Observe
  <2>2. a \in Nat \ {0} /\ b \in Nat
    OBVIOUS
  <2>3. Idle(db, RecordsSelect(db, o, a, b))
    BY <1>1, <2>1, <2>2, ObserveWhole
  <2> QED
    BY <1>1, <2>1, <2>3, IdleKeeps
<1>8. ASSUME NEW x \in Values, ObserveMatching(o, {x}) PROVE Settled'
  <2>1. /\ Does(RecordsSelectMatching(db, o, {x})) /\ ~OfInterface(Home[o]) /\ RoomFor(db, Len(db.rows[Home[o]]))
    BY <1>8 DEF ObserveMatching, CarefulClients
  <2>2. Idle(db, RecordsSelectMatching(db, o, {x}))
    BY <1>1, <2>1, ObserveMatchingWhole
  <2> QED
    BY <1>1, <2>1, <2>2, IdleKeeps
<1>9. ASSUME NEW r \in Records, Unselect(o, r) PROVE Settled'
  BY <1>1, <1>9, UnselectWhole, IdleKeeps DEF Unselect
<1>10. ASSUME NEW r \in Records, NEW x \in Values, Write(o, r, x) PROVE Settled'
  <2>1. Calls(SetValue(db, r, x)) /\ r \in Range(db.list[o]) /\ ~OfInterface(Home[o]) /\ ~db.stopped
    BY <1>10 DEF Write, CarefulClients, Calls, Call, Running
  <2>2. Whole(SetValue(db, r, x)) /\ Assigned(db, SetValue(db, r, x), r, x)
    BY <1>1, <2>1, WriteWhole
  <2>3. asked' = Overwritten(db, r, asked)
    BY <1>10 DEF Write, Overwritten, ReferringTo
  <2>4. Promises(SetValue(db, r, x), asked')
    <3>1. Promises(db, asked)
      BY DEF Settled, Promised
    <3> QED
      BY <1>1, <2>1, <2>2, <2>3, <3>1, WrittenPromises
  <2>5. ShownKept(db, SetValue(db, r, x))
    BY <2>2 DEF Assigned
  <2> QED
    BY <1>1, <2>1, <2>2, <2>4, <2>5, CallsKeeps
<1> QED
  BY <1>2, <1>3, <1>4, <1>5, <1>6, <1>7, <1>8, <1>9, <1>10

\* What a process does with the view that owns a table.
LEMMA EditorKeeps ==
  ASSUME CarefulClients, Settled, NEW e \in Editors,
         \/ \E auto \in BOOLEAN, x \in Values : EditNew(e, auto, x)
         \/ \E r \in Records : \/ EditAdd(e, r) \/ EditAddLater(e, r) \/ EditDelete(e, r)
                               \/ \E x \in Values : Edit(e, r, x)
  PROVE  Settled'
<1>1. OwnedTables /\ Whole(db) /\ Promises(db, asked) /\ db \in Stores
  BY DEF CarefulClients, Settled, StoreKept, Promised, Whole, Good
<1>2. ASSUME NEW auto \in BOOLEAN, NEW x \in Values, EditNew(e, auto, x) PROVE Settled'
  BY <1>1, <1>2, EditNewWhole, IdleKeeps DEF EditNew
<1>3. ASSUME NEW r \in Records, EditAdd(e, r) PROVE Settled'
  <2> DEFINE s == RecordAdd(db, e, r)
  <2>1. Calls(s) /\ asked' = asked /\ r \in db.new[e] /\ ~db.stopped
    BY <1>3 DEF EditAdd, Does, Calls, Call, Running
  <2>2. Whole(s) /\ ShownKept(db, s) /\ Steady(db, s) /\ s.pending = db.pending
    BY <1>1, <2>1, EditAddWhole
  <2> HIDE DEF s
  <2>3. Promises(s, asked')
    BY <1>1, <2>1, <2>2, SteadyPromises
  <2> QED
    BY <1>1, <2>1, <2>2, <2>3, CallsKeeps
<1>4. ASSUME NEW r \in Records, EditAddLater(e, r) PROVE Settled'
  <2> DEFINE s == TranRecordAdd(db, e, r)
  <2>1. Calls(s) /\ asked' = asked /\ r \in db.new[e] /\ RoomFor(db, 1) /\ ~db.stopped
    BY <1>4 DEF EditAddLater, Does, Calls, Call, Running
  <2>2. /\ Whole(s) /\ Kept(db, s)
        /\ \E q \in Records : s.pending = Append(db.pending, AddTransaction(e, q))
    BY <1>1, <2>1, EditAddLaterWhole
  <2> HIDE DEF s
  <2>3. PICK q \in Records : s.pending = Append(db.pending, AddTransaction(e, q))
    BY <2>2
  <2> DEFINE tran == AddTransaction(e, q)
  <2>4. tran \in Transactions /\ tran.oper = "Add"
    BY <1>1, OwnersAreViews DEF AddTransaction, Transaction, Transactions
  <2>5. Asked(db, s, tran)
    BY <2>2, <2>3 DEF Asked
  <2> HIDE DEF tran
  <2>6. Asks(asked, tran) = asked
    BY <2>4 DEF Asks
  <2>7. Promises(s, asked')
    BY <1>1, <2>1, <2>4, <2>5, <2>6, AskedPromises
  <2> QED
    BY <1>1, <2>1, <2>2, <2>7, CallsKeeps
<1>5. ASSUME NEW r \in Records, EditDelete(e, r) PROVE Settled'
  <2> DEFINE s == TranRecordDelete(db, e, r)
             tran == Transaction("Delete", e, r, None)
  <2>1. Calls(s) /\ asked' = asked /\ r \in Range(db.list[e]) /\ ~db.stopped
    BY <1>5 DEF EditDelete, Does, Calls, Call, Running
  <2>2. /\ Whole(s) /\ Kept(db, s) /\ (Asked(db, s, tran) \/ s.stopped)
    BY <1>1, <2>1, DeleteWhole
  <2>3. tran \in Transactions /\ tran.oper = "Delete"
    BY <1>1, OwnersAreViews DEF Transaction, Transactions
  <2> HIDE DEF s, tran
  <2>4. Asks(asked, tran) = asked
    BY <2>3 DEF Asks
  <2>5. Promises(s, asked')
    <3>1. CASE Asked(db, s, tran)
      BY <1>1, <2>1, <2>3, <2>4, <3>1, AskedPromises
    <3>2. CASE s.stopped
      BY <1>1, <2>1, <3>2 DEF Promises
    <3> QED
      BY <2>2, <3>1, <3>2
  <2> QED
    BY <1>1, <2>1, <2>2, <2>5, CallsKeeps
<1>6. ASSUME NEW r \in Records, NEW x \in Values, Edit(e, r, x) PROVE Settled'
  <2> DEFINE s == SetValue(db, r, x)
             tran == Transaction("Modify", e, r, x)
  <2>1. Calls(s) /\ r \in Range(db.list[e]) /\ asked' = [asked EXCEPT ![r] = x] /\ ~db.stopped
    BY <1>6 DEF Edit, Calls, Call, Running
  <2>2. Whole(s) /\ Edits(db, s, e, r, x)
    BY <1>1, <2>1, EditWhole
  <2>3. tran \in Transactions /\ tran.oper = "Modify" /\ tran.rec = r /\ tran.value = x
    BY <1>1, OwnersAreViews DEF Transaction, Transactions
  <2>4. Asks(asked, tran) = asked'
    BY <2>1, <2>3 DEF Asks
  <2> HIDE DEF s
  <2>5. CASE ~Later(db, r) /\ Assigned(db, s, r, x)
    <3>1. Promises(s, asked') /\ ShownKept(db, s)
      BY <1>1, <2>1, <2>5, EditedPromises DEF Assigned
    <3> QED
      BY <1>1, <2>1, <2>2, <3>1, CallsKeeps
  <2>6. CASE Later(db, r) /\ Asked(db, s, tran)
    <3> HIDE DEF tran
    <3>1. Later(db, tran.rec) /\ \E v \in Editors : tran.rec \in Range(db.list[v])
      BY <2>1, <2>3, <2>6
    <3>2. Promises(s, Asks(asked, tran))
      BY <1>1, <2>1, <2>3, <2>6, <3>1, AskedPromises
    <3>3. Promises(s, asked') /\ Kept(db, s)
      BY <2>4, <2>6, <3>2 DEF Asked
    <3> QED
      BY <1>1, <2>1, <2>2, <3>3, CallsKeeps
  <2>7. CASE s.stopped /\ ShownKept(db, s)
    <3>1. Promises(s, asked')
      BY <1>1, <2>1, <2>7 DEF Promises
    <3> QED
      BY <1>1, <2>1, <2>2, <2>7, <3>1, CallsKeeps
  <2> QED
    BY <2>2, <2>5, <2>6, <2>7 DEF Edits
<1> QED
  BY <1>2, <1>3, <1>4, <1>5, <1>6

\* Nothing waits and nothing is asked for.
LEMMA NothingAsked ==
  ASSUME NEW s, s.pending = << >>, NEW a, a = [r \in Records |-> None]
  PROVE  Promises(s, a)
BY DEF Promises

\* Steps of the scheduler, and of the interfaces.
LEMMA OtherKeeps ==
  ASSUME CarefulClients, Settled,
         \/ UNCHANGED vars
         \/ \E order \in Orders, bit \in [Interfaces -> Values] : EndDelta(order, bit)
         \/ \E i \in Interfaces : GetCommittedValue(i) \/ \E n : HistoryDepth(i, n)
  PROVE  Settled'
<1>1. OwnedTables /\ StoreKept /\ Promised /\ calls \in Nat
  BY DEF CarefulClients, Settled, Promised
<1>2. ASSUME db' = db, asked' = asked, calls' \in Nat PROVE Promised'
  BY <1>1, <1>2 DEF Promised, Promises, Doomed, Later, Due, Worth
<1>3. CASE UNCHANGED vars
  <2>1. UNCHANGED interfaceVars /\ db' = db /\ asked' = asked /\ calls' = calls /\ Whole(db')
    BY <1>1, <1>3 DEF vars, interfaceVars, StoreKept
  <2>2. ShownKept(db, db')
    BY <2>1 DEF ShownKept
  <2>3. StoreKept'
    BY <1>1, <2>1, <2>2, CallKeeps
  <2> QED
    BY <1>1, <1>2, <2>1, <2>3 DEF Settled
<1>4. ASSUME NEW order \in Orders, NEW bit \in [Interfaces -> Values], EndDelta(order, bit) PROVE Settled'
  <2>1. StoreKept'
    BY <1>1, <1>4, DeltaKeeps
  <2>2. db'.pending = << >>
    BY <1>1, <1>4, DeltaIs DEF DeltaEnds
  <2>3. asked' = [r \in Records |-> None] /\ calls' = calls
    BY <1>4 DEF EndDelta
  <2>4. Promises(db, asked)'
    <3>1. Promises(db', asked')
      BY <2>2, <2>3, NothingAsked
    <3> QED
      BY <3>1 DEF Promises, Doomed, Later, Due, Worth
  <2> QED
    BY <1>1, <2>1, <2>3, <2>4 DEF Settled, Promised
<1>5. ASSUME NEW i \in Interfaces, NEW n, HistoryDepth(i, n) PROVE Settled'
  <2>1. db' = db /\ asked' = asked /\ calls' = calls + 1
    BY <1>5 DEF HistoryDepth, Call
  <2>2. StoreKept'
    BY <1>1, <1>5, DepthKeeps
  <2> QED
    BY <1>1, <1>2, <2>1, <2>2 DEF Settled
<1>6. ASSUME NEW i \in Interfaces, GetCommittedValue(i) PROVE Settled'
  <2>1. db' = db /\ asked' = asked /\ calls' = calls
    BY <1>6 DEF GetCommittedValue
  <2>2. StoreKept'
    BY <1>1, <1>6, ReadKeeps
  <2> QED
    BY <1>1, <1>2, <2>1, <2>2 DEF Settled
<1> QED
  BY <1>3, <1>4, <1>5, <1>6

\* Every step keeps the invariant.
LEMMA StepKeeps ==
  ASSUME CarefulClients, Settled, [Next]_vars
  PROVE  Settled'
<1>1. CASE UNCHANGED vars
  BY <1>1, OtherKeeps
<1>2. ASSUME NEW order \in Orders, NEW bit \in [Interfaces -> Values], EndDelta(order, bit) PROVE Settled'
  BY <1>2, OtherKeeps
<1>3. ASSUME NEW i \in Interfaces, NEW n, HistoryDepth(i, n) PROVE Settled'
  BY <1>3, OtherKeeps
<1>4. ASSUME NEW i \in Interfaces, GetCommittedValue(i) PROVE Settled'
  BY <1>4, OtherKeeps
<1> QED
  BY <1>1, <1>2, <1>3, <1>4, ObserverKeeps, EditorKeeps DEF Next

\* Under these clients the store stays whole, each view of an interface keeps what
\* was committed, and what editors have asked for waits or has its effect already.
THEOREM StoreStaysWhole == ASSUME CarefulClients PROVE Spec => []Settled
<1>1. Init => Settled
  <2> SUFFICES ASSUME Init PROVE Settled
    OBVIOUS
  <2>1. StoreKept
    BY StoreKeptHolds
  <2>2. db.pending = << >>
    BY OpenedWhole DEF Init, CarefulClients
  <2>3. Promised
    BY <2>2, NothingAsked DEF Init, Promised
  <2> QED
    BY <2>1, <2>3 DEF Settled
<1>2. Settled /\ [Next]_vars => Settled'
  BY StepKeeps
<1> QED
  BY <1>1, <1>2, PTL DEF Spec

-----------------------------------------------------------------------------
(* What follows at every moment.                                           *)

\* Types.
LEMMA WholeHasTypes ==
  ASSUME OwnedTables, StoreKept
  PROVE  StoreTypeOK
<1>1. db \in Stores
  BY DEF StoreKept, Whole, Good
<1>2. \A v \in Views : db.list[v] \in Seq(Records) /\ db.new[v] \subseteq Records
  <2>1. db.list \in [Views -> Seq(Records)] /\ db.new \in [Views -> SUBSET Records]
    BY <1>1, StoreTyped
  <2> QED
    BY <2>1
<1>3. /\ db.cell \in [Cells -> {Freed} \cup CellStates] /\ db.rec \in [Records -> {Freed} \cup RecordStates]
      /\ db.stopped \in BOOLEAN
  BY <1>1, StoreTyped
<1> QED
  BY <1>2, <1>3 DEF StoreTypeOK, StoreKept, ClientsTyped

\* What is listed is a row.
LEMMA WholeWithinTable ==
  ASSUME OwnedTables, StoreKept
  PROVE  ViewsWithinTable
<1> SUFFICES ASSUME NEW v \in Views
             PROVE  /\ IsInjective(db.rows[Home[v]])
                    /\ \A r \in Range(db.list[v]) : db.rec[r].cell \in Range(db.rows[Home[v]])
  BY DEF ViewsWithinTable
<1>1. db \in Stores /\ Home[v] \in Tables /\ Good(db, AddRecs(db))
  BY OwnersAreViews DEF StoreKept, Whole, Good
<1>2. IsInjective(db.rows[Home[v]])
  BY <1>1 DEF Good, RowsApart
<1>3. ASSUME NEW r \in Range(db.list[v]) PROVE db.rec[r].cell \in Range(db.rows[Home[v]])
  <2>1. r \in Records
    BY <1>1, StoreTyped, Ranged
  <2> QED
    BY <1>1, <2>1, Listed
<1> QED
  BY <1>2, <1>3

\* No Record is listed twice.
LEMMA WholeApart ==
  ASSUME OwnedTables, StoreKept
  PROVE  OwnedByOneView
<1> SUFFICES ASSUME NEW v \in Views, NEW w \in Views
             PROVE  /\ IsInjective(db.list[v])
                    /\ v # w => Range(db.list[v]) \cap Range(db.list[w]) = {}
  BY DEF OwnedByOneView
<1>1. db \in Stores /\ Good(db, AddRecs(db)) /\ db.list \in [Views -> Seq(Records)]
  BY StoreTyped DEF StoreKept, Whole, Good
<1>2. IsInjective(db.list[v])
  BY <1>1 DEF Good, Sound, Placed
<1>3. Range(db.list[v]) \subseteq Records
  BY <1>1, Ranged
<1>4. ASSUME NEW r \in Range(db.list[v]), v # w PROVE r \notin Range(db.list[w])
  BY <1>1, <1>3, <1>4, Listed
<1> QED
  BY <1>2, <1>4

\* What is referred to exists, and rows count enough.
LEMMA WholeHolds ==
  ASSUME OwnedTables, StoreKept
  PROVE  ReferencesHeld
<1>1. db \in Stores /\ Good(db, AddRecs(db)) /\ PendingSound(db)
  BY DEF StoreKept, Whole, Good
<1>2. ASSUME NEW r \in InUse PROVE db.rec[r] # Freed /\ db.cell[db.rec[r].cell] # Freed
  <2>1. ASSUME NEW v \in Views, r \in Range(db.list[v]) PROVE db.rec[r] # Freed /\ db.cell[db.rec[r].cell] # Freed
    <3>1. r \in Records
      BY <1>1, <2>1, StoreTyped, Ranged
    <3> QED
      BY <1>1, <2>1, <3>1, Listed
  <2>2. ASSUME NEW v \in Views, r \in db.new[v] PROVE db.rec[r] # Freed /\ db.cell[db.rec[r].cell] # Freed
    <3>1. r \in Records /\ AddRecs(db) \in SUBSET Records
      BY <1>1, <2>2, StoreTyped DEF AddRecs
    <3>2. db.rec[r] # Freed /\ db.cell[db.rec[r].cell] \in CellStates
      BY <1>1, <2>2, <3>1, Unlisted
    <3> QED
      BY <3>2, StoreAssumption
  <2>3. ASSUME NEW k \in DOMAIN db.pending, r = db.pending[k].rec
        PROVE  db.rec[r] # Freed /\ db.cell[db.rec[r].cell] # Freed
    <3>1. /\ k \in 1..Len(db.pending) /\ db.pending[k] \in Transactions
      BY <1>1, StoreTyped, Ranged
    <3>2. r \in Records /\ db.pending[k].view \in Views
      BY <2>3, <3>1 DEF Transactions
    <3>3. CASE db.pending[k].oper = "Add"
      <4>1. r \in AddRecs(db) /\ AddRecs(db) \in SUBSET Records
        BY <2>3, <3>1, <3>2, <3>3 DEF AddRecs
      <4>2. db.rec[r] # Freed /\ db.cell[db.rec[r].cell] \in CellStates
        BY <1>1, <3>2, <4>1, Unlisted
      <4> QED
        BY <4>2, StoreAssumption
    <3>4. CASE db.pending[k].oper # "Add"
      <4>1. r \in Range(db.list[db.pending[k].view])
        BY <1>1, <2>3, <3>1, <3>4 DEF PendingSound
      <4> QED
        BY <2>1, <3>2, <4>1
    <3> QED
      BY <3>3, <3>4
  <2>4. ASSUME NEW t \in Tables, NEW sel \in Range(db.selected[t]), r \in Range(sel.recs)
        PROVE  db.rec[r] # Freed /\ db.cell[db.rec[r].cell] # Freed
    <3>1. db.selected[t] \in Seq(Selections)
      BY <1>1, StoreTyped
    <3>2. PICK i \in 1..Len(db.selected[t]) : db.selected[t][i] = sel
      BY <3>1, Ranged
    <3>3. sel \in Selections /\ r \in Records
      <4>1. sel \in Selections
        BY <3>1, Ranged
      <4>2. sel.recs \in Seq(Records)
        BY <4>1 DEF Selections
      <4> QED
        BY <2>4, <4>1, <4>2, Ranged
    <3>4. PICK kind \in [Records -> Kinds], of \in [Records -> Views \cup {None}] : Sound(db, AddRecs(db), kind, of)
      BY <1>1 DEF Good
    <3>5. kind[r] = "selected" /\ db.rec[r] # Freed
      BY <2>4, <3>2, <3>3, <3>4 DEF Sound, Placed, SelectionSound
    <3> QED
      BY <3>3, <3>4, <3>5 DEF Sound, Refers, RecordSound
  <2> HIDE DEF ReferencesHeld
  <2>5. \/ \E v \in Views : r \in Range(db.list[v]) \/ r \in db.new[v]
        \/ \E k \in DOMAIN db.pending : r = db.pending[k].rec
        \/ \E t \in Tables : \E sel \in Range(db.selected[t]) : r \in Range(sel.recs)
    BY DEF InUse
  <2> QED
    BY <2>1, <2>2, <2>3, <2>4, <2>5
<1>3. ASSUME NEW i \in Interfaces, NEW c \in Cells, c \in Range(db.rows[Home[i]])
      PROVE  db.cell[c].count >= Cardinality(ReferringTo(c))
  <2>1. ReferringTo(c) = Refs(db, c)
    BY DEF ReferringTo, Refs
  <2>2. IsFiniteSet(Refs(db, c)) /\ IsFiniteSet(Refs(db, c) \cap Observed(db))
    <3>1. Refs(db, c) \subseteq Records /\ Refs(db, c) \cap Observed(db) \subseteq Records
      BY DEF Refs
    <3> QED
      BY <3>1, FS_Subset DEF OwnedTables
  <2>3. Cardinality(Refs(db, c)) \in Nat /\ Cardinality(Refs(db, c) \cap Observed(db)) \in Nat
    BY <2>2, FS_CardinalityType
  <2>4. db.cell[c].count >= Cardinality(Refs(db, c)) + Cardinality(Refs(db, c) \cap Observed(db))
    BY <1>1, <1>3 DEF Good, Counted
  <2>5. db.cell[c].count \in Nat
    <3>1. Home[i] \in Tables
      BY OwnersAreViews
    <3>2. db.cell[c] # Freed
      BY <1>1, <1>3, <3>1 DEF Good, RowsApart
    <3> QED
      BY <1>1, <3>2, CellTyped
  <2> QED
    BY <2>1, <2>3, <2>4, <2>5
<1> QED
  BY <1>2, <1>3 DEF ReferencesHeld

\* The history of interfaces.
LEMMA WholeReadable ==
  ASSUME OwnedTables, StoreKept
  PROVE  HistoryReadable
<1>1. ReadsWhileFilling
  BY DEF StoreKept, Keeps, ReadsWhileFilling
<1>2. ASSUME NEW i \in Interfaces
      PROVE  [k \in 1..Len(db.list[i]) |-> ValueAt(i, ((at[i] + k - 1) % Len(db.list[i])) + 1)] = past[i]
  <2> DEFINE n == Len(db.list[i])
             e == Shown(db, i)
             at0 == at[i]
             p == past[i]
  <2>1. Keeps(i) /\ Len(e) = n /\ n \in Nat
    BY ShownIs DEF StoreKept, Whole
  <2>2. p \in Seq(Values) /\ Len(p) = n /\ \A k \in 1..n : e[Around(n, at0, k)] = p[k]
    BY <2>1 DEF Keeps, Ring
  <2>3. Places(n, depth[i], count[i], at0)
    BY <2>1 DEF Keeps, PlacesOf
  <2>4. ASSUME NEW k \in 1..n PROVE ValueAt(i, ((at0 + k - 1) % n) + 1) = p[k]
    <3>1. n \in Nat \ {0} /\ at0 \in 1..n
      BY <2>1, <2>3 DEF Places
    <3>2. Around(n, at0, k) \in 1..n
      <4>1. Around(n, at0, k) = IF at0 + k <= n THEN at0 + k ELSE at0 + k - n
        BY <3>1, AroundIs
      <4> HIDE DEF n, at0
      <4> QED
        BY <3>1, <4>1
    <3> DEFINE place == Around(n, at0, k)
    <3>3. e[place] = db.cell[db.rec[db.list[i][place]].cell].value
      BY <3>2 DEF Shown
    <3>4. ValueAt(i, place) = e[place]
      BY <3>3 DEF ValueAt
    <3>5. place = ((at0 + k - 1) % n) + 1
      BY DEF Around
    <3> HIDE DEF place, n, e, at0, p
    <3> QED
      BY <2>2, <3>4, <3>5 DEF place
  <2>5. p = [k \in 1..n |-> p[k]]
    BY <2>1, <2>2
  <2> HIDE DEF n, e, at0, p
  <2>6. [k \in 1..n |-> ValueAt(i, ((at0 + k - 1) % n) + 1)] = p
    BY <2>4, <2>5
  <2> QED
    BY <2>6 DEF n, at0, p
<1>3. HistoryKept
  BY <1>2 DEF HistoryKept
<1> QED
  BY <1>1, <1>3 DEF HistoryReadable

\* Everything in the store has its type, and what a view lists is a row of its
\* table, each row there once (TableRecord.h, Record.h, View.h).
THEOREM TablesAndViewsAgree == ASSUME CarefulClients PROVE Spec => []StoreConsistent
<1>1. StoreKept => StoreConsistent
  BY WholeHasTypes, WholeWithinTable DEF CarefulClients, StoreConsistent
<1> QED
  BY <1>1, StoreStaysWhole, PTL DEF Settled

\* No Record is listed twice, by one view or by two, so that no two views delete
\* it (View::~View).
THEOREM RecordsHaveOneView == ASSUME CarefulClients PROVE Spec => []OwnedByOneView
<1>1. StoreKept => OwnedByOneView
  BY WholeApart DEF CarefulClients
<1> QED
  BY <1>1, StoreStaysWhole, PTL DEF Settled

\* What is listed, selected or asked for exists, and a row of an interface counts
\* as many references as there are Records of it at least (Record::~Record).
THEOREM ReferencesStayHeld == ASSUME CarefulClients PROVE Spec => []ReferencesHeld
<1>1. StoreKept => ReferencesHeld
  BY WholeHolds DEF CarefulClients
<1> QED
  BY <1>1, StoreStaysWhole, PTL DEF Settled

\* An interface keeps the values committed last, from its iterator on, and while
\* no record had to be written over GetCommittedValue returns the last of them
\* (Interface::Commit).
THEOREM LastValuesAreKept == ASSUME CarefulClients PROVE Spec => []HistoryReadable
<1>1. StoreKept => HistoryReadable
  BY WholeReadable DEF CarefulClients
<1> QED
  BY <1>1, StoreStaysWhole, PTL DEF Settled

\* The changes that editors have asked for in a delta cycle are the values of their
\* records at its end, if no interface adds a record then (Database::CommitAll).
LEMMA DeltaCarriesOut ==
  ASSUME CarefulClients, Settled, NEW order \in Orders, NEW bit \in [Interfaces -> Values], EndDelta(order, bit),
         Running', \A i \in Interfaces : count'[i] # count[i] => ~Filling(i), NEW r \in Records, asked[r] # None
  PROVE  db'.cell[db.rec[r].cell].value = asked[r]
<1> DEFINE q == db.pending
           n == Len(q)
           x == Worth(db', r)
           M == {j \in 1..n : Modifies(q, j, r)}
<1>1. OwnedTables /\ StoreKept /\ Promises(db, asked) /\ Running /\ n \in Nat
  BY WaitingIs DEF CarefulClients, Settled, Promised, EndDelta, StoreKept
<1>2. DeltaEnds(db, db', order, bit) /\ Range(order) \subseteq Interfaces
  BY <1>1, DeltaIs
<1>3. \A i \in Range(order) : ~Filling(i)
  <2> SUFFICES ASSUME NEW i \in Range(order) PROVE ~Filling(i)
    OBVIOUS
  <2>1. i \in Interfaces
    BY <1>2
  <2>2. count[i] \in 0..MaxCommits /\ MaxCommits \in Nat
    BY <1>1, <2>1, HistoryAssumption DEF StoreKept, ClientsTyped
  <2>3. count'[i] = count[i] + 1
    BY <2>1 DEF EndDelta
  <2> QED
    BY <2>1, <2>2, <2>3
<1>4. AllCarriedOut(db, db') /\ ~db'.stopped
  BY <1>2, <1>3 DEF DeltaEnds, Running
<1>5. ~Doomed(db)
  BY <1>4 DEF AllCarriedOut, Doomed
<1>6. (\E v \in Editors : r \in Range(db.list[v])) /\ Due(db, q, 1..n, r, asked[r])
  BY <1>1, <1>5 DEF Promises, Running
<1>7. db'.rec[r].cell = db.rec[r].cell /\ Due(db, q, 1..n, r, x)
  BY <1>4, <1>6 DEF AllCarriedOut
<1> HIDE DEF n, q, x
<1>8. x = asked[r]
  <2>1. CASE M = {}
    BY <1>6, <1>7, <2>1 DEF Due
  <2>2. CASE M # {}
    <3>1. Max(M) \in M /\ \A y \in M : Max(M) >= y
      BY <1>1, <2>2, MaxOfPlaces
    <3> DEFINE m == Max(M)
    <3> HIDE DEF m
    <3>2. m \in 1..n /\ Modifies(q, m, r) /\ \A j \in 1..n : j > m => ~Modifies(q, j, r)
      BY <1>1, <3>1 DEF m
    <3> QED
      BY <1>6, <1>7, <3>2 DEF Due
  <2> QED
    BY <2>1, <2>2
<1> QED
  BY <1>7, <1>8 DEF x, Worth

\* Only the end of a delta cycle leaves nothing asked for at no one's call.
LEMMA StepCarriesOut ==
  ASSUME CarefulClients, Settled, [Next]_vars, Running', calls' = calls, asked' = [r \in Records |-> None],
         \A i \in Interfaces : count'[i] # count[i] => ~Filling(i), NEW r \in Records, asked[r] # None
  PROVE  db'.cell[db.rec[r].cell].value = asked[r]
<1>1. calls \in Nat /\ calls' # calls + 1 /\ asked'[r] = None
  BY DEF Settled, Promised
<1>2. asked' # asked
  BY <1>1
<1>3. ASSUME NEW s PROVE ~Calls(s) /\ ~Does(s)
  BY <1>1 DEF Does, Calls, Call
<1>4. ~UNCHANGED vars
  BY <1>2 DEF vars
<1>5. \A i \in Interfaces : ~GetCommittedValue(i)
  BY <1>2 DEF GetCommittedValue
<1>6. \A i \in Interfaces, n \in Depths \cup LateDepths : ~HistoryDepth(i, n)
  BY <1>1 DEF HistoryDepth, Call
<1>7. ASSUME NEW o \in Observers
      PROVE  /\ ~Enable(o, FALSE) /\ ~Enable(o, TRUE) /\ ~Join(o) /\ ~Leave(o) /\ ~Import(o) /\ ~ObserveAdded(o)
             /\ \A a, b \in 1..Cardinality(Cells) : ~Observe(o, a, b)
             /\ \A x \in Values : ~ObserveMatching(o, {x})
             /\ \A p \in Records : ~Unselect(o, p) /\ \A x \in Values : ~Write(o, p, x)
  BY <1>3 DEF Enable, Join, Leave, Import, ObserveAdded, Observe, ObserveMatching, Unselect, Write
<1>8. ASSUME NEW e \in Editors
      PROVE  /\ \A auto \in BOOLEAN, x \in Values : ~EditNew(e, auto, x)
             /\ \A p \in Records : /\ ~EditAdd(e, p) /\ ~EditAddLater(e, p) /\ ~EditDelete(e, p)
                                   /\ \A x \in Values : ~Edit(e, p, x)
  BY <1>3 DEF EditNew, EditAdd, EditAddLater, EditDelete, Edit
<1>9. PICK order \in Orders, bit \in [Interfaces -> Values] : EndDelta(order, bit)
  BY <1>4, <1>5, <1>6, <1>7, <1>8 DEF Next
<1> QED
  BY <1>9, DeltaCarriesOut

\* Each assignment of an editor to its record takes effect by the end of the delta
\* cycle: the last one to a record prevails (Record::SetValue, Database::CommitAll).
THEOREM EditsAreCarriedOut == ASSUME CarefulClients PROVE Spec => EditsTakeEffect
<1>1. Settled /\ [Next]_vars =>
        [/\ Running' /\ calls' = calls /\ asked' = [r \in Records |-> None]
         /\ \A i \in Interfaces : count'[i] # count[i] => ~Filling(i)
         => \A r \in Records : asked[r] # None => db'.cell[db.rec[r].cell].value = asked[r]]_vars
  BY StepCarriesOut
<1> QED
  BY <1>1, StoreStaysWhole, PTL DEF Spec, EditsTakeEffect
=============================================================================
