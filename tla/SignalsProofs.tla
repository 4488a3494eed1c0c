---------------------------- MODULE SignalsProofs ----------------------------
(***************************************************************************)
(* What is assigned is delivered, in designs with any interfaces, groups,  *)
(* clocks and processes, of the kinds named in Signals.tla.                *)
(*                                                                         *)
(* The argument has three parts.  What the constructor has built, and its  *)
(* order, is summed up in Built: connections go both ways, an input is at  *)
(* one end of each, and among peers an input has one driver and does not   *)
(* propagate.  What propagation does, and its order, is summed up in       *)
(* SentBy: the signals reached have the value of one that reaches them, no *)
(* others change, and asynchronous processes are told.  From the two it    *)
(* follows that the only inputs that differ from their driver are those of *)
(* the processes that have run and are still to propagate (Undelivered).   *)
(***************************************************************************)
EXTENDS Signals, DataLemmas, TLAPS

-----------------------------------------------------------------------------
(* Propagation.                                                            *)

SigRec == [type : Types, bit : Values, modified : BOOLEAN, strapped : BOOLEAN, propagates : BOOLEAN,
           connected : Seq(Signal)]
Sigs == [Signal -> SigRec]
States == [signals : Sigs, notified : SUBSET Interfaces]

Given(x, b) == [x EXCEPT !.bit = b, !.modified = TRUE]
Noticed(st, t) == t[1] \in Asynchronous /\ HasSensitiveProcess(st.signals, t) => t[1] \in st.notified
Reached(sig, s) == IF sig[s].propagates /\ sig[s].modified THEN ToSet(sig[s].connected) ELSE {}

\* What becomes of the signals when those in S have propagated, each before what is
\* connected to it: a signal they reach has the value of one of them.
SentBy(st, after, S) ==
  /\ after \in States /\ st.notified \subseteq after.notified
  /\ \A t \in Signal :
       \/ after.signals[t] = st.signals[t] /\ \A s \in S : t \notin Reached(st.signals, s)
       \/ /\ Noticed(after, t)
          /\ \E s \in S : /\ t \in Reached(st.signals, s)
                          /\ after.signals[t] = Given(st.signals[t], st.signals[s].bit)

\* No interface is connected with itself.
Apart(sig) == \A s \in Signal : \A t \in ToSet(sig[s].connected) : t \in Signal /\ t[1] # s[1]

\* A signal that is given a value keeps its description and connections.
LEMMA GivenIs ==
  ASSUME NEW x \in SigRec, NEW b \in Values
  PROVE  /\ Given(x, b) \in SigRec
         /\ Given(x, b).bit = b /\ Given(x, b).modified
         /\ Given(x, b).type = x.type /\ Given(x, b).strapped = x.strapped
         /\ Given(x, b).propagates = x.propagates /\ Given(x, b).connected = x.connected
BY DEF Given, SigRec

\* Of two values given the last one stays.
LEMMA GivenTwice ==
  ASSUME NEW x \in SigRec, NEW b \in Values, NEW c \in Values
  PROVE  Given(Given(x, b), c) = Given(x, c)
BY DEF Given, SigRec

\* The types of the fields of a signal.
LEMMA SigFields ==
  ASSUME NEW x \in SigRec
  PROVE  /\ x.type \in Types /\ x.bit \in Values /\ x.modified \in BOOLEAN /\ x.strapped \in BOOLEAN
         /\ x.propagates \in BOOLEAN /\ x.connected \in Seq(Signal)
BY DEF SigRec

\* A signal is an interface and a position in it.
LEMMA SignalIs ==
  ASSUME NEW s \in Signal
  PROVE  s[1] \in Interfaces /\ s[2] \in Positions(s[1]) /\ s = <<s[1], s[2]>>
BY DEF Signal

\* The positions of an interface count from 1, and each is a signal.
LEMMA PositionsAre ==
  ASSUME NEW i \in Interfaces
  PROVE  /\ Len(Description[i]) \in 0..10 /\ Positions(i) = 1..Len(Description[i])
         /\ \A k \in Positions(i) : <<i, k>> \in Signal /\ Description[i][k] \in Fields
<1>1. Description[i] \in Seq(Fields)
  BY SignalsAssumption
<1> DEFINE n == Len(Description[i])
<1>0. n <= 10
  BY SignalsAssumption
<1>2. n \in Nat /\ DOMAIN Description[i] = 1..n
  BY <1>1
<1>3. \A k \in 1..Len(Description[i]) : Description[i][k] \in Fields
  BY <1>1
<1>4. Positions(i) = 1..n /\ n \in 0..10
  <2>1. Positions(i) = 1..n
    BY <1>2 DEF Positions
  <2> HIDE DEF n
  <2>2. n \in 0..10
    BY <1>0, <1>2
  <2> QED
    BY <2>1, <2>2
<1>5. \A k \in Positions(i) : <<i, k>> \in Signal
  BY <1>4 DEF Signal
<1> QED
  BY <1>3, <1>4, <1>5

\* A process that was told of a signal stays told while the signal is the same.
LEMMA NoticedDepends ==
  ASSUME NEW st, NEW after, NEW t, after.signals[t] = st.signals[t],
         st.notified \subseteq after.notified, Noticed(st, t)
  PROVE  Noticed(after, t)
BY DEF Noticed, HasSensitiveProcess, IsSensitive

\* One delivery gives the value to the receiver and tells its process.
LEMMA DeliverIs ==
  ASSUME NEW st \in States, NEW s \in Signal, NEW to \in Signal
  PROVE  LET d == Deliver(st, s, to)
         IN /\ d \in States
            /\ d.signals = [st.signals EXCEPT ![to] = Given(st.signals[to], st.signals[s].bit)]
            /\ st.notified \subseteq d.notified
            /\ Noticed(d, to)
<1> DEFINE d == Deliver(st, s, to)
           copied == UpdateFrom(st.signals, to, s)
<1>1. st.signals \in Sigs /\ st.notified \subseteq Interfaces /\ to[1] \in Interfaces
  BY SignalIs DEF States
<1>2. copied = [st.signals EXCEPT ![to] = Given(st.signals[to], st.signals[s].bit)]
  BY <1>1 DEF UpdateFrom, Given, Sigs
<1>3. copied \in Sigs
  <2>1. st.signals[to] \in SigRec /\ st.signals[s] \in SigRec /\ st.signals[s].bit \in Values
    BY <1>1, SigFields DEF Sigs
  <2>2. Given(st.signals[to], st.signals[s].bit) \in SigRec
    BY <2>1, GivenIs
  <2> QED
    BY <1>1, <1>2, <2>2 DEF Sigs
<1>4. /\ d.signals = copied
      /\ d.notified = IF HasSensitiveProcess(copied, to) /\ to[1] \in Asynchronous
                      THEN st.notified \cup {to[1]} ELSE st.notified
      /\ d = [signals |-> d.signals, notified |-> d.notified]
  BY DEF Deliver
<1> HIDE DEF d, copied
<1>5. d \in States
  BY <1>1, <1>3, <1>4 DEF States
<1>6. Noticed(d, to)
  BY <1>4 DEF Noticed
<1> QED
  BY <1>2, <1>4, <1>5, <1>6 DEF d

\* The deliveries to what is connected to a signal, one after the other.
LEMMA DeliveriesAre ==
  ASSUME NEW st \in States, NEW s \in Signal
  PROVE  LET to == st.signals[s].connected
         IN \E f \in [0..Len(to) -> States] :
              /\ f[0] = st
              /\ \A k \in 1..Len(to) : f[k] = Deliver(f[k - 1], s, to[k])
              /\ FoldLeft(LAMBDA so_far, t : Deliver(so_far, s, t), st, to) = f[Len(to)]
<1> DEFINE to == st.signals[s].connected
           n == Len(to)
           G == [k \in 1..n |-> [x \in States |-> Deliver(x, s, to[k])]]
           Value(h, S) == IF S = {} THEN st ELSE Deliver(h[S \ {Max(S)}], s, to[Max(S)])
           fold == CHOOSE h : h = [S \in SUBSET (DOMAIN to) |-> Value(h, S)]
<1>1. to \in Seq(Signal) /\ n \in Nat /\ DOMAIN to = 1..n /\ \A k \in 1..n : to[k] \in Signal
  <2>1. st.signals[s] \in SigRec
    BY DEF States, Sigs
  <2>2. to \in Seq(Signal)
    BY <2>1, SigFields
  <2> HIDE DEF to
  <2> QED
    BY <2>2
<1>2. FoldLeft(LAMBDA so_far, t : Deliver(so_far, s, t), st, to) = fold[DOMAIN to]
  BY DEF FoldLeft, MapThenFoldSet
<1> HIDE DEF to, n
<1>3. G \in [1..n -> [States -> States]]
  <2>1. \A k \in 1..n, x \in States : Deliver(x, s, to[k]) \in States
    BY <1>1, DeliverIs
  <2> QED
    BY <2>1
<1>4. PICK h \in [SUBSET (1..n) -> States] :
        \A S \in SUBSET (1..n) : h[S] = IF S = {} THEN st ELSE G[Max(S)][h[S \ {Max(S)}]]
  <2> HIDE DEF G
  <2>1. \E h : FoldsFrom(h, n, States, st, G)
    BY <1>1, <1>3, FoldExists
  <2> QED
    BY <2>1 DEF FoldsFrom
<1>5. \A S \in SUBSET (1..n) : h[S] = Value(h, S)
  <2> SUFFICES ASSUME NEW S \in SUBSET (1..n), S # {}
               PROVE  h[S] = Deliver(h[S \ {Max(S)}], s, to[Max(S)])
    BY <1>4
  <2>1. Max(S) \in 1..n /\ S \ {Max(S)} \in SUBSET (1..n)
    BY <1>1, MaxOfPlaces
  <2> QED
    BY <1>4, <2>1
<1>6. fold = [S \in SUBSET (1..n) |-> Value(fold, S)]
  <2> HIDE DEF Value
  <2>1. h = [S \in SUBSET (DOMAIN to) |-> Value(h, S)]
    BY <1>1, <1>4, <1>5
  <2> QED
    BY <1>1, <2>1
<1> HIDE DEF fold
<1>7. fold[{}] = st
  BY <1>6
<1>8. ASSUME NEW k \in 1..n, fold[1..(k - 1)] \in States
      PROVE  fold[1..k] = G[k][fold[1..(k - 1)]]
  <2>1. 1..k # {} /\ Max(1..k) = k /\ (1..k) \ {k} = 1..(k - 1) /\ 1..k \in SUBSET (1..n)
    BY <1>1, MaxOfInterval
  <2>2. fold[1..k] = Deliver(fold[1..(k - 1)], s, to[k])
    BY <1>6, <2>1
  <2> QED
    BY <1>8, <2>2
<1>9. \E f : FoldsUpTo(f, n, States, st, G, fold[1..n])
  <2>1. n \in Nat
    BY <1>1
  <2> HIDE DEF G
  <2>2. IsFold(fold, n, States, st, G)
    BY <1>7, <1>8 DEF IsFold
  <2> QED
    BY <1>3, <2>1, <2>2, FoldPrefixes
<1>10. PICK f \in [0..n -> States] : /\ f[0] = st /\ f[n] = fold[1..n]
                                     /\ \A k \in 1..n : f[k] = G[k][f[k - 1]]
  BY <1>9 DEF FoldsUpTo
<1>11. \A k \in 1..n : f[k] = Deliver(f[k - 1], s, to[k])
  <2> SUFFICES ASSUME NEW k \in 1..n PROVE f[k] = Deliver(f[k - 1], s, to[k])
    OBVIOUS
  <2>1. k - 1 \in 0..n
    BY <1>1
  <2>2. f[k - 1] \in States
    BY <2>1
  <2> QED
    BY <1>10, <2>2
<1> QED
  BY <1>1, <1>2, <1>10, <1>11 DEF to, n

\* What a signal reaches are signals it is connected to.
LEMMA ReachedTyped ==
  ASSUME NEW sig \in Sigs, NEW s \in Signal
  PROVE  /\ sig[s] \in SigRec /\ sig[s].connected \in Seq(Signal)
         /\ ToSet(sig[s].connected) \subseteq Signal /\ Reached(sig, s) \subseteq ToSet(sig[s].connected)
<1>1. sig[s] \in SigRec
  BY DEF Sigs
<1>2. sig[s].connected \in Seq(Signal)
  BY <1>1, SigFields
<1> DEFINE c == sig[s].connected
<1>3. ToSet(c) \subseteq Signal
  <2> HIDE DEF c
  <2>1. c \in Seq(Signal)
    BY <1>2 DEF c
  <2> QED
    BY <2>1 DEF ToSet
<1> QED
  BY <1>1, <1>2, <1>3 DEF Reached

\* A signal that propagates gives its value to each of those connected to it.
LEMMA SentToAll ==
  ASSUME NEW st \in States, NEW s \in Signal, Apart(st.signals)
  PROVE  SentBy(st, DeliverToAll(st, s), {s})
<1> DEFINE to == st.signals[s].connected
           n == Len(to)
           b == st.signals[s].bit
<1>1. /\ st.signals \in Sigs /\ st.notified \subseteq Interfaces
      /\ st.signals[s] \in SigRec /\ to \in Seq(Signal) /\ b \in Values
  <2>1. st.signals \in Sigs /\ st.notified \subseteq Interfaces
    BY DEF States
  <2> QED
    BY <2>1, ReachedTyped, SigFields
<1>2. CASE ~(st.signals[s].propagates /\ st.signals[s].modified)
  <2>1. DeliverToAll(st, s) = st /\ Reached(st.signals, s) = {}
    BY <1>2 DEF DeliverToAll, Reached
  <2> QED
    BY <2>1 DEF SentBy
<1>3. CASE st.signals[s].propagates /\ st.signals[s].modified
  <2>1. /\ DeliverToAll(st, s) = FoldLeft(LAMBDA so_far, t : Deliver(so_far, s, t), st, to)
        /\ Reached(st.signals, s) = ToSet(to)
    BY <1>3 DEF DeliverToAll, Reached
  <2>2. PICK f \in [0..n -> States] :
          /\ f[0] = st
          /\ \A k \in 1..n : f[k] = Deliver(f[k - 1], s, to[k])
          /\ FoldLeft(LAMBDA so_far, t : Deliver(so_far, s, t), st, to) = f[n]
    BY DeliveriesAre
  <2>3. /\ n \in Nat /\ ToSet(to) = {to[k] : k \in 1..n}
        /\ \A k \in 1..n : to[k] \in Signal /\ to[k] # s
    <3>1. n \in Nat /\ DOMAIN to = 1..n /\ \A k \in 1..n : to[k] \in Signal
      <4> HIDE DEF to
      <4> QED
        BY <1>1
    <3>2. ToSet(to) = {to[k] : k \in 1..n}
      BY <3>1 DEF ToSet
    <3>3. \A k \in 1..n : to[k][1] # s[1]
      BY <3>2 DEF Apart
    <3> QED
      BY <3>1, <3>2, <3>3
  <2> HIDE DEF to, n, b
  <2> DEFINE Told(k) == {to[m] : m \in 1..k}
             Right(k) == /\ st.notified \subseteq f[k].notified
                         /\ \A t \in Signal :
                              IF t \in Told(k)
                              THEN Noticed(f[k], t) /\ f[k].signals[t] = Given(st.signals[t], b)
                              ELSE f[k].signals[t] = st.signals[t]
             R == {k \in 0..n : Right(k)}
  <2>4. 0 \in R
    <3>1. 0 \in 0..n /\ 1..0 = {}
      BY <2>3
    <3>2. Told(0) = {}
      BY <3>1
    <3> QED
      BY <2>2, <3>1, <3>2
  <2>5. ASSUME NEW k \in 1..n, k - 1 \in R
        PROVE  k \in R
    <3>1. k \in 0..n /\ k - 1 \in 0..n /\ f[k - 1] \in States /\ to[k] \in Signal /\ to[k] # s
      <4>1. k \in 0..n /\ k - 1 \in 0..n
        BY <2>3
      <4>2. f[k - 1] \in States
        BY <2>2, <4>1
      <4> QED
        BY <2>3, <4>1, <4>2
    <3>2. Right(k - 1)
      BY <2>5
    <3>3. f[k] = Deliver(f[k - 1], s, to[k])
      BY <2>2
    <3>4. Told(k) = Told(k - 1) \cup {to[k]}
      <4>1. 1..k = (1..(k - 1)) \cup {k}
        BY <2>3
      <4> QED
        BY <4>1
    <3>5. s \notin Told(k - 1)
      <4>1. \A m \in 1..(k - 1) : m \in 1..n
        BY <2>3
      <4> QED
        BY <2>3, <4>1
    <3> HIDE DEF Told
    <3>6. f[k - 1].signals[s].bit = b
      BY <3>2, <3>5 DEF b
    <3>7. /\ f[k].signals = [f[k - 1].signals EXCEPT ![to[k]] = Given(f[k - 1].signals[to[k]], b)]
          /\ f[k - 1].notified \subseteq f[k].notified /\ Noticed(f[k], to[k])
      <4> DEFINE d == Deliver(f[k - 1], s, to[k])
      <4>1. /\ d.signals = [f[k - 1].signals EXCEPT
                              ![to[k]] = Given(f[k - 1].signals[to[k]], f[k - 1].signals[s].bit)]
            /\ f[k - 1].notified \subseteq d.notified /\ Noticed(d, to[k])
        <5> HIDE DEF d
        <5> QED
          BY <3>1, DeliverIs DEF d
      <4> HIDE DEF d
      <4>2. f[k] = d
        BY <3>3 DEF d
      <4> QED
        BY <3>6, <4>1, <4>2
    <3>8. f[k - 1].signals \in Sigs
      BY <3>1 DEF States
    <3>9. ASSUME NEW t \in Signal, t # to[k]
          PROVE  /\ f[k].signals[t] = f[k - 1].signals[t]
                 /\ Noticed(f[k - 1], t) => Noticed(f[k], t)
      <4>1. f[k].signals[t] = f[k - 1].signals[t]
        BY <3>7, <3>8, <3>9 DEF Sigs
      <4> QED
        BY <3>7, <4>1, NoticedDepends
    <3>10. f[k].signals[to[k]] = Given(st.signals[to[k]], b)
      <4>1. f[k].signals[to[k]] = Given(f[k - 1].signals[to[k]], b)
        BY <3>1, <3>7, <3>8 DEF Sigs
      <4>2. CASE to[k] \in Told(k - 1)
        <5>1. f[k - 1].signals[to[k]] = Given(st.signals[to[k]], b)
          BY <3>1, <3>2, <4>2
        <5>2. st.signals[to[k]] \in SigRec
          BY <1>1, <3>1 DEF Sigs
        <5> QED
          BY <1>1, <4>1, <5>1, <5>2, GivenTwice
      <4>3. CASE to[k] \notin Told(k - 1)
        BY <3>1, <3>2, <4>1, <4>3
      <4> QED
        BY <4>2, <4>3
    <3>11. Right(k)
      <4>1. st.notified \subseteq f[k].notified
        BY <3>2, <3>7
      <4> SUFFICES ASSUME NEW t \in Signal
                   PROVE  IF t \in Told(k)
                          THEN Noticed(f[k], t) /\ f[k].signals[t] = Given(st.signals[t], b)
                          ELSE f[k].signals[t] = st.signals[t]
        BY <4>1
      <4>2. CASE t = to[k]
        BY <3>4, <3>7, <3>10, <4>2
      <4>3. CASE t # to[k]
        BY <3>2, <3>4, <3>9, <4>3
      <4> QED
        BY <4>2, <4>3
    <3> HIDE DEF Right
    <3> QED
      BY <3>1, <3>11
  <2>6. n \in 0..n
    BY <2>3
  <2>7. n \in R
    <3> HIDE DEF R
    <3>1. \A k \in 1..n : k - 1 \in R => k \in R
      BY <2>5
    <3> QED
      BY <2>3, <2>4, <2>6, <3>1, PrefixInduction
  <2>8. Right(n) /\ f[n] \in States /\ Told(n) = ToSet(to)
    BY <2>2, <2>3, <2>6, <2>7
  <2> HIDE DEF Told, R
  <2>9. SentBy(st, f[n], {s})
    BY <2>1, <2>8 DEF SentBy, b
  <2> QED
    BY <2>1, <2>2, <2>9
<1> QED
  BY <1>2, <1>3

\* Propagation keeps the types and connections.
LEMMA SentKeeps ==
  ASSUME NEW st \in States, NEW after, NEW S \in SUBSET Signal, SentBy(st, after, S)
  PROVE  /\ after.signals \in Sigs
         /\ \A t \in Signal : LET x == st.signals[t]
                                  y == after.signals[t]
                              IN /\ y \in SigRec /\ y.type = x.type /\ y.strapped = x.strapped
                                 /\ y.propagates = x.propagates /\ y.connected = x.connected
                                 /\ x.modified => y.modified
<1>1. st.signals \in Sigs /\ after.signals \in Sigs
  BY DEF SentBy, States
<1>2. ASSUME NEW t \in Signal
      PROVE  LET x == st.signals[t]
                 y == after.signals[t]
             IN /\ y \in SigRec /\ y.type = x.type /\ y.strapped = x.strapped
                /\ y.propagates = x.propagates /\ y.connected = x.connected
                /\ x.modified => y.modified
  <2>1. st.signals[t] \in SigRec /\ after.signals[t] \in SigRec
    BY <1>1 DEF Sigs
  <2>2. CASE after.signals[t] = st.signals[t]
    BY <2>1, <2>2
  <2>3. CASE \E s \in S : after.signals[t] = Given(st.signals[t], st.signals[s].bit)
    <3>1. PICK s \in S : after.signals[t] = Given(st.signals[t], st.signals[s].bit)
      BY <2>3
    <3>2. st.signals[s] \in SigRec /\ st.signals[s].bit \in Values
      BY <1>1, SigFields DEF Sigs
    <3> QED
      BY <2>1, <3>1, <3>2, GivenIs
  <2> QED
    BY <2>2, <2>3 DEF SentBy
<1> QED
  BY <1>1, <1>2

\* Propagation keeps interfaces apart.
LEMMA SentApart ==
  ASSUME NEW st \in States, NEW after, NEW S \in SUBSET Signal, SentBy(st, after, S), Apart(st.signals)
  PROVE  Apart(after.signals)
BY SentKeeps DEF Apart

\* Two signals of an interface do not reach each other, so that their order is the same.
LEMMA SentThenSent ==
  ASSUME NEW st \in States, Apart(st.signals), NEW mid, NEW after,
         NEW S \in SUBSET Signal, NEW s \in Signal, \A x \in S : x[1] = s[1],
         SentBy(st, mid, S), SentBy(mid, after, {s})
  PROVE  SentBy(st, after, S \cup {s})
<1>1. mid \in States /\ after \in States /\ st.signals \in Sigs /\ mid.signals \in Sigs
  BY DEF SentBy, States
<1>2. st.notified \subseteq after.notified
  BY DEF SentBy
<1>3. mid.signals[s] = st.signals[s]
  <2>1. \A x \in S : s \notin Reached(st.signals, x)
    BY <1>1, ReachedTyped DEF Apart
  <2> QED
    BY <2>1 DEF SentBy
<1>4. Reached(mid.signals, s) = Reached(st.signals, s)
  BY <1>3 DEF Reached
<1>5. ASSUME NEW t \in Signal
      PROVE  \/ /\ after.signals[t] = st.signals[t]
                /\ \A x \in S \cup {s} : t \notin Reached(st.signals, x)
             \/ /\ Noticed(after, t)
                /\ \E x \in S \cup {s} : /\ t \in Reached(st.signals, x)
                                         /\ after.signals[t] = Given(st.signals[t], st.signals[x].bit)
  <2>1. CASE after.signals[t] = mid.signals[t] /\ t \notin Reached(mid.signals, s)
    <3>1. Noticed(mid, t) => Noticed(after, t)
      BY <2>1, NoticedDepends DEF SentBy
    <3> QED
      BY <1>4, <2>1, <3>1 DEF SentBy
  <2>2. CASE /\ Noticed(after, t) /\ t \in Reached(mid.signals, s)
             /\ after.signals[t] = Given(mid.signals[t], mid.signals[s].bit)
    <3> DEFINE b == st.signals[s].bit
    <3>1. st.signals[t] \in SigRec /\ b \in Values /\ \A x \in S : st.signals[x].bit \in Values
      BY <1>1, SigFields DEF Sigs
    <3>2. \/ mid.signals[t] = st.signals[t]
          \/ \E x \in S : mid.signals[t] = Given(st.signals[t], st.signals[x].bit)
      BY DEF SentBy
    <3>3. Given(mid.signals[t], b) = Given(st.signals[t], b)
      BY <3>1, <3>2, GivenTwice
    <3> QED
      BY <1>3, <1>4, <2>2, <3>3
  <2> QED
    BY <2>1, <2>2 DEF SentBy
<1> QED
  BY <1>1, <1>2, <1>5 DEF SentBy

SignalsOf(i) == {<<i, k>> : k \in Positions(i)}

\* An interface propagates all its signals.
LEMMA InterfaceSends ==
  ASSUME NEW st \in States, NEW i \in Interfaces, Apart(st.signals)
  PROVE  SentBy(st, PropagateInterfaceSignals(st, i), SignalsOf(i))
<1> DEFINE n == Len(Description[i])
           places == [k \in Positions(i) |-> k]
           Step(x, k) == DeliverToAll(x, <<i, k>>)
           Value(h, S) == IF S = {} THEN st ELSE Step(h[S \ {Max(S)}], places[Max(S)])
           fold == CHOOSE h : h = [S \in SUBSET (DOMAIN places) |-> Value(h, S)]
           T == {x \in States : Apart(x.signals)}
<1>1. n \in Nat /\ Positions(i) = 1..n /\ \A k \in 1..n : <<i, k>> \in Signal
  BY PositionsAre
<1>2. DOMAIN places = 1..n /\ \A k \in 1..n : places[k] = k
  BY <1>1
<1>3. PropagateInterfaceSignals(st, i) = fold[DOMAIN places]
  BY DEF PropagateInterfaceSignals, FoldLeft, MapThenFoldSet
<1> HIDE DEF n, places
<1>4. ASSUME NEW x \in T, NEW k \in 1..n
      PROVE  SentBy(x, Step(x, k), {<<i, k>>}) /\ Step(x, k) \in T
  <2>1. SentBy(x, Step(x, k), {<<i, k>>})
    BY <1>1, SentToAll
  <2>2. Apart(Step(x, k).signals)
    BY <1>1, <2>1, SentApart
  <2> QED
    BY <2>1, <2>2 DEF SentBy
<1> HIDE DEF Step
<1> DEFINE H == [k \in 1..n |-> [x \in T |-> Step(x, k)]]
<1>5. H \in [1..n -> [T -> T]] /\ st \in T
  <2>1. \A k \in 1..n, x \in T : Step(x, k) \in T
    BY <1>4
  <2> HIDE DEF T
  <2>2. H \in [1..n -> [T -> T]]
    BY <2>1
  <2> QED
    BY <2>2 DEF T
<1> HIDE DEF T
<1>6. PICK h \in [SUBSET (1..n) -> T] :
        \A S \in SUBSET (1..n) : h[S] = IF S = {} THEN st ELSE H[Max(S)][h[S \ {Max(S)}]]
  <2> HIDE DEF H
  <2>1. \E h : FoldsFrom(h, n, T, st, H)
    BY <1>1, <1>5, FoldExists
  <2> QED
    BY <2>1 DEF FoldsFrom
<1>7. \A S \in SUBSET (1..n) : h[S] = Value(h, S)
  <2> SUFFICES ASSUME NEW S \in SUBSET (1..n), S # {}
               PROVE  h[S] = Step(h[S \ {Max(S)}], places[Max(S)])
    BY <1>6
  <2>1. Max(S) \in 1..n /\ S \ {Max(S)} \in SUBSET (1..n)
    BY <1>1, MaxOfPlaces
  <2> QED
    BY <1>2, <1>6, <2>1
<1>8. fold = [S \in SUBSET (1..n) |-> Value(fold, S)]
  <2> HIDE DEF Value
  <2>1. h = [S \in SUBSET (DOMAIN places) |-> Value(h, S)]
    BY <1>2, <1>6, <1>7
  <2> QED
    BY <1>2, <2>1
<1> HIDE DEF fold
<1>9. fold[{}] = st
  BY <1>8
<1>10. ASSUME NEW k \in 1..n, fold[1..(k - 1)] \in T
       PROVE  fold[1..k] = H[k][fold[1..(k - 1)]]
  <2>0. n \in Nat
    BY <1>1
  <2>1. 1..k # {} /\ Max(1..k) = k /\ (1..k) \ {k} = 1..(k - 1) /\ 1..k \in SUBSET (1..n)
    BY <2>0, MaxOfInterval
  <2>2. fold[1..k] = Value(fold, 1..k)
    <3> HIDE DEF Value
    <3> QED
      BY <1>8, <2>1
  <2>3. fold[1..k] = Step(fold[1..(k - 1)], k)
    BY <1>2, <2>1, <2>2
  <2> QED
    BY <1>10, <2>3
<1>11. \E f : FoldsUpTo(f, n, T, st, H, fold[1..n])
  <2>1. n \in Nat /\ st \in T
    BY <1>1, <1>5
  <2> HIDE DEF H
  <2>2. IsFold(fold, n, T, st, H)
    BY <1>9, <1>10 DEF IsFold
  <2> QED
    BY <1>5, <2>1, <2>2, FoldPrefixes
<1>12. PICK f \in [0..n -> T] : /\ f[0] = st /\ f[n] = fold[1..n]
                                /\ \A k \in 1..n : f[k] = H[k][f[k - 1]]
  BY <1>11 DEF FoldsUpTo
<1> DEFINE Upto(k) == {<<i, m>> : m \in 1..k}
           R == {k \in 0..n : SentBy(st, f[k], Upto(k))}
<1>13. 0 \in R
  <2>1. 0 \in 0..n /\ 1..0 = {}
    BY <1>1
  <2>2. Upto(0) = {}
    BY <2>1
  <2> QED
    BY <1>12, <2>1, <2>2 DEF SentBy
<1>14. ASSUME NEW k \in 1..n, k - 1 \in R
       PROVE  k \in R
  <2>1. k - 1 \in 0..n /\ k \in 0..n /\ f[k - 1] \in T
    BY <1>1, <1>12
  <2>2. f[k] = Step(f[k - 1], k)
    BY <1>12, <2>1
  <2>3. SentBy(f[k - 1], f[k], {<<i, k>>})
    BY <1>4, <2>1, <2>2
  <2>4. Upto(k) = Upto(k - 1) \cup {<<i, k>>}
    <3>1. 1..k = (1..(k - 1)) \cup {k}
      BY <1>1
    <3> QED
      BY <3>1
  <2>5. /\ Upto(k - 1) \in SUBSET Signal /\ <<i, k>> \in Signal
        /\ \A x \in Upto(k - 1) : x[1] = <<i, k>>[1]
    <3>1. \A m \in 1..(k - 1) : m \in 1..n
      BY <1>1
    <3> QED
      BY <1>1, <3>1
  <2>6. SentBy(st, f[k - 1], Upto(k - 1))
    BY <1>14
  <2> HIDE DEF Upto
  <2>7. SentBy(st, f[k], Upto(k - 1) \cup {<<i, k>>})
    BY <2>3, <2>5, <2>6, SentThenSent
  <2> QED
    BY <2>1, <2>4, <2>7
<1>15. n \in R
  <2> HIDE DEF R
  <2>1. \A k \in 1..n : k - 1 \in R => k \in R
    BY <1>14
  <2>2. n \in 0..n /\ n \in Nat
    BY <1>1
  <2> QED
    BY <1>13, <2>1, <2>2, PrefixInduction
<1>16. Upto(n) = SignalsOf(i)
  BY <1>1 DEF SignalsOf
<1> QED
  BY <1>2, <1>3, <1>12, <1>15, <1>16

-----------------------------------------------------------------------------
(* What has been built.                                                    *)

TypesKept(sig) ==
  \A s \in Signal : \/ sig[s].type = TypeOf(s[1], s[2])
                    \/ sig[s].type = "Input" /\ Modifier[s[1]] = "Invert"
BothWays(sig) ==
  \A s \in Signal : \A t \in ToSet(sig[s].connected) : s[1] # t[1] /\ s \in ToSet(sig[t].connected)
InputAtAnEnd(sig) ==
  \A s \in Signal : \A t \in ToSet(sig[s].connected) : "Input" \in {sig[s].type, sig[t].type}
DrivenBySome(sig) ==
  \A s \in Signal :
    /\ sig[s].propagates => sig[s].connected # << >>
    /\ Peers => /\ sig[s].propagates => sig[s].type # "Input"
                /\ sig[s].type = "Input" => Len(sig[s].connected) <= 1
                /\ sig[s].type = "Output" /\ sig[s].connected # << >> => sig[s].propagates

Built(sig) ==
  /\ sig \in Sigs /\ TypesKept(sig) /\ BothWays(sig) /\ DrivenBySome(sig)
  /\ OneInput => InputAtAnEnd(sig)

Blank(sig) == \A s \in Signal : sig[s].bit = 0 /\ ~sig[s].modified /\ ~sig[s].strapped

LEMMA AppendedSet ==
  ASSUME NEW S, NEW q \in Seq(S), NEW e \in S
  PROVE  /\ Append(q, e) \in Seq(S) /\ Append(q, e) # << >>
         /\ Len(Append(q, e)) = Len(q) + 1 /\ Len(q) \in Nat
         /\ ToSet(Append(q, e)) = ToSet(q) \cup {e}
<1> DEFINE n == Len(q)
           a == Append(q, e)
<1>1. /\ a \in Seq(S) /\ Len(a) = n + 1 /\ n \in Nat /\ DOMAIN q = 1..n /\ DOMAIN a = 1..(n + 1)
      /\ \A m \in 1..n : a[m] = q[m]
      /\ a[n + 1] = e
  BY AppendProperties, LenProperties
<1>2. a # << >>
  BY <1>1, EmptySeq
<1> HIDE DEF a, n
<1>3. ToSet(a) = ToSet(q) \cup {e}
  <2>1. 1..(n + 1) = (1..n) \cup {n + 1} /\ n + 1 \in 1..(n + 1)
    BY <1>1
  <2> QED
    BY <1>1, <2>1 DEF ToSet
<1> QED
  BY <1>1, <1>2, <1>3 DEF a, n

LEMMA TypesAre ==
  ASSUME NEW i \in Interfaces, NEW k \in Positions(i)
  PROVE  TypeOf(i, k) \in Types
<1>1. Description[i][k] \in Fields
  BY PositionsAre
<1>2. Description[i][k].type \in Types /\ Description[i][k].reversible \in BOOLEAN
  BY <1>1 DEF Fields
<1>3. {"Input", "Output"} \subseteq Types
  BY DEF Types
<1> QED
  BY <1>2, <1>3 DEF TypeOf

\* As peers, what propagates drives, and outputs do.
LEMMA WhichPropagates ==
  ASSUME NEW l \in Types, NEW r \in Types, NEW type \in {"Peer", "PassThru"}
  PROVE  LET p == WhichSignalPropagates(l, r, type)
         IN /\ p \in BOOLEAN \X BOOLEAN
            /\ type = "Peer" => /\ p[1] => l # "Input"
                                /\ p[2] => r # "Input"
                                /\ l = "Output" /\ (p[1] \/ p[2]) => p[1]
                                /\ r = "Output" /\ (p[1] \/ p[2]) => p[2]
<1> DEFINE p == WhichSignalPropagates(l, r, type)
<1> DEFINE T1 == IsDrivingSignal(l) /\ IsReceivingSignal(r)
           T2 == IsDrivingSignal(r) /\ IsReceivingSignal(l)
           T3 == IsDrivingSignal(l) /\ IsDrivingSignal(r)
           T4 == IsReceivingSignal(l) /\ IsReceivingSignal(r)
<1>1. p = IF type = "Peer" THEN IF T1 THEN <<TRUE, FALSE>> ELSE IF T2 THEN <<FALSE, TRUE>> ELSE <<T3, T3>>
          ELSE IF T3 THEN <<FALSE, TRUE>> ELSE <<T4, FALSE>>
  BY DEF WhichSignalPropagates
<1>2. /\ T1 <=> l \in {"Strap", "Output", "InOut"} /\ r \in {"Input", "InOut"}
      /\ T2 <=> r \in {"Strap", "Output", "InOut"} /\ l \in {"Input", "InOut"}
      /\ T3 <=> l \in {"Strap", "Output", "InOut"} /\ r \in {"Strap", "Output", "InOut"}
      /\ T1 \in BOOLEAN /\ T2 \in BOOLEAN /\ T3 \in BOOLEAN /\ T4 \in BOOLEAN
  BY DEF IsDrivingSignal, IsReceivingSignal
<1> HIDE DEF p, T1, T2, T3, T4
<1>3. p \in BOOLEAN \X BOOLEAN
  BY <1>1, <1>2
<1>4. CASE type = "Peer" /\ T1
  <2>1. p[1] = TRUE /\ p[2] = FALSE
    BY <1>1, <1>4
  <2> QED
    BY <1>2, <1>3, <1>4, <2>1 DEF p
<1>5. CASE type = "Peer" /\ ~T1 /\ T2
  <2>1. p[1] = FALSE /\ p[2] = TRUE
    BY <1>1, <1>5
  <2> QED
    BY <1>2, <1>3, <1>5, <2>1 DEF p
<1>6. CASE type = "Peer" /\ ~T1 /\ ~T2
  <2>1. p[1] = T3 /\ p[2] = T3
    BY <1>1, <1>6
  <2> QED
    BY <1>2, <1>3, <1>6, <2>1 DEF p
<1>7. CASE type # "Peer"
  BY <1>3, <1>7 DEF p
<1> QED
  BY <1>4, <1>5, <1>6, <1>7

\* What a clock does to the other side, and what it means for the types.
LEMMA MarkedIs ==
  ASSUME NEW sig \in Sigs, NEW s \in Signal
  PROVE  LET m == MarkAsInputIfReversed(sig, s)
             x == sig[s]
             type == IF x.type = "Output" /\ Modifier[s[1]] = "Invert" THEN "Input" ELSE x.type
         IN /\ m \in Sigs
            /\ m = [sig EXCEPT ![s] = m[s]]
            /\ m[s].type = type /\ m[s].connected = x.connected /\ m[s].propagates = x.propagates
            /\ m[s].bit = x.bit /\ m[s].modified = x.modified /\ m[s].strapped = x.strapped
<1> DEFINE m == MarkAsInputIfReversed(sig, s)
           x == sig[s]
<1>1. x \in SigRec
  BY DEF Sigs
<1>2. CASE x.type = "Output" /\ Modifier[s[1]] = "Invert"
  <2> DEFINE y == [x EXCEPT !.type = "Input"]
  <2>1. y \in SigRec /\ y.type = "Input" /\ y.connected = x.connected /\ y.propagates = x.propagates
        /\ y.bit = x.bit /\ y.modified = x.modified /\ y.strapped = x.strapped
    BY <1>1 DEF SigRec, Types
  <2>2. m = [sig EXCEPT ![s] = y]
    BY <1>2 DEF MarkAsInputIfReversed
  <2> HIDE DEF y, m
  <2>3. m \in Sigs /\ m[s] = y
    BY <2>1, <2>2 DEF Sigs
  <2> QED
    BY <1>2, <2>1, <2>2, <2>3 DEF m
<1>3. CASE ~(x.type = "Output" /\ Modifier[s[1]] = "Invert")
  <2>1. m = sig
    BY <1>3 DEF MarkAsInputIfReversed
  <2> QED
    BY <1>3, <2>1 DEF Sigs
<1> QED
  BY <1>2, <1>3

Links == [signals : Sigs, ok : BOOLEAN]
Sound(st) == st.ok => Built(st.signals) /\ Blank(st.signals)

\* The first of some places is one of them.
LEMMA FirstIs ==
  ASSUME NEW places \in SUBSET Nat, places # {}
  PROVE  First(places) \in places
<1>1. PICK j \in places : \A k \in places : j <= k
  BY LeastNatural
<1> QED
  BY <1>1 DEF First

\* The candidate that is taken is a signal of the right interface.
LEMMA CandidatesAre ==
  ASSUME NEW c \in Connections, NEW k, Candidates(c, k) # {}
  PROVE  /\ First(Candidates(c, k)) \in Candidates(c, k)
         /\ First(Candidates(c, k)) \in Positions(c.right)
<1>1. c.right \in Interfaces
  BY DEF Connections
<1>2. Positions(c.right) \subseteq Nat
  <2>1. Len(Description[c.right]) \in 0..10 /\ Positions(c.right) = 1..Len(Description[c.right])
    BY <1>1, PositionsAre
  <2> QED
    BY <2>1
<1>3. Candidates(c, k) \subseteq Positions(c.right)
  BY DEF Candidates
<1>4. First(Candidates(c, k)) \in Candidates(c, k)
  BY <1>2, <1>3, FirstIs
<1> QED
  BY <1>3, <1>4

\* The signals when those to be connected have been marked.
Marks(c, s1, s2, sig, m) ==
  /\ m \in Sigs
  /\ \A t \in Signal : /\ m[t].connected = sig[t].connected /\ m[t].propagates = sig[t].propagates
                       /\ m[t].bit = sig[t].bit /\ m[t].modified = sig[t].modified
                       /\ m[t].strapped = sig[t].strapped
                       /\ \/ m[t].type = sig[t].type
                          \/ /\ m[t].type = "Input" /\ sig[t].type = "Output" /\ Modifier[t[1]] = "Invert"
                             /\ t \in {s1, s2}
  /\ c.right \in Clocks /\ Modifier[s1[1]] = "Invert" => m[s1].type # "Output"
  /\ c.left \in Clocks /\ Modifier[s2[1]] = "Invert" => m[s2].type # "Output"

\* A clock marks the reversed signals it is connected with as inputs, and no others.
LEMMA MarksAre ==
  ASSUME NEW c, NEW sig \in Sigs, NEW s1 \in Signal, NEW s2 \in Signal, s1 # s2
  PROVE  LET right == IF c.left \in Clocks THEN MarkAsInputIfReversed(sig, s2) ELSE sig
             both == IF c.right \in Clocks THEN MarkAsInputIfReversed(right, s1) ELSE right
         IN Marks(c, s1, s2, sig, both)
<1> DEFINE right == IF c.left \in Clocks THEN MarkAsInputIfReversed(sig, s2) ELSE sig
           both == IF c.right \in Clocks THEN MarkAsInputIfReversed(right, s1) ELSE right
           Same(x, y) == /\ x.connected = y.connected /\ x.propagates = y.propagates
                         /\ x.bit = y.bit /\ x.modified = y.modified /\ x.strapped = y.strapped
           Turned(m, n, t) == /\ n[t].type = "Input" /\ m[t].type = "Output" /\ Modifier[t[1]] = "Invert"
<1>1. ASSUME NEW m \in Sigs, NEW s \in Signal
      PROVE  LET n == MarkAsInputIfReversed(m, s)
             IN /\ n \in Sigs /\ \A t \in Signal : t # s => n[t] = m[t]
                /\ Same(n[s], m[s]) /\ (n[s].type = m[s].type \/ Turned(m, n, s))
                /\ Modifier[s[1]] = "Invert" => n[s].type # "Output"
  <2> DEFINE n == MarkAsInputIfReversed(m, s)
  <2>1. /\ n \in Sigs /\ n = [m EXCEPT ![s] = n[s]] /\ Same(n[s], m[s])
        /\ n[s].type = IF m[s].type = "Output" /\ Modifier[s[1]] = "Invert" THEN "Input" ELSE m[s].type
    BY MarkedIs
  <2> HIDE DEF n, Same
  <2>2. \A t \in Signal : t # s => n[t] = m[t]
    BY <2>1 DEF Sigs
  <2> QED
    BY <2>1, <2>2 DEF n
<1>2. /\ right \in Sigs /\ \A t \in Signal : t # s2 => right[t] = sig[t]
      /\ Same(right[s2], sig[s2]) /\ (right[s2].type = sig[s2].type \/ Turned(sig, right, s2))
      /\ c.left \in Clocks /\ Modifier[s2[1]] = "Invert" => right[s2].type # "Output"
  BY <1>1
<1>3. /\ both \in Sigs /\ \A t \in Signal : t # s1 => both[t] = right[t]
      /\ Same(both[s1], right[s1]) /\ (both[s1].type = right[s1].type \/ Turned(right, both, s1))
      /\ c.right \in Clocks /\ Modifier[s1[1]] = "Invert" => both[s1].type # "Output"
  <2> HIDE DEF right, Same, Turned
  <2>1. right \in Sigs
    BY <1>2
  <2>2. CASE c.right \in Clocks
    <3>1. both = MarkAsInputIfReversed(right, s1)
      BY <2>2
    <3> HIDE DEF both
    <3> QED
      BY <1>1, <2>1, <2>2, <3>1
  <2>3. CASE c.right \notin Clocks
    BY <2>1, <2>3 DEF Same
  <2> QED
    BY <2>2, <2>3
<1> HIDE DEF right, both
<1>4. Marks(c, s1, s2, sig, both)
  BY <1>2, <1>3 DEF Marks
<1> QED
  BY <1>4 DEF right, both

\* A signal x that is connected to s, and propagates to it if q.
Became(y, x, s, q) ==
  /\ y.type = x.type /\ y.bit = x.bit /\ y.modified = x.modified /\ y.strapped = x.strapped
  /\ y.propagates = (x.propagates \/ q)
  /\ ToSet(y.connected) = ToSet(x.connected) \cup {s}
  /\ y.connected # << >>
  /\ Len(y.connected) = Len(x.connected) + 1 /\ Len(x.connected) \in Nat

\* What connecting two signals makes of them, if nothing is asserted.
Joins(m, s1, s2, type, j) ==
  LET p == WhichSignalPropagates(m[s1].type, m[s2].type, type)
  IN /\ j \in Sigs
     /\ \A t \in Signal : t \notin {s1, s2} => j[t] = m[t]
     /\ Became(j[s1], m[s1], s2, p[1]) /\ Became(j[s2], m[s2], s1, p[2])

\* What Interface::Connect leaves of two signals, r.
ConnectedInto(st, s1, s2, type, r) ==
  LET m == st.signals
      p == WhichSignalPropagates(m[s1].type, m[s2].type, type)
  IN /\ r \in Links
     /\ Joins(m, s1, s2, type, r.signals)
     /\ r.ok => /\ st.ok /\ (p[1] \/ p[2])
                /\ type = "Peer" => \A s \in {s1, s2} : m[s].type = "Input" => Len(r.signals[s].connected) = 1

\* It is what Interface::Connect computes.
LEMMA ConnectIs ==
  ASSUME NEW st \in Links, NEW s1 \in Signal, NEW s2 \in Signal, s1 # s2, NEW type \in {"Peer", "PassThru"}
  PROVE  ConnectedInto(st, s1, s2, type, Connect(st, s1, s2, type))
<1> DEFINE m == st.signals
           p == WhichSignalPropagates(m[s1].type, m[s2].type, type)
           a == [m[s1] EXCEPT !.propagates = @ \/ p[1], !.connected = Append(@, s2)]
           b == [m[s2] EXCEPT !.propagates = @ \/ p[2], !.connected = Append(@, s1)]
           j == [[m EXCEPT ![s1] = a] EXCEPT ![s2] = b]
           r == Connect(st, s1, s2, type)
<1>1. m \in Sigs /\ m[s1] \in SigRec /\ m[s2] \in SigRec /\ st.ok \in BOOLEAN
  BY DEF Links, Sigs
<1>2. p \in BOOLEAN \X BOOLEAN
  <2>1. m[s1].type \in Types /\ m[s2].type \in Types
    BY <1>1, SigFields
  <2> QED
    BY <2>1, WhichPropagates
<1> HIDE DEF p
<1> DEFINE joined == [m EXCEPT ![s1].propagates = @ \/ p[1], ![s1].connected = Append(@, s2),
                               ![s2].propagates = @ \/ p[2], ![s2].connected = Append(@, s1)]
           OneConnection(s) == joined[s].type = "Input" => Len(joined[s].connected) = 1
           ok == st.ok /\ (p[1] \/ p[2]) /\ (type = "Peer" => OneConnection(s1) /\ OneConnection(s2))
<1>13. r = [signals |-> joined, ok |-> ok]
  BY Zenon DEF Connect, p
<1>3. r.signals = joined
  <2> HIDE DEF joined, ok, r
  <2> QED
    BY <1>13
<1>4. r.signals = j
  BY <1>1, <1>3 DEF Sigs, SigRec
<1>5. /\ r.ok <=> /\ st.ok /\ (p[1] \/ p[2])
                  /\ (type = "Peer" => \A s \in {s1, s2} :
                        r.signals[s].type = "Input" => Len(r.signals[s].connected) = 1)
      /\ r = [signals |-> r.signals, ok |-> r.ok] /\ r.ok \in BOOLEAN
  <2>1. ok \in BOOLEAN
    <3> HIDE DEF joined, m, p
    <3> QED
      BY <1>1
  <2>2. ok <=> /\ st.ok /\ (p[1] \/ p[2])
               /\ (type = "Peer" => \A s \in {s1, s2} : OneConnection(s))
    <3> HIDE DEF joined, m, p
    <3> QED
      BY <1>1
  <2>3. r.ok = ok
    <3> HIDE DEF joined, ok, r
    <3> QED
      BY <1>13
  <2> HIDE DEF ok, r, m, p
  <2>4. r = [signals |-> r.signals, ok |-> r.ok]
    <3> HIDE DEF joined
    <3> QED
      BY <1>13
  <2>5. \A s \in {s1, s2} : OneConnection(s) <=> (r.signals[s].type = "Input" => Len(r.signals[s].connected) = 1)
    <3> HIDE DEF joined
    <3> QED
      BY <1>3
  <2> HIDE DEF joined, OneConnection
  <2> QED
    BY <2>1, <2>2, <2>3, <2>4, <2>5
<1> HIDE DEF r, joined, OneConnection, ok
<1>6. ASSUME NEW x \in SigRec, NEW s \in Signal, NEW q \in BOOLEAN
      PROVE  LET y == [x EXCEPT !.propagates = @ \/ q, !.connected = Append(@, s)]
             IN y \in SigRec /\ Became(y, x, s, q)
  <2> DEFINE d == Append(x.connected, s)
  <2>1. x.connected \in Seq(Signal) /\ x.propagates \in BOOLEAN
    BY SigFields
  <2>2. /\ d \in Seq(Signal) /\ d # << >> /\ Len(d) = Len(x.connected) + 1 /\ Len(x.connected) \in Nat
        /\ ToSet(d) = ToSet(x.connected) \cup {s}
    BY <2>1, AppendedSet
  <2> DEFINE y == [x EXCEPT !.propagates = @ \/ q, !.connected = Append(@, s)]
  <2>3. /\ y.type = x.type /\ y.bit = x.bit /\ y.modified = x.modified /\ y.strapped = x.strapped
        /\ y.propagates = (x.propagates \/ q) /\ y.connected = d
    BY DEF SigRec
  <2>4. y \in SigRec
    <3> DEFINE q1 == x.propagates \/ q
               x1 == [x EXCEPT !.propagates = q1]
    <3>1. y = [x1 EXCEPT !.connected = d]
      BY DEF SigRec
    <3>2. q1 \in BOOLEAN
      BY <2>1
    <3> HIDE DEF q1, d, y
    <3>3. x1 \in SigRec
      BY <3>2 DEF SigRec
    <3> HIDE DEF x1
    <3> QED
      BY <2>2, <3>1, <3>3 DEF SigRec
  <2> HIDE DEF d
  <2> QED
    BY <2>2, <2>3, <2>4 DEF Became
<1>7. a \in SigRec /\ b \in SigRec /\ p[1] \in BOOLEAN /\ p[2] \in BOOLEAN
  BY <1>1, <1>2, <1>6
<1>8. Became(a, m[s1], s2, p[1]) /\ Became(b, m[s2], s1, p[2])
  BY <1>1, <1>6, <1>7
<1> HIDE DEF a, b, m
<1>9. j \in Sigs /\ j[s1] = a /\ j[s2] = b /\ \A t \in Signal : t \notin {s1, s2} => j[t] = m[t]
  BY <1>1, <1>7 DEF Sigs
<1> HIDE DEF j
<1>10. Joins(m, s1, s2, type, j)
  <2>1. Became(j[s1], m[s1], s2, p[1]) /\ Became(j[s2], m[s2], s1, p[2])
    BY <1>8, <1>9
  <2> QED
    BY <1>9, <2>1 DEF Joins, p
<1>11. r \in Links
  BY <1>4, <1>5, <1>9 DEF Links
<1>12. \A s \in {s1, s2} : r.signals[s].type = m[s].type
  BY <1>4, <1>8, <1>9 DEF Became
<1> QED
  BY <1>4, <1>5, <1>10, <1>11, <1>12 DEF r, m, p, ConnectedInto

\* Connecting two signals keeps what has been built.
LEMMA JoinKeeps ==
  ASSUME NEW c \in Connections, c \in ConnectCalls, c.left # c.right,
         NEW k \in Positions(c.left), InGroup(c.left, k, c.group),
         NEW q \in Candidates(c, k),
         NEW s1 \in Signal, NEW s2 \in Signal, s1 = <<c.left, k>>, s2 = <<c.right, q>>,
         NEW sig, Built(sig), Blank(sig),
         NEW m, Marks(c, s1, s2, sig, m),
         NEW j, Joins(m, s1, s2, c.type, j),
         LET p == WhichSignalPropagates(m[s1].type, m[s2].type, c.type)
         IN /\ p[1] \/ p[2]
            /\ c.type = "Peer" => \A s \in {s1, s2} : m[s].type = "Input" => Len(j[s].connected) = 1
  PROVE  Built(j) /\ Blank(j)
<1> DEFINE p == WhichSignalPropagates(m[s1].type, m[s2].type, c.type)
<1>1. s1[1] = c.left /\ s2[1] = c.right /\ s1 # s2 /\ s1[2] = k /\ s2[2] = q
  OBVIOUS
<1>2. /\ sig \in Sigs /\ m \in Sigs /\ j \in Sigs
      /\ \A t \in Signal : sig[t] \in SigRec /\ m[t] \in SigRec /\ j[t] \in SigRec
  BY DEF Built, Marks, Joins, Sigs
<1>3. m[s1].type \in Types /\ m[s2].type \in Types /\ c.type \in {"Peer", "PassThru"}
  BY <1>2, SigFields DEF Connections
<1>4. /\ p \in BOOLEAN \X BOOLEAN
      /\ Peers => /\ p[1] => m[s1].type # "Input"
                  /\ p[2] => m[s2].type # "Input"
                  /\ m[s1].type = "Output" => p[1]
                  /\ m[s2].type = "Output" => p[2]
  <2>1. Peers => c.type = "Peer"
    BY DEF Peers
  <2> QED
    BY <1>3, <2>1, WhichPropagates
<1>5. Peers => \A s \in {s1, s2} : m[s].type = "Input" => Len(j[s].connected) = 1
  BY DEF Peers
<1>6. \A t \in Signal : t \notin {s1, s2} => j[t] = m[t]
  BY DEF Joins
<1>7. Became(j[s1], m[s1], s2, p[1]) /\ Became(j[s2], m[s2], s1, p[2])
  BY DEF Joins
<1> HIDE DEF p
<1>8. LET End(s, t, x) == /\ j[s].type = m[s].type /\ j[s].bit = m[s].bit /\ j[s].modified = m[s].modified
                          /\ j[s].strapped = m[s].strapped
                          /\ j[s].propagates = (m[s].propagates \/ x)
                          /\ ToSet(j[s].connected) = ToSet(m[s].connected) \cup {t}
                          /\ j[s].connected # << >>
                          /\ Len(j[s].connected) = Len(m[s].connected) + 1 /\ Len(m[s].connected) \in Nat
      IN End(s1, s2, p[1]) /\ End(s2, s1, p[2])
  BY <1>7 DEF Became
<1>9. \A t \in Signal : /\ m[t].connected = sig[t].connected /\ m[t].propagates = sig[t].propagates
                        /\ m[t].bit = sig[t].bit /\ m[t].modified = sig[t].modified
                        /\ m[t].strapped = sig[t].strapped
                        /\ \/ m[t].type = sig[t].type
                           \/ /\ m[t].type = "Input" /\ sig[t].type = "Output" /\ Modifier[t[1]] = "Invert"
                              /\ t \in {s1, s2}
  BY DEF Marks
<1>10. \A t \in Signal : j[t].type = m[t].type
  BY <1>6, <1>8
<1>11. TypesKept(j)
  BY <1>9, <1>10 DEF TypesKept, Built
<1>12. \A t \in Signal : ToSet(j[t].connected) = ToSet(sig[t].connected)
                           \cup (IF t = s1 THEN {s2} ELSE IF t = s2 THEN {s1} ELSE {})
  BY <1>6, <1>8, <1>9, <1>1
<1>13. BothWays(j)
  <2> SUFFICES ASSUME NEW s \in Signal, NEW t \in ToSet(j[s].connected)
               PROVE  s[1] # t[1] /\ s \in ToSet(j[t].connected)
    BY DEF BothWays
  <2>1. t \in Signal
    BY <1>2, ReachedTyped
  <2>2. CASE t \in ToSet(sig[s].connected)
    <3>1. s[1] # t[1] /\ s \in ToSet(sig[t].connected)
      BY <2>2 DEF Built, BothWays
    <3> QED
      BY <1>12, <2>1, <3>1
  <2>3. CASE t \notin ToSet(sig[s].connected)
    <3>1. \/ s = s1 /\ t = s2
          \/ s = s2 /\ t = s1
      <4>1. t \in (IF s = s1 THEN {s2} ELSE IF s = s2 THEN {s1} ELSE {})
        BY <1>12, <2>3
      <4> QED
        BY <4>1
    <3>2. s1 \in ToSet(j[s2].connected) /\ s2 \in ToSet(j[s1].connected)
      BY <1>1, <1>12
    <3> QED
      BY <1>1, <3>1, <3>2
  <2> QED
    BY <2>2, <2>3
<1>14. ASSUME OneInput
       PROVE  InputAtAnEnd(j)
  <2>1. "Input" \in {Facing(c.left, k, c.right), Facing(c.right, q, c.left)}
    <3>1. q \in Positions(c.right)
      BY DEF Candidates
    <3> QED
      BY <1>14, <3>1 DEF OneInput
  <2>2. TypesKept(m)
    BY <1>10, <1>11 DEF TypesKept
  <2>3. m[s1].type \in {Facing(c.left, k, c.right), "Input"}
    BY <1>1, <2>2 DEF TypesKept, Facing, Marks
  <2>4. m[s2].type \in {Facing(c.right, q, c.left), "Input"}
    BY <1>1, <2>2 DEF TypesKept, Facing, Marks
  <2>5. "Input" \in {j[s1].type, j[s2].type}
    BY <1>10, <2>1, <2>3, <2>4
  <2>6. InputAtAnEnd(sig)
    BY <1>14 DEF Built
  <2> SUFFICES ASSUME NEW s \in Signal, NEW t \in ToSet(j[s].connected)
               PROVE  "Input" \in {j[s].type, j[t].type}
    BY DEF InputAtAnEnd
  <2>7. t \in Signal
    BY <1>2, ReachedTyped
  <2>8. CASE t \in ToSet(sig[s].connected)
    BY <1>9, <1>10, <2>6, <2>7, <2>8 DEF InputAtAnEnd
  <2>9. CASE t \notin ToSet(sig[s].connected)
    BY <1>12, <2>5, <2>9
  <2> QED
    BY <2>8, <2>9
<1>15. DrivenBySome(j)
  <2> SUFFICES ASSUME NEW s \in Signal
               PROVE  /\ j[s].propagates => j[s].connected # << >>
                      /\ Peers => /\ j[s].propagates => j[s].type # "Input"
                                  /\ j[s].type = "Input" => Len(j[s].connected) <= 1
                                  /\ j[s].type = "Output" /\ j[s].connected # << >> => j[s].propagates
    BY DEF DrivenBySome
  <2>1. /\ sig[s].propagates => sig[s].connected # << >>
        /\ Peers => /\ sig[s].propagates => sig[s].type # "Input"
                    /\ sig[s].type = "Input" => Len(sig[s].connected) <= 1
                    /\ sig[s].type = "Output" /\ sig[s].connected # << >> => sig[s].propagates
    BY DEF Built, DrivenBySome
  <2>2. CASE s \notin {s1, s2}
    BY <1>6, <1>9, <2>1, <2>2
  <2>3. CASE s \in {s1, s2}
    <3>1. PICK x \in BOOLEAN : /\ j[s].propagates = (sig[s].propagates \/ x)
                               /\ Peers => /\ x => j[s].type # "Input"
                                           /\ j[s].type = "Output" => x
      <4>1. /\ j[s1].type = m[s1].type /\ j[s2].type = m[s2].type
            /\ m[s1].propagates = sig[s1].propagates /\ m[s2].propagates = sig[s2].propagates
        BY <1>9, <1>10
      <4>2. /\ j[s1].propagates = (m[s1].propagates \/ p[1])
            /\ j[s2].propagates = (m[s2].propagates \/ p[2])
        BY <1>8
      <4> QED
        BY <1>4, <2>3, <4>1, <4>2
    <3>2. /\ j[s].connected # << >> /\ Len(sig[s].connected) \in Nat
          /\ Len(j[s].connected) = Len(sig[s].connected) + 1
      <4>1. /\ j[s].connected # << >> /\ Len(m[s].connected) \in Nat
            /\ Len(j[s].connected) = Len(m[s].connected) + 1
        BY <1>8, <2>3
      <4>2. m[s].connected = sig[s].connected
        BY <1>9
      <4> QED
        BY <4>1, <4>2
    <3>3. Peers /\ j[s].type = "Input" => Len(j[s].connected) = 1
      BY <1>5, <1>10, <2>3
    <3>4. Peers /\ j[s].type = "Input" => ~sig[s].propagates
      <4>1. sig[s].connected \in Seq(Signal)
        BY <1>2, SigFields
      <4> DEFINE d == sig[s].connected
      <4>2. Len(d) = 0 => d = << >>
        <5> HIDE DEF d
        <5> QED
          BY <4>1, EmptySeq DEF d
      <4> QED
        BY <2>1, <3>2, <3>3, <4>2
    <3> QED
      BY <3>1, <3>2, <3>3, <3>4
  <2> QED
    BY <2>2, <2>3
<1>16. Blank(j)
  <2>1. \A t \in Signal : j[t].bit = m[t].bit /\ j[t].modified = m[t].modified /\ j[t].strapped = m[t].strapped
    BY <1>6, <1>8
  <2> QED
    BY <1>9, <2>1 DEF Blank
<1> QED
  BY <1>2, <1>11, <1>13, <1>14, <1>15, <1>16 DEF Built

\* A call for one signal of the left interface.
LEMMA ConnectSignalKeeps ==
  ASSUME NEW c \in Connections, c \in ConnectCalls, c.left # c.right,
         NEW k \in Positions(c.left), InGroup(c.left, k, c.group),
         NEW st \in Links, Sound(st)
  PROVE  ConnectSignal(st, c, k) \in Links /\ Sound(ConnectSignal(st, c, k))
<1>1. st.signals \in Sigs /\ st.ok \in BOOLEAN /\ c.left \in Interfaces /\ c.right \in Interfaces
      /\ c.type \in {"Peer", "PassThru"}
  BY DEF Links, Connections
<1>2. CASE Candidates(c, k) = {}
  <2>1. ConnectSignal(st, c, k) = [st EXCEPT !.ok = FALSE]
    BY <1>2 DEF ConnectSignal
  <2>2. [st EXCEPT !.ok = FALSE] \in Links /\ [st EXCEPT !.ok = FALSE].ok = FALSE
    BY DEF Links
  <2> QED
    BY <2>1, <2>2 DEF Sound
<1>3. CASE Candidates(c, k) # {}
  <2> DEFINE q == First(Candidates(c, k))
             s1 == <<c.left, k>>
             s2 == <<c.right, q>>
             right == IF c.left \in Clocks THEN MarkAsInputIfReversed(st.signals, s2) ELSE st.signals
             both == IF c.right \in Clocks THEN MarkAsInputIfReversed(right, s1) ELSE right
             x == [st EXCEPT !.signals = both]
             r == Connect(x, s1, s2, c.type)
  <2>1. q \in Candidates(c, k) /\ q \in Positions(c.right)
    BY <1>3, CandidatesAre
  <2>2. s1 \in Signal /\ s2 \in Signal /\ s1 # s2
    BY <1>1, <2>1, PositionsAre
  <2>3. Marks(c, s1, s2, st.signals, both)
    <3> HIDE DEF s1, s2
    <3> QED
      BY <1>1, <2>2, MarksAre
  <2>4. ConnectSignal(st, c, k) = r
    BY <1>3 DEF ConnectSignal
  <2> HIDE DEF both, q
  <2>5. x \in Links /\ x.signals = both /\ x.ok = st.ok
    BY <2>3 DEF Links, Marks
  <2> DEFINE p == WhichSignalPropagates(both[s1].type, both[s2].type, c.type)
  <2>6. /\ r \in Links /\ Joins(both, s1, s2, c.type, r.signals)
        /\ r.ok => /\ st.ok /\ (p[1] \/ p[2])
                   /\ c.type = "Peer" => \A s \in {s1, s2} : both[s].type = "Input" => Len(r.signals[s].connected) = 1
    <3> HIDE DEF s1, s2, x
    <3>1. ConnectedInto(x, s1, s2, c.type, r)
      BY <1>1, <2>2, <2>5, ConnectIs
    <3> HIDE DEF r
    <3> QED
      BY <2>5, <3>1 DEF ConnectedInto
  <2> HIDE DEF r, x
  <2>7. ASSUME r.ok
        PROVE  Built(r.signals) /\ Blank(r.signals)
    <3>1. Built(st.signals) /\ Blank(st.signals)
      BY <2>6, <2>7 DEF Sound
    <3>2. s1 = <<c.left, k>> /\ s2 = <<c.right, q>>
      OBVIOUS
    <3> HIDE DEF s1, s2
    <3> QED
      BY <2>1, <2>2, <2>3, <2>6, <2>7, <3>1, <3>2, JoinKeeps
  <2> QED
    BY <2>4, <2>6, <2>7 DEF Sound
<1> QED
  BY <1>2, <1>3

\* A call of ConnectInterfaceGroup.
LEMMA ConnectedIsSound ==
  ASSUME NEW c \in Connections, c \in ConnectCalls, NotToItself, Built(signals), Blank(signals), Connected(c).ok
  PROVE  Built(Connected(c).signals) /\ Blank(Connected(c).signals)
<1> DEFINE i == c.left
           n == Len(Description[i])
           st == [signals |-> signals, ok |-> TRUE]
           places == [k \in Positions(i) |-> k]
           Step(x, k) == IF InGroup(i, k, c.group) THEN ConnectSignal(x, c, k) ELSE x
           Value(h, S) == IF S = {} THEN st ELSE Step(h[S \ {Max(S)}], places[Max(S)])
           fold == CHOOSE h : h = [S \in SUBSET (DOMAIN places) |-> Value(h, S)]
           T == {x \in Links : Sound(x)}
<1>1. n \in Nat /\ Positions(i) = 1..n
  <2>1. i \in Interfaces
    BY DEF Connections
  <2> HIDE DEF i
  <2> QED
    BY <2>1, PositionsAre
<1>2. DOMAIN places = 1..n /\ \A k \in 1..n : places[k] = k
  BY <1>1
<1>3. Connected(c) = fold[DOMAIN places]
  BY DEF Connected, FoldLeft, MapThenFoldSet
<1> HIDE DEF n, places
<1>4. ASSUME NEW x \in T, NEW k \in 1..n
      PROVE  Step(x, k) \in T
  <2>1. c.left # c.right
    BY DEF NotToItself
  <2>2. CASE InGroup(i, k, c.group)
    <3>1. k \in Positions(c.left)
      BY <1>1
    <3> QED
      BY <2>1, <2>2, <3>1, ConnectSignalKeeps
  <2>3. CASE ~InGroup(i, k, c.group)
    BY <2>3
  <2> QED
    BY <2>2, <2>3
<1> HIDE DEF Step
<1> DEFINE H == [k \in 1..n |-> [x \in T |-> Step(x, k)]]
<1>5. H \in [1..n -> [T -> T]] /\ st \in T
  <2>1. H \in [1..n -> [T -> T]]
    <3> HIDE DEF T
    <3> QED
      BY <1>4
  <2>2. st \in Links /\ Sound(st)
    BY DEF Links, Sound, Built
  <2> QED
    BY <2>1, <2>2
<1> HIDE DEF T, st
<1>6. PICK h \in [SUBSET (1..n) -> T] :
        \A S \in SUBSET (1..n) : h[S] = IF S = {} THEN st ELSE H[Max(S)][h[S \ {Max(S)}]]
  <2> HIDE DEF H
  <2>1. \E h : FoldsFrom(h, n, T, st, H)
    BY <1>1, <1>5, FoldExists
  <2> QED
    BY <2>1 DEF FoldsFrom
<1>7. \A S \in SUBSET (1..n) : h[S] = Value(h, S)
  <2> SUFFICES ASSUME NEW S \in SUBSET (1..n), S # {}
               PROVE  h[S] = Step(h[S \ {Max(S)}], places[Max(S)])
    BY <1>6
  <2>1. Max(S) \in 1..n /\ S \ {Max(S)} \in SUBSET (1..n)
    BY <1>1, MaxOfPlaces
  <2> QED
    BY <1>2, <1>6, <2>1
<1>8. fold = [S \in SUBSET (1..n) |-> Value(fold, S)]
  <2> HIDE DEF Value
  <2>1. h = [S \in SUBSET (DOMAIN places) |-> Value(h, S)]
    BY <1>2, <1>6, <1>7
  <2> QED
    BY <1>2, <2>1
<1> HIDE DEF fold
<1>9. fold[{}] = st
  BY <1>8
<1>10. ASSUME NEW k \in 1..n, fold[1..(k - 1)] \in T
       PROVE  fold[1..k] = H[k][fold[1..(k - 1)]]
  <2>0. n \in Nat
    BY <1>1
  <2>1. 1..k # {} /\ Max(1..k) = k /\ (1..k) \ {k} = 1..(k - 1) /\ 1..k \in SUBSET (1..n)
    BY <2>0, MaxOfInterval
  <2>2. fold[1..k] = Value(fold, 1..k)
    <3> HIDE DEF Value
    <3> QED
      BY <1>8, <2>1
  <2>3. fold[1..k] = Step(fold[1..(k - 1)], k)
    BY <1>2, <2>1, <2>2
  <2> QED
    BY <1>10, <2>3
<1>11. \E f : FoldsUpTo(f, n, T, st, H, fold[1..n])
  <2>1. n \in Nat /\ st \in T
    BY <1>1, <1>5
  <2> HIDE DEF H
  <2>2. IsFold(fold, n, T, st, H)
    BY <1>9, <1>10 DEF IsFold
  <2> QED
    BY <1>5, <2>1, <2>2, FoldPrefixes
<1>12. fold[1..n] \in T
  <2>1. PICK f \in [0..n -> T] : f[n] = fold[1..n]
    BY <1>11 DEF FoldsUpTo
  <2>2. n \in 0..n
    BY <1>1
  <2> QED
    BY <2>1, <2>2
<1> QED
  BY <1>2, <1>3, <1>12 DEF T, Sound

\* What propagation leaves of the signals.
SameButBits(a, b) ==
  /\ a \in Sigs /\ b \in Sigs
  /\ \A t \in Signal : /\ b[t].type = a[t].type /\ b[t].connected = a[t].connected
                       /\ b[t].propagates = a[t].propagates

\* In what has been built no interface is connected with itself.
LEMMA BuiltIsApart ==
  ASSUME NEW sig, Built(sig)
  PROVE  sig \in Sigs /\ Apart(sig)
<1>1. sig \in Sigs /\ BothWays(sig)
  BY DEF Built
<1>2. \A s \in Signal : ToSet(sig[s].connected) \subseteq Signal
  BY <1>1, ReachedTyped
<1> QED
  BY <1>1, <1>2 DEF Apart, BothWays

\* What has been built does not depend on the values of the signals.
LEMMA BuiltStays ==
  ASSUME NEW a, NEW b, Built(a), SameButBits(a, b)
  PROVE  Built(b)
<1>1. a \in Sigs /\ b \in Sigs /\ \A s \in Signal : ToSet(a[s].connected) \subseteq Signal
  BY BuiltIsApart, ReachedTyped DEF SameButBits
<1>2. TypesKept(b) /\ DrivenBySome(b)
  BY DEF SameButBits, Built, TypesKept, DrivenBySome
<1>3. BothWays(b)
  BY <1>1 DEF SameButBits, Built, BothWays
<1>4. OneInput => InputAtAnEnd(b)
  BY <1>1 DEF SameButBits, Built, InputAtAnEnd
<1> QED
  BY <1>1, <1>2, <1>3, <1>4 DEF Built

\* Each signal is as it was, or the process sensitive to it has been put on the list.
Told(st, after) ==
  /\ after \in States /\ st.notified \subseteq after.notified
  /\ \A t \in Signal : after.signals[t] = st.signals[t] \/ Noticed(after, t)

\* The inputs have the values of what drives them, unless the interface of that is in X
\* and has yet to propagate.
Drives(sig, s) == sig[s].type \in {"Output", "Strap"} /\ sig[s].propagates
Undelivered(sig, X) ==
  \A s \in Signal : Drives(sig, s) =>
    \A t \in ToSet(sig[s].connected) :
      sig[t].type = "Input" => sig[t].bit = sig[s].bit \/ (sig[s].modified /\ s[1] \in X)
DriversKept(a, b) == \A s \in Signal : a[s].type \in {"Output", "Strap"} => b[s] = a[s]

\* An input that is reached is driven by one signal.
LEMMA OneDriver ==
  ASSUME Peers, OneInput, NEW sig, Built(sig), NEW s \in Signal, sig[s].propagates, NEW t \in ToSet(sig[s].connected)
  PROVE  /\ t \in Signal /\ sig[t].type = "Input"
         /\ \A x \in Signal : t \in ToSet(sig[x].connected) => x = s
<1>1. sig \in Sigs /\ t \in Signal /\ BothWays(sig) /\ InputAtAnEnd(sig) /\ DrivenBySome(sig)
  BY ReachedTyped DEF Built
<1>2. sig[t].type = "Input"
  <2>1. sig[s].type # "Input"
    BY <1>1 DEF DrivenBySome
  <2> QED
    BY <1>1, <2>1 DEF InputAtAnEnd
<1>3. Len(sig[t].connected) <= 1
  BY <1>1, <1>2 DEF DrivenBySome
<1> DEFINE d == sig[t].connected
<1>4. \A x \in ToSet(d), y \in ToSet(d) : x = y
  <2>1. d \in Seq(Signal) /\ Len(d) <= 1
    BY <1>1, <1>3, ReachedTyped
  <2> HIDE DEF d
  <2>2. Len(d) \in Nat /\ DOMAIN d = 1..Len(d)
    BY <2>1
  <2> QED
    BY <2>1, <2>2 DEF ToSet
<1>5. \A x \in Signal : t \in ToSet(sig[x].connected) => x \in ToSet(d)
  BY <1>1 DEF BothWays
<1> QED
  BY <1>1, <1>2, <1>4, <1>5

\* Propagation keeps what has been built, and tells the processes it concerns.
LEMMA SentIsKept ==
  ASSUME NEW st \in States, NEW after, NEW S \in SUBSET Signal, SentBy(st, after, S), NEW before, Told(before, st)
  PROVE  SameButBits(st.signals, after.signals) /\ Told(before, after)
<1>1. SameButBits(st.signals, after.signals)
  BY SentKeeps DEF SameButBits, States
<1>2. ASSUME NEW t \in Signal
      PROVE  after.signals[t] = before.signals[t] \/ Noticed(after, t)
  <2>1. CASE after.signals[t] = st.signals[t]
    <3>1. Noticed(st, t) => Noticed(after, t)
      BY <2>1, NoticedDepends DEF SentBy
    <3> QED
      BY <2>1, <3>1 DEF Told
  <2>2. CASE Noticed(after, t)
    BY <2>2
  <2> QED
    BY <2>1, <2>2 DEF SentBy
<1> QED
  BY <1>1, <1>2 DEF Told, SentBy

\* When an interface propagates, its inputs elsewhere have been served, and no driver has changed.
LEMMA SentDelivers ==
  ASSUME Peers, OneInput, NEW st \in States, NEW after, NEW i \in Interfaces, SentBy(st, after, SignalsOf(i)),
         Built(st.signals), NEW X, Undelivered(st.signals, X)
  PROVE  Undelivered(after.signals, X \ {i}) /\ DriversKept(st.signals, after.signals)
<1> DEFINE a == st.signals
           b == after.signals
<1>1. SignalsOf(i) \subseteq Signal /\ \A s \in Signal : s[1] = i <=> s \in SignalsOf(i)
  <2>1. SignalsOf(i) \subseteq Signal
    BY PositionsAre DEF SignalsOf
  <2>2. \A s \in Signal : s[1] = i => s \in SignalsOf(i)
    BY SignalIs DEF SignalsOf
  <2>3. \A s \in SignalsOf(i) : s[1] = i
    BY DEF SignalsOf
  <2> QED
    BY <2>1, <2>2, <2>3
<1>2. a \in Sigs /\ b \in Sigs /\ SameButBits(a, b)
  <2>1. b \in Sigs
    BY DEF SentBy, States
  <2> QED
    BY <1>1, <2>1, SentKeeps DEF SameButBits, States
<1>3. \A t \in Signal :
        \/ b[t] = a[t] /\ \A s \in SignalsOf(i) : t \notin Reached(a, s)
        \/ \E s \in SignalsOf(i) : t \in Reached(a, s) /\ b[t] = Given(a[t], a[s].bit)
  BY DEF SentBy
<1>4. ASSUME NEW s \in Signal, NEW t \in Reached(a, s)
      PROVE  /\ t \in Signal /\ a[t].type = "Input" /\ a[s].propagates /\ a[s].modified
             /\ t \in ToSet(a[s].connected)
             /\ \A x \in Signal : t \in ToSet(a[x].connected) => x = s
  <2>1. a[s].propagates /\ a[s].modified /\ t \in ToSet(a[s].connected)
    BY DEF Reached
  <2> QED
    BY <2>1, OneDriver
<1> HIDE DEF a, b
<1>5. DriversKept(a, b)
  BY <1>1, <1>3, <1>4 DEF DriversKept
<1>6. ASSUME NEW s \in Signal, Drives(b, s), NEW t \in ToSet(b[s].connected)
      PROVE  b[t].bit = b[s].bit \/ (b[s].modified /\ s[1] \in X \ {i})
  <2>1. Drives(a, s) /\ t \in ToSet(a[s].connected) /\ a[s].propagates /\ b[s] = a[s]
    BY <1>2, <1>5, <1>6 DEF Drives, SameButBits, DriversKept
  <2>2. /\ t \in Signal /\ a[t].type = "Input"
        /\ \A x \in Signal : t \in ToSet(a[x].connected) => x = s
    BY <2>1, OneDriver DEF a
  <2>3. a[t].bit = a[s].bit \/ (a[s].modified /\ s[1] \in X)
    BY <2>1, <2>2 DEF Undelivered, a
  <2>4. CASE t \in Reached(a, s) /\ s[1] = i
    <3>1. PICK x \in SignalsOf(i) : t \in Reached(a, x) /\ b[t] = Given(a[t], a[x].bit)
      BY <1>1, <1>3, <2>2, <2>4
    <3>2. x = s
      BY <1>1, <1>4, <2>2, <3>1
    <3>3. a[t] \in SigRec /\ a[s].bit \in Values
      BY <1>2, <2>2, SigFields DEF Sigs
    <3> QED
      BY <2>1, <3>1, <3>2, <3>3, GivenIs
  <2>5. CASE ~(t \in Reached(a, s) /\ s[1] = i)
    <3>1. b[t] = a[t]
      <4>1. \A x \in SignalsOf(i) : t \notin Reached(a, x)
        BY <1>1, <1>4, <2>2, <2>5
      <4> QED
        BY <1>3, <2>2, <4>1
    <3>2. CASE s[1] = i
      <4>1. ~a[s].modified
        BY <2>1, <2>5, <3>2 DEF Reached
      <4> QED
        BY <2>1, <2>3, <3>1, <4>1
    <3>3. CASE s[1] # i
      BY <2>1, <2>3, <3>1, <3>3
    <3> QED
      BY <3>2, <3>3
  <2> QED
    BY <2>4, <2>5
<1>7. Undelivered(b, X \ {i})
  BY <1>6 DEF Undelivered
<1> QED
  BY <1>5, <1>7 DEF a, b

\* The interfaces that ran propagate, each in its turn.
LEMMA AllSend ==
  ASSUME NEW st \in States, Built(st.signals), NEW seq \in Seq(Interfaces)
  PROVE  LET after == FoldLeft(PropagateInterfaceSignals, st, seq)
         IN /\ SameButBits(st.signals, after.signals) /\ Told(st, after)
            /\ Peers /\ OneInput /\ Undelivered(st.signals, ToSet(seq))
               => Undelivered(after.signals, {}) /\ DriversKept(st.signals, after.signals)
<1> DEFINE n == Len(seq)
           Step(x, k) == PropagateInterfaceSignals(x, seq[k])
           Value(h, S) == IF S = {} THEN st ELSE Step(h[S \ {Max(S)}], Max(S))
           fold == CHOOSE h : h = [S \in SUBSET (DOMAIN seq) |-> Value(h, S)]
           T == {x \in States : Built(x.signals)}
           Left(k) == {seq[m] : m \in (k + 1)..n}
           Sure == Peers /\ OneInput /\ Undelivered(st.signals, ToSet(seq))
<1>1. n \in Nat /\ DOMAIN seq = 1..n /\ \A k \in 1..n : seq[k] \in Interfaces
  OBVIOUS
<1>2. ToSet(seq) = Left(0) /\ Left(n) = {}
  BY <1>1 DEF ToSet
<1>3. FoldLeft(PropagateInterfaceSignals, st, seq) = fold[1..n]
  BY <1>1 DEF FoldLeft, MapThenFoldSet
<1> HIDE DEF n
<1>4. ASSUME NEW x \in T, NEW k \in 1..n
      PROVE  /\ SentBy(x, Step(x, k), SignalsOf(seq[k])) /\ Step(x, k) \in T
             /\ SameButBits(x.signals, Step(x, k).signals)
  <2>1. SentBy(x, Step(x, k), SignalsOf(seq[k]))
    BY <1>1, BuiltIsApart, InterfaceSends
  <2>2. SignalsOf(seq[k]) \in SUBSET Signal
    BY <1>1, PositionsAre DEF SignalsOf
  <2>3. Told(x, x)
    BY DEF Told
  <2>4. SameButBits(x.signals, Step(x, k).signals)
    BY <2>1, <2>2, <2>3, SentIsKept
  <2>5. Built(Step(x, k).signals)
    BY <2>4, BuiltStays
  <2> QED
    BY <2>1, <2>4, <2>5 DEF SentBy
<1> HIDE DEF Step
<1> DEFINE H == [k \in 1..n |-> [x \in T |-> Step(x, k)]]
<1>5. H \in [1..n -> [T -> T]] /\ st \in T
  <2>1. H \in [1..n -> [T -> T]]
    <3> HIDE DEF T
    <3> QED
      BY <1>4
  <2> QED
    BY <2>1
<1> HIDE DEF T
<1>6. PICK h \in [SUBSET (1..n) -> T] :
        \A S \in SUBSET (1..n) : h[S] = IF S = {} THEN st ELSE H[Max(S)][h[S \ {Max(S)}]]
  <2> HIDE DEF H
  <2>1. \E h : FoldsFrom(h, n, T, st, H)
    BY <1>1, <1>5, FoldExists
  <2> QED
    BY <2>1 DEF FoldsFrom
<1>7. \A S \in SUBSET (1..n) : h[S] = Value(h, S)
  <2> SUFFICES ASSUME NEW S \in SUBSET (1..n), S # {}
               PROVE  h[S] = Step(h[S \ {Max(S)}], Max(S))
    BY <1>6
  <2>1. Max(S) \in 1..n /\ S \ {Max(S)} \in SUBSET (1..n)
    BY <1>1, MaxOfPlaces
  <2> QED
    BY <1>6, <2>1
<1>8. fold = [S \in SUBSET (1..n) |-> Value(fold, S)]
  <2> HIDE DEF Value
  <2>1. h = [S \in SUBSET (DOMAIN seq) |-> Value(h, S)]
    BY <1>1, <1>6, <1>7
  <2> QED
    BY <1>1, <2>1
<1> HIDE DEF fold
<1>9. fold[{}] = st
  BY <1>8
<1>10. ASSUME NEW k \in 1..n, fold[1..(k - 1)] \in T
       PROVE  fold[1..k] = H[k][fold[1..(k - 1)]]
  <2>0. n \in Nat
    BY <1>1
  <2>1. 1..k # {} /\ Max(1..k) = k /\ (1..k) \ {k} = 1..(k - 1) /\ 1..k \in SUBSET (1..n)
    BY <2>0, MaxOfInterval
  <2>2. fold[1..k] = Value(fold, 1..k)
    <3> HIDE DEF Value
    <3> QED
      BY <1>8, <2>1
  <2>3. fold[1..k] = Step(fold[1..(k - 1)], k)
    BY <2>1, <2>2
  <2> QED
    BY <1>10, <2>3
<1>11. \E f : FoldsUpTo(f, n, T, st, H, fold[1..n])
  <2>1. n \in Nat /\ st \in T
    BY <1>1, <1>5
  <2> HIDE DEF H
  <2>2. IsFold(fold, n, T, st, H)
    BY <1>9, <1>10 DEF IsFold
  <2> QED
    BY <1>5, <2>1, <2>2, FoldPrefixes
<1>12. PICK f \in [0..n -> T] : /\ f[0] = st /\ f[n] = fold[1..n]
                                /\ \A k \in 1..n : f[k] = H[k][f[k - 1]]
  BY <1>11 DEF FoldsUpTo
<1> DEFINE Right(k) == /\ SameButBits(st.signals, f[k].signals) /\ Told(st, f[k])
                       /\ Sure => Undelivered(f[k].signals, Left(k)) /\ DriversKept(st.signals, f[k].signals)
           R == {k \in 0..n : Right(k)}
<1>13. 0 \in R
  <2>1. 0 \in 0..n
    BY <1>1
  <2>2. SameButBits(st.signals, st.signals) /\ Told(st, st) /\ DriversKept(st.signals, st.signals)
    BY DEF SameButBits, Told, DriversKept, States
  <2> HIDE DEF Left
  <2>3. Right(0)
    BY <1>2, <1>12, <2>2
  <2> HIDE DEF Right
  <2> QED
    BY <2>1, <2>3
<1>14. ASSUME NEW k \in 1..n, k - 1 \in R
       PROVE  k \in R
  <2>1. k - 1 \in 0..n /\ k \in 0..n /\ f[k - 1] \in T /\ seq[k] \in Interfaces
    <3>1. k - 1 \in 0..n /\ k \in 0..n
      BY <1>1
    <3> QED
      BY <1>1, <1>12, <3>1
  <2>2. f[k] = Step(f[k - 1], k)
    BY <1>12, <2>1
  <2>3. SentBy(f[k - 1], f[k], SignalsOf(seq[k])) /\ SameButBits(f[k - 1].signals, f[k].signals)
    BY <1>4, <2>1, <2>2
  <2>4. f[k - 1] \in States /\ Built(f[k - 1].signals)
    BY <2>1 DEF T
  <2>5. Right(k - 1)
    BY <1>14
  <2> HIDE DEF Left, Sure
  <2>6. SameButBits(st.signals, f[k].signals)
    BY <2>3, <2>5 DEF SameButBits
  <2>7. Told(st, f[k])
    <3>1. SignalsOf(seq[k]) \in SUBSET Signal
      BY <2>1, PositionsAre DEF SignalsOf
    <3> QED
      BY <2>3, <2>4, <2>5, <3>1, SentIsKept
  <2>8. ASSUME Sure
        PROVE  Undelivered(f[k].signals, Left(k)) /\ DriversKept(st.signals, f[k].signals)
    <3>1. Undelivered(f[k].signals, Left(k - 1) \ {seq[k]}) /\ DriversKept(f[k - 1].signals, f[k].signals)
      BY <2>1, <2>3, <2>4, <2>5, <2>8, SentDelivers DEF Sure
    <3>2. Left(k - 1) \ {seq[k]} \subseteq Left(k)
      <4>1. ((k - 1) + 1)..n = {k} \cup ((k + 1)..n)
        BY <1>1
      <4> QED
        BY <4>1 DEF Left
    <3>3. Undelivered(f[k].signals, Left(k))
      BY <3>1, <3>2 DEF Undelivered
    <3>4. DriversKept(st.signals, f[k].signals)
      BY <2>5, <2>6, <2>8, <3>1 DEF DriversKept, SameButBits
    <3> QED
      BY <3>3, <3>4
  <2>9. Right(k)
    BY <2>6, <2>7, <2>8
  <2> HIDE DEF Right
  <2> QED
    BY <2>1, <2>9
<1>15. n \in R
  <2> HIDE DEF R
  <2>1. \A k \in 1..n : k - 1 \in R => k \in R
    BY <1>14
  <2>2. n \in 0..n /\ n \in Nat
    BY <1>1
  <2> QED
    BY <1>13, <2>1, <2>2, PrefixInduction
<1>16. Right(n)
  BY <1>15
<1> QED
  BY <1>2, <1>3, <1>12, <1>16

-----------------------------------------------------------------------------
(* The invariant.                                                          *)

Kept == /\ assigned \in [Signal -> Values \cup {None}]
        /\ access \in [Interfaces -> [attr : 0..10, pos : 0..10]]
        /\ \A i \in Interfaces : access[i].attr \in Positions(i) \cup {0}
        /\ synchronous \subseteq Interfaces /\ notified \subseteq Interfaces /\ step \in Nat \ {0}
Unstarted == scheduled = {} => /\ Blank(signals) /\ edge = None
                               /\ \A s \in Signal : assigned[s] = None
InDelta == /\ edge \in Clocks \cup {None} /\ running \in Interfaces \cup {None} /\ ran \in Seq(Interfaces)
           /\ edge = None => running = None /\ ran = << >>
ByScheduled == /\ \A x \in scheduled : /\ x[1] \notin Asynchronous
                                       /\ x[1] \in Clocks => x[1] = x[2]
               /\ (ToSet(ran) \cup {running}) \cap (Clocks \cup Asynchronous) = {}

SignalsInv == Built(signals) /\ Kept /\ Unstarted /\ InDelta /\ ByScheduled

\* What no access leaves behind, if no interface is accessed in both ways.
Subscripts == \A i \in Interfaces : access[i].pos = 0 /\ (access[i].attr # 0 => i \in ComparedByName)

UndeliveredByRan == Undelivered(signals, ToSet(ran) \cup {running})

-----------------------------------------------------------------------------
(* What the steps do to the signals.                                       *)

\* An assignment gives the value to the one signal.
LEMMA UpdateIs ==
  ASSUME NEW sig \in Sigs, NEW s \in Signal, NEW v \in Values
  PROVE  LET u == Update(sig, s, v)
         IN /\ SameButBits(sig, u) /\ u[s].bit = v
            /\ \A t \in Signal : t # s => u[t] = sig[t]
            /\ u[s] = sig[s] \/ u[s].modified
<1> DEFINE x == sig[s]
           y == IF x.type # "Strap" /\ x.bit = v THEN x
                ELSE [x EXCEPT !.bit = v, !.modified = TRUE, !.strapped = x.type = "Strap"]
           u == Update(sig, s, v)
<1>1. x \in SigRec
  BY DEF Sigs
<1>2. u = [sig EXCEPT ![s] = y]
  BY DEF Update
<1>3. /\ y \in SigRec /\ y.bit = v /\ (y = x \/ y.modified) /\ y.type = x.type
      /\ y.connected = x.connected /\ y.propagates = x.propagates
  <2>1. CASE x.type # "Strap" /\ x.bit = v
    BY <1>1, <2>1
  <2>2. CASE ~(x.type # "Strap" /\ x.bit = v)
    <3> DEFINE b == x.type = "Strap"
    <3>1. b \in BOOLEAN
      OBVIOUS
    <3>2. y = [x EXCEPT !.bit = v, !.modified = TRUE, !.strapped = b]
      BY <2>2
    <3> HIDE DEF b, y
    <3> QED
      BY <1>1, <3>1, <3>2 DEF SigRec
  <2> QED
    BY <2>1, <2>2
<1> HIDE DEF y, u, x
<1>4. u \in Sigs /\ u[s] = y /\ \A t \in Signal : t # s => u[t] = sig[t]
  BY <1>2, <1>3 DEF Sigs
<1>5. SameButBits(sig, u)
  BY <1>3, <1>4 DEF SameButBits, x
<1> QED
  BY <1>3, <1>4, <1>5 DEF u, x

\* The signal of a clock.
LEMMA ClockSignal ==
  ASSUME NEW c \in Clocks
  PROVE  /\ c \in Interfaces /\ <<c, 1>> \in Signal /\ SignalsOf(c) = {<<c, 1>>}
         /\ \A sig : Built(sig) => sig[<<c, 1>>].type = "Output"
<1>1. c \in Interfaces /\ Modifier[c] = "None" /\ Len(Description[c]) = 1 /\ Description[c][1].type = "Output"
  BY SignalsAssumption
<1>2. Positions(c) = {1}
  <2>1. Positions(c) = 1..1
    BY <1>1, PositionsAre
  <2> QED
    BY <2>1
<1>3. <<c, 1>> \in Signal /\ SignalsOf(c) = {<<c, 1>>}
  BY <1>1, <1>2, PositionsAre DEF SignalsOf
<1>4. TypeOf(c, 1) = "Output"
  BY <1>1 DEF TypeOf
<1>5. \A sig : Built(sig) => sig[<<c, 1>>].type = "Output"
  BY <1>1, <1>3, <1>4 DEF Built, TypesKept
<1> QED
  BY <1>1, <1>3, <1>5

\* The state that propagation starts from.
LEMMA StatesAre ==
  ASSUME SignalsInv
  PROVE  State \in States /\ State.signals = signals /\ State.notified = notified
BY DEF SignalsInv, Built, Kept, State, States

\* A clock's edge: its signal changes, and is sent to all it is connected to.
LEMMA ClockEdgeIs ==
  ASSUME SignalsInv, NEW c \in Clocks, ClockEdge(c)
  PROVE  LET s == <<c, 1>>
             toggled == Update(signals, s, 1 - signals[s].bit)
             from == [signals |-> toggled, notified |-> notified]
             after == [signals |-> signals', notified |-> notified']
         IN /\ from \in States /\ SameButBits(signals, toggled) /\ SameButBits(toggled, signals')
            /\ toggled[s].modified /\ toggled[s].bit = 1 - signals[s].bit
            /\ \A t \in Signal : t # s => toggled[t] = signals[t]
            /\ SentBy(from, after, SignalsOf(c)) /\ Told(from, after)
            /\ c \notin Asynchronous
<1> DEFINE s == <<c, 1>>
           toggled == Update(signals, s, 1 - signals[s].bit)
           from == [signals |-> toggled, notified |-> notified]
           after == [signals |-> signals', notified |-> notified']
<1>1. s \in Signal /\ signals \in Sigs /\ signals[s] \in SigRec /\ Built(signals) /\ notified \subseteq Interfaces
  BY ClockSignal DEF SignalsInv, Built, Sigs, Kept
<1>2. signals[s].bit \in Values /\ 1 - signals[s].bit \in Values /\ 1 - signals[s].bit # signals[s].bit
  BY <1>1, SigFields DEF Values
<1>3. /\ SameButBits(signals, toggled) /\ toggled[s].bit = 1 - signals[s].bit
      /\ \A t \in Signal : t # s => toggled[t] = signals[t]
      /\ toggled[s] = signals[s] \/ toggled[s].modified
  <2> DEFINE v == 1 - signals[s].bit
  <2>1. v \in Values
    BY <1>2
  <2> HIDE DEF v
  <2> QED
    BY <1>1, <2>1, UpdateIs DEF v
<1>4. toggled[s].modified
  BY <1>2, <1>3
<1>5. /\ from \in States /\ Built(from.signals) /\ Apart(from.signals)
  BY <1>1, <1>3, BuiltStays, BuiltIsApart DEF SameButBits, States
<1>6. LET st == PropagateInterfaceSignals(from, c)
      IN st.signals = signals' /\ st.notified = notified'
  BY DEF ClockEdge, State
<1>7. SentBy(from, PropagateInterfaceSignals(from, c), SignalsOf(c))
  BY <1>5, ClockSignal, InterfaceSends
<1> HIDE DEF toggled, from
<1>8. after = PropagateInterfaceSignals(from, c)
  BY <1>6, <1>7 DEF SentBy, States
<1>9. SignalsOf(c) \in SUBSET Signal /\ Told(from, from)
  BY <1>1, <1>5, ClockSignal DEF Told
<1>10. SameButBits(from.signals, signals') /\ Told(from, after)
  BY <1>5, <1>7, <1>8, <1>9, SentIsKept
<1>11. c \notin Asynchronous
  BY DEF ClockEdge, SignalsInv, ByScheduled
<1>12. from.signals = toggled
  BY DEF from
<1> QED
  BY <1>3, <1>4, <1>5, <1>7, <1>8, <1>10, <1>11, <1>12 DEF from, toggled

Assigns(s, v) ==
  /\ s \in Signal /\ SameButBits(signals, signals') /\ signals'[s].bit = v
  /\ \A t \in Signal : t # s => signals'[t] = signals[t]
  /\ signals'[s] = signals[s] \/ signals'[s].modified
  /\ signals[s].type \in {"Output", "InOut", "Strap"}

\* A process assigns to one of its own signals, the one it named if it accesses its
\* interface in one way.
LEMMA AssignIs ==
  ASSUME SignalsInv, NEW i \in Interfaces, NEW k \in Positions(i), NEW how \in {"name", "position"}, NEW v \in Values,
         Assign(i, k, how, v)
  PROVE  \E q \in Positions(i) : Assigns(<<i, q>>, v) /\ (AccessedOneWay /\ Subscripts => q = k)
<1> DEFINE a == Subscript(i, k, how)
           q == Taken(a)
<1>1. /\ access[i] \in [attr : 0..10, pos : 0..10] /\ access[i].attr \in Positions(i) \cup {0} /\ k # 0
      /\ Built(signals) /\ signals \in Sigs
  <2>1. k # 0
    BY PositionsAre
  <2> QED
    BY <2>1 DEF SignalsInv, Kept, Built
<1>2. /\ how = "name" => a.attr = k
      /\ how = "position" => a.attr = access[i].attr /\ a.pos = k
  BY <1>1 DEF Subscript
<1>3. q \in {k, access[i].attr} /\ q \in Positions(i)
  BY <1>1, <1>2 DEF Taken
<1>4. AccessedOneWay /\ Subscripts => q = k
  BY <1>1, <1>2 DEF Taken, AccessedOneWay, Subscripts, Assign, Accessed
<1> HIDE DEF q
<1>5. <<i, q>> \in Signal
  BY <1>3, PositionsAre
<1>6. signals' = Update(signals, <<i, q>>, v) /\ MayUpdate(signals, <<i, q>>)
  BY DEF Assign, q
<1>7. /\ SameButBits(signals, signals') /\ signals'[<<i, q>>].bit = v
      /\ \A t \in Signal : t # <<i, q>> => signals'[t] = signals[t]
      /\ signals'[<<i, q>>] = signals[<<i, q>>] \/ signals'[<<i, q>>].modified
  BY <1>1, <1>5, <1>6, UpdateIs
<1>8. signals[<<i, q>>].type \in {"Output", "InOut", "Strap"}
  BY <1>6 DEF MayUpdate
<1>9. Assigns(<<i, q>>, v)
  BY <1>5, <1>7, <1>8 DEF Assigns
<1> QED
  BY <1>3, <1>4, <1>9

\* The end of a delta cycle serves all inputs.
LEMMA EndDeltaIs ==
  ASSUME SignalsInv, EndDelta
  PROVE  LET after == [signals |-> signals', notified |-> notified']
         IN /\ SameButBits(signals, signals') /\ Told(State, after)
            /\ Peers /\ OneInput /\ UndeliveredByRan => Undelivered(signals', {}) /\ DriversKept(signals, signals')
<1> DEFINE st == FoldLeft(PropagateInterfaceSignals, State, ran)
           after == [signals |-> signals', notified |-> notified']
<1>1. State \in States /\ State.signals = signals /\ State.notified = notified /\ Built(signals) /\ ran \in Seq(Interfaces)
  BY StatesAre DEF SignalsInv, InDelta
<1>2. /\ SameButBits(signals, st.signals) /\ Told(State, st)
      /\ Peers /\ OneInput /\ Undelivered(signals, ToSet(ran))
         => Undelivered(st.signals, {}) /\ DriversKept(signals, st.signals)
  BY <1>1, AllSend
<1>3. st.signals = signals' /\ st.notified = notified'
  BY DEF EndDelta
<1> HIDE DEF st
<1>4. after = st
  BY <1>2, <1>3 DEF Told, States
<1>5. UndeliveredByRan => Undelivered(signals, ToSet(ran))
  <2>1. running = None /\ \A s \in Signal : s[1] # None
    BY SignalsAssumption, SignalIs DEF EndDelta
  <2> QED
    BY <2>1 DEF UndeliveredByRan, Undelivered
<1> QED
  BY <1>2, <1>3, <1>4, <1>5

\* Before the constructor's first call nothing is connected.
LEMMA InitIsBuilt ==
  ASSUME Init
  PROVE  Built(signals) /\ Blank(signals)
<1>1. \A s \in Signal : /\ signals[s] = NewSignal(s[1], s[2])
                        /\ signals[s] \in SigRec
                        /\ signals[s].type = TypeOf(s[1], s[2]) /\ signals[s].connected = << >>
                        /\ ~signals[s].propagates /\ signals[s].bit = 0
                        /\ ~signals[s].modified /\ ~signals[s].strapped
  <2> SUFFICES ASSUME NEW s \in Signal
               PROVE  /\ signals[s] = NewSignal(s[1], s[2])
                      /\ signals[s] \in SigRec
                      /\ signals[s].type = TypeOf(s[1], s[2]) /\ signals[s].connected = << >>
                      /\ ~signals[s].propagates /\ signals[s].bit = 0
                      /\ ~signals[s].modified /\ ~signals[s].strapped
    OBVIOUS
  <2>1. signals[s] = NewSignal(s[1], s[2])
    BY DEF Init
  <2>2. TypeOf(s[1], s[2]) \in Types
    BY SignalIs, TypesAre
  <2>3. << >> \in Seq(Signal) /\ 0 \in Values
    BY DEF Values
  <2> QED
    BY <2>1, <2>2, <2>3 DEF NewSignal, SigRec
<1>2. signals \in Sigs
  <2>1. signals = [s \in Signal |-> signals[s]]
    BY DEF Init
  <2> QED
    BY <1>1, <2>1 DEF Sigs
<1>3. \A s \in Signal : ToSet(signals[s].connected) = {} /\ Len(signals[s].connected) = 0
  BY <1>1 DEF ToSet
<1>4. Built(signals)
  <2>1. TypesKept(signals)
    BY <1>1 DEF TypesKept
  <2>2. BothWays(signals) /\ InputAtAnEnd(signals)
    BY <1>3 DEF BothWays, InputAtAnEnd
  <2>3. DrivenBySome(signals)
    BY <1>1, <1>3 DEF DrivenBySome
  <2> QED
    BY <1>2, <2>1, <2>2, <2>3 DEF Built
<1>5. Blank(signals)
  BY <1>1 DEF Blank
<1> QED
  BY <1>4, <1>5

\* The invariant holds initially.
LEMMA InitInv ==
  ASSUME Init
  PROVE  SignalsInv
<1>1. Built(signals) /\ Blank(signals)
  BY InitIsBuilt
<1>2. Kept
  BY DEF Init, Kept
<1>3. InDelta /\ Unstarted
  BY <1>1 DEF Init, InDelta, Unstarted
<1>4. ByScheduled
  <2>1. ToSet(ran) = {}
    BY DEF Init, ToSet
  <2>2. None \notin Clocks \cup Asynchronous
    BY SignalsAssumption
  <2> QED
    BY <2>1, <2>2 DEF Init, ByScheduled
<1> QED
  BY <1>1, <1>2, <1>3, <1>4 DEF SignalsInv

\* The calls of the constructor.
LEMMA CallsAre ==
  ASSUME step \in Nat \ {0}
  PROVE  /\ Call("connect") => Construction[step] \in Connections /\ Construction[step] \in ConnectCalls
         /\ Call("sensitive") => Construction[step] \in Sensitivities
<1>1. Construction \in Seq(Connections \cup Sensitivities)
  BY SignalsAssumption
<1>2. ASSUME step <= Len(Construction)
      PROVE  step \in DOMAIN Construction /\ Construction[step] \in Connections \cup Sensitivities
  BY <1>1, <1>2
<1>3. /\ \A c \in Connections : c.kind = "connect"
      /\ \A c \in Sensitivities : c.kind = "sensitive"
  BY DEF Connections, Sensitivities
<1> QED
  BY <1>2, <1>3 DEF Call, ConnectCalls, ToSet

\* A call of ConnectInterfaceGroup keeps the invariant and the blank values.
LEMMA ConnectInv ==
  ASSUME NotToItself, SignalsInv, Call("connect"), ConnectInterfaceGroup(Construction[step])
  PROVE  SignalsInv' /\ Blank(signals') /\ Blank(signals)
<1> DEFINE c == Construction[step]
<1>1. c \in Connections /\ c \in ConnectCalls /\ scheduled = {} /\ Blank(signals) /\ Built(signals)
  BY CallsAre DEF Call, Constructing, SignalsInv, Unstarted, Kept
<1>2. /\ Connected(c).ok /\ signals' = Connected(c).signals
      /\ synchronous' = synchronous \cup (IF c.left \in Clocks THEN {c.right} ELSE {})
                                    \cup (IF c.right \in Clocks THEN {c.left} ELSE {})
      /\ step' = step + 1
      /\ UNCHANGED <<access, sensitive, stable, scheduled, notified, edge, running, ran, assigned>>
  BY DEF ConnectInterfaceGroup
<1> HIDE DEF c
<1>3. Built(signals') /\ Blank(signals')
  BY <1>1, <1>2, ConnectedIsSound
<1>4. c.left \in Interfaces /\ c.right \in Interfaces
  BY <1>1 DEF Connections
<1>5. Kept'
  BY <1>2, <1>4 DEF SignalsInv, Kept
<1>6. Unstarted' /\ InDelta' /\ ByScheduled'
  BY <1>2, <1>3 DEF SignalsInv, Unstarted, InDelta, ByScheduled
<1> QED
  BY <1>1, <1>3, <1>5, <1>6 DEF SignalsInv

\* Elaboration schedules clocks by themselves, and no asynchronous process.
LEMMA StartInv ==
  ASSUME SignalsInv, Start
  PROVE  SignalsInv'
<1> DEFINE elaborated == ToSet(Elaborated)
           processes == elaborated \ Clocks
           A == UNION {ProcessScheduleSync(p) : p \in processes}
           B == {<<c, c, "PositiveAndNegativeEdge">> : c \in elaborated \cap Clocks}
<1>1. /\ elaborated \cap Asynchronous = {}
      /\ scheduled' = A \cup B
      /\ UNCHANGED <<signals, access, synchronous, sensitive, step, stable, notified, edge, running, ran, assigned>>
      /\ scheduled = {}
  <2>1. scheduled' = A \cup B
    BY DEF Start
  <2> HIDE DEF A, B
  <2> QED
    BY <2>1 DEF Start, Constructing
<1> HIDE DEF elaborated
<1>2. ASSUME NEW x \in scheduled'
      PROVE  x[1] \notin Asynchronous /\ (x[1] \in Clocks => x[1] = x[2])
  <2>1. CASE x \in A
    <3>1. PICK p \in processes : x \in ProcessScheduleSync(p)
      BY <2>1
    <3>2. x[1] = p
      BY <3>1 DEF ProcessScheduleSync
    <3> QED
      BY <1>1, <3>1, <3>2
  <2>2. CASE x \in B
    BY <1>1, <2>2
  <2>3. x \in A \/ x \in B
    <3> HIDE DEF A, B
    <3> QED
      BY <1>1, <1>2
  <2> QED
    BY <2>1, <2>2, <2>3
<1>3. Kept' /\ Unstarted' /\ InDelta'
  BY <1>1 DEF SignalsInv, Kept, Unstarted, InDelta
<1>4. ByScheduled'
  BY <1>1, <1>2 DEF SignalsInv, ByScheduled
<1> QED
  BY <1>1, <1>3, <1>4 DEF SignalsInv

\* An edge keeps the invariant.
LEMMA ClockEdgeInv ==
  ASSUME SignalsInv, NEW c \in Clocks, ClockEdge(c)
  PROVE  SignalsInv'
<1> DEFINE s == <<c, 1>>
           after == [signals |-> signals', notified |-> notified']
<1>1. /\ Built(signals') /\ notified' \subseteq Interfaces /\ signals[s].bit \in Values
  <2> DEFINE toggled == Update(signals, s, 1 - signals[s].bit)
             from == [signals |-> toggled, notified |-> notified]
  <2>1. /\ from \in States /\ SameButBits(signals, toggled) /\ SameButBits(toggled, signals')
        /\ Told(from, after)
    BY ClockEdgeIs
  <2> HIDE DEF toggled
  <2>2. Built(signals')
    BY <2>1, BuiltStays DEF SignalsInv
  <2>3. notified' \subseteq Interfaces
    BY <2>1 DEF Told, States
  <2>4. signals[s].bit \in Values
    <3>1. signals \in Sigs /\ s \in Signal
      BY ClockSignal DEF SignalsInv, Built
    <3> QED
      BY <3>1, SigFields DEF Sigs
  <2> QED
    BY <2>2, <2>3, <2>4
<1>2. /\ <<c, c, "PositiveAndNegativeEdge">> \in scheduled /\ edge = None
      /\ edge' = c /\ assigned' = [assigned EXCEPT ![s] = 1 - signals[s].bit]
      /\ UNCHANGED <<access, running, ran, synchronous, step, scheduled>>
  BY DEF ClockEdge, designVars
<1>3. 1 - signals[s].bit \in Values
  BY <1>1 DEF Values
<1>4. Kept' /\ Unstarted'
  BY <1>1, <1>2, <1>3 DEF SignalsInv, Kept, Unstarted
<1>5. InDelta' /\ ByScheduled'
  BY <1>2 DEF SignalsInv, InDelta, ByScheduled
<1> QED
  BY <1>1, <1>4, <1>5 DEF SignalsInv

\* A process that begins is synchronous.
LEMMA BeginInv ==
  ASSUME SignalsInv, NEW p \in Interfaces, Begin(p)
  PROVE  SignalsInv'
<1>1. /\ edge # None /\ running = None /\ IsDue(p) /\ running' = p
      /\ UNCHANGED <<signals, access, notified, edge, ran, assigned, synchronous, step, scheduled>>
  BY DEF Begin, designVars
<1>2. p \notin Clocks \cup Asynchronous
  <2>1. PICK e \in Edges : <<p, edge, e>> \in scheduled /\ p # edge
    BY <1>1 DEF IsDue
  <2> QED
    BY <2>1 DEF SignalsInv, ByScheduled
<1> QED
  BY <1>1, <1>2 DEF SignalsInv, Kept, Unstarted, InDelta, ByScheduled

\* A process that finishes joins those that ran.
LEMMA FinishInv ==
  ASSUME SignalsInv, NEW p \in Interfaces, Finish(p)
  PROVE  SignalsInv' /\ ToSet(ran') = ToSet(ran) \cup {running}
<1>1. /\ running = p /\ running' = None /\ ran' = Append(ran, p) /\ ran \in Seq(Interfaces)
      /\ UNCHANGED <<signals, access, notified, edge, assigned, synchronous, step, scheduled>>
  BY DEF Finish, designVars, SignalsInv, InDelta
<1>2. ran' \in Seq(Interfaces) /\ ToSet(ran') = ToSet(ran) \cup {p}
  <2> HIDE DEF SignalsInv
  <2> QED
    BY <1>1, AppendedSet
<1>3. None \notin Interfaces /\ Clocks \cup Asynchronous \subseteq Interfaces
  BY SignalsAssumption
<1> QED
  BY <1>1, <1>2, <1>3 DEF SignalsInv, Kept, Unstarted, InDelta, ByScheduled

\* What the subscript leaves set in an interface are positions of it.
LEMMA AccessTyped ==
  ASSUME SignalsInv, NEW i \in Interfaces, NEW k \in Positions(i), NEW how \in {"name", "position"}
  PROVE  LET a == Subscript(i, k, how)
         IN \A b \in {Clear(a), ClearAfterComparing(a)} :
              /\ b \in [attr : 0..10, pos : 0..10]
              /\ b.attr \in Positions(i) \cup {0}
<1> DEFINE a == Subscript(i, k, how)
<1>1. access[i] \in [attr : 0..10, pos : 0..10] /\ access[i].attr \in Positions(i) \cup {0}
  BY DEF SignalsInv, Kept
<1>2. k \in 1..10
  <2> DEFINE n == Len(Description[i])
  <2>1. n \in 0..10 /\ Positions(i) = 1..n
    BY PositionsAre
  <2> HIDE DEF n
  <2>2. k \in 1..n
    BY <2>1
  <2> QED
    BY <2>1, <2>2
<1>3. a \in [attr : 0..10, pos : 0..10] /\ a.attr \in Positions(i) \cup {0}
  BY <1>1, <1>2 DEF Subscript
<1> HIDE DEF a
<1>4. \A b \in {Clear(a), ClearAfterComparing(a)} :
        b \in [attr : 0..10, pos : 0..10] /\ b.attr \in Positions(i) \cup {0}
  BY <1>3 DEF Clear, ClearAfterComparing
<1> QED
  BY <1>4 DEF a

\* An assignment keeps the invariant.
LEMMA AssignInv ==
  ASSUME SignalsInv, NEW i \in Interfaces, NEW k \in Positions(i), NEW how \in {"name", "position"}, NEW v \in Values,
         Assign(i, k, how, v)
  PROVE  SignalsInv'
<1> DEFINE b == Clear(Subscript(i, k, how))
<1>1. /\ running = i /\ access' = [access EXCEPT ![i] = b]
      /\ assigned' = [assigned EXCEPT ![<<i, k>>] = v]
      /\ UNCHANGED <<notified, edge, running, ran, synchronous, step, scheduled>>
  BY DEF Assign, designVars
<1>2. Built(signals')
  <2>1. SameButBits(signals, signals')
    BY AssignIs DEF Assigns
  <2> QED
    BY <2>1, BuiltStays DEF SignalsInv
<1>3. b \in [attr : 0..10, pos : 0..10] /\ b.attr \in Positions(i) \cup {0}
  BY AccessTyped
<1> HIDE DEF b
<1>4. scheduled # {}
  <2>1. None \notin Interfaces
    BY SignalsAssumption
  <2> QED
    BY <1>1, <2>1 DEF SignalsInv, Unstarted, InDelta
<1>5. Kept'
  BY <1>1, <1>3 DEF SignalsInv, Kept
<1>6. Unstarted' /\ InDelta' /\ ByScheduled'
  BY <1>1, <1>4 DEF SignalsInv, Unstarted, InDelta, ByScheduled
<1> QED
  BY <1>2, <1>5, <1>6 DEF SignalsInv

\* A comparison keeps the invariant.
LEMMA CompareInv ==
  ASSUME SignalsInv, NEW i \in Interfaces, NEW k \in Positions(i), NEW how \in {"name", "position"}, Compare(i, k, how)
  PROVE  SignalsInv'
<1> DEFINE b == ClearAfterComparing(Subscript(i, k, how))
<1>1. /\ access' = [access EXCEPT ![i] = b]
      /\ UNCHANGED <<signals, notified, edge, running, ran, assigned, synchronous, step, scheduled>>
  BY DEF Compare, designVars
<1>2. b \in [attr : 0..10, pos : 0..10] /\ b.attr \in Positions(i) \cup {0}
  BY AccessTyped
<1> HIDE DEF b
<1> QED
  BY <1>1, <1>2 DEF SignalsInv, Kept, Unstarted, InDelta, ByScheduled

\* The end of a delta cycle keeps the invariant.
LEMMA EndDeltaInv ==
  ASSUME SignalsInv, EndDelta
  PROVE  SignalsInv'
<1>1. /\ edge # None /\ running = None /\ edge' = None /\ ran' = << >>
      /\ UNCHANGED <<access, running, assigned, synchronous, step, scheduled>>
  BY DEF EndDelta, designVars
<1>2. Built(signals') /\ notified' \subseteq Interfaces
  <2> DEFINE after == [signals |-> signals', notified |-> notified']
  <2>1. SameButBits(signals, signals') /\ Told(State, after)
    BY EndDeltaIs
  <2>2. notified' \subseteq Interfaces
    BY <2>1 DEF Told, States
  <2> QED
    BY <2>1, <2>2, BuiltStays DEF SignalsInv
<1>3. << >> \in Seq(Interfaces) /\ ToSet(<< >>) = {}
  BY DEF ToSet
<1> QED
  BY <1>1, <1>2, <1>3 DEF SignalsInv, Kept, Unstarted, InDelta, ByScheduled

\* Every step keeps the invariant.
LEMMA NextInv ==
  ASSUME NotToItself, SignalsInv, [Next]_vars
  PROVE  SignalsInv'
<1>1. CASE Call("connect") /\ ConnectInterfaceGroup(Construction[step])
  BY <1>1, ConnectInv
<1>2. CASE Call("sensitive") /\ ProcessIsSensitiveTo(Construction[step])
  BY <1>2 DEF ProcessIsSensitiveTo, SignalsInv, Kept, Unstarted, InDelta, ByScheduled
<1>3. CASE LeaveOut
  BY <1>3 DEF LeaveOut, SignalsInv, Kept, Unstarted, InDelta, ByScheduled
<1>4. CASE Start
  BY <1>4, StartInv
<1>5. CASE EndDelta
  BY <1>5, EndDeltaInv
<1>6. CASE \E c \in Clocks : ClockEdge(c)
  BY <1>6, ClockEdgeInv
<1>7. CASE \E p \in Interfaces : Begin(p) \/ Finish(p)
  BY <1>7, BeginInv, FinishInv
<1>8. CASE \E i \in Interfaces, how \in {"name", "position"} : \E k \in Positions(i) :
             Compare(i, k, how) \/ \E v \in Values : Assign(i, k, how, v)
  BY <1>8, CompareInv, AssignInv
<1>9. CASE UNCHANGED vars
  BY <1>9 DEF vars, SignalsInv, Kept, Unstarted, InDelta, ByScheduled
<1> QED
  BY <1>1, <1>2, <1>3, <1>4, <1>5, <1>6, <1>7, <1>8, <1>9 DEF Next

\* The invariant, for designs that connect no interface with itself.
LEMMA InvHolds ==
  ASSUME NotToItself
  PROVE  Spec => []SignalsInv
<1>1. Init => SignalsInv
  BY InitInv
<1>2. SignalsInv /\ [Next]_vars => SignalsInv'
  BY NextInv
<1> QED
  BY <1>1, <1>2, PTL DEF Spec

\* No access leaves a position set, nor a name where none is compared.
LEMMA SubscriptsStep ==
  ASSUME AccessedOneWay, SignalsInv, Subscripts, [Next]_vars
  PROVE  Subscripts'
<1>1. access \in [Interfaces -> [attr : 0..10, pos : 0..10]]
  BY DEF SignalsInv, Kept
<1>2. ASSUME NEW i \in Interfaces, NEW k \in Positions(i), NEW how \in {"name", "position"}, Assign(i, k, how, 0) \/ Assign(i, k, how, 1)
      PROVE  Subscripts'
  <2> DEFINE a == Subscript(i, k, how)
             b == Clear(a)
  <2>1. access' = [access EXCEPT ![i] = b] /\ Accessed(i, how)
    BY <1>2 DEF Assign
  <2>2. k # 0
    BY PositionsAre
  <2>3. how = "name" => a = [access[i] EXCEPT !.attr = k]
    BY DEF Subscript
  <2>4. how = "position" => a = [access[i] EXCEPT !.pos = k] /\ access[i].attr = 0
    BY <2>1 DEF Subscript, Accessed, AccessedOneWay, Subscripts
  <2>5. b.pos = 0 /\ b.attr = 0
    <3>1. access[i].pos = 0 /\ access[i] \in [attr : 0..10, pos : 0..10]
      BY <1>1 DEF Subscripts
    <3>2. CASE how = "name"
      BY <2>2, <2>3, <3>1, <3>2 DEF Clear
    <3>3. CASE how = "position"
      BY <2>4, <3>1, <3>3 DEF Clear
    <3> QED
      BY <3>2, <3>3
  <2> HIDE DEF b
  <2> QED
    BY <1>1, <2>1, <2>5 DEF Subscripts
<1>3. ASSUME NEW i \in Interfaces, NEW k \in Positions(i), NEW how \in {"name", "position"}, Compare(i, k, how)
      PROVE  Subscripts'
  <2> DEFINE a == Subscript(i, k, how)
             b == ClearAfterComparing(a)
  <2>1. access' = [access EXCEPT ![i] = b] /\ Accessed(i, how) /\ (how = "name" => i \in ComparedByName)
    BY <1>3 DEF Compare
  <2>2. k # 0
    BY PositionsAre
  <2>3. how = "name" => a = [access[i] EXCEPT !.attr = k]
    BY DEF Subscript
  <2>4. how = "position" => a = [access[i] EXCEPT !.pos = k] /\ access[i].attr = 0
    BY <2>1 DEF Subscript, Accessed, AccessedOneWay, Subscripts
  <2>5. b.pos = 0 /\ (b.attr # 0 => i \in ComparedByName)
    <3>1. access[i].pos = 0 /\ access[i] \in [attr : 0..10, pos : 0..10]
      BY <1>1 DEF Subscripts
    <3>2. CASE how = "name"
      BY <2>1, <2>2, <2>3, <3>1, <3>2 DEF ClearAfterComparing
    <3>3. CASE how = "position"
      BY <2>4, <3>1, <3>3 DEF ClearAfterComparing
    <3> QED
      BY <3>2, <3>3
  <2> HIDE DEF b
  <2> QED
    BY <1>1, <2>1, <2>5 DEF Subscripts
<1>4. ASSUME UNCHANGED access
      PROVE  Subscripts'
  BY <1>4 DEF Subscripts
<1>5. CASE \E i \in Interfaces, how \in {"name", "position"} : \E k \in Positions(i) :
             Compare(i, k, how) \/ \E v \in Values : Assign(i, k, how, v)
  BY <1>2, <1>3, <1>5 DEF Values
<1>6. CASE \/ Call("connect") /\ ConnectInterfaceGroup(Construction[step])
           \/ Call("sensitive") /\ ProcessIsSensitiveTo(Construction[step])
           \/ LeaveOut \/ Start \/ EndDelta
           \/ \E c \in Clocks : ClockEdge(c)
           \/ \E p \in Interfaces : Begin(p) \/ Finish(p)
           \/ UNCHANGED vars
  BY <1>4, <1>6 DEF ConnectInterfaceGroup, ProcessIsSensitiveTo, LeaveOut, Start, EndDelta, ClockEdge, Begin,
                    Finish, vars
<1> QED
  BY <1>5, <1>6 DEF Next

-----------------------------------------------------------------------------
(* What is assigned, and what is delivered.                                *)

\* More interfaces that have yet to propagate excuse more.
LEMMA UndeliveredGrows ==
  ASSUME NEW sig, NEW X, NEW Y, X \cap Interfaces \subseteq Y, Undelivered(sig, X)
  PROVE  Undelivered(sig, Y)
BY SignalIs DEF Undelivered

\* A clock delivers at once what it assigns to itself.
LEMMA ClockEdgeDelivers ==
  ASSUME Peers, OneInput, SignalsInv, HoldsWhatWasAssigned, UndeliveredByRan, NEW c \in Clocks, ClockEdge(c)
  PROVE  HoldsWhatWasAssigned' /\ UndeliveredByRan'
<1> DEFINE s == <<c, 1>>
           toggled == Update(signals, s, 1 - signals[s].bit)
           from == [signals |-> toggled, notified |-> notified]
           after == [signals |-> signals', notified |-> notified']
<1>1. /\ from \in States /\ SameButBits(signals, toggled) /\ SameButBits(toggled, signals')
      /\ toggled[s].modified /\ toggled[s].bit = 1 - signals[s].bit
      /\ \A t \in Signal : t # s => toggled[t] = signals[t]
      /\ SentBy(from, after, SignalsOf(c))
  BY ClockEdgeIs
<1>2. c \in Interfaces /\ s \in Signal /\ signals[s].type = "Output" /\ Built(signals)
  BY ClockSignal DEF SignalsInv
<1>3. /\ assigned' = [assigned EXCEPT ![s] = 1 - signals[s].bit] /\ assigned \in [Signal -> Values \cup {None}]
      /\ ran' = << >> /\ running' = None
  BY DEF ClockEdge, SignalsInv, Kept, InDelta
<1> HIDE DEF toggled
<1>4. Undelivered(toggled, {c})
  <2> SUFFICES ASSUME NEW x \in Signal, Drives(toggled, x), NEW t \in ToSet(toggled[x].connected), toggled[t].type = "Input"
               PROVE  toggled[t].bit = toggled[x].bit \/ (toggled[x].modified /\ x[1] \in {c})
    BY DEF Undelivered
  <2>1. Drives(signals, x) /\ t \in ToSet(signals[x].connected)
    BY <1>1 DEF Drives, SameButBits
  <2>2. t \in Signal
    BY <1>2, <2>1, ReachedTyped DEF Built
  <2>3. signals[t].type = "Input" /\ t # s
    BY <1>1, <1>2, <2>2 DEF SameButBits
  <2>4. signals[t].bit = signals[x].bit
    <3>1. ran = << >> /\ running = None
      BY DEF ClockEdge, SignalsInv, InDelta
    <3>2. x[1] \notin ToSet(ran) \cup {running}
      BY <3>1, SignalIs, SignalsAssumption DEF ToSet
    <3> QED
      BY <2>1, <2>3, <3>2 DEF UndeliveredByRan, Undelivered
  <2>5. CASE x = s
    BY <1>1, <2>5
  <2>6. CASE x # s
    BY <1>1, <2>2, <2>3, <2>4, <2>6
  <2> QED
    BY <2>5, <2>6
<1>5. Undelivered(signals', {c} \ {c}) /\ DriversKept(toggled, signals')
  <2>1. Built(from.signals)
    BY <1>1, <1>2, BuiltStays
  <2>2. Undelivered(from.signals, {c})
    BY <1>4
  <2> HIDE DEF from, after
  <2>3. Undelivered(after.signals, {c} \ {c}) /\ DriversKept(from.signals, after.signals)
    BY <1>1, <1>2, <2>1, <2>2, SentDelivers
  <2> QED
    BY <2>3 DEF from, after
<1>6. UndeliveredByRan'
  <2>1. Undelivered(signals', ToSet(ran') \cup {running'})
    BY <1>5, UndeliveredGrows
  <2> QED
    BY <2>1 DEF UndeliveredByRan
<1>7. HoldsWhatWasAssigned'
  <2> SUFFICES ASSUME NEW x \in Signal, signals'[x].type \in {"Output", "Strap"}, assigned'[x] # None
               PROVE  signals'[x].bit = assigned'[x]
    BY DEF HoldsWhatWasAssigned, DrivenByOwner
  <2>1. signals'[x] = toggled[x] /\ signals[x].type \in {"Output", "Strap"}
    BY <1>1, <1>5 DEF DriversKept, SameButBits
  <2>2. CASE x = s
    BY <1>1, <1>2, <1>3, <2>1, <2>2
  <2>3. CASE x # s
    BY <1>1, <1>3, <2>1, <2>3 DEF HoldsWhatWasAssigned, DrivenByOwner
  <2> QED
    BY <2>2, <2>3
<1> QED
  BY <1>6, <1>7

\* What a process assigns is left for its interface to propagate.
LEMMA AssignDelivers ==
  ASSUME Peers, OneInput, AccessedOneWay, SignalsInv, Subscripts, HoldsWhatWasAssigned, UndeliveredByRan,
         NEW i \in Interfaces, NEW k \in Positions(i), NEW how \in {"name", "position"}, NEW v \in Values,
         Assign(i, k, how, v)
  PROVE  HoldsWhatWasAssigned' /\ UndeliveredByRan'
<1> DEFINE s == <<i, k>>
<1>1. /\ s \in Signal /\ SameButBits(signals, signals') /\ signals'[s].bit = v
      /\ \A t \in Signal : t # s => signals'[t] = signals[t]
      /\ signals'[s] = signals[s] \/ signals'[s].modified
      /\ signals[s].type \in {"Output", "InOut", "Strap"}
  <2>1. PICK q \in Positions(i) : Assigns(<<i, q>>, v) /\ (AccessedOneWay /\ Subscripts => q = k)
    BY AssignIs
  <2> QED
    BY <2>1 DEF Assigns
<1>2. /\ assigned' = [assigned EXCEPT ![s] = v] /\ assigned \in [Signal -> Values \cup {None}]
      /\ UNCHANGED <<ran, running>> /\ running = i /\ Built(signals)
  BY DEF Assign, SignalsInv, Kept
<1>3. HoldsWhatWasAssigned'
  BY <1>1, <1>2 DEF HoldsWhatWasAssigned, DrivenByOwner, SameButBits
<1>4. UndeliveredByRan'
  <2> DEFINE X == ToSet(ran) \cup {running}
  <2> SUFFICES ASSUME NEW x \in Signal, Drives(signals', x), NEW t \in ToSet(signals'[x].connected),
                      signals'[t].type = "Input"
               PROVE  signals'[t].bit = signals'[x].bit \/ (signals'[x].modified /\ x[1] \in X)
    BY <1>2 DEF UndeliveredByRan, Undelivered
  <2>1. Drives(signals, x) /\ t \in ToSet(signals[x].connected)
    BY <1>1 DEF Drives, SameButBits
  <2>2. t \in Signal
    BY <1>2, <2>1, ReachedTyped DEF Built
  <2>3. signals[t].type = "Input" /\ t # s
    BY <1>1, <2>2 DEF SameButBits
  <2>4. signals[t].bit = signals[x].bit \/ (signals[x].modified /\ x[1] \in X)
    BY <2>1, <2>3 DEF UndeliveredByRan, Undelivered
  <2>5. CASE x = s
    BY <1>1, <1>2, <2>2, <2>3, <2>4, <2>5
  <2>6. CASE x # s
    BY <1>1, <2>2, <2>3, <2>4, <2>6
  <2> QED
    BY <2>5, <2>6
<1> QED
  BY <1>3, <1>4

\* Every step keeps what was assigned, and what is undelivered that of the processes that ran.
LEMMA DeliversStep ==
  ASSUME NotToItself, Peers, OneInput, AccessedOneWay, SignalsInv, Subscripts, HoldsWhatWasAssigned, UndeliveredByRan,
         [Next]_vars
  PROVE  HoldsWhatWasAssigned' /\ UndeliveredByRan'
<1>1. CASE Call("connect") /\ ConnectInterfaceGroup(Construction[step])
  <2>1. Blank(signals') /\ Built(signals')
    BY <1>1, ConnectInv DEF SignalsInv
  <2>2. \A s \in Signal : assigned'[s] = None
    BY <1>1 DEF Call, Constructing, SignalsInv, Unstarted, ConnectInterfaceGroup
  <2>3. HoldsWhatWasAssigned'
    BY <2>2 DEF HoldsWhatWasAssigned, DrivenByOwner
  <2>4. UndeliveredByRan'
    <3>1. \A s \in Signal : ToSet(signals'[s].connected) \subseteq Signal
      BY <2>1, ReachedTyped DEF Built
    <3> QED
      BY <2>1, <3>1 DEF Blank, UndeliveredByRan, Undelivered
  <2> QED
    BY <2>3, <2>4
<1>2. ASSUME UNCHANGED <<signals, assigned>>, (ToSet(ran) \cup {running}) \cap Interfaces \subseteq (ToSet(ran) \cup {running})'
      PROVE  HoldsWhatWasAssigned' /\ UndeliveredByRan'
  <2>1. HoldsWhatWasAssigned'
    BY <1>2 DEF HoldsWhatWasAssigned, DrivenByOwner
  <2>2. Undelivered(signals, (ToSet(ran) \cup {running})')
    BY <1>2, UndeliveredGrows DEF UndeliveredByRan
  <2>3. UndeliveredByRan'
    BY <1>2, <2>2 DEF UndeliveredByRan
  <2> QED
    BY <2>1, <2>3
<1>3. CASE \/ Call("sensitive") /\ ProcessIsSensitiveTo(Construction[step])
           \/ LeaveOut \/ Start \/ UNCHANGED vars
           \/ \E i \in Interfaces, how \in {"name", "position"} : \E k \in Positions(i) : Compare(i, k, how)
  <2>1. UNCHANGED <<signals, assigned, ran, running>>
    BY <1>3 DEF ProcessIsSensitiveTo, LeaveOut, Start, Compare, vars
  <2> QED
    BY <1>2, <2>1
<1>4. CASE EndDelta
  <2>1. /\ Undelivered(signals', {}) /\ DriversKept(signals, signals') /\ SameButBits(signals, signals')
        /\ UNCHANGED assigned
    BY <1>4, EndDeltaIs DEF EndDelta
  <2>2. HoldsWhatWasAssigned'
    BY <2>1 DEF HoldsWhatWasAssigned, DrivenByOwner, SameButBits, DriversKept
  <2>3. Undelivered(signals', ToSet(ran') \cup {running'})
    BY <2>1, UndeliveredGrows
  <2> QED
    BY <2>2, <2>3 DEF UndeliveredByRan
<1>5. CASE \E c \in Clocks : ClockEdge(c)
  BY <1>5, ClockEdgeDelivers
<1>6. CASE \E p \in Interfaces : Begin(p)
  <2>1. running = None /\ None \notin Interfaces /\ UNCHANGED <<signals, assigned, ran>>
    BY <1>6, SignalsAssumption DEF Begin
  <2> QED
    BY <1>2, <2>1
<1>7. CASE \E p \in Interfaces : Finish(p)
  <2>1. ToSet(ran') = ToSet(ran) \cup {running} /\ UNCHANGED <<signals, assigned>>
    BY <1>7, FinishInv DEF Finish
  <2> QED
    BY <1>2, <2>1
<1>8. CASE \E i \in Interfaces, how \in {"name", "position"} : \E k \in Positions(i) :
             \E v \in Values : Assign(i, k, how, v)
  BY <1>8, AssignDelivers
<1> QED
  BY <1>1, <1>3, <1>4, <1>5, <1>6, <1>7, <1>8 DEF Next

Notices ==
  \A p \in Asynchronous, e \in Edges : \A k \in Positions(p) :
    LET s == <<p, k>>
    IN <<s, e>> \in sensitive /\ signals'[s].bit # signals[s].bit /\ IsSensitive(signals', s, e)
       => p \in notified'

\* A process that has been told of its signals is on the list if one changed as it wants.
LEMMA ToldIsNoticed ==
  ASSUME NEW from, NEW after, Told(from, after), NEW p \in Asynchronous, NEW e \in Edges, NEW k \in Positions(p),
         <<<<p, k>>, e>> \in sensitive, after.signals[<<p, k>>].bit # from.signals[<<p, k>>].bit,
         IsSensitive(after.signals, <<p, k>>, e)
  PROVE  p \in after.notified
<1> DEFINE s == <<p, k>>
<1>1. s \in Signal /\ s[1] = p
  BY SignalsAssumption, PositionsAre
<1>2. Noticed(after, s)
  BY <1>1 DEF Told
<1>3. HasSensitiveProcess(after.signals, s)
  BY DEF HasSensitiveProcess
<1> QED
  BY <1>1, <1>2, <1>3 DEF Noticed

\* Every step puts the processes on the list that it concerns.
LEMMA NoticesStep ==
  ASSUME NotToItself, SignalsInv, [Next]_vars
  PROVE  [Notices]_vars
<1> SUFFICES ASSUME Next, NEW p \in Asynchronous, NEW e \in Edges, NEW k \in Positions(p),
                    <<<<p, k>>, e>> \in sensitive, signals'[<<p, k>>].bit # signals[<<p, k>>].bit,
                    IsSensitive(signals', <<p, k>>, e)
             PROVE  p \in notified'
  BY DEF Notices
<1> DEFINE s == <<p, k>>
<1>1. s \in Signal
  BY SignalsAssumption, PositionsAre
<1>2. CASE Call("connect") /\ ConnectInterfaceGroup(Construction[step])
  <2>1. Blank(signals) /\ Blank(signals')
    BY <1>2, ConnectInv
  <2> QED
    BY <1>1, <2>1 DEF Blank
<1>3. CASE \/ Call("sensitive") /\ ProcessIsSensitiveTo(Construction[step])
           \/ LeaveOut \/ Start
           \/ \E q \in Interfaces : Begin(q) \/ Finish(q)
           \/ \E i \in Interfaces, how \in {"name", "position"} : \E j \in Positions(i) : Compare(i, j, how)
  <2>1. UNCHANGED signals
    BY <1>3 DEF ProcessIsSensitiveTo, LeaveOut, Start, Compare, Begin, Finish
  <2> QED
    BY <2>1
<1>4. CASE EndDelta
  <2> DEFINE after == [signals |-> signals', notified |-> notified']
  <2>1. Told(State, after) /\ State.signals = signals
    BY <1>4, EndDeltaIs, StatesAre
  <2>2. p \in after.notified
    BY <2>1, ToldIsNoticed
  <2> QED
    BY <2>2
<1>5. ASSUME NEW c \in Clocks, ClockEdge(c)
      PROVE  p \in notified'
  <2> DEFINE toggled == Update(signals, <<c, 1>>, 1 - signals[<<c, 1>>].bit)
             from == [signals |-> toggled, notified |-> notified]
             after == [signals |-> signals', notified |-> notified']
  <2>1. /\ Told(from, after) /\ c \notin Asynchronous
        /\ \A t \in Signal : t # <<c, 1>> => toggled[t] = signals[t]
    BY <1>5, ClockEdgeIs
  <2> HIDE DEF toggled
  <2>2. toggled[s] = signals[s]
    BY <1>1, <2>1
  <2>3. p \in after.notified
    BY <2>1, <2>2, ToldIsNoticed
  <2> QED
    BY <2>3
<1>6. ASSUME NEW i \in Interfaces, NEW how \in {"name", "position"}, NEW j \in Positions(i), NEW v \in Values,
             Assign(i, j, how, v)
      PROVE  p \in notified'
  <2>1. PICK q \in Positions(i) : Assigns(<<i, q>>, v)
    BY <1>6, AssignIs
  <2>2. i \notin Asynchronous
    BY <1>6 DEF Assign, SignalsInv, ByScheduled
  <2>3. signals'[s] = signals[s]
    BY <1>1, <2>1, <2>2 DEF Assigns
  <2> QED
    BY <2>3
<1> QED
  BY <1>2, <1>3, <1>4, <1>5, <1>6 DEF Next

\* In every design that connects no interface with itself, an asynchronous process is put on
\* the list of those to be scheduled when a signal changes in the way it is sensitive to:
\* by a clock's edge, or by any of the interfaces that propagate at the end of a delta cycle
\* (Signal::HasSensitiveProcess, Interface::PropagateInterfaceSignals).
THEOREM ChangesAreNoticed ==
  ASSUME NotToItself
  PROVE  Spec => SensitiveNoticed
<1>1. SignalsInv /\ [Next]_vars => [Notices]_vars
  BY NoticesStep
<1>2. Spec => [][Notices]_vars
  BY <1>1, InvHolds, PTL DEF Spec
<1> QED
  BY <1>2, PTL DEF SensitiveNoticed, Notices

-----------------------------------------------------------------------------
\* The invariant implies WellConnected.
LEMMA StaysConnected ==
  ASSUME OneInput, SignalsInv, Subscripts
  PROVE  WellConnected
<1>1. signals \in Sigs /\ Apart(signals) /\ InputAtAnEnd(signals)
  BY BuiltIsApart DEF SignalsInv, Built
<1>2. ASSUME NEW s \in Signal
      PROVE  /\ signals[s].type \in Types /\ signals[s].bit \in Values
             /\ {signals[s].modified, signals[s].strapped, signals[s].propagates} \subseteq BOOLEAN
             /\ ToSet(signals[s].connected) \subseteq Signal \ {s}
             /\ assigned[s] \in Values \cup {None}
  <2>1. signals[s] \in SigRec /\ ToSet(signals[s].connected) \subseteq Signal
    BY <1>1, ReachedTyped
  <2>2. ToSet(signals[s].connected) \subseteq Signal \ {s}
    BY <1>1, <2>1 DEF Apart
  <2>3. assigned[s] \in Values \cup {None}
    BY DEF SignalsInv, Kept
  <2> QED
    BY <2>1, <2>2, <2>3, SigFields
<1>3. \A i \in Interfaces : access[i].attr \in Positions(i) \cup {0} /\ access[i].pos = 0
  BY DEF SignalsInv, Kept, Subscripts
<1>4. ToSet(ran) \subseteq Interfaces
  BY DEF SignalsInv, InDelta, ToSet
<1>5. SignalsTypeOK
  BY <1>2, <1>3, <1>4 DEF SignalsTypeOK, SignalsInv, Kept, InDelta
<1>6. OneDrives
  <2> SUFFICES ASSUME NEW s \in Signal, NEW n \in DOMAIN signals[s].connected
               PROVE  signals[s].type = "Input" \/ signals[signals[s].connected[n]].type = "Input"
    BY DEF OneDrives
  <2>1. signals[s].connected[n] \in ToSet(signals[s].connected)
    BY DEF ToSet
  <2> QED
    BY <1>1, <2>1 DEF InputAtAnEnd
<1> QED
  BY <1>5, <1>6 DEF WellConnected

\* Initially nothing is accessed.
LEMMA InitSubscripts ==
  ASSUME Init
  PROVE  Subscripts
BY DEF Init, Subscripts

\* Signals keep the types they were described with, none is connected with itself, and of two
\* that are connected one is an input (Interface::Connect, Signal::MarkAsInputIfReversed).
THEOREM SignalsStayConnected ==
  ASSUME NotToItself, OneInput, AccessedOneWay
  PROVE  Spec => []WellConnected
<1>1. Init => Subscripts
  BY InitSubscripts
<1>2. SignalsInv /\ Subscripts /\ [Next]_vars => Subscripts'
  BY SubscriptsStep
<1>3. SignalsInv /\ Subscripts => WellConnected
  BY StaysConnected
<1> QED
  BY <1>1, <1>2, <1>3, InvHolds, PTL DEF Spec

-----------------------------------------------------------------------------
\* Initially nothing is assigned, and all signals are 0.
LEMMA InitDelivers ==
  ASSUME Init
  PROVE  HoldsWhatWasAssigned /\ UndeliveredByRan
<1>1. Built(signals) /\ Blank(signals)
  BY InitIsBuilt
<1>2. \A s \in Signal : ToSet(signals[s].connected) \subseteq Signal
  BY <1>1, ReachedTyped DEF Built
<1>3. HoldsWhatWasAssigned
  BY DEF Init, HoldsWhatWasAssigned, DrivenByOwner
<1>4. UndeliveredByRan
  BY <1>1, <1>2 DEF Blank, UndeliveredByRan, Undelivered
<1> QED
  BY <1>3, <1>4

\* Between delta cycles no interface has yet to propagate.
LEMMA DeliveredFollows ==
  ASSUME SignalsInv, HoldsWhatWasAssigned, UndeliveredByRan
  PROVE  Delivered
<1> SUFFICES ASSUME edge = None, NEW s \in Signal, DrivenByOwner(s), signals[s].propagates,
                    NEW n \in DOMAIN signals[s].connected, signals[signals[s].connected[n]].type = "Input"
             PROVE  signals[signals[s].connected[n]].bit = assigned[s]
  BY DEF Delivered
<1> DEFINE t == signals[s].connected[n]
<1>1. t \in ToSet(signals[s].connected)
  BY DEF ToSet
<1>2. s[1] \notin ToSet(ran) \cup {running}
  <2>1. ran = << >> /\ running = None
    BY DEF SignalsInv, InDelta
  <2> QED
    BY <2>1, SignalIs, SignalsAssumption DEF ToSet
<1>3. signals[t].bit = signals[s].bit
  BY <1>1, <1>2 DEF UndeliveredByRan, Undelivered, Drives, DrivenByOwner
<1> QED
  BY <1>3 DEF HoldsWhatWasAssigned

\* A clock does not run as a process: its receivers have its value.
LEMMA ClockSeen ==
  ASSUME Peers, OneInput, SignalsInv, UndeliveredByRan
  PROVE  SeesItsClock
<1> SUFFICES ASSUME running # None, NEW k \in Positions(running),
                    <<edge, 1>> \in ToSet(signals[<<running, k>>].connected)
             PROVE  signals[<<running, k>>].bit = signals[<<edge, 1>>].bit
  BY DEF SeesItsClock
<1> DEFINE s == <<edge, 1>>
           t == <<running, k>>
<1>1. edge \in Clocks /\ running \in Interfaces /\ Built(signals)
  BY DEF SignalsInv, InDelta
<1>2. t \in Signal /\ s \in Signal /\ signals[s].type = "Output"
  BY <1>1, PositionsAre, ClockSignal
<1>3. t \in ToSet(signals[s].connected) /\ signals[t].type = "Input"
  BY <1>1, <1>2 DEF Built, BothWays, InputAtAnEnd
<1>4. signals[s].propagates
  <2>1. signals[s].connected # << >>
    BY <1>3 DEF ToSet
  <2> QED
    BY <1>1, <1>2, <2>1 DEF Built, DrivenBySome
<1>5. edge \notin ToSet(ran) \cup {running}
  BY <1>1 DEF SignalsInv, ByScheduled
<1> QED
  BY <1>2, <1>3, <1>4, <1>5 DEF UndeliveredByRan, Undelivered, Drives

\* The three invariants together.
LEMMA DeliveryInvariant ==
  ASSUME NotToItself, Peers, OneInput, AccessedOneWay
  PROVE  Spec => [](SignalsInv /\ HoldsWhatWasAssigned /\ UndeliveredByRan)
<1>1. Init => Subscripts /\ HoldsWhatWasAssigned /\ UndeliveredByRan
  BY InitSubscripts, InitDelivers
<1>2. /\ SignalsInv /\ Subscripts /\ HoldsWhatWasAssigned /\ UndeliveredByRan /\ [Next]_vars
      => Subscripts' /\ HoldsWhatWasAssigned' /\ UndeliveredByRan'
  BY SubscriptsStep, DeliversStep
<1> QED
  BY <1>1, <1>2, InvHolds, PTL DEF Spec

\* Among peers, an output or strap holds what its process assigned to it last, whatever is
\* propagated (Interface::operator=, Interface::PropagateInterfaceSignals).
THEOREM AssignmentsAreHeld ==
  ASSUME NotToItself, Peers, OneInput, AccessedOneWay
  PROVE  Spec => []HoldsWhatWasAssigned
BY DeliveryInvariant, PTL

\* And between delta cycles so does every input connected to it, for any number of processes
\* in any order (Interface::PropagateInterfaceSignals, Scheduler's StepC).
THEOREM AssignmentsAreDelivered ==
  ASSUME NotToItself, Peers, OneInput, AccessedOneWay
  PROVE  Spec => []Delivered
<1>1. SignalsInv /\ HoldsWhatWasAssigned /\ UndeliveredByRan => Delivered
  BY DeliveredFollows
<1> QED
  BY <1>1, DeliveryInvariant, PTL

\* Among peers, while a process runs the input it is scheduled by has the value of its clock
\* after the edge: no process that ran before it in the delta cycle has changed it (StepA).
THEOREM ClocksAreSeen ==
  ASSUME NotToItself, Peers, OneInput, AccessedOneWay
  PROVE  Spec => []SeesItsClock
<1>1. SignalsInv /\ HoldsWhatWasAssigned /\ UndeliveredByRan => SeesItsClock
  BY ClockSeen
<1> QED
  BY <1>1, DeliveryInvariant, PTL

-----------------------------------------------------------------------------
(* Elaboration.                                                            *)

\* Elaboration schedules a process for the clocks at the first connection of the signals it
\* is sensitive to.
LEMMA SyncEntries ==
  ASSUME SignalsInv, NEW p \in Interfaces, MayBeScheduled(p)
  PROVE  /\ ProcessScheduleSync(p) # {}
         /\ \A x \in ProcessScheduleSync(p) :
              /\ x[1] = p /\ x[2] \in Clocks
              /\ \E k \in Positions(p) : /\ <<<<p, k>>, x[3]>> \in sensitive
                                         /\ <<x[2], 1>> \in ToSet(signals[<<p, k>>].connected)
<1>1. ProcessScheduleSync(p) # {}
  BY DEF MayBeScheduled
<1> SUFFICES ASSUME NEW x \in ProcessScheduleSync(p)
             PROVE  /\ x[1] = p /\ x[2] \in Clocks
                    /\ \E k \in Positions(p) : /\ <<<<p, k>>, x[3]>> \in sensitive
                                               /\ <<x[2], 1>> \in ToSet(signals[<<p, k>>].connected)
  BY <1>1
<1>2. PICK y \in ClocksOf(p) : y[1] \in Clocks /\ x = <<p, y[1], y[2]>>
  BY DEF ProcessScheduleSync
<1>3. PICK z \in Positions(p) \X Edges :
        <<<<p, z[1]>>, z[2]>> \in sensitive /\ y = <<signals[<<p, z[1]>>].connected[1][1], z[2]>>
  BY DEF ClocksOf
<1> DEFINE t == <<p, z[1]>>
           d == signals[t].connected
<1>4. t \in Signal /\ d # << >> /\ d \in Seq(Signal)
  <2>1. z[1] \in Positions(p) /\ z[2] \in Edges
    BY <1>3
  <2>2. t \in Signal
    BY <2>1, PositionsAre
  <2>3. d # << >>
    BY <1>3, <2>1 DEF MayBeScheduled
  <2> QED
    BY <2>2, <2>3, ReachedTyped DEF SignalsInv, Built
<1>5. d[1] \in ToSet(d) /\ d[1] \in Signal
  <2> HIDE DEF d
  <2>1. 1 \in DOMAIN d /\ d[1] \in Signal
    BY <1>4
  <2> QED
    BY <2>1 DEF ToSet
<1>6. d[1] = <<y[1], 1>>
  <2>1. d[1][1] = y[1]
    BY <1>3
  <2>2. y[1] \in Clocks /\ SignalsOf(y[1]) = {<<y[1], 1>>}
    BY <1>2, ClockSignal
  <2> HIDE DEF d
  <2>3. d[1] = <<y[1], d[1][2]>> /\ d[1][2] \in Positions(y[1])
    BY <1>5, <2>1, SignalIs
  <2> QED
    BY <2>2, <2>3 DEF SignalsOf
<1>7. x[1] = p /\ x[2] = y[1] /\ x[3] = y[2] /\ y[2] = z[2]
  BY <1>2, <1>3
<1>8. <<<<p, z[1]>>, x[3]>> \in sensitive /\ <<x[2], 1>> \in ToSet(signals[<<p, z[1]>>].connected)
  BY <1>3, <1>5, <1>6, <1>7
<1>9. z[1] \in Positions(p)
  BY <1>3
<1> QED
  BY <1>2, <1>7, <1>8, <1>9

\* What is scheduled of a process: its edges, or its own ticks, if it was elaborated.
LEMMA StartSchedules ==
  ASSUME SignalsInv, Start
  PROVE  ScheduledAsElaborated'
<1> DEFINE A == UNION {ProcessScheduleSync(q) : q \in ToSet(Elaborated) \ Clocks}
           B == {<<c, c, "PositiveAndNegativeEdge">> : c \in ToSet(Elaborated) \cap Clocks}
           Entries(p) == {x \in A \cup B : x[1] = p}
<1>1. /\ scheduled' = A \cup B /\ UNCHANGED <<signals, sensitive, running, ran>>
      /\ \A q \in ToSet(Elaborated) \ Clocks : MayBeScheduled(q)
  <2>1. scheduled' = A \cup B
    BY DEF Start
  <2> HIDE DEF A, B
  <2> QED
    BY <2>1 DEF Start
<1>2. running = None /\ ran = << >>
  BY DEF Start, Constructing, SignalsInv, Unstarted, InDelta
<1>3. \A q : \A x \in ProcessScheduleSync(q) : x[1] = q
  BY DEF ProcessScheduleSync
<1>4. ASSUME NEW p \in Interfaces, p \in ToSet(Elaborated), p \in Clocks
      PROVE  Entries(p) # {}
  <2> DEFINE x == <<p, p, "PositiveAndNegativeEdge">>
  <2>1. x \in B /\ x[1] = p
    BY <1>4
  <2> HIDE DEF A, B, x
  <2> QED
    BY <2>1
<1>5. ASSUME NEW p \in Interfaces, p \in ToSet(Elaborated), p \notin Clocks
      PROVE  Entries(p) = ProcessScheduleSync(p)
  <2>1. ProcessScheduleSync(p) \subseteq A
    BY <1>5
  <2>2. \A x \in A : x[1] = p => x \in ProcessScheduleSync(p)
    BY <1>3
  <2>3. \A x \in B : x[1] # p
    BY <1>5
  <2> HIDE DEF A, B
  <2> QED
    BY <1>3, <2>1, <2>2, <2>3
<1>6. ASSUME NEW p \in Interfaces, p \notin ToSet(Elaborated)
      PROVE  Entries(p) = {}
  <2>1. \A x \in A : x[1] # p
    BY <1>3, <1>6
  <2>2. \A x \in B : x[1] # p
    BY <1>6
  <2> HIDE DEF A, B
  <2> QED
    BY <2>1, <2>2
<1> SUFFICES ASSUME NEW p \in Interfaces
             PROVE  IF p \in ToSet(Elaborated)
                    THEN /\ Entries(p) # {}
                         /\ p \notin Clocks => \A x \in Entries(p) :
                              /\ x[2] \in Clocks
                              /\ \E k \in Positions(p) : /\ <<<<p, k>>, x[3]>> \in sensitive
                                                         /\ <<x[2], 1>> \in ToSet(signals[<<p, k>>].connected)
                    ELSE Entries(p) = {} /\ p \notin ToSet(ran) \cup {running}
  <2> HIDE DEF A, B
  <2> QED
    BY <1>1 DEF ScheduledAsElaborated
<1>7. CASE p \in ToSet(Elaborated) /\ p \in Clocks
  <2> HIDE DEF Entries
  <2> QED
    BY <1>4, <1>7
<1>8. CASE p \in ToSet(Elaborated) /\ p \notin Clocks
  <2>1. MayBeScheduled(p)
    BY <1>1, <1>8
  <2>2. Entries(p) = ProcessScheduleSync(p)
    BY <1>5, <1>8
  <2> HIDE DEF Entries
  <2> QED
    BY <1>8, <2>1, <2>2, SyncEntries
<1>9. CASE p \notin ToSet(Elaborated)
  <2>1. p \notin ToSet(ran) \cup {running}
    BY <1>2, SignalsAssumption DEF ToSet
  <2> HIDE DEF Entries
  <2> QED
    BY <1>6, <1>9, <2>1
<1> QED
  BY <1>7, <1>8, <1>9

\* What is scheduled stays scheduled, and connected; and what is not does not begin.
LEMMA ScheduledStep ==
  ASSUME NotToItself, SignalsInv, ScheduledAsElaborated, [Next]_vars
  PROVE  ScheduledAsElaborated'
<1>1. ASSUME scheduled' = scheduled, sensitive' = sensitive \/ scheduled = {},
             scheduled # {} => \A s \in Signal : signals'[s].connected = signals[s].connected,
             \A q \in ToSet(ran') \cup {running'} :
               \/ q \in ToSet(ran) \cup {running} \cup {None}
               \/ \E x \in scheduled : x[1] = q
      PROVE  ScheduledAsElaborated'
  <2> SUFFICES ASSUME scheduled # {}, NEW p \in Interfaces
               PROVE  LET entries == {x \in scheduled : x[1] = p}
                      IN IF p \in ToSet(Elaborated)
                         THEN /\ entries # {}
                              /\ p \notin Clocks => \A x \in entries :
                                   /\ x[2] \in Clocks
                                   /\ \E k \in Positions(p) :
                                        /\ <<<<p, k>>, x[3]>> \in sensitive
                                        /\ <<x[2], 1>> \in ToSet(signals'[<<p, k>>].connected)
                         ELSE entries = {} /\ p \notin ToSet(ran') \cup {running'}
    BY <1>1 DEF ScheduledAsElaborated
  <2>1. \A k \in Positions(p) : signals'[<<p, k>>].connected = signals[<<p, k>>].connected
    BY <1>1, PositionsAre
  <2>2. p # None
    BY SignalsAssumption
  <2>3. CASE p \in ToSet(Elaborated)
    BY <2>1, <2>3 DEF ScheduledAsElaborated
  <2>4. CASE p \notin ToSet(Elaborated)
    BY <1>1, <2>2, <2>4 DEF ScheduledAsElaborated
  <2> QED
    BY <2>3, <2>4
<1>2. CASE \/ Call("connect") /\ ConnectInterfaceGroup(Construction[step])
           \/ Call("sensitive") /\ ProcessIsSensitiveTo(Construction[step])
           \/ LeaveOut
  BY <1>2 DEF Call, Constructing, ConnectInterfaceGroup, ProcessIsSensitiveTo, LeaveOut, ScheduledAsElaborated
<1>3. CASE \/ UNCHANGED vars
           \/ \E i \in Interfaces, how \in {"name", "position"} : \E k \in Positions(i) : Compare(i, k, how)
  BY <1>1, <1>3 DEF vars, Compare, designVars
<1>4. ASSUME NEW p \in Interfaces, Begin(p)
      PROVE  ScheduledAsElaborated'
  <2>1. \E x \in scheduled : x[1] = p
    <3>1. PICK e \in Edges : <<p, edge, e>> \in scheduled
      BY <1>4 DEF Begin, IsDue
    <3>2. <<p, edge, e>>[1] = p
      OBVIOUS
    <3> QED
      BY <3>1, <3>2
  <2> QED
    BY <1>1, <1>4, <2>1 DEF Begin, designVars
<1>5. ASSUME NEW p \in Interfaces, Finish(p)
      PROVE  ScheduledAsElaborated'
  <2>1. ran \in Seq(Interfaces)
    BY DEF SignalsInv, InDelta
  <2>2. ToSet(Append(ran, p)) \subseteq ToSet(ran) \cup {p}
    BY <2>1 DEF ToSet
  <2> QED
    BY <1>1, <1>5, <2>2 DEF Finish, designVars
<1>6. CASE Start
  BY <1>6, StartSchedules
<1>7. CASE EndDelta
  <2>1. ToSet(<< >>) = {}
    BY DEF ToSet
  <2> QED
    BY <1>1, <1>7, <2>1, EndDeltaIs DEF EndDelta, designVars, SameButBits
<1>8. ASSUME NEW c \in Clocks, ClockEdge(c)
      PROVE  ScheduledAsElaborated'
  <2> DEFINE toggled == Update(signals, <<c, 1>>, 1 - signals[<<c, 1>>].bit)
  <2>1. SameButBits(signals, toggled) /\ SameButBits(toggled, signals')
    BY <1>8, ClockEdgeIs
  <2> HIDE DEF toggled
  <2> QED
    BY <1>1, <1>8, <2>1 DEF SameButBits, ClockEdge, designVars
<1>9. ASSUME NEW i \in Interfaces, NEW how \in {"name", "position"}, NEW k \in Positions(i), NEW v \in Values,
             Assign(i, k, how, v)
      PROVE  ScheduledAsElaborated'
  <2>1. SameButBits(signals, signals')
    BY <1>9, AssignIs DEF Assigns
  <2> QED
    BY <1>1, <1>9, <2>1 DEF SameButBits, Assign, designVars
<1> QED
  BY <1>2, <1>3, <1>4, <1>5, <1>6, <1>7, <1>8, <1>9 DEF Next

\* Once the simulation has started, the processes that elaboration reached are scheduled, by
\* edges they are sensitive to of clocks they are connected to, and no other process is or
\* runs, wherever in the tree of modules it is (Scheduler::ProcessScheduleSync,
\* Simulator::ElaborateModuleRecursive).
THEOREM ElaboratedAreScheduled ==
  ASSUME NotToItself
  PROVE  Spec => []ScheduledAsElaborated
<1>1. Init => ScheduledAsElaborated
  BY DEF Init, ScheduledAsElaborated
<1>2. SignalsInv /\ ScheduledAsElaborated /\ [Next]_vars => ScheduledAsElaborated'
  BY ScheduledStep
<1> QED
  BY <1>1, <1>2, InvHolds, PTL DEF Spec
=============================================================================
