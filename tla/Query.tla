------------------------------- MODULE Query -------------------------------
(***************************************************************************)
(* Queries over records (src/Query.cc) and the expressions of conditions   *)
(* they are assigned.                                                      *)
(*                                                                         *)
(* A client compares attributes, which allocates conditions, combines them *)
(* with && and ||, which frees the right operand, and assigns the result to*)
(* a Query.  A Query deletes the conditions of its list when it is assigned*)
(* again and when it is destroyed.                                         *)
(*                                                                         *)
(* meaning is no field of the code: for each condition a client holds and  *)
(* for each query, the sum of products of tests that was written.          *)
(***************************************************************************)
EXTENDS Conditions

CONSTANTS
  Queries,
  Tests,             \* the comparisons clients make
  UserTests,         \* those made on a Condition of the client's own
  Written,           \* comparisons made before the first call that is modelled
  Created,           \* queries that exist by then
  Values,            \* that aggregates take and that QueryEdit writes
  ReusesProducts,    \* may a client go on with a list that && made of buckets?
  SharesTerms,       \* may it copy a list that outlives the copy, and has products?
  EmptyOperands,     \* may it combine a query that has no condition?
  MaxCalls

ASSUME QueryAssumption ==
  /\ \A b \in {ReusesProducts, SharesTerms, EmptyOperands} : b \in BOOLEAN
  /\ Tests \subseteq Comparisons /\ Cells \cap Queries = {} /\ 1..Len(Written) \subseteq Cells
  /\ Written \in Seq(Tests) /\ Created \subseteq Queries
  /\ UserTests \subseteq Tests /\ Values \subseteq Nat /\ MaxCalls \in Nat

VARIABLES
  conds,      \* cell -> Condition or Freed
  list,       \* mConditionBktList of each condition and of each query
  held,       \* conditions that clients refer to
  live,       \* queries that exist
  value,      \* of each aggregate
  meaning, calls,
  stopped     \* by a failed assertion

vars == <<conds, list, held, live, value, meaning, calls, stopped>>

Handles == Cells \cup Queries
Test(c) == [c EXCEPT !.auto = FALSE]

Owners == held \cup live
Referred(l, owners) == UNION {Elements(l[h]) : h \in owners}
State == [conds |-> conds, used |-> held \cup Referred(list, Owners), stopped |-> FALSE]

\* The state an operation leaves.  A condition to which nothing refers any more
\* has leaked, and its cell is used again.
Becomes(s, l, h, v, m) ==
  LET refs == h \cup Referred(l, h \cup v)
  IN /\ stopped' = s.stopped
     /\ IF s.stopped THEN UNCHANGED <<conds, list, held, live, meaning>>
        ELSE /\ conds' = [i \in Cells |-> IF i \in refs THEN s.conds[i] ELSE Freed]
             /\ list' = [o \in Handles |-> IF o \in h \cup v THEN l[o] ELSE Empty]
             /\ held' = h /\ live' = v
             /\ meaning' = [o \in Handles |-> IF o \in h \cup v THEN m[o] ELSE {}]

Room(n) == Cardinality(Unused(State)) >= n

Delete(s, ids) == [s EXCEPT !.conds = [i \in Cells |-> IF i \in ids THEN Freed ELSE @[i]]]
DeleteIfAuto(s, c) == IF conds[c].auto THEN Delete(s, {c}) ELSE s
Unheld(c) == IF conds[c].auto THEN held \ {c} ELSE held

Call == ~stopped /\ calls < MaxCalls /\ calls' = calls + 1

-----------------------------------------------------------------------------
(* What a sum of products says.                                            *)

ProductOf(m, n) == {a \cup b : a \in m, b \in n}
Edited(m, index, v) ==
  {{IF t.index = index THEN [t EXCEPT !.value = v] ELSE t : t \in term} : term \in m}

\* A query without conditions is defined to match every record.
True == {{}}
Satisfied(m, rec) == \E term \in m : \A t \in term : Evaluate(t, rec, value)

-----------------------------------------------------------------------------
(* Expressions of conditions.                                              *)

Made(test) == IF test \in UserTests THEN CopyOf(test) ELSE test

Compare(test) ==
  /\ Call /\ Room(1)
  /\ \A h \in Owners : \A term \in meaning[h] : Test(test) \notin term
  /\ LET i == NewCell(State)
     IN Becomes(Put(State, Made(test)), [list EXCEPT ![i] = ListOf(<<<<i>>>>)], held \cup {i}, live,
                [meaning EXCEPT ![i] = {{Test(test)}}])
  /\ UNCHANGED value

Combinable(bl) == EmptyOperands \/ bl.bkts # <<>>
Lasting(c) == c \in Queries \/ ~conds[c].auto

MayOr(l, r) ==
  /\ Combinable(list[l]) /\ Combinable(list[r])
  /\ ReusesProducts \/ Accurate(list[l])
  /\ SharesTerms \/ ~Lasting(r) \/ SingleLinks(list[r])
  /\ Room(Len(list[r].bkts))

MayAnd(l, r) ==
  /\ Combinable(list[l]) /\ Combinable(list[r])
  /\ ReusesProducts \/ Accurate(list[r])
  /\ Len(list[r].bkts) > 1 => list[r].total > 1
  /\ Room(ProductSize(list[l], list[r]))

\* c && d: the conditions of d were copied, so that d is deleted if it is auto.
AndConditions(c, d) ==
  /\ Call /\ c # d /\ {c, d} \subseteq held /\ MayAnd(c, d)
  /\ LET op == OperationAnd(State, list[c], list[d])
     IN Becomes(DeleteIfAuto(op.s, d), [list EXCEPT ![c] = op.bl], Unheld(d), live,
                [meaning EXCEPT ![c] = ProductOf(@, meaning[d])])
  /\ UNCHANGED value

OrConditions(c, d) ==
  /\ Call /\ c # d /\ {c, d} \subseteq held /\ MayOr(c, d)
  /\ LET op == OperationOr(State, list[c], list[d])
     IN Becomes(DeleteIfAuto(op.s, d), [list EXCEPT ![c] = op.bl], Unheld(d), live,
                [meaning EXCEPT ![c] = @ \cup meaning[d]])
  /\ UNCHANGED value

\* A condition of the client's own goes out of scope, and its list with it.
DestroyCondition(c) ==
  /\ Call /\ c \in held /\ ~conds[c].auto
  /\ Becomes(Delete(State, {c}), list, held \ {c}, live, meaning)
  /\ UNCHANGED value

-----------------------------------------------------------------------------
(* Queries.                                                                *)

Query_(q) ==
  /\ Call /\ q \notin live
  /\ Becomes(State, [list EXCEPT ![q] = Empty], held, live \cup {q}, [meaning EXCEPT ![q] = True])
  /\ UNCHANGED value

\* The copy of a list, as Query::Query(Query&) and operator= take it.
CopyQuery(q, r) ==
  /\ Call /\ q \notin live /\ r \in live /\ q # r
  /\ SharesTerms \/ SingleLinks(list[r])
  /\ Room(Len(list[r].bkts))
  /\ LET copy == CopyDeep(State, list[r])
     IN Becomes(copy.s, [list EXCEPT ![q] = copy.bl], held, live \cup {q},
                [meaning EXCEPT ![q] = meaning[r]])
  /\ UNCHANGED value

DestroyQuery(q) ==
  /\ Call /\ q \in live
  /\ Becomes(Delete(State, Elements(list[q])), list, held, live \ {q}, meaning)
  /\ UNCHANGED value

AssignLeaving(q, c) ==  \* mutant: the first bucket is copied and the others forgotten
  /\ Call /\ q \in live /\ c \in held /\ conds[c].auto
  /\ Becomes(Delete(State, Elements(list[q])),
             [list EXCEPT ![q] = ListOf(SubSeq(list[c].bkts, 1, list[c].total))],
             held \ {c}, live, [meaning EXCEPT ![q] = meaning[c]])
  /\ UNCHANGED value

Assign(q, c) ==
  /\ Call /\ q \in live /\ c \in held
  /\ conds[c].auto \/ SharesTerms \/ SingleLinks(list[c])
  /\ Room(Len(list[c].bkts))
  /\ LET s == Delete(State, Elements(list[q]))
         copy == IF conds[c].auto THEN [s |-> s, bl |-> CopyShallow(list[c])]
                 ELSE CopyDeep(s, list[c])
     IN Becomes(copy.s, [list EXCEPT ![q] = copy.bl], Unheld(c), live,
                [meaning EXCEPT ![q] = meaning[c]])
  /\ UNCHANGED value

AndQueries(q, r) ==
  /\ Call /\ q # r /\ {q, r} \subseteq live /\ MayAnd(q, r)
  /\ LET op == OperationAnd(State, list[q], list[r])
     IN Becomes(op.s, [list EXCEPT ![q] = op.bl], held, live,
                [meaning EXCEPT ![q] = ProductOf(@, meaning[r])])
  /\ UNCHANGED value

OrQueries(q, r) ==
  /\ Call /\ q # r /\ {q, r} \subseteq live /\ MayOr(q, r)
  /\ LET op == OperationOr(State, list[q], list[r])
     IN Becomes(op.s, [list EXCEPT ![q] = op.bl], held, live,
                [meaning EXCEPT ![q] = @ \cup meaning[r]])
  /\ UNCHANGED value

\* Every condition of the query that has the index gets the value.
QueryEdit(q, index, v) ==
  /\ Call /\ q \in live
  /\ LET hit == {i \in Elements(list[q]) : conds[i].index = index}
     IN /\ hit # {}
        /\ conds' = [i \in Cells |-> IF i \in hit THEN [conds[i] EXCEPT !.value = v] ELSE conds[i]]
  /\ meaning' = [meaning EXCEPT ![q] = Edited(@, index, v)]
  /\ UNCHANGED <<list, held, live, value, stopped>>

AggregateUpdated(g, v) ==
  /\ Call /\ value[g] # v
  /\ value' = [value EXCEPT ![g] = v]
  /\ UNCHANGED <<conds, list, held, live, meaning, stopped>>

-----------------------------------------------------------------------------
\* The comparisons of an expression may all be evaluated before its && and ||.
Init ==
  /\ conds = [i \in Cells |-> IF i \in DOMAIN Written THEN Made(Written[i]) ELSE Freed]
  /\ held = DOMAIN Written
  /\ list = [h \in Handles |-> IF h \in held THEN ListOf(<<<<h>>>>) ELSE Empty]
  /\ live = Created
  /\ value = [g \in Aggregates |-> 0]
  /\ meaning = [h \in Handles |-> IF h \in held THEN {{Test(Written[h])}}
                                  ELSE IF h \in live THEN True ELSE {}]
  /\ calls = 0 /\ stopped = FALSE

Next ==
  \/ \E test \in Tests : Compare(test)
  \/ \E c, d \in Cells : AndConditions(c, d) \/ OrConditions(c, d)
  \/ \E c \in Cells : DestroyCondition(c)
  \/ \E q \in Queries : Query_(q) \/ DestroyQuery(q)
  \/ \E q \in Queries, c \in Cells : Assign(q, c)
  \/ \E q, r \in Queries : CopyQuery(q, r) \/ AndQueries(q, r) \/ OrQueries(q, r)
  \/ \E q \in Queries, index \in {t.index : t \in Tests} \ {0}, v \in Values : QueryEdit(q, index, v)
  \/ \E g \in Aggregates, v \in Values : AggregateUpdated(g, v)

Spec == Init /\ [][Next]_vars

-----------------------------------------------------------------------------
(* Query::Match: the conditions of any bucket all hold.                    *)

Holds(i, rec) == conds[i] # Freed /\ Evaluate(conds[i], rec, value)
Match(q, rec) ==
  \/ list[q].bkts = <<>>
  \/ \E j \in DOMAIN list[q].bkts : \A i \in Range(list[q].bkts[j]) : Holds(i, rec)

-----------------------------------------------------------------------------
QueryTypeOK ==
  /\ conds \in [Cells -> Comparisons \cup {Freed}]
  /\ \A h \in Handles : /\ Elements(list[h]) \subseteq Cells
                        /\ list[h].last \in 0..Len(list[h].bkts) /\ list[h].total \in Nat
  /\ held \subseteq Cells /\ live \subseteq Queries /\ stopped \in BOOLEAN
  /\ value \in [Aggregates -> Nat]

\* A query matches the records that the expression it was assigned describes,
\* after any && and || of it, any edit, and any change of the values it points to.
MatchMeans ==
  \A q \in live, rec \in Records : Match(q, rec) <=> Satisfied(meaning[q], rec)

\* Every condition a query links is allocated and is linked once, by that query
\* alone, so that the query may delete them all ("we simply delete all objects in
\* the BucketList", OperationAnd).
OwnedOnce ==
  /\ \A q \in live : /\ \A i \in Elements(list[q]) : conds[i] # Freed
                     /\ Size(list[q]) = Cardinality(Elements(list[q]))
  /\ \A q \in live, h \in Owners : q # h => Elements(list[q]) \cap Elements(list[h]) = {}
=============================================================================
