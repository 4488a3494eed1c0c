----------------------------- MODULE Conditions -----------------------------
(***************************************************************************)
(* Conditions and the bucket lists that hold them (src/Condition.cc,       *)
(* src/Attribute.cc, src/Aggregate.cc, inc/BucketList.h).                  *)
(*                                                                         *)
(* A Condition is one comparison.  A BucketList holds a sum of products:   *)
(* each bucket is a product of conditions, the list is the sum of its      *)
(* buckets.  A list is a record of what can be reached from mpBktFirst     *)
(* (bkts, in order), of where in it mpBktLast points (last, 0 for nowhere),*)
(* and of mBucketTotal (total).                                            *)
(*                                                                         *)
(* An operation computes the conditions and the list it leaves.  Strings   *)
(* are abstracted to the numbers of their order.                           *)
(***************************************************************************)
EXTENDS Integers, SequencesExt

CONSTANTS
  Attributes,
  Aggregates,      \* each owns the Value that Value pointers refer to
  Records,
  Field,           \* Field[r][a]: the value of attribute a in record r
  Cells,           \* where conditions are allocated
  Asserts,         \* is the program built with its assertions?
  Freed, None

Orders == {"Less", "Greater", "GreaterOrEqual", "LessOrEqual"}
Operators == Orders \cup {"Equal", "NotEqual", "Negation", "None"}

\* A Condition that is compared with something; ref is mpValueRHS, a Value of an aggregate
\* or, cast, a Record.
Comparisons ==
  [lhs : Attributes \cup Aggregates, oper : Operators,
   type : {"Value", "ValuePtr", "RecordPtr"}, value : Nat,
   ref : Aggregates \cup Records \cup {None}, index : Nat, auto : BOOLEAN]

ASSUME ConditionAssumption ==
  /\ IsFiniteSet(Cells) /\ Cells # {}
  /\ Field \in [Records -> [Attributes -> Nat]]
  /\ Attributes \cap Aggregates = {} /\ Freed \notin Comparisons
  /\ Asserts \in BOOLEAN

-----------------------------------------------------------------------------
(* One comparison.                                                         *)

NewCondition(lhs, auto) ==
  [lhs |-> lhs, oper |-> "None", type |-> "Unknown", value |-> 0, ref |-> None,
   index |-> 0, auto |-> auto]

OnValue(c, oper, v) == [c EXCEPT !.oper = oper, !.value = v, !.type = "Value"]
OnPointer(c, oper, p) == [c EXCEPT !.oper = oper, !.ref = p, !.type = "ValuePtr"]
OnRecord(c, oper, r) == [c EXCEPT !.oper = oper, !.ref = r, !.type = "RecordPtr"]
Negated(c) == [c EXCEPT !.oper = "Negation", !.value = 0, !.type = "Value"]

\* The comparisons of an attribute with an unsigned, an int or a short; with a
\* string; with a pointer, nothing or a record.  And those of an aggregate.
NumberTests(a, operands) == {OnValue(NewCondition(a, TRUE), o, n) :
                               o \in Orders \cup {"Equal", "NotEqual"}, n \in operands}
StringTests(a, operands) == {OnValue(NewCondition(a, TRUE), o, s) :
                               o \in Orders \cup {"Equal", "NotEqual"}, s \in operands}
OtherTests(a) == {OnPointer(NewCondition(a, TRUE), "Less", p) : p \in Aggregates}
            \cup {OnRecord(NewCondition(a, TRUE), o, r) :
                    o \in {"Equal", "NotEqual"}, r \in Records}
            \cup {Negated(NewCondition(a, TRUE))}
AggregateTests(g, operands) == {OnValue(NewCondition(g, TRUE), o, n) :
                                  o \in Orders \cup {"Equal", "NotEqual"}, n \in operands}

EditIndex(c, s) == [c EXCEPT !.index = s]

Compared(oper, l, r) ==
  CASE oper = "None"     -> TRUE
    [] oper = "Less"     -> l < r
    [] oper = "Greater"  -> l > r
    [] oper = "Equal"    -> l = r
    [] oper = "NotEqual" -> l # r
    [] oper = "GreaterOrEqual" -> l >= r
    [] oper = "LessOrEqual"    -> l <= r
    [] oper = "Negation" -> l = 0

\* value[g] is what the aggregate g holds now.
Evaluate(c, rec, value) ==
  LET lhs == IF c.lhs \in Attributes THEN Field[rec][c.lhs] ELSE value[c.lhs]
  IN CASE c.type = "Value"     -> Compared(c.oper, lhs, c.value)
       [] c.type = "ValuePtr"  -> Compared(c.oper, lhs, value[c.ref])
       [] c.type = "RecordPtr" -> (c.oper = "Equal") <=> (c.ref = rec)

-----------------------------------------------------------------------------
(* Bucket lists.                                                           *)

Empty == [bkts |-> <<>>, last |-> 0, total |-> 0]
ListOf(bkts) == [bkts |-> bkts, last |-> Len(bkts), total |-> Len(bkts)]
Elements(bl) == UNION {Range(bl.bkts[j]) : j \in DOMAIN bl.bkts}
Size(bl) == FoldLeft(LAMBDA n, b : n + Len(b), 0, bl.bkts)

\* What mpBktLast and mBucketTotal say is what is there.
Accurate(bl) == bl.last = Len(bl.bkts) /\ bl.total = Len(bl.bkts)
SingleLinks(bl) == \A j \in DOMAIN bl.bkts : Len(bl.bkts[j]) = 1

PositionOf(bl, j) == IF j = 1 THEN "First" ELSE IF j = bl.last THEN "Last" ELSE "Next"

\* s: the conditions, [conds, used, stopped], with used the cells some list refers to.
\* A new condition is in any cell that is not; calls are made while there are such.
Unused(s) == {i \in Cells \ s.used : s.conds[i] = Freed}
NewCell(s) == CHOOSE i \in Cells : Unused(s) # {} => i \in Unused(s)
Put(s, c) == [s EXCEPT !.conds[NewCell(s)] = c]

\* The copy constructor assigns the Value of the left side, which only has a type
\* if the condition compares a constant: Value::operator= asserts that it has one.
CopyOfTypeless(c) == [c EXCEPT !.auto = FALSE, !.type = "Unknown"]  \* mutant: mTypeRHS is not copied
CopyOf(c) == [c EXCEPT !.auto = FALSE]
PutCopy(s, i) == [Put(s, CopyOf(s.conds[i])) EXCEPT !.stopped = Asserts]

\* Copies of the conditions of bucket b: [s, b].
CopyBucketSharing(s, b) == [s |-> s, b |-> b]  \* mutant: links to the same conditions
CopyBucket(s, b) ==
  FoldLeft(LAMBDA t, e : [s |-> PutCopy(t.s, e), b |-> Append(t.b, NewCell(t.s))],
           [s |-> s, b |-> <<>>], b)

\* CopyDeep of a list copies the first condition of a bucket and links the rest.
CopyDeep(s, bl) ==
  LET copied == FoldLeft(LAMBDA t, b :
                  [s  |-> PutCopy(t.s, Head(b)),
                   bs |-> Append(t.bs, <<NewCell(t.s)>> \o Tail(b))],
                  [s |-> s, bs |-> <<>>], bl.bkts)
  IN [s |-> copied.s, bl |-> ListOf(copied.bs)]
CopyShallow(bl) == ListOf(bl.bkts)

\* A list without buckets gets an mpBktLast and no mpBktFirst.
AttachDestroy(bl, other) ==
  IF other.last = 0 THEN bl
  ELSE [bkts  |-> IF bl.bkts = <<>> THEN <<>> ELSE SubSeq(bl.bkts, 1, bl.last) \o other.bkts,
        last  |-> IF bl.bkts = <<>> THEN 0 ELSE bl.last + other.last,
        total |-> bl.total + other.total]

OperationOr(s, bl1, bl2) ==
  LET copy == CopyDeep(s, bl2) IN [s |-> copy.s, bl |-> AttachDestroy(bl1, copy.bl)]

\* The row of bl1 times every bucket of bl2.  t.kept is bkt_first, the copy of
\* the row that the last bucket of bl2 uses up: [s, rows, kept].
TimesFirst(t, row, b, replicate) ==
  LET kept == IF replicate THEN CopyBucket(t.s, row) ELSE [s |-> t.s, b |-> <<>>]
      tail == CopyBucket(kept.s, b)
  IN [s |-> tail.s, rows |-> <<row \o tail.b>>, kept |-> kept.b]
TimesNext(t, b) ==
  LET base == CopyBucket(t.s, t.kept)
      tail == CopyBucket(base.s, b)
  IN [s |-> tail.s, rows |-> Append(t.rows, base.b \o tail.b), kept |-> t.kept]
TimesLast(t, b) ==
  LET tail == CopyBucket(t.s, b)
  IN [s |-> tail.s, rows |-> Append(t.rows, t.kept \o tail.b), kept |-> t.kept \o tail.b]

RowAnd(s, row, bl2) ==
  FoldLeft(LAMBDA t, j :
             CASE PositionOf(bl2, j) = "First" -> TimesFirst(t, row, bl2.bkts[j], bl2.total > 1)
               [] PositionOf(bl2, j) = "Last" /\ bl2.total > 1 -> TimesLast(t, bl2.bkts[j])
               [] OTHER -> TimesNext(t, bl2.bkts[j]),
           [s |-> s, rows |-> <<>>, kept |-> <<>>], [j \in DOMAIN bl2.bkts |-> j])

\* The buckets that are inserted leave mpBktLast and mBucketTotal as they are.
OperationAnd(s, bl1, bl2) ==
  LET n == Len(bl2.bkts)
      product == FoldLeft(LAMBDA t, row : LET r == RowAnd(t.s, row, bl2)
                                          IN [s |-> r.s, rows |-> t.rows \o r.rows],
                          [s |-> s, rows |-> <<>>], bl1.bkts)
  IN IF n = 0 THEN [s |-> s, bl |-> bl1]
     ELSE [s |-> product.s,
           bl |-> [bkts |-> product.rows, last |-> IF bl1.last = 0 THEN 0 ELSE (bl1.last - 1) * n + 1,
                   total |-> bl1.total]]

\* How many conditions OperationAnd allocates.
ProductSize(bl1, bl2) ==
  (Len(bl2.bkts) - 1) * Size(bl1) + Len(bl1.bkts) * Size(bl2)
=============================================================================
