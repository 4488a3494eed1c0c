------------------------------ MODULE MCQuery ------------------------------
(* Small instances of Query.tla.                                             *)
EXTENDS Query

CONSTANTS x, y, g

\* One record for each pair of values of the attributes.
MCRecords == {<<i, j>> : i, j \in 0..1}
MCField == [r \in MCRecords |-> [a \in {x, y} |-> IF a = x THEN r[1] ELSE r[2]]]

Edit1(c) == EditIndex(c, 1)
XIs1 == Edit1(OnValue(NewCondition(x, TRUE), "Equal", 1))
XLessG == OnPointer(NewCondition(x, TRUE), "Less", g)
IsThe11 == OnRecord(NewCondition(y, TRUE), "Equal", <<1, 1>>)
GAtLeast1 == Edit1(OnValue(NewCondition(g, TRUE), "GreaterOrEqual", 1))

MCTests == {XIs1, GAtLeast1, XLessG, IsThe11}
MCUserTests == {XLessG}
MCWritten == <<XIs1, GAtLeast1, XLessG, IsThe11>>

ASSUME TestsAreWritten ==
  \A t \in MCTests : [t EXCEPT !.index = 0]
     \in NumberTests(x, 0..1) \cup StringTests(y, 0..1) \cup OtherTests(x) \cup OtherTests(y)
         \cup AggregateTests(g, 0..1)
=============================================================================
