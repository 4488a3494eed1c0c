SPECIFICATION Spec
CONSTANTS
  x = x
  y = y
  g = g
  Freed = Freed
  None = None
  Attributes = {x, y}
  Aggregates = {g}
  Records <- MCRecords
  Field <- MCField
  Cells = {1, 2, 3, 4, 5, 6, 7, 8, 9, 10}
  Queries = {q1, q2}
  Tests <- MCTests
  UserTests <- MCUserTests
  Written <- MCWritten
  Created = {q1}
  Values = {0, 1}
  Asserts = FALSE
  ReusesProducts = FALSE
  SharesTerms = FALSE
  EmptyOperands = FALSE
  MaxCalls = 5
INVARIANTS QueryTypeOK MatchMeans OwnedOnce
CHECK_DEADLOCK FALSE
