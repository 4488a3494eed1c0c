SPECIFICATION Spec
CONSTANTS
  a = a
  b = b
  c = c
  Values = {0, 1}
  Nil = Nil
  Lists = {l1, l2}
  Elems = {a, b, c}
  Iters = {i1, i2}
  Spare = {l2}
  Savers = {l1, i1}
  Filled = {a, b, c}
  MaxCalls = 5
  CursorlessAdds = FALSE
  UnlinksSaved = FALSE
SYMMETRY Symmetry
INVARIANTS WellFormedLists NothingSkipped
PROPERTIES ContentsSpec CursorGivenBack
CHECK_DEADLOCK FALSE
