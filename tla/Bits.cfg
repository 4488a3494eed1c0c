SPECIFICATION Spec
CONSTANTS
  narrow = narrow
  wide = wide
  unsized = unsized
  Vectors = {narrow, wide, unsized}
  Width <- MCWidth
  WordSize = 4
  WordSizeLog = 2
  Numbers = {0, 1, 6, 15}
  Uses = {}
INVARIANTS WellFormed AssignsThePart ComparesValues ShiftsAndCombines
