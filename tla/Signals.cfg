SPECIFICATION Spec
CONSTANTS
  clk = clk
  mas = mas
  slv = slv
  inner = inner
  mon = mon
  far = far
  top = top
  sub = sub
  second = second
  None = None
  Interfaces = {clk, mas, slv, inner, mon, far}
  Clocks = {clk}
  Asynchronous = {mon}
  Description <- MCDescription
  Modifier <- MCModifier
  Construction <- MCConstruction
  Optional = {6, 7, 10, 13}
  Top = top
  Submodules <- MCSubmodules
  ProcessesOf <- MCProcessesOf
  ByPosition = {mas}
  ComparedByName = {slv}
  UnorderedPassThru = FALSE
INVARIANTS WellConnected HoldsWhatWasAssigned Delivered SeesItsClock 
PROPERTY SensitiveNoticed
CHECK_DEADLOCK FALSE
