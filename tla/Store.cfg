SPECIFICATION Spec
CONSTANTS
  intf = intf
  w = w
  o = o
  e = e
  Freed = Freed
  None = None
  Tables = {intf, e}
  Views = {intf, o, e, w}
  Home <- MCHome
  Opens <- MCOpens
  Permission <- MCPermission
  Cells = {1, 2, 3, 4, 5}
  Records = {1, 2, 3, 4, 5, 6, 7}
  Values = {0, 1}
  Interfaces = {intf}
  Observers = {o, w}
  Editors = {e}
  Depths = {1, 2}
  LateDepths = {}
  SelectsMatching = FALSE
  Shares = FALSE
  ObserversWrite = FALSE
  MaxCommits = 4
  MaxCalls = 4
INVARIANTS StoreConsistent HistoryReadable ReferencesHeld OwnedByOneView
PROPERTY EditsTakeEffect
CHECK_DEADLOCK FALSE
