SPECIFICATION Spec
CONSTANTS
  order = order
  line = line
  r1 = r1
  r2 = r2
  r3 = r3
  r4 = r4
  dAuto = dAuto
  dManual = dManual
  tOrders = tOrders
  tLines = tLines
  NoRow = NoRow
  NoKey = NoKey
  Keys = {order}
  Rows = {r1, r2, r3}
  Drains = {dAuto, dManual}
  AutoDrain = dAuto
  Tables = {tOrders, tLines}
  TableOf <- MCTableOf
  Parent <- MCNoParent
  Priority <- MCPriority
  FkCap = 3
  AutoCap = 1
  MaxClock = 3
  MaxFaults = 1
CHECK_DEADLOCK FALSE
SYMMETRY MCSymmetry
INVARIANT TypeOK
INVARIANT OnePendingPerKey
INVARIANT EditAccounted
