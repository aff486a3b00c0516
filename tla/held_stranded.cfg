SPECIFICATION FairSpec
CONSTANTS
  o1 = o1
  NoSale = NoSale
  NoRow = NoRow
  Sales = {o1}
  Dependent = {}
  FkCap = 3
  AutoCap = 1
  Stock = 1
  MaxRestock = 0
  MaxLost = 0
  MaxKills = 1
  MaxUnsent = 0
  MaxUser = 0
CHECK_DEADLOCK FALSE
PROPERTY ConfirmedRowsReleased
