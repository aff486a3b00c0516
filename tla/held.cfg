SPECIFICATION FairSpec
CONSTANTS
  o1 = o1
  NoSale = NoSale
  NoRow = NoRow
  Sales = {o1}
  Dependent = {o1}
  FkCap = 3
  AutoCap = 2
  Stock = 1
  MaxRestock = 2
  MaxLost = 2
  MaxKills = 1
  MaxUnsent = 1
  MaxUser = 2
CHECK_DEADLOCK FALSE
INVARIANT TypeOK
INVARIANT NothingBeforeTheSale
INVARIANT RecordedSaleKeepsItsRows
INVARIANT EveryUnitOnce
PROPERTY OrphanRowsSettled
