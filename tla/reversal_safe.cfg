SPECIFICATION Spec
CONSTANTS
  pA = pA
  pB = pB
  cancelA = cancelA
  cancelB = cancelB
  returnA = returnA
  returnB = returnB
  NoHeader = NoHeader
  NoReversal = NoReversal
  Phones = {pA, pB}
  Reversals = {cancelA, returnA, cancelB, returnB}
  Cancels = {cancelA, cancelB}
  By <- MCBy
  Units <- MCUnits
  Sold = 2
  Seller = pA
  OrderLanded = TRUE
  FkCap = 3
  AutoCap = 3
  MaxFaults = 1
  MaxTouches = 1
  MaxRetries = 1
  MaxDiscards = 1
CHECK_DEADLOCK FALSE
INVARIANT TypeOK
INVARIANT NoUnitRefundedTwice
INVARIANT UnitsAddUp
INVARIANT ClaimedBeforeLanding
INVARIANT WinnerKeepsRows
PROPERTY ImplementsFirstReversal
