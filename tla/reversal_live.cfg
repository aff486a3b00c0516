SPECIFICATION FairSpec
CONSTANTS
  pA = pA
  pB = pB
  cancelA = cancelA
  cancelB = cancelB
  returnA = returnA
  returnB = returnB
  NoHeader = NoHeader
  NoReversal = NoReversal
  Phones = {pA, pB}
  Reversals = {cancelA, cancelB, returnB}
  Cancels = {cancelA, cancelB}
  By <- MCBy
  Units <- MCUnits
  Sold = 2
  Seller = pA
  OrderLanded = FALSE
  FkCap = 3
  AutoCap = 3
  MaxFaults = 1
  MaxTouches = 1
  MaxRetries = 0
  MaxDiscards = 1
CHECK_DEADLOCK FALSE
PROPERTY ReversalsSettle
PROPERTY PhonesAgree
