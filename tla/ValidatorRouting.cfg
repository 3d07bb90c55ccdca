SPECIFICATION Spec
CONSTANTS
  None = None
  MaxLines = 21
  MaxFailures = 3
  Scores = {0, 70, 85, 95}
  Quotes <- EdgeQuotes
  Catalog = {0, 400}
  Quantities <- EdgeQuantities
  MinOrders = {None, 500}
INVARIANT TypeOK
INVARIANT FailedChecksDecide
INVARIANT FewMisses
INVARIANT SavedOrderIsSound
CHECK_DEADLOCK FALSE
