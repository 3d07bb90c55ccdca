SPECIFICATION Spec
CONSTANTS
  None = None
  MaxLines = 21
  MaxFailures = 3
  Scores = {0, 70, 95}
  Quotes <- EdgeQuotes
  Catalog = {0, 400}
  Quantities <- EdgeQuantities
  MinOrders = {None, 500}
INVARIANT UnmatchedNotApproved
CHECK_DEADLOCK FALSE
