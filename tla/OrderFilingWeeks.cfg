SPECIFICATION Spec
CONSTANTS
  e1 = e1
  e2 = e2
  e3 = e3
  e4 = e4
  s1 = s1
  s2 = s2
  k1 = k1
  k2 = k2
  n1 = n1
  n2 = n2
  piece = piece
  box = box
  p1 = p1
  t1 = t1
  t2 = t2
  srv = srv
  None = None
  Skus = {s1, s2}
  CustomerNames = {n1, n2}
  CustomerIds = {k1, k2}
  PriceFiles <- Prices
  RosterFiles <- Rosters
  Tasks = {t1, t2}
  Processes = {srv}
  ProcessOf <- OneServer
  Emails = {e1, e2, e3, e4}
  OrderOf <- FourOrders
  POs = {p1}
  Units = {piece, box}
  Window = 1
  MaxDay = 2
  MaxRestarts = 1
  MaxRuns = 3
INVARIANT TypeOK
PROPERTY OnlyRacesDuplicate
INVARIANT DuplicateIsAlike
PROPERTY QuotesHonoured
PROPERTY SnapshotsAreDated
INVARIANT ProductsStay
SYMMETRY TaskSymmetry
CHECK_DEADLOCK FALSE
