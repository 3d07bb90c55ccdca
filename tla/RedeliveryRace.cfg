SPECIFICATION Spec
CONSTANTS
  m1 = m1
  m2 = m2
  r1 = r1
  r2 = r2
  p1 = p1
  p2 = p2
  f1 = f1
  f2 = f2
  None = None
  POs = {p1, p2}
  Workers = {w1, w2}
  Emails = {m1}
  FileNames = {f1, f2}
  Replies = {}
  Indices = {0}
  ThreadOf <- OwnThread
  Extractions <- SharedExtractions
  SendModes = {"live"}
  Window = 0
  MaxDay = 0
  MaxFaults = 0
INVARIANT AtMostOneMail
SYMMETRY WorkerSymmetry
CHECK_DEADLOCK FALSE
