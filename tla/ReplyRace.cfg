SPECIFICATION Spec
CONSTANTS
  m1 = m1
  m2 = m2
  r1 = r1
  r2 = r2
  p1 = p1
  p2 = p2
  f1 = f1
  f2 = f2
  None = None
  POs = {p1, p2}
  Workers = {w1, w2}
  Emails = {m1, r1, r2}
  FileNames = {f1, f2}
  Replies = {r1, r2}
  Indices = {0}
  ThreadOf <- OneThread
  Extractions <- BareReplyExtractions
  SendModes = {"off"}
  Window = 0
  MaxDay = 0
  MaxFaults = 0
PROPERTY ReplyKept
SYMMETRY WorkerSymmetry
CHECK_DEADLOCK FALSE
