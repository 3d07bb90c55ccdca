SPECIFICATION Spec
CONSTANTS
  m1 = m1
  m2 = m2
  r1 = r1
  r2 = r2
  p1 = p1
  p2 = p2
  f1 = f1
  f2 = f2
  None = None
  POs = {p1, p2}
  Workers = {w1}
  Emails = {m1, r1}
  FileNames = {f1, f2}
  Replies = {m1, r1}
  Indices = {0, 1}
  ThreadOf <- OneThread
  Extractions <- MixedExtractions
  SendModes = {"live", "dry_run", "off"}
  Window = 0
  MaxDay = 1
  MaxFaults = 1
INVARIANT TypeOK
INVARIANT OneBook
INVARIANT AtMostOneMail
INVARIANT RecordMatchesMail
INVARIANT OneOrderPerPO
INVARIANT HandledOnce
PROPERTY ImplementsDesk
PROPERTY ReplyKept
CHECK_DEADLOCK FALSE
