SPECIFICATION FairSpec
CONSTANTS
  m1 = m1
  m2 = m2
  a1 = a1
  a2 = a2
  body = body
  n1 = n1
  n2 = n2
  None = None
  Workers = {w1}
  Emails = {m1, m2}
  Replies = {m1}
  Stages <- PipelineStages
  Attachments = {a1, a2, body}
  FileNames = {n1, n2}
  NameOf <- MailNames
  AttachmentsOf <- MailAttachments
  BodyOf <- MailBody
  IntentsOf <- MailIntents
  OrdersIn <- MailOrders
  JobEnds = {"COMPLETED", "PARTIAL_SUCCESS", "FAILED"}
  Budget = 1
  MaxCall = 2
  MaxDue = 2
  MaxSessions = 3
  Sending = TRUE
  MaxFaults = 1
INVARIANT TypeOK
INVARIANT PatientPolling
INVARIANT Accounted
INVARIANT TrailTellsOutcome
INVARIANT CorrelationOfOneRun
PROPERTY EveryMailGetsThrough
CHECK_DEADLOCK FALSE
