SPECIFICATION FairSpec
CONSTANTS
  r1 = r1
  r2 = r2
  None = None
  Emails = {m1, m2}
  Receivers = {r1, r2}
  Deployments <- SmallDeployments
  PageSize = 1
  MaxMessages = 2
  MaxFaults = 1
INVARIANTS
  TypeOK
  KickCoversBacklog
  CursorTrailsWork
  InitialisedOnce
  NoReprocessing
PROPERTY MailIsTried
CHECK_DEADLOCK FALSE
