SPECIFICATION Spec
CONSTANTS
  s1 = s1
  s2 = s2
  s3 = s3
  e1 = e1
  e2 = e2
  None = None
  Nothing = Nothing
  Signups = {s1, s2, s3}
  Signins = {s1}
  Emails = {e1, e2}
  Verifications = {s1, s2, s3}
  Contracts = {e1, e2}
  Subjects = {e1, e2}
  MaxRequests = 4
  Tabs = {s1, s2}
  People = {e1, e2}
  MaxCalls = 3
  Nobody = None
  MaxRestarts = 2
INVARIANTS
  TypeOK
  FileIsMemory
  AnsweredLasts
  ShownIsCurrent
  LoadingEnds
CHECK_DEADLOCK FALSE
