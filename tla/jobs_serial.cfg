SPECIFICATION FairSpec
CONSTANTS
  s1 = s1
  s2 = s2
  p1 = p1
  p2 = p2
  x = x
  MaxAttempts = 2
  Submitter = {s1}
  NumUnits = 1
  Payload = {p1, p2, x}
  Valid = {p1, p2}
  NoPayload = NoPayload
  MaxDisturbances = 2
  RunsMayOverrun = FALSE
INVARIANTS
  
  NoDuplicateOutput
PROPERTIES
  JobsFinish
CHECK_DEADLOCK FALSE
