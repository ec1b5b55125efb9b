SPECIFICATION Spec
CONSTANTS
  s1 = s1
  s2 = s2
  p1 = p1
  p2 = p2
  x = x
  MaxAttempts = 2
  Submitter = {s1, s2}
  NumUnits = 2
  Payload = {p1, x}
  Valid = {p1}
  NoPayload = NoPayload
  MaxDisturbances = 1
  RunsMayOverrun = FALSE
INVARIANTS
  SucceededIsComplete
  EndedTaskLeavesTerminalRow
PROPERTIES
  RefinesLifecycle
SYMMETRY SubmitterSymmetry
CHECK_DEADLOCK FALSE
