SPECIFICATION Spec
CONSTANTS
  e1 = e1
  e2 = e2
  e3 = e3
  s1 = s1
  s2 = s2
  x = x
  y = y
  Evidence = {e1, e2, e3}
  Content <- Twins
  Slot = {s1, s2}
  Faults = {"death", "lost", "rot", "revoke"}
  MaxFaults = 1
INVARIANTS
  CaseHoldsTheOriginals
PROPERTIES
  PackageSettles
CHECK_DEADLOCK FALSE
