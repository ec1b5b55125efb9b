SPECIFICATION Spec
CONSTANTS
  a = a
  b = b
  u1 = u1
  u2 = u2
  i1 = i1
  i2 = i2
  k1 = k1
  k2 = k2
  Content = {a}
  Uploader = {u1}
  Importer = {}
  Keeper = {k1, k2}
  Nobody = Nobody
  MaxDepth = 2
  Serial = FALSE
  Faults = {}
  MaxFaults = 0
INVARIANTS
  ContentNeverLost
SYMMETRY RequestSymmetry
CHECK_DEADLOCK FALSE
