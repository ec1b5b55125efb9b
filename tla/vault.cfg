SPECIFICATION Spec
CONSTANTS
  a = a
  b = b
  u1 = u1
  u2 = u2
  i1 = i1
  i2 = i2
  k1 = k1
  k2 = k2
  Content = {a, b}
  Uploader = {u1}
  Importer = {i1, i2}
  Keeper = {k1}
  Nobody = Nobody
  MaxDepth = 1
  Serial = TRUE
  Faults = {"store_failure", "bin_failure", "upload_answer", "lost_answer", "restart"}
  MaxFaults = 2
INVARIANTS
  UploadsLeaveNoOrphan
  ImportIsAllOrNothing
  AcceptedContentNeverLost
  ReadableUntilAFault
  
CHECK_DEADLOCK FALSE
SYMMETRY RequestSymmetry
