SPECIFICATION Spec
CONSTANTS
  file1 = file1
  file2 = file2
  value1 = value1
  value2 = value2
  q1 = q1
  q2 = q2
  File = {file1, file2}
  Text <- TwoFiles
  Value = {value1, value2}
  Request = {q1, q2}
  Faults = {"storage", "record", "graph", "database", "restart"}

  
PROPERTIES
  RequestsEnd
CHECK_DEADLOCK FALSE
