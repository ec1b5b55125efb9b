SPECIFICATION Spec
CONSTANTS
  c1 = c1
  s1 = s1
  b1 = b1
  Chat = {c1}
  Stream = {s1}
  Background = {b1}
  Old = Old
  Slots = 1
  Connections = 2
  Budget = 2
INVARIANTS
  NothingLeaks
  ExchangesAreWhole
PROPERTIES
  RequestsAnswered
CHECK_DEADLOCK FALSE
