SPECIFICATION Spec
CONSTANTS
  a = a
  b = b
  d1 = d1
  d2 = d2
  m = m
  n = n
  c1 = c1
  c2 = c2
  User = {a, b}
  Founder = a
  Desk = {d1, d2}
  Role = {"ANALYST"}
  Username = {m, n}
  Client = {c1, c2}
  MaxAttempts = 2
  IpMaxAttempts = 3
  MaxLockout = 2
  Lifetime = 2
  Person = {a, b}
  Owner = a
  Admin = {}
  Tab = {d1, d2}
INVARIANTS
  GuessesBounded
  LoggedOutStaysOut
PROPERTIES
  
  LockoutEnds
  ReadOnlyCaseIsSealed
CHECK_DEADLOCK FALSE
