SPECIFICATION Spec
CONSTANTS
  c1 = c1
  c2 = c2
  c3 = c3
  m1 = m1
  m2 = m2
  f1 = f1
  f2 = f2
  Calls = {c1, c2, c3}
  Ids = {m1, m2}
  Saved = {m1}
  Files = {f1, f2}
  Requests <- MCRequests
  Asks <- MCAsks
  FirstKnown <- MCFirstKnown
  MaxVersion = 1
  FirstSource <- MCFirstSource
  FirstTarget <- MCFirstTarget
  Ports = {22, 2222}
  Default = 22
  MaxWrites = 2
  MaxTime = 2
  MaxCrashes = 1
  None = None
CHECK_DEADLOCK FALSE
INVARIANTS
  TypeOK
PROPERTIES
  VerifiedIsTrue
  ResumedIsComplete
  RollbackIsThere
