SPECIFICATION Spec
CONSTANTS
  Calls = {a}
  Requests <- RetainOneDay
  n1 = n1
  n2 = n2
  n3 = n3
  Names = {n1, n2, n3}
  Existing <- TwoOldSnapshots
  MaxDay = 1
  Absent = Absent
  NoRequest = NoRequest
  NoName = NoName
INVARIANT
  RetentionIsApplied
CHECK_DEADLOCK FALSE
