SPECIFICATION FairSpec
CONSTANTS
  Calls = {a, b}
  Requests <- AllRequests
  n1 = n1
  n2 = n2
  n3 = n3
  Names = {n1, n2, n3}
  Existing <- TwoOldSnapshots
  MaxDay = 1
  Absent = Absent
  NoRequest = NoRequest
  NoName = NoName
INVARIANTS
  TypeOK
  AnswersAreTrue
PROPERTIES
  LostOnlyToDeletion
  StoreSpec
  CallsAnswered
CHECK_DEADLOCK FALSE
