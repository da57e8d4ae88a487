SPECIFICATION Spec
CONSTANTS
  c1 = c1
  c2 = c2
  c3 = c3
  top = top
  sub = sub
  Calls = {c1, c2, c3}
  Names = {top, sub}
  Requests <- MCRequests
  Asks <- MCAsks
  States = {"ONLINE", "DEGRADED"}
  MaxScrubs = 1
  Under <- MCUnder
  FirstId <- MCFirstId
  MaxIds = 3
  MaxWrites = 1
  Absent = Absent
  NoRequest = NoRequest
INVARIANTS
  TypeOK
  AnswersAreTrue
  ReadsAreCurrent
