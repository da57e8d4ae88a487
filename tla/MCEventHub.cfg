SPECIFICATION Spec
CONSTANTS
  Users = {u}
  Anonymous = Anonymous
  MaxConnections = 2
  MaxEvents = 2
  MaxStarts = 2
INVARIANTS
  TypeOK
  MapsAgree
  BroadcastsInOrder
  NoticeReachesUser
PROPERTIES
  DoneReachesAll
CHECK_DEADLOCK FALSE
