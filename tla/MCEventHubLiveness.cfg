SPECIFICATION FairSpec
CONSTANTS
  Users = {}
  Anonymous = Anonymous
  MaxConnections = 2
  MaxEvents = 2
  MaxStarts = 1
PROPERTIES
  GoneAreForgotten
  QueueDrains
CHECK_DEADLOCK FALSE
