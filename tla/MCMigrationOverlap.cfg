SPECIFICATION FairSpec
CONSTANTS
  MigrationIds = {m1, m2}
  NoRecord = NoRecord
  c1 = c1
  c2 = c2
  v1 = v1
  v2 = v2
  p1 = p1
  p2 = p2
  Containers = {c1, c2}
  Volumes = {v1, v2}
  Paths = {p1, p2}
  InPlace = {}
  Networks = {"front", "back"}
  Nobody = Nobody
  NoRequest = NoRequest
  NoVolume = NoVolume
  MaxWrites = 0
  NetsOf <- MCNetsOf
  Mounts <- UnevenMounts
  TargetPath <- DistinctPaths
  Requests <- OverlappingRequests
INVARIANTS
  TypeOK
  EndedTaskIsReported
  CutoverAfterTransfer
  SuccessIsExclusive
  FailedProgressIsHonest
PROPERTIES
  LifecycleSpec
  RecordSettles
CHECK_DEADLOCK FALSE
