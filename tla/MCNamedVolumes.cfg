SPECIFICATION Spec
CONSTANTS
  MigrationIds = {m1}
  NoRecord = NoRecord
  c1 = c1
  c2 = c2
  v1 = v1
  v2 = v2
  p1 = p1
  p2 = p2
  Containers = {c1, c2}
  Volumes = {v1, v2}
  Paths = {p1, p2}
  InPlace = {}
  Networks = {"front", "back"}
  Nobody = Nobody
  NoRequest = NoRequest
  NoVolume = NoVolume
  MaxWrites = 1
  NetsOf <- MCNetsOf
  Mounts <- SharedMounts
  TargetPath <- NamedVolumePaths
  Requests <- OneRequest
INVARIANTS
  CompletedKeepsAllVolumes
CHECK_DEADLOCK FALSE
