SPECIFICATION Spec
CONSTANTS
  t1 = t1
  t2 = t2
  d1 = d1
  d2 = d2
  s1 = s1
  s2 = s2
  s3 = s3
  p1 = p1
  p2 = p2
  Transfers = {t1, t2}
  Datasets = {d1, d2}
  Snapshots = {s1, s2, s3}
  Dirs = {p1, p2}
  Requests <- MCRequests
  DatasetOf <- MCDatasetOf
  MountPoint <- MCMountPoint
  Taken <- MCTaken
  Files <- MCFiles
  MaxVersion = 1
  MaxCrashes = 1
  Empty = Empty
  Other = Other
  None = None
SYMMETRY Alike
CHECK_DEADLOCK FALSE
INVARIANTS
  TypeOK
  SuccessDelivers
  RemainsAreOvercome
  NoCloneIsLeft
  EmptiedIsNoticed
