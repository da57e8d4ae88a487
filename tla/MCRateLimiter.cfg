SPECIFICATION Spec
CONSTANTS
  Ids = {alice, bob}
  Capacity = 4
  Cost = 2
  CleanupInterval = 2
  BucketTimeout = 4
  MaxTime = 8
  NoBucket = NoBucket
  Never = Never
SYMMETRY IdSymmetry
INVARIANTS
  TypeOK
  WindowBound
  IdleBucketsGo
PROPERTY IdealSpec
