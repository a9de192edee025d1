SPECIFICATION FairSpec
CONSTANTS
  a = a
  b = b
  Channels = {a, b}
  Cohort = {a}
  Workers = {w1, w2}
  BatchSize = 2
  MaxAttempts = 2
  MaxVersion = 2
  Overlap = {}
  Unbuildable <- LastOfB
  MaxTroubles = 1
  MaxCutovers = 2
CHECK_DEADLOCK FALSE
INVARIANTS
  TypeOK
  RowsFollowMode
  SearchMatchesRelease
  DeliveredInOrder
PROPERTIES
  LiveNeverGoesBack
  ProjectionDrains
