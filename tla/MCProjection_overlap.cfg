SPECIFICATION Spec
CONSTANTS
  a = a
  b = b
  Channels = {a, b}
  Cohort = {a}
  Workers = {w1}
  BatchSize = 2
  MaxAttempts = 2
  MaxVersion = 2
  Overlap = {"cutover"}
  Unbuildable <- LastOfB
  MaxTroubles = 1
  MaxCutovers = 1
CHECK_DEADLOCK FALSE
INVARIANT RowsFollowMode
