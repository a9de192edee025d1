SPECIFICATION FairSpec
CONSTANTS
  p1 = p1
  p2 = p2
  c1 = c1
  c2 = c2
  Domains = {"channel", "video"}
  ChannelDomain = "channel"
  VideoDomain = "video"
  Publishers = {p1, p2}
  Reconcilers = {c1, c2}
  BatchSize = 2
  ShardSize = 1
  MaxAttempts = 2
  MaxSequence = 2
  Channels <- AllChannels
CHECK_DEADLOCK FALSE
INVARIANTS
  TypeOK
  DeliveredIsStored
  CursorHasNoGap
  PackageStartsTogether
PROPERTIES
  SettledStaysSettled
  ImplementsRevisionLog
  EveryRowSettles
  EveryRevisionApplies
