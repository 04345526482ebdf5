SPECIFICATION Spec
CONSTANTS
  Keys = {e1}
  NoKey = NoKey
  Interval = 1
  Policy <- PolicyDefault
  Capacity <- CapacityTick
  Packets <- SomePackets
  MaxTicks = 2
  EnqueueBound <- BoundTick
  StaleAfter = 0
  NonFinite = NonFinite
  Identities = {id1}
  NoCheckpoint = NoCheckpoint
INVARIANTS StepsAccounted RejectedOnce FailureSticks PublishedEveryTick PressureIsRemainder
