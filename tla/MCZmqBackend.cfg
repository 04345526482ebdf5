SPECIFICATION Spec
CONSTANTS
  MAX_DRAIN_PER_TICK = 3
  RcvHwm = 2
  Channels = 2
  MaxAge = 0
  Frames <- MixedFrames
  SendEmpty = FALSE
  StaleAfter = 1
  MaxFrames = 4
  MaxTicks = 3
INVARIANTS EveryFrameOnce HeldAreNewest QueuedStimulusServed SinkAccounts
CHECK_DEADLOCK FALSE
