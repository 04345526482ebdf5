SPECIFICATION Spec
CONSTANTS
  MAX_DRAIN_PER_TICK = 3
  RcvHwm = 2
  Channels = 2
  MaxAge = 0
  Frames <- ModulationOnly
  SendEmpty = FALSE
  StaleAfter = 1
  MaxFrames = 2
  MaxTicks = 3
PROPERTY StaleNeedsFrame
CHECK_DEADLOCK FALSE
