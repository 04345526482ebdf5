SPECIFICATION FairSpec
CONSTANTS
  Producers = {p1, p2}
  Policy <- PolicyLive
  Capacity <- CapacityLive
  ZeroTimeout = FALSE
  WaitBound = 3
  CallBound <- BoundLive
  TotalBound = 3
PROPERTY CallsReturn
