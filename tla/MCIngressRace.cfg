SPECIFICATION Spec
CONSTANTS
  Producers = {p1, p2}
  Policy <- PolicyDefault
  Capacity <- CapacityLive
  ZeroTimeout = FALSE
  WaitBound = 3
  CallBound <- BoundRace
  TotalBound = 4
PROPERTY NoAcceptOnceFlagged
