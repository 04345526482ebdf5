SPECIFICATION HSpec
CONSTANTS
  Producers = {p1, p2}
  Policy <- PolicyMixed
  Capacity <- CapacityMixed
  ZeroTimeout = FALSE
  WaitBound = 3
  CallBound <- BoundMixed
  TotalBound = 4
SYMMETRY Symmetry
INVARIANTS Accounting NewestInOrder ServedInTurn NoLostWakeup
PROPERTY ClosedIsFinal
