SPECIFICATION HSpec
CONSTANTS
  U64Max = 3
  MAX_STEPS = 2
  Seeds <- NearOverflow
  SourceBound = 2
INVARIANTS StoreValid Agreement InflightMatchesFault NoGap
PROPERTIES FaultHealth ImplementsContract
