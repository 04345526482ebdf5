SPECIFICATION Spec
CONSTANTS
  Keys = {e1, e2}
  NoKey = NoKey
  Interval = 3
  MaxRecords = 10
INVARIANTS LogComplete NoFlood
