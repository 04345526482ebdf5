SPECIFICATION Spec
CONSTANTS
  StaleAfter = 2
  Watermarks <- DefaultWatermarks
  NonFinite = NonFinite
  Identities = {id1}
  NoCheckpoint = NoCheckpoint
  Samples <- FewSamples
  Counter = {}
  MaxCount = 0
INVARIANT FatalOnlyAfterStart
