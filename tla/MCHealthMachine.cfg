SPECIFICATION Spec
CONSTANTS
  StaleAfter = 2
  Watermarks <- MixedWatermarks
  NonFinite = NonFinite
  Identities = {id1}
  NoCheckpoint = NoCheckpoint
  Samples <- BoundarySamples
  Counter = {ticks}
  MaxCount = 2
INVARIANT SnapshotCoherent
PROPERTIES TerminalIsFinal StaleClearedByInput OverloadHysteresis FollowsTable
