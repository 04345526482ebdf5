SPECIFICATION FairSpec
CONSTANTS
  USIZE_MAX = 31
  U16_MAX = 8
  MaxTickRate = 4
  MAX_NETWORK_INPUTS = 16
  MAX_PAYLOAD_LEN = 4
  MAX_QUEUE_CAPACITY = 2
  MAX_BLOCK_TIMEOUT_MS = 1
  Documents <- SomeDocuments
  HubConfigs <- SomeHubConfigs
  Replacements <- SomeReplacements
  NoFile = NoFile
  NoPair = NoPair
  MaxWrites = 1
  Starts <- SomeStarts
  Pairs <- SomePairs
  MaxTicks = 1
INVARIANTS QuietRestore RestoredIsModel ReleasedOnce ReadyIsServing TicksValidated RegistryIsLastWord
PROPERTIES EveryStartEnds SignalStops
CHECK_DEADLOCK FALSE
