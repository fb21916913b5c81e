CONSTANTS
  CacheSize = 2
  Reconnects = TRUE
  StopTimeout = TRUE
  MaxConns = 2
  MaxPackets = 3
  MaxStarts = 1
  MaxRefusals = 1
  MaxQueue = 3
SPECIFICATION FairSpec
INVARIANTS
  DeliveredInOrder
  GapsOnlyFromOverflow
  OneConnector
  ReplayHasConnector
PROPERTIES
  OfflineEnds
  SessionIsChannel
CHECK_DEADLOCK FALSE
