SPECIFICATION HostsSpec
CONSTANTS
  x1 = x1
  x2 = x2
  y1 = y1
  y2 = y2
  Requests <- Callers
  LogOn = TRUE
  QueueMax = 2
  BatchSize = 2
  FlushMax = 3
  PruneEvery = 1
  Retention = 1
  MaxRequests = 3
  MaxClock = 3
  MaxLogFaults = 1
SYMMETRY Symmetric
INVARIANT RowsKept
CHECK_DEADLOCK FALSE
PROPERTIES
  ReleasesHold
  CopiesHold
  RowsFollow
