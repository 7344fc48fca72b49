\* two requests, two signals, an app config source, a gateway for the metrics
CONSTANTS
  Requests = {r1, r2}
  HasWatcher = TRUE
  MaxSignals = 2
SPECIFICATION FairSpec
INVARIANTS
  CleanedInReverse
  PoolsOutliveRequests
  LastPushComplete
PROPERTY CancelledExits
\* the process ends
CHECK_DEADLOCK FALSE
