SPECIFICATION MCFairSpec
CONSTANTS
  w1 = w1
  w2 = w2
  JobIds = {j1}
  Workers <- MCWorkers
  Requests = {r1}
  MaxAttempts = 2
  AgeCap = 4
  AdminStaleAge = 3
  None = none
  Hosts <- MCHosts
  HostOf <- OneHost
  Reapers = {w1}
  HeartbeatInterval = 1
  RequestTimeout = 1
  Margin = 0
  Lease = 3
  Grace = 1
  Skew = 0
  MaxStrays = 0
  MaxCrashes = 1
  MaxStops = 1
  MaxAdmin = 0
PROPERTIES
  EveryJobEnds
  StopEnds
CHECK_DEADLOCK FALSE
