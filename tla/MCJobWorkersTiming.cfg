SPECIFICATION MCSpec
CONSTANTS
  w1 = w1
  w2 = w2
  JobIds = {j1}
  Workers <- MCWorkers
  Requests = {r1}
  MaxAttempts = 2
  AgeCap = 6
  AdminStaleAge = 5
  None = none
  Hosts <- MCWorkers
  HostOf <- TwoHosts
  Reapers = {w1, w2}
  HeartbeatInterval = 1
  RequestTimeout = 1
  Margin = 2
  Lease = 5
  Grace = 1
  Skew = 0
  MaxStrays = 1
  MaxCrashes = 1
  MaxStops = 0
  MaxAdmin = 1
INVARIANTS
  HandlerStopsBeforeLease
  NoCollision
PROPERTIES
  CompletedIsWhole
CHECK_DEADLOCK FALSE
