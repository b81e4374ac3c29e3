SPECIFICATION WorkerSpec
CONSTANTS
  w1 = w1
  w2 = w2
  JobIds = {j1}
  Workers <- MCWorkers
  Requests = {r1}
  MaxAttempts = 1
  AgeCap = 7
  AdminStaleAge = 6
  None = none
  Hosts <- MCWorkers
  HostOf <- TwoHosts
  Reapers = {w1}
  HeartbeatInterval = 2
  RequestTimeout = 2
  Margin = 1
  Lease = 6
  Grace = 6
  Skew = 0
  MaxStrays = 0
  MaxCrashes = 0
  MaxStops = 0
  MaxAdmin = 0
INVARIANTS
  HandlerStopsBeforeLease
CHECK_DEADLOCK FALSE
