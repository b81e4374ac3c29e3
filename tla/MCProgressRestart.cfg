SPECIFICATION MCFairSpec
CONSTANTS
  Parts = {"commands"}
  None = none
  Users = {u1}
  Codes = {g1}
  Devices = {d1}
  Worlds = {w1}
  Processes = {p1}
  TheWorld = w1
  MaxTime = 2
  MaxParser = 1
  MaxFaults = 2
  CardDevices = {d1}
  Players = {q1}
  Slots = {s1, s2}
  MaxCodes = 1
  Plans <- OnePlan
  MaxPolls = 1
  MaxAttempts = 2
  MaxReloads = 0
  Requesting = {s1, s2}
  Tabs = {t1}
  Targets = {lamball}
  Passives = {}
  Options = {balanced}
  Typed = {0, 1}
  PassiveLimit = 1
  Catalogs <- Emptied
  Prerequisites = {binding}
  Limits = {1, 5}
  MaxSubmits = 2
  MaxPublished = 1
  v1 = v1
  Uploads = {f1, f2}
  CatalogVersions = {v1}
  CatalogWorkers = {w1}
  Content <- OneInvalid
  MaxCrash = 1
  JobIds = {j1}
  JobWorkers = {w1}
  Requests = {r1}
  AgeCap = 1
  AdminStaleAge = 0
  Commands = {c1}
  CommandProcesses = {p1}
  MaxCrashes = 1
  MaxLost = 0
  MaxLeases = 1
  MaxEffects = 3
PROPERTIES
  CommandsEnd
CHECK_DEADLOCK FALSE
