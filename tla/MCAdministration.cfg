SPECIFICATION MCSpec
CONSTANTS
  Parts = {"settings", "commands", "catalog", "tables"}
  None = none
  Flag = flag
  Fields = {flag, limit}
  Values <- Bits
  FormTabs = {s1}
  JobTabs = {t1}
  MaxVersions = 3
  JobIds = {j1}
  Workers = {w1}
  Requests = {r1}
  MaxAttempts = 2
  AgeCap = 1
  AdminStaleAge = 0
  Commands = {c1, c2}
  Processes = {p1, p2}
  NameOf <- OneName
  MaxCrashes = 1
  MaxLost = 1
  MaxLeases = 1
  MaxEffects = 2
  Uploads = {c1, c2}
  CatalogVersions = {v1}
  CatalogWorkers = {p1, p2}
  Content <- SameContent
  MaxCrash = 1
  v1 = v1
  Snapshots = {1, 2}
  StagedVersions = {1}
SYMMETRY Symmetry
INVARIANTS
  SettingsAreSerial
  
PROPERTIES
  CommandsAreTrue
  CatalogIsSound
CHECK_DEADLOCK FALSE
