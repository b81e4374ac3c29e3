SPECIFICATION MCSpec
CONSTANTS
  Parts = {"snapshots", "items", "trend", "capacity"}
  JobIds = {j1, j2}
  Workers = {w1}
  Requests <- MCRequests
  MaxAttempts = 2
  AgeCap = 0
  AdminStaleAge = 0
  None = none
  Users = {u1, u2}
  SnapshotIds = {s1, s2, s3}
  Contents = {c1, c2}
  SourceTimes = {1, 2}
  Publishers = {p1, p2}
  Creators = {n1, n2}
  Cleaner = cleaner
  MaxLeases = 2
  Items = {1, 2, 3, 4, 5, 6, 7, 8, 9}
  Food = {2, 5, 8}
  Inventories <- TwoStocks
  Made = {4, 6, 9}
  ItemLimit = 9
  PageSizes <- Sizes
  Searches <- AllOrOdd
  MaxPage = 10
  Letters = 2
  Quantities = {0, 2, 5}
  Axis = 3
  MaxTrendNow = 4
  CraftItems = {1, 2, 3, 4}
  Books <- AllBooks
  MaxStock = 3
  MaxNodes = 12
  MaxBatches = 6
SYMMETRY Symmetry
INVARIANTS
  NothingNeededIsPurged
  OneCopyPerContent
PROPERTIES
  NewestSaveWins
  ItemsAddUp
CHECK_DEADLOCK FALSE
