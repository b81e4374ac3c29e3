SPECIFICATION MCSpec
CONSTANTS
  Parts = {"transition", "server", "client", "copy", "parser", "redaction"}
  None = none
  NoOne = noOne
  Players = {p1, p2}
  Users = {p1, p2}
  Pals = {q1, q2}
  Codes = {g1, g2}
  MovedDevices = {d1}
  Devices = {e1, e2}
  Worlds = {w1, w2}
  Guilds = {g1, g2}
  Level = level
  Files = {level, q1, q2}
  Requests = {r1, r2}
  Processes = {r1}
  TheWorld = w1
  MaxParser = 2
  MaxFaults = 1
  MaxTime = 2
  Delay = 1
  MaxWrites = 2
  Player = player
  Stranger = stranger
  Base = base
  UnknownBase = base9
  Place = place
SYMMETRY Symmetry
INVARIANTS
  PartsOK
  OneForm
  ChoicesComeAlong
  UnchangedIsTrue
  PayloadAgrees
PROPERTIES
  PlayersKeepTheirRow
  ServerPromises
  SnapshotIsWhole
  ParserOutcome
CHECK_DEADLOCK FALSE
