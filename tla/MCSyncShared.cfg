SPECIFICATION MCSpec
CONSTANTS
  Parts = {"client"}
  None = none
  NoOne = noOne
  Players = {p1, p2}
  Users = {p1}
  Pals = {q1, q2}
  Codes = {g1}
  MovedDevices = {d1}
  Devices = {e1}
  Worlds = {w1, w2}
  Guilds = {g1, g2}
  Level = level
  Files = {level, q1, q2}
  Requests = {r1, r2}
  Processes = {r1, r2}
  TheWorld = w1
  MaxParser = 1
  MaxFaults = 1
  MaxTime = 2
  Delay = 1
  MaxWrites = 2
  Player = player
  Stranger = stranger
  Base = base
  UnknownBase = base9
  Place = place
PROPERTY
  ConfigIsTheUsers
CHECK_DEADLOCK FALSE
