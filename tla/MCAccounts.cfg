SPECIFICATION MCSpec
CONSTANTS
  Parts = {"links", "administrators", "card", "steam", "entrance"}
  None = None
  owner = owner
  guest = guest
  w1 = w1
  w2 = w2
  Users = {owner, guest}
  Owner = owner
  Players = {p1, p2}
  CardPlayers = {p1, p2}
  SteamIds = {p1, p2}
  Tokens = {t1, t2}
  Browsers = {t1, t2}
  Admins = {a1, a2}
  Attempts = {a1, a2}
  Slots = {s1, s2}
  NewUsers = {s1, s2}
  Tabs = {w1, w2}
  TabUser <- OnePageEach
  MaxVersion = 2
  Devices = {d1}
  MaxCodes = 2
  PasswordUser = password
  MaxFailures = 2
  Administrator = administrator
  Newcomer = newcomer
  MaxSessions = 2
  MaxMisses = 1
SYMMETRY Symmetry
INVARIANTS
  PlayerHasOneUser
  OneLiveInvitation
  AccountsHold
PROPERTIES
  WithdrawnBindsNobody
  UncutAdminIsFresh
  CardIsTrue
  EntranceHolds
CHECK_DEADLOCK FALSE
