SPECIFICATION MCSpec
CONSTANTS
  Parts = {"two tabs", "one tab", "tree", "view", "saves", "plans", "pals", "switches", "filters", "scrolling"}
  None = none
  lamball = lamball
  anubis = anubis
  Tabs = {t1, t2}
  Targets = {lamball, anubis}
  Passives = {p1, p2}
  Options = {balanced}
  Typed = {0, 1, 5, 6}
  PassiveLimit = 1
  Catalogs <- TwoCatalogs
  Prerequisites = {binding}
  Limits = {1, 5}
  MaxSubmits = 2
  MaxPublished = 1
  Parents <- SomeParents
  Children = {lamball}
  Indexes = {0, 1, 2}
  StatedGenerations = {none, 1, 2}
  MaxSteps = 3
  Plans <- MorePlans
  MaxPolls = 2
  MaxAttempts = 2
  MaxReloads = 1
  Slots = {s1, s2}
  Routes = {1, 2}
  MaxRequests = 4
  PlanRoutes = {1, 2, 3}
  PlanLimit = 1
  MaxPlanNow = 2
  Contents <- ThreeThenThree
  CatalogVersions = 2
  Mine = {1, 2, 3, 4}
  PageSize = 2
  MaxToggles = 3
  Skills = {1, 2, 3}
  MaxSkills = 2
  RawSkills <- SomeSkills
  FieldOptions = {o1}
  PageCounts = {2}
SYMMETRY Symmetry
INVARIANTS
  FormIsServed
  TreeIsTrue
  JobPageAgrees
PROPERTIES
  ListsAreWhole
CHECK_DEADLOCK FALSE
