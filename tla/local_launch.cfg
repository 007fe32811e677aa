SPECIFICATION MCSpec
CONSTANTS
  Registries = {"mine", "theirs"}
  Shipped <- MCShipped
  Host <- MCHost
  AddrBits = 4
  Nodes = {1, 2, 3}
  Self = 1
  Listings <- MCListings
  Selections <- MCSelections
  Scenes <- MCScenes
  MaxSilent = 1
  None = None
  Supervisor = {"systemd", "launchd", "task"}
  Port = {8001}
  Dir = {"home", "other"}
  Home = "home"
  MaxCommands = 3
  MaxFailures = 1
  Absent = Absent
  Recipes = {r1, r2}
  Pages = {p1, p2}
  EnginePort = {8001, 8002}
  MAX_WINDOW = 1
  MaxTime = 2
  MaxLaunches = 2
  Registry = {"mine", "theirs"}
  Url = {u1, u2}
  Command = {c1, c2}
  MaxOrders = 3
  MaxMishaps = 2
CHECK_DEADLOCK FALSE
INVARIANTS
  CommandIsWhatWasAsked
  
  PlanIsSound
  
  
  OperatorsWorkIsSafe
  ServesWhatWasNamed
PROPERTIES
  EvidenceStays
