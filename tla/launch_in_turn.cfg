SPECIFICATION LaunchInTurn
CONSTANTS
  alpha = alpha
  beta = beta
  gamma = gamma
  tab = tab
  tab2 = tab2
  eye = eye
  e1 = e1
  e2 = e2
  None = None
  Node = {alpha, beta, gamma}
  HeadNode = {alpha}
  Tab = {tab}
  Watch = {eye}
  Home <- AtAlpha
  Epoch = {e1, e2}
  Recipe <- OneRecipe
  Name <- ThreeRanks
  Roster <- Trio
  Call = {1, 2}
  MaxGrants = 9
  MaxFaults = 2
  Faults = {"unreachable", "give_up", "refuse", "run_fails", "dies", "expire", "restart"}
SYMMETRY Epochs
INVARIANTS
  NoOrphanRank
  PendingIsBacked
  
  NothingStartsUntilAllAgreed
 
