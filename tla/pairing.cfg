SPECIFICATION Spec
CONSTANTS
  None = None
  j1 = j1
  j2 = j2
  Peers = {j1, j2}
  Joiners = {j1, j2}
  Writers = {j1, j2, "session", "poll", "cli"}
  MaxAttempts = 2
  Addresses = 2
  Budgets <- Scenes
SYMMETRY Machines
INVARIANTS
  BudgetHolds
  
  TrustFollowsTheLastExchange
  
CHECK_DEADLOCK FALSE
