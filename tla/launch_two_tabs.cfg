SPECIFICATION LaunchSpec
CONSTANTS
  alpha = alpha
  beta = beta
  gamma = gamma
  tab = tab
  tab2 = tab2
  eye = eye
  e1 = e1
  e2 = e2
  None = None
  Node = {alpha, beta}
  HeadNode = {alpha}
  Tab = {tab, tab2}
  Watch = {}
  Home <- AtAlpha
  Epoch = {e1, e2}
  Recipe <- OneRecipe
  Name <- TwoRanks
  Roster <- Pair
  Call = {1, 2, 3}
  MaxGrants = 9
  MaxFaults = 1
  Faults = {"unreachable", "give_up", "refuse", "run_fails", "dies", "expire", "restart"}
SYMMETRY Epochs
INVARIANTS
  GrantSpentOnce
  RunsWhatWasRendered
  DisplacedOnlyInTheWindow
  OneCeremonyTakesAPrepare
