SPECIFICATION FairLaunchSpec
CONSTANTS
  alpha = alpha
  beta = beta
  gamma = gamma
  tab = tab
  tab2 = tab2
  eye = eye
  e1 = e1
  None = None
  Node = {alpha, beta}
  HeadNode = {alpha}
  Tab = {tab}
  Watch = {eye}
  Home <- AtAlpha
  Epoch = {e1}
  Recipe <- OneRecipe
  Name <- TwoRanks
  Roster <- Pair
  Call = {1, 2, 3}
  MaxGrants = 9
  MaxFaults = 2
  Faults = {"unreachable", "give_up", "refuse", "run_fails", "rm_fails", "dies"}
PROPERTIES
  CeremoniesEnd
  
