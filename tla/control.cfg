SPECIFICATION Spec
CONSTANTS
  None = None
  o = o
  r = r
  t = t
  q1 = q1
  Node = {o, r, t}
  Rank <- InOrder
  Pollers = {o, r}
  Versions = {1, 2}
  MaxSightings = 1
  Fleets <- Scenes
  MaxChanges = 2
  Ask = {q1}
  Askers = {o}
  Targets = {t}
INVARIANTS
  OneHopOnly
  RightsHeldWhileAsked
  AnswerTellsTheTruth
  
CHECK_DEADLOCK FALSE
