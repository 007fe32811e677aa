SPECIFICATION NodeSpec
CONSTANTS
  None = None
  n1 = n1
  n2 = n2
  a1 = a1
  a2 = a2
  f1 = f1
  f2 = f2
  c1 = c1
  c2 = c2
  m1 = m1
  Node = {n1, n2}
  Address = {a1, a2}
  NodeAt <- Where
  Resolved <- Lists
  Verb = {"submit", "attach", "status", "cancel", "artifacts", "fetch", "run"}
  Artifact = {f1, f2}
  Size = {2, 3}
  Chunk = 2
  MaxCommands = 0
  Commit = {c1, c2}
  Name = {m1}
  Started = {"by_hand", "as_service"}
  Faults = {}
  MaxFaults = 2
  ServeReuse = TRUE
  AllowUnpublished = FALSE
  KeepBuilds = 1
  MaxJobs = 3
SYMMETRY Interchangeable
INVARIANT NotCachedIsRebuilt
CHECK_DEADLOCK FALSE
