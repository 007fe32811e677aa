SPECIFICATION Spec
CONSTANTS
  k1 = k1
  s1 = s1
  r1 = r1
  Key = {k1}
  JobSpec = {s1}
  Req = {r1}
  None = None
  QueueDepth = 1
  MaxJobs = 1
  MaxRestarts = 0
  LogLines = 0
PROPERTIES
  DoneIsForGood
CHECK_DEADLOCK FALSE
