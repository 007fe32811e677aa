SPECIFICATION PatientSpec
CONSTANTS
  k1 = k1
  k2 = k2
  s1 = s1
  r1 = r1
  Key = {k1, k2}
  JobSpec = {s1}
  Req = {r1}
  None = None
  QueueDepth = 2
  MaxJobs = 2
  MaxRestarts = 1
  LogLines = 1
PROPERTIES
  EveryJobEnds
CHECK_DEADLOCK FALSE
