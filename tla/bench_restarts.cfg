SPECIFICATION MetSpec
CONSTANTS
  k1 = k1
  k2 = k2
  s1 = s1
  r1 = r1
  r2 = r2
  Key = {k1, k2}
  JobSpec = {s1}
  Req = {r1, r2}
  None = None
  QueueDepth = 2
  MaxJobs = 4
  MaxRestarts = 2
  LogLines = 1
INVARIANTS
  OneGateAtATime
  NothingLeftBehind
  OutcomeIsJournaled
  DepthRespected
PROPERTIES
  NoJobRunsTwice
  CancelIsHeard
CHECK_DEADLOCK FALSE
