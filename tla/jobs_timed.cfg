SPECIFICATION FairSpec
CONSTANTS
  j1 = j1
  s1 = s1
  s2 = s2
  None = None
  Jobs = {j1}
  Slots = {s1, s2}
  Processes <- MCProcesses
  MaxAttempts <- MCTwoAttempts
  Skew <- MCSkew
  LeaseSeconds = 5
  RetryBase = 1
  MaxClock = 18
  MaxFaults = 2
  PollSeconds = 1
  ProviderTimeout = 1
  LeaseMargin = 3
  DbSeconds = 1
  RestartSeconds = 1
  LastSubmission = 1
INVARIANTS
  LeaseCoversWork
PROPERTIES
  EveryJobEnds
