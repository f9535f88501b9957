SPECIFICATION Spec
CONSTANTS
  j1 = j1
  j2 = j2
  s1 = s1
  s2 = s2
  None = None
  Jobs = {j1, j2}
  Slots = {s1, s2}
  Processes <- MCProcesses
  MaxAttempts <- MCTwoAttempts
  Skew <- MCSkew
  LeaseSeconds = 1
  RetryBase = 0
  MaxClock = 2
  MaxFaults = 1
SYMMETRY MCSymmetry
INVARIANTS
  TypeOK
  ColumnsAgree
  LocksProtect
  AttemptHasOneOwner
  FenceIsExact
  ResultIsOfLastAttempt
  NoneStranded
PROPERTIES
  LiveLeaseIsKept
  ImplementsLifecycle
