SPECIFICATION Spec
CONSTANTS
  s1 = s1
  g1 = g1
  f1 = f1
  h1 = h1
  None = None
  Streams = {s1, f1}
  Generates = {g1, h1}
  Fakes = {f1, h1}
  Chunks = 2
  FailAfter = 1
  SdkErrors <- MCSdkErrors
  ResponseCodes <- MCResponseCodes
  MaxTexts = 1
INVARIANTS
  EndedCallsAreClean
PROPERTIES
  ImplementsContract
\* Every call comes to its end.
CHECK_DEADLOCK FALSE
