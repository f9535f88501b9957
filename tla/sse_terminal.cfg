\* One stream; the client stays connected or not.
SPECIFICATION Spec
CONSTANTS
  Streams = {s1}
  Capacity = 1
  MaxChars = 2
  DeltaSizes = {1}
INVARIANTS
  ExactlyOneTerminal
CHECK_DEADLOCK FALSE
