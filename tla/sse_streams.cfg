\* Two requests for one permit, and deltas that reach or exceed the limit.
SPECIFICATION FairSpec
CONSTANTS
  Streams = {s1, s2}
  Capacity = 1
  MaxChars = 2
  DeltaSizes = {1, 2}
INVARIANTS
  TypeOK
  PermitsAccounted
  WorkIsLeased
  OutputIsBounded
PROPERTIES
  ErrorIsLast
  EveryRequestAnswered
\* When every request is over there is nothing left to do.
CHECK_DEADLOCK FALSE
