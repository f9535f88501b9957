\* The same request is sent twice at once; nothing fails.
SPECIFICATION Spec
CONSTANTS
  r1 = r1
  r2 = r2
  r3 = r3
  r4 = r4
  k1 = k1
  k2 = k2
  p1 = p1
  p2 = p2
  None = None
  Requests = {r1, r2}
  Keys = {k1, k2}
  Payloads = {p1, p2}
  KeyOf <- MCKeyOf
  PayloadOf <- MCPayloadOf
  Dispatchers = {d1}
  Workers = {w1}
  BatchSize = 2
  MaxAborts = 0
  MaxKills = 0
  MaxErrors = 0
INVARIANTS
  RepeatGetsSameJob
CHECK_DEADLOCK FALSE
