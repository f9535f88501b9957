\* One worker is lost and its delivery comes back.
SPECIFICATION FairSpec
CONSTANTS
  r1 = r1
  r2 = r2
  r3 = r3
  r4 = r4
  k1 = k1
  k2 = k2
  p1 = p1
  p2 = p2
  None = None
  Requests = {r1}
  Keys = {k1, k2}
  Payloads = {p1, p2}
  KeyOf <- MCKeyOf
  PayloadOf <- MCPayloadOf
  Dispatchers = {d1}
  Workers = {w1, w2}
  BatchSize = 2
  MaxAborts = 0
  MaxKills = 1
  MaxErrors = 0
PROPERTIES
  EveryExportEnds
CHECK_DEADLOCK FALSE
