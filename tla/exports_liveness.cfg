\* Failing calls and dispatchers, duplicate deliveries, but no fault of a worker.
SPECIFICATION FairSpec
CONSTANTS
  r1 = r1
  r2 = r2
  r3 = r3
  r4 = r4
  k1 = k1
  k2 = k2
  p1 = p1
  p2 = p2
  None = None
  Requests = {r1, r2, r4}
  Keys = {k1, k2}
  Payloads = {p1, p2}
  KeyOf <- MCKeyOf
  PayloadOf <- MCPayloadOf
  Dispatchers = {d1, d2}
  Workers = {w1, w2}
  BatchSize = 2
  MaxAborts = 1
  MaxKills = 0
  MaxErrors = 0
PROPERTIES
  EveryExportEnds
  KeepsPromise
\* The calls are finite in number: when they have ended there is no more work.
CHECK_DEADLOCK FALSE
