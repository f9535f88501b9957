SPECIFICATION FairSpec
CONSTANTS
  a1 = a1
  a2 = a2
  a3 = a3
  a4 = a4
  a5 = a5
  a6 = a6
  k = k
  p1 = p1
  p2 = p2
  old = old
  new = new
  rotated = rotated
  s1 = s1
  s2 = s2
  m1 = m1
  m2 = m2
  None = None
  NoKey = NoKey
  BlankKey = BlankKey
  Requests = {a1, a2, a3, a4, a5, a6}
  Keys = {k}
  Payloads = {p1, p2}
  Releases = {old, new, rotated}
  Secrets = {s1, s2}
  Profiles = {m1, m2}
  KeyOf <- MCKeyOf
  PayloadOf <- MCPayloadOf
  ServedBy <- MCServedBy
  SecretOf <- MCSecretOf
  ProfileOf <- MCProfileOf
  WithinLimits <- MCWithinLimits
  MaxFaults = 1
INVARIANTS
  TypeOK
  AnswersAgree
PROPERTIES
  KeepsPromise
  EveryCallEnds
\* The calls are finite in number: when all are answered nothing is left.
CHECK_DEADLOCK FALSE
