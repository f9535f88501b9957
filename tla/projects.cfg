SPECIFICATION FairSpec
CONSTANTS
  g1 = g1
  g2 = g2
  g3 = g3
  l1 = l1
  l3 = l3
  c1 = c1
  c2 = c2
  c3 = c3
  q1 = q1
  q2 = q2
  q3 = q3
  d1 = d1
  None = None
  Registers = {g1, g2, g3}
  Logins = {l1, l3}
  Creates = {c1, c2, c3}
  Pages = {q1, q2, q3}
  Reads = {d1}
  EmailOf <- MCEmailOf
  Lower <- MCLower
  PasswordOf <- MCPasswordOf
  LoginOf <- MCLoginOf
  NameOf <- MCNameOf
  OffsetOf <- MCOffsetOf
  TargetOf <- MCTargetOf
  After <- MCAfter
  Limit = 1
  Threads = 2
  PoolSize = 1
  MaxFaults = 1
INVARIANTS
  TypeOK
  AnswersAgree
  OwnRowsOnly
  
PROPERTIES
  EveryRequestEnds
\* The requests are finite in number: when all are answered nothing is left.
CHECK_DEADLOCK FALSE
