CONSTANTS
  p1 = p1
  p2 = p2
  s1 = s1
  r1 = r1
  r2 = r2
  b1 = b1
  b2 = b2
  Process = {p1}
  Scope = {s1, r1}
  Ordinary = {s1}
  Automatic = {s1}
  Request = {r1}
  Batch = {b1}
  MaxGeneration = 2
  Budget = 1
  Member = {m1}
  Worker = {w1}
  Asker = {k1}
  Renewal = {c1}
  MaxExecution = 2
SPECIFICATION FairRecovery
PROPERTIES ScopesSettle RequestsEnd RenewalsSettle
