CONSTANTS
  p1 = p1
  p2 = p2
  s1 = s1
  r1 = r1
  r2 = r2
  b1 = b1
  b2 = b2
  Process = {p1, p2}
  Scope = {s1, r1, r2}
  Ordinary = {s1}
  Automatic = {s1}
  Request = {r1, r2}
  Batch = {b1, b2}
  MaxGeneration = 2
  Budget = 1
SPECIFICATION Spec
CONSTRAINT Slice
SYMMETRY Interchangeable
INVARIANTS TypeOK LedgerKept OneScopeExecutor ReadyIsComplete OutcomeIsTrue
PROPERTIES ScopeDecisionsStand EndedPublishesNothing
