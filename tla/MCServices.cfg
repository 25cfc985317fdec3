CONSTANTS
  Account = {i1, i2, i3}
  NoAccount = NoAccount
  Role = {"PERMISSION_ADMIN", "business-owner", "compliance"}
  Runner = {r1, r2}
  NoRunner = NoRunner
  Phases = 2
  MaxLog = 5
  Run = {i1, i2, i3}
  NoRun = NoRun
  Member = {m1}
  Backup = {b1}
  Chunks = 2
  Request = {i1, i2, i3}
  Origin = origin
  Call = {c1, c2}
  Graph = {g0, g1, g2}
  First = g0
  NoGraph = NoGraph
  Nobody = Nobody
  MaxVersion = 3
SPECIFICATION Services
SYMMETRY Interchangeable
INVARIANTS OneOwner AdminRemains ReferencedIsThere ReleasedStaysGone BackupsKept AdmittedAsSeen
PROPERTIES ConflictsOnlyReturn ManagersAppointed EndHolds
CHECK_DEADLOCK FALSE
