CONSTANTS
  a1 = a1
  a2 = a2
  w1 = w1
  w2 = w2
  r1 = r1
  r2 = r2
  NoWorker = NoWorker
  NoActor = NoActor
  NoRun = NoRun
  Actor <- TwoActors
  Worker <- TwoWorkers
  Run <- TwoRuns
  Directory = {TRUE, FALSE}
  MaxGeneration = 3
  MaxOperation = 1
  MaxRevision = 2
SPECIFICATION Spec
CONSTRAINT Slice
SYMMETRY Interchangeable
INVARIANTS TypeOK OneExecutor OneActiveRun RunFollowsDraft
PROPERTIES EndedRunsStay RestoredRunWaits
