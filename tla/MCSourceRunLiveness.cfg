CONSTANTS
  a1 = a1
  a2 = a2
  w1 = w1
  w2 = w2
  r1 = r1
  r2 = r2
  NoWorker = NoWorker
  NoActor = NoActor
  NoRun = NoRun
  Actor <- OneActor
  Worker <- TwoWorkers
  Run <- OneRun
  Directory = {TRUE}
  MaxGeneration = 2
  MaxOperation = 2
  MaxRevision = 1
SPECIFICATION FairSpec
PROPERTIES NoRunHangs
