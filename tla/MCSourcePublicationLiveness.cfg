CONSTANTS
  a1 = a1
  a2 = a2
  w1 = w1
  w2 = w2
  k1 = k1
  k2 = k2
  t1 = t1
  t2 = t2
  x1 = x1
  x2 = x2
  Starter = a1
  NoWorker = NoWorker
  NoToken = NoToken
  Actor <- OneActor
  Worker <- TwoWorkers
  Request <- OneRequest
  Token <- OneToken
  Acceptance <- OneAcceptance
  MaxConfirmation = 1
  MaxGeneration = 3
SPECIFICATION FairSpec
PROPERTIES SealSettles
