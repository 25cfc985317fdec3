SPECIFICATION FairSpec
CONSTANTS
  Process = {p1}
  NoProcess = NoProcess
  Tasks = 2
  Question = FALSE
  MaxModelCalls = 2
  MaxGeneration = 3
  MaxAdoption = 1
  Event = {"crash", "close", "deadline", "backup", "model", "PAUSE", "RESUME", "CANCEL", "ADOPT"}
INVARIANTS TypeOK ResultIsCurrent
PROPERTIES KeepsCallOnce DecisionsStand NoInvestigationHangs
CHECK_DEADLOCK FALSE
