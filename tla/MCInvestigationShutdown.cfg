SPECIFICATION Spec
CONSTANTS
  Process = {p1}
  NoProcess = NoProcess
  Tasks = 2
  Question = FALSE
  MaxModelCalls = 4
  MaxGeneration = 5
  MaxAdoption = 0
  Event = {"close"}
INVARIANTS ShutdownIsNoFailure
CHECK_DEADLOCK FALSE
