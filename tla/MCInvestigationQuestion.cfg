SPECIFICATION Spec
CONSTANTS
  Process = {p1, p2}
  NoProcess = NoProcess
  Tasks = 2
  Question = TRUE
  MaxModelCalls = 2
  MaxGeneration = 3
  MaxAdoption = 0
  Event = {"crash", "lapse", "model", "admission", "backup", "RESUME"}
SYMMETRY Symmetry
INVARIANTS NoReplay BudgetKept
CHECK_DEADLOCK FALSE
