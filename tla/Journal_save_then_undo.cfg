SPECIFICATION Spec
CONSTANTS
  Val = {a, b}
  Nil = Nil
  MaxId = 2
  MaxLogId = 3
  MaxBirths = 2
  MaxLines = 4
  MaxUndoLines = 5
  MaxLevel = 1
  MaxNest = 1
  ImportIds = {}
  Crashes = FALSE
  TornWrites = FALSE
  SavesInSession = TRUE
  CompactsEmpty = FALSE
INVARIANT UndoPointIsPresent
