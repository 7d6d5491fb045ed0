SPECIFICATION Spec
CONSTANTS
  Val = {a, b}
  Nil = Nil
  MaxId = 3
  MaxLogId = 2
  MaxBirths = 2
  MaxLines = 4
  MaxUndoLines = 5
  MaxLevel = 1
  MaxNest = 1
  ImportIds = {1}
  Crashes = TRUE
  TornWrites = TRUE
  SavesInSession = TRUE
  CompactsEmpty = TRUE
SYMMETRY Symmetry
INVARIANT TypeOK
 
 
INVARIANT IdsAreFresh
INVARIANT CleanMeansUnchanged
 
 
