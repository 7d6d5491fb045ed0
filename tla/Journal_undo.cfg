SPECIFICATION FairSpec
CONSTANTS
  Val = {a, b}
  Nil = Nil
  MaxId = 2
  MaxLogId = 2
  MaxBirths = 2
  MaxLines = 4
  MaxUndoLines = 9
  MaxLevel = 1
  MaxNest = 1
  ImportIds = {}
  Crashes = FALSE
  TornWrites = FALSE
  SavesInSession = FALSE
  CompactsEmpty = FALSE
INVARIANT UndoPointIsPresent
INVARIANT NeverAborts
 
PROPERTY ImplementsUndoStore
PROPERTY LoopsEnd
