SPECIFICATION Spec
CONSTANTS
  Notes = 1
  MaxTick = 2
  MaxEvents = 4
  MaxClip = 2
  MaxSelected = 2
  Takes <- CleanTakes
  Overlaps = FALSE
  Removes = TRUE
  InsertsTime = TRUE
INVARIANT InsertTimeKeepsEvents
