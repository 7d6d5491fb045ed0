SPECIFICATION Spec
CONSTANTS
  Notes = 1
  MaxTick = 1
  MaxEvents = 4
  MaxClip = 2
  MaxSelected = 1
  Takes <- RawTakes
  Overlaps = TRUE
  Removes = FALSE
  InsertsTime = TRUE
INVARIANT NotesArePaired
