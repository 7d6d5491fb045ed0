SPECIFICATION Spec
CONSTANTS
  Notes = 2
  MaxTick = 2
  MaxEvents = 4
  MaxClip = 2
  MaxSelected = 2
  Takes <- CleanTakes
  Overlaps = FALSE
  Removes = TRUE
  InsertsTime = FALSE
INVARIANT TypeOK
INVARIANT Sorted
 
INVARIANT SelectionTakesWholeNotes
INVARIANT SizeIsLength
INVARIANT PasteKeepsNotes
 
INVARIANT CutKeepsTheRest
