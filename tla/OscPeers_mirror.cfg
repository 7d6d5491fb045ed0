SPECIFICATION FairSpec
CONSTANTS
  Node = {a, b}
  Path = {x, y}
  BatchSize = 1
  Editors = {b}
  MaxEdits = 3
  MaxHellos = 1
  MaxPort = 2
  EditsWhenHalfMet = FALSE
  DeletesWhileScanned = FALSE
CHECK_DEADLOCK FALSE
INVARIANT TypeOK
INVARIANT MirrorIsComplete
INVARIANT MirrorIsExact
PROPERTY ScanEnds
PROPERTY MeetingIsMutual
