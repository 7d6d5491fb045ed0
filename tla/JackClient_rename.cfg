SPECIFICATION FairSpec
CONSTANTS
  Port = {p, q}
  Foreign = {f, g}
  Name = {m, n}
  Elsewhere = Elsewhere
  Closed = Closed
CHECK_DEADLOCK FALSE
INVARIANT TypeOK
INVARIANT ConnectionsRestored
INVARIANT CallbacksKeptOut
PROPERTY RenameEnds
