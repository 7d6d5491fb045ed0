SPECIFICATION Spec
CONSTANTS
  Out = {s, t}
  In = {d, e}
  OutPath = {w, x, y}
  InPath = {p, q, r}
  Value = {0, 1}
  Default = 0
  Nobody = Nobody
  MaxChanges = 6
  MaxMessages = 2
  Options = {}
CHECK_DEADLOCK FALSE
SYMMETRY Symmetry
INVARIANT TypeOK
INVARIANT RoutesFollowSignals
 
