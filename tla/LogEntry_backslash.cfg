SPECIFICATION Spec
CONSTANTS
  Chars <- BackslashChars
  MaxLen = 2
  Digit = {"0", "1"}
  Nil = Nil
INVARIANT ForwardRestores
