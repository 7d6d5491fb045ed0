SPECIFICATION Spec
CONSTANTS
  Chars <- PlainChars
  MaxLen = 2
  Digit = {"0", "1"}
  Nil = Nil
INVARIANT ForwardRestores
INVARIANT ReverseRestores
INVARIANT LineNamesTheChange
