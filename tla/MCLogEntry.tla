----------------------------- MODULE MCLogEntry ------------------------------
(***************************************************************************)
(* LogEntry for TLC.  "back" is the backslash, "nl" the newline; the letters  *)
(* n, p and q matter as they follow a backslash or a colon.                   *)
(***************************************************************************)
EXTENDS LogEntry

PlainChars == {"x", "n", "p", "quote", "nl", "sp", "colon"}
BackslashChars == {"n", "back"}
=============================================================================
