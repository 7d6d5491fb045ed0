----------------------------- MODULE JournalUndo -----------------------------
(***************************************************************************)
(* The journal of Loggable.C implements UndoStore.  The committed states are *)
(* those at the places of the file between two blocks; the state of a        *)
(* program that is in the middle of undo() is the one undo() began with.     *)
(***************************************************************************)
EXTENDS Journal, FiniteSets

(* Is line k of q inside a block that is not closed up to there? *)
Inside(q, k) ==
  \E b \in 1..k : q[b].op = "begin" /\ \A e \in b..k : q[e].op # "end"

(* the offsets between blocks *)
Places == {k \in 0..Len(file) : ~Inside(file, k)}

(* the number of such offsets up to k *)
Rank(P, k) == Cardinality({j \in P : j <= k})

IsUp == mode \in {"open", "undo"}

Shown == CASE mode = "open" -> Logged [] mode = "undo" -> At(Len(file)) [] OTHER -> Empty

Past ==
  LET P == Places
  IN [n \in 1..Cardinality(P) |-> At(CHOOSE k \in P : Rank(P, k) = n)]

(* 0 where the undo offset is no place between blocks of the file *)
Point ==
  LET P == Places
  IN IF IsUp /\ undoOff \in P THEN Rank(P, undoOff) ELSE 0

Store == INSTANCE UndoStore WITH
  State <- State, Blank <- Empty, up <- IsUp, shown <- Shown, past <- Past, point <- Point

(* "Reverse the last journal transaction": whatever mix of edits, blocks,      *)
(* undos, undos of undos, compactions, closings and reopenings went before,     *)
(* undo() takes back exactly one transaction, all of it and nothing else, a     *)
(* change is committed as a whole, and open() comes back to what was committed  *)
(* last (do_this, flush, undo, replay and compact together).                    *)
ImplementsUndoStore == Store!Spec
=============================================================================
