------------------------------ MODULE MCJournal ------------------------------
(***************************************************************************)
(* Journal for TLC.  Journaled states are compared for equality only, so    *)
(* the members of Val are interchangeable.                                  *)
(***************************************************************************)
EXTENDS JournalUndo, TLC

Symmetry == Permutations(Val)
=============================================================================
