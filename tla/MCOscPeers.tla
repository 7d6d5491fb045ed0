----------------------------- MODULE MCOscPeers -----------------------------
(***************************************************************************)
(* OscPeers for TLC.  Paths are compared for equality only.                  *)
(***************************************************************************)
EXTENDS OscPeers, TLC

Symmetry == Permutations(Path)
=============================================================================
