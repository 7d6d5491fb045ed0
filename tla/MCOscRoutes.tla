---------------------------- MODULE MCOscRoutes -----------------------------
(***************************************************************************)
(* OscRoutes for TLC.  Paths and signals of one side are compared only for    *)
(* equality; no value but Default is special.                                *)
(***************************************************************************)
EXTENDS OscRoutes, TLC

Symmetry ==
  Permutations(OutPath) \cup Permutations(InPath) \cup Permutations(Out) \cup Permutations(In)
=============================================================================
