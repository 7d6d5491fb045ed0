----------------------------- MODULE MCNsmClient -----------------------------
(***************************************************************************)
(* NsmClient for TLC.                                                       *)
(***************************************************************************)
EXTENDS NsmClient
=============================================================================
