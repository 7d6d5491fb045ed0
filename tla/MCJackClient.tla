---------------------------- MODULE MCJackClient ----------------------------
(***************************************************************************)
(* JackClient for TLC.                                                      *)
(***************************************************************************)
EXTENDS JackClient
=============================================================================
