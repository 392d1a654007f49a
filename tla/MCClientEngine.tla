---------------------------- MODULE MCClientEngine ----------------------------
(***************************************************************************)
(* Instances of ClientEngine for TLC.                                      *)
(***************************************************************************)
EXTENDS ClientEngine

=============================================================================
