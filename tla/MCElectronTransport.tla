-------------------------- MODULE MCElectronTransport --------------------------
(***************************************************************************)
(* Instances of ElectronTransport for TLC.                                 *)
(***************************************************************************)
EXTENDS ElectronTransport

=============================================================================
