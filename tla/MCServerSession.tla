-------------------------- MODULE MCServerSession --------------------------
(***************************************************************************)
(* Instances of ServerSession for TLC.                                     *)
(***************************************************************************)
EXTENDS ServerSession, TLC

FrameSymmetry == Permutations(AuthFrame) \cup Permutations(Call)
=============================================================================
