---------------------------- MODULE MCNodeWait ----------------------------
(***************************************************************************)
(* Instance of NodeWait for TLC.                                           *)
(***************************************************************************)
EXTENDS NodeWait
=============================================================================
