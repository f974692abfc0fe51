---------------------------- MODULE MCLogPipeline ----------------------------
(***************************************************************************)
(* Instance of LogPipeline for TLC.                                        *)
(***************************************************************************)
EXTENDS LogPipeline
=============================================================================
