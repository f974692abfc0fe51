------------------------- MODULE MCServiceRestarter -------------------------
(***************************************************************************)
(* Instance of ServiceRestarter for TLC.                                   *)
(***************************************************************************)
EXTENDS ServiceRestarter
=============================================================================
