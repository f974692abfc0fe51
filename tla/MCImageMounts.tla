---------------------------- MODULE MCImageMounts ----------------------------
(***************************************************************************)
(* Instance of ImageMounts for TLC.                                        *)
(***************************************************************************)
EXTENDS ImageMounts
=============================================================================
