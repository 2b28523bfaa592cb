---------------------------- MODULE MCFatWindow ----------------------------
(* An instance of FatWindow for TLC.                                       *)
EXTENDS FatWindow

CONSTANTS a, b
=============================================================================
