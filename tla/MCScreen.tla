------------------------------ MODULE MCScreen ------------------------------
(***************************************************************************)
(* The instance of Screen for TLC needs no definitions of its own.         *)
(***************************************************************************)
EXTENDS Screen
=============================================================================
