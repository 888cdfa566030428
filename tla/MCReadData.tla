----------------------------- MODULE MCReadData -----------------------------
(***************************************************************************)
(* Instances of ReadData for TLC.                                          *)
(***************************************************************************)
EXTENDS ReadData

TwoBlocks == {0, 1}
Sizes == 1 .. 5
=============================================================================
