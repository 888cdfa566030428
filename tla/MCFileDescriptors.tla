-------------------------- MODULE MCFileDescriptors --------------------------
(***************************************************************************)
(* Instances of FileDescriptors for TLC.                                   *)
(***************************************************************************)
EXTENDS FileDescriptors, TLC

OneFile == {1}
ShortFile == 1 :> 3
TwoRates == {2, 4}
TwoSizes == {2, 5}
==============================================================================
