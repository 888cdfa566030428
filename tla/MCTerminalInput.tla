--------------------------- MODULE MCTerminalInput ---------------------------
(***************************************************************************)
(* Instances of TerminalInput for TLC.                                     *)
(***************************************************************************)
EXTENDS TerminalInput

NoSituation == {}
SwitchAway == {"switch_away"}
AnySituation == {"type_ahead", "switch_away"}
NoBytes == {0}
TwoSizes == {1, 4}
==============================================================================
