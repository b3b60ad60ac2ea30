----------------------------- MODULE MCFitting ------------------------------
(***************************************************************************)
(* The runs whose requests stay within what a field can hold, as the       *)
(* theorems about a save suppose.                                          *)
(***************************************************************************)
EXTENDS MCSettings

ASSUME FittingAssumption == SettingsFit
=============================================================================
