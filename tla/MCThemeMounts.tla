------------------------------ MODULE MCThemeMounts ----------------------------
(***************************************************************************)
(* Two tiles, of which a mask shows one or both: two masks the firmware    *)
(* can show and two it cannot.  All four themes.                           *)
(***************************************************************************)
EXTENDS ThemeMounts

CONSTANT a

TwoTiles  == {Cfw, a}
OnlyCfw   == {Cfw}
AllThemes == {"stock", "light", "dark", "retro"}

\* The bounds: one change that is not flushed, and none while the script runs.
OneUnflushed ==
  Cardinality(past["launcher"]) + Cardinality(past["theme"])
    <= IF at = "idle" THEN 3 ELSE 2

================================================================================
