------------------------------- MODULE MCCfwConfig -----------------------------
(***************************************************************************)
(* Three tiles of which a mask shows two or three, two themes, and two     *)
(* process ids: the UI beside a command, or two commands.  At most one     *)
(* leftover temporary file at a time.  No action tells a "loose" text from *)
(* "garbage", so none of the former is an initial text.                    *)
(***************************************************************************)
EXTENDS CfwConfig, TLC

CONSTANTS a, b

FewTiles   == {Cfw, a, b}
FewDefault == {Cfw, a}
TwoThemes  == {"stock", "retro"}
AnyPid     == Permutations(Pids)

\* The bounds: one file in play at a time, the other at its default; one of
\* its changes not flushed; nothing after a leftover, which only makes saves
\* fail; no loose text.
InPlay(l) == \/ conf[l] \notin {Absent, Exact(Default[l])}
             \/ Cardinality(disk[l]) > 1
             \/ shown[l] # Default[l]
             \/ foreign[l]

Bounded ==
  /\ Cardinality({l \in Leaves : InPlay(l)}) <= 1
  /\ \A l \in Leaves : Cardinality(disk[l]) <= 2 /\ conf[l].form # "loose"
  /\ \A l \in Leaves, p \in Pids : temp[l][p] # "left"

================================================================================
