-------------------------------- MODULE ConfFile -------------------------------
(***************************************************************************)
(* The two one-line files of /usr/data/r1-cfw: launcher.conf names the     *)
(* launcher tiles to show, theme.conf the theme.  They have two readers    *)
(* that parse differently: the C code of r1_cfw_data.c, shared by the      *)
(* sidecar UI and its data commands, and the sed scripts of S90r1-cfw.     *)
(*                                                                         *)
(* A launcher mask is the set of its tiles.  A file's text is abstracted   *)
(* to what a reader can tell: absent; one well-formed line ("exact"); one  *)
(* matching line with something around it, or without its newline          *)
(* ("loose"); anything else ("garbage", two matching lines included).      *)
(***************************************************************************)
EXTENDS Naturals, FiniteSets

CONSTANTS Tiles,         \* the tiles a mask has a bit for
          Cfw,           \* the tile that opens the CFW menu
          MinTiles,      \* R1_CFW_LAUNCHER_MIN_TILES
          MaxTiles,      \* R1_CFW_LAUNCHER_MAX_TILES
          DefaultTiles,  \* R1_CFW_LAUNCHER_DEFAULT
          Themes,        \* the names of theme_entries
          DefaultTheme   \* R1_CFW_THEME_DEFAULT

\* A mask the firmware can show: the CFW tile and a bounded number of tiles.
valid_mask(m) ==
  /\ m \subseteq Tiles
  /\ Cfw \in m
  /\ Cardinality(m) \in MinTiles .. MaxTiles

ASSUME TilesAssumption == IsFiniteSet(Tiles)
ASSUME DefaultAssumption == valid_mask(DefaultTiles) /\ DefaultTheme \in Themes

Leaves == {"launcher", "theme"}

\* What a line of each file can say, and which of it the C code accepts.
Values  == [launcher |-> SUBSET Tiles, theme |-> Themes]
Good    == [launcher |-> {m \in SUBSET Tiles : valid_mask(m)}, theme |-> Themes]
Default == [launcher |-> DefaultTiles, theme |-> DefaultTheme]

Exact(v) == [form |-> "exact", value |-> v]
Absent   == [form |-> "absent"]
Garbage  == [form |-> "garbage"]

Contents(l) == {Absent, Garbage} \cup [form : {"exact", "loose"}, value : Values[l]]

\* r1_cfw_launcher_load and r1_cfw_theme_load: the whole file is one line.
Accepted(l, c) == c.form = "exact" /\ c.value \in Good[l]
Loaded(l, c)   == IF Accepted(l, c) THEN c.value ELSE Default[l]

\* A file that is there but is not accepted is replaced by the default.
Broken(l, c) == c # Absent /\ ~Accepted(l, c)

\* read_mask and read_theme of S90r1-cfw: one line matches, and any mask does.
Selected(l, c) == IF c.form \in {"exact", "loose"} THEN c.value ELSE Default[l]

================================================================================
