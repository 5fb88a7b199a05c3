---------------------------- MODULE LauncherLayout ----------------------------
(***************************************************************************)
(* The launcher layouts that tools/patch_r1_launcher.py generates: which   *)
(* masks are safe, which mask a launcher.conf selects, and where on the    *)
(* screen each selected tile lies.                                         *)
(*                                                                         *)
(* A mask is the set of its tiles, a launcher.conf the mask it names or    *)
(* NoMask when it names none.  A point is <<x, y>>.                        *)
(***************************************************************************)
EXTENDS Integers, Sequences, FiniteSets

TileOrder == <<"music", "stream", "wireless", "ebook", "system", "cfw", "about">>
Tiles == {TileOrder[i] : i \in 1..7}
DefaultMask == {"music", "system", "cfw", "about"}

ValidMask(mask) ==
  /\ mask \subseteq Tiles
  /\ "cfw" \in mask
  /\ Cardinality(mask) \in 4..6
SafeMasks == {mask \in SUBSET Tiles : ValidMask(mask)}

NoMask == {}
SelectConfig(conf) == IF ValidMask(conf) THEN conf ELSE DefaultMask

\* The numbers of the selected tiles, in the order of the catalogue.
SelectedTiles(mask) == {i \in 1..7 : TileOrder[i] \in mask}

Rectangle(x, y, w, h) == [x |-> x, y |-> y, w |-> w, h |-> h]

\* Four tiles are a wide one, two halves and a wide one; five and six are
\* rows of two halves.
TileGeometry(count) ==
  IF count = 4
  THEN <<Rectangle(0, 0, 480, 246), Rectangle(0, 246, 240, 246),
         Rectangle(240, 246, 240, 246), Rectangle(0, 492, 480, 258)>>
  ELSE [i \in 1..count |->
          Rectangle(((i - 1) % 2) * 240, ((i - 1) \div 2) * 246, 240, 246)]

ContentHeight(count) == IF count = 4 THEN 750 ELSE ((count + 1) \div 2) * 246

\* The layout is shown in a view of 480 x 750 below the status bar.
ViewTop == 50
ViewHeight == 750

Inside(r, x, y) ==
  /\ r.x <= x /\ x < r.x + r.w
  /\ r.y <= y /\ y < r.y + r.h

\* The tiles a touch of the screen falls on.
TilesAt(mask, point) ==
  LET tiles == SelectedTiles(mask)
      at == TileGeometry(Cardinality(tiles))
      place(i) == Cardinality({j \in tiles : j <= i})
  IN {TileOrder[i] : i \in {j \in tiles :
                            Inside(at[place(j)], point[1], point[2] - ViewTop)}}

=============================================================================
