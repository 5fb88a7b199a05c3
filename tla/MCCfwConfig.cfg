SPECIFICATION ConfigSpec
CONSTANTS
  Cfw = Cfw
  a = a
  b = b
  Tiles <- FewTiles
  MinTiles = 2
  MaxTiles = 3
  DefaultTiles <- FewDefault
  Themes <- TwoThemes
  DefaultTheme = "stock"
  Pids = {p1, p2}
  Nothing = Nothing
SYMMETRY AnyPid
CONSTRAINT Bounded
INVARIANTS MirrorsFile
PROPERTIES StoreSpec TapFlipsRow
