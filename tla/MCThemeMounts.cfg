SPECIFICATION FairSpec
CONSTANTS
  Cfw = Cfw
  a = a
  Tiles <- TwoTiles
  MinTiles = 1
  MaxTiles = 2
  DefaultTiles <- OnlyCfw
  Themes <- AllThemes
  DefaultTheme = "stock"
CONSTRAINT OneUnflushed
INVARIANTS StockExposed AppliedWhole
PROPERTIES SavedIsTaken BootCompletes
