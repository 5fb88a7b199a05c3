SPECIFICATION Spec
CONSTANTS
  ChunkSize = 2
  Areas = {"root", "rootCE", "ota", "otaCE", "otaCE2"}
  RootArea = "root"
  LeadsTo <- MCLeadsTo
  Incomplete = Incomplete
  OverlayFiles = {"r1-cfw-ui"}
  Config = {"config"}
  StockLayouts = {"hiby_launcher"}
  BrandFiles = {"about_view", "about_ini"}
  PlayerFiles = {"hiby_player", "developer_options"}
  WrapperFiles = {"hiby_player.sh"}
  LauncherTexts = {"launcher.ini"}
  LauncherIcons = {"cfw.png"}
  LauncherViews = {"71.view"}
  RetroViews = {"retro71.view"}
  LightFiles = {"about_view", "cfw.png"}
  NoTheme = NoTheme
  PartTheme = PartTheme
  Sizes = {3, 4, 5}
  MaxSize = 4
  KernelImage <- MCKernel
  Pad = Pad
  Bad = Bad
  Hours = {h1}
  Epoch = epoch
  MaxEvents = 2
  None = None
  k1 = k1
  k2 = k2
INVARIANTS
  AcceptedIsComplete
  QuietPrepareSucceeds
  UnpackTruthful
  ApplyAgreesWithCheck
  PackedIsReproducible
