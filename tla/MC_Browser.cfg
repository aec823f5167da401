CONSTANTS
  Sessions = {s1, s2}
  Owners = {primary, pane}
  Primary = primary
  Symbols = {ES, NQ}
  Home = ES
  Opening = ES
  Frames = {m1, m5}
  Minute = m1
  None = None
  AuthRequired = FALSE
  PromptFeeds = TRUE
  MaxGeneration = 20
  MaxChoices = 2
  Instruments = {"ES", "NQ"}
  Standard = "ES"
  OfPanes = {"NQ"}
  MaxSwitches = 2
  MaxSockets = 2
  MaxOnTheWay = 2
  Charts <- TwoCharts
  OpeningChart <- ES1
  Edge = 5
  Page = 1
  Priming = 1
  Target = 1
  Fallback = 1
  MAX_HISTORY_BARS_PER_TF = 2
  MAX_CLIENT_BARS = 2
  MAX_CLIENT_HISTORY_BARS = 3
  Retained = 3
  Vendor <- SomeBars
  MaxNow = 6
  MaxVisits = 2
  MaxLosses = 1
  Presets <- OneHour
  Width = 16
  Height = 50
  rightMargin = 4
  bottomMargin = 10
  Ratios <- SomeRatios
  Unit = 4
  WallThreshold = 3
  MaxFlights = 2
  ZoomedFrom <- SomeZooms
  MaxPan = 6000
SPECIFICATION MCSpec
SYMMETRY Symmetry
INVARIANTS
  OthersAreRestored
  PagesCoverTheBars
  ScreenIsTrue
  CanvasIsTrue
  HeatmapIsTrue
CHECK_DEADLOCK FALSE
