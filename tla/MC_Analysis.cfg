\* Trades, replayed and live; charts from the store; alerts.
CONSTANTS
  None = None
  jun = jun
  sep = sep
  BarTime = 2
  MaxStored = 2
  MaxTickIds = 3
  Whole <- WholePrices
  Ratio = 3
  Stack = 2
  BracketTime = 3
  SampleTime = 2
  MaxSamples = 2
  Trades <- FiveTrades
  Stored <- OldTrade
  Limit = 5
  Speeds = {1, 2}
  Market <- SomeMarket
  MaxRules <- RulesOfPlan
  MaxTime = 3
  Users = {u1}
  RuleIds = {r1, r2}
  Plans = {"free", "pro"}
  Thresholds = {1}
  Cooldowns = {2}
  Deleted = Deleted
  MaxPerWindow = 2
  LimitTime = 2
  DedupTtl = 1
  DedupSize = 1
  KeyTime = 2
  MaxAlerts = 3
  Intervals = {60, 120}
  RangeLimit = 3
  PageLimit = 3
  CacheTime = 1
  Retention = 2
  Span = 2
  LargeSize = 2
  MaxPoints = 2
  Countback = 2
SPECIFICATION MCSpec
SYMMETRY Alike
INVARIANTS
  ChartsAreTrue
  AlertsAreRare
  CompleteWhenSettled
  FiguresAddUp
PROPERTY RulesWithinPlan
