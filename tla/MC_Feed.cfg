SPECIFICATION Spec
CONSTANTS
  t1 = t1
  t0 = t0
  Modes = {"ordinary", "open"}
  Ids <- Trades
  OldIds <- OldTrades
  Bars = {1, 2}
  OldBars = {1}
  BarLimit = 1
  FreshFor = 1
  Lifetime = 3
  MaxTicks <- Ticks
  MaxJoins = 2
  MaxFetches = 1
INVARIANT ToldTheTruth
PROPERTIES
  StepsAreCurrent
  ComesToRest
CHECK_DEADLOCK FALSE
