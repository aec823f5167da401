\* A store that holds a stale trade and a recent one.
CONSTANTS
  a = a  b = b  c = c  d = d  p = p  q = q  jun = jun  sep = sep
  Ids = {a, b, c}
  Payloads = {p}
  When <- SessionWhen
  Contract <- SessionContract
  NoContract = NoContract
  Timeframes = {1, 5}
  DefaultTf = 1
  MaxKnown = 3
  MaxHistory = 3
  RestoreLimit = 3
  Day = 1
  Hour = 1
  SessionLength = 10
  MaxTime = 3
SPECIFICATION Spec
PROPERTIES
  RecentTradesAreRestored
