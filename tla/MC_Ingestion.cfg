\* Repeats, conflicts, a rollover, crashes and restarts over vendor trades of two contracts and a legacy one.
CONSTANTS
  a = a  b = b  c = c  d = d  p = p  q = q  jun = jun  sep = sep
  Ids = {a, b, c, d}
  Payloads = {p, q}
  When <- MixedWhen
  Contract <- MixedContract
  NoContract = NoContract
  Timeframes = {1, 5}
  DefaultTf = 1
  MaxKnown = 1
  MaxHistory = 2
  RestoreLimit = 3
  Day = 1
  Hour = 1
  SessionLength = 2
  MaxTime = 2
SPECIFICATION Spec
SYMMETRY MixedSymmetry
INVARIANTS
  IngestionInv
  DurableBeforePublished
  CountedOnce
  RestoredIsComplete
PROPERTIES
  BlockedIsFinal
