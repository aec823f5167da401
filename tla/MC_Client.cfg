\* The client under every input, clock change and denial, and its socket in the end.
CONSTANTS
  Waiters = {w1, w2}
  MaxWaiters = 1
  Expires = 2
  MaxTime = 3
  MaxTrades = 2
SPECIFICATION LiveSpec
INVARIANTS
  ClientInv
PROPERTIES
  DeliveredInTime
  ExpiryCloses
  RevocationCloses
