SPECIFICATION Spec
CONSTANTS
    None = None
    BidPrices = {1, 2}
    AskPrices = {3}
    MaxSize = 1
    Top = 1
    Interval = 2
    RingSize = 2
    Batch = 2
    QueueSize = 3
    HasVendor = TRUE
    MaxId = 3
    MaxFeeds = 2
    MaxClock = 4
    TickDays = 1
    BarDays = 2
    Vacuums = TRUE
    Chunk = 1
    MaxDay = 4
    MaxStarts = 2
INVARIANTS
    StreamIsTrue
    MigrationKeepsRows
PROPERTY OnlyOldRowsGo
CHECK_DEADLOCK FALSE
