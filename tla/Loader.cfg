\* Two chunks of the seed list, an overlapping remote list, both tickers; a proxy changes
\* its health once, two are evicted and one call fails.  The loader may be stopped.
SPECIFICATION LoaderSpec
CONSTANTS
    p1 = p1
    p2 = p2
    p3 = p3
    p4 = p4
    SeedList <- Seed3
    RemoteList <- Remote2
    Parallel = 2
    ChunkSize = 2
    MinPublish = 2
    MaxVia = 2
    MinPoolSize = 2
    DefaultMinPool = 2
    TopUp = TRUE
    Refresh = TRUE
    MaxFlips = 1
    MaxEvictions = 2
    MaxFaults = 1
INVARIANTS LoaderInv
PROPERTY Refilled
CHECK_DEADLOCK FALSE
