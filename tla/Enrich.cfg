\* Four sources over two versions of the remote files with two failed calls or kills;
\* the sort over all slices of three sources with up to two dependencies each.
SPECIFICATION MCSpec
CONSTANTS
    Order <- FourSources
    Interval = 2
    RunAtStart = TRUE
    LocalDir = TRUE
    ForceBootstrap = FALSE
    MaxVersion = 2
    MaxFaults = 2
    MaxRunTicks = 1
    Watched = {2}
    MaxSources = 3
    MaxDeps = 2
INVARIANTS EnrichInv StalenessBounded SortIsCorrect
PROPERTY Converges
