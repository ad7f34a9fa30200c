\* The matches cycle and one that is stored, two items per answer, two versions of the
\* upstream data, one failure.  A cancelled process ends.
SPECIFICATION FairSpec
CONSTANTS
    Stored <- MCStored
    AtStart = {"teams"}
    Periodic = {"matches", "teams"}
    Items = 2
    AllowDirect = FALSE
    MinSize = 1
    Sizes = {0, 1}
    MaxPolls = 2
    MaxVersion = 2
    MaxFailures = 1
INVARIANTS SchedulerInv
PROPERTIES KeepsRefreshing Stops
CHECK_DEADLOCK FALSE
