SPECIFICATION LSpec
CONSTANTS
    Proxies = {p1}
    Clients = {c1, c2}
    Tokens = {t1, t2, t3}
    NoProxy = NoProxy
    NoToken = NoToken
    SubTicks = 2
    Holds = {0, 2}
    DefaultTtl = 2
    TopN = 20
    MaxFailures = 2
    InitialWeight = 0
    SuccessBoost = 0
    FailurePenalty = 0
    Burst = 2
    Window = 1
    MaxSec = 3
    MaxWeight = 0
    MaxStreak = 3
SYMMETRY Symmetry
INVARIANTS LeaseExclusive AdmissionRate RefusalEarned
PROPERTIES RefusedOnlyWhileHeld EvictionEarned
