\* Two goroutines over three proxies and one no transport supports, a cache of two
\* entries and the direct one, and a clock that lets an entry become idle.
SPECIFICATION Spec
CONSTANTS
    Callers = {c1, c2}
    Proxies = {p1, p2, p3, p4}
    Unsupported = {p4}
    Direct = Direct
    AllowDirect = TRUE
    MaxRetries = 2
    MaxEntries = 2
    IdleAfter = 0
    MaxTime = 1
INVARIANTS CacheInv LeaseReturned AttemptsBounded
