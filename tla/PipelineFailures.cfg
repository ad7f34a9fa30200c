SPECIFICATION Spec
CONSTANTS
    Matches = {m1}
    Fetchers = {f1}
    Parsers = {p1, p2}
    Ids = {1, 2, 3, 4}
    NoMatch = NoMatch
    NoMsg = NoMsg
    MaxRetries = 1
    MaxPushes = 2
    MaxFaults = 1
SYMMETRY Symmetry
INVARIANTS OnlyPermanentDropped
CHECK_DEADLOCK FALSE
