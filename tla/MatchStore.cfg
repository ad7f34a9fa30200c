\* Two workers, three ingestions of three answers for one match; the decoder over all
\* raw matches of up to two rows.  The bound on ingestions ends a behaviour.
SPECIFICATION MCSpec
CONSTANTS
    Payloads <- MCPayloads
    Workers = {w1, w2}
    Nobody = nobody
    MaxIngests = 3
    Nil = nil
    TaskID = 9
    Roots <- MCRoots
    RawPlayers <- MCPlayers
    RawPicks <- MCPicks
    RawTimings <- MCTimings
    RawEvents = {"objective", "chat", "teamfight"}
    MaxRows = 2
    MaxMinute = 3
INVARIANTS StoreInv RetryChangesNothing 
PROPERTY Atomic
CHECK_DEADLOCK FALSE
