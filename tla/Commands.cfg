\* Two instances of the migrator, or two dead-letter commands over three messages with
\* one fault.  Migrator instances end, and a stream may run empty.
SPECIFICATION MCSpec
CONSTANTS
    Instances = {i1, i2}
    Files <- MCFiles
    Nobody = nobody
    m1 = m1
    Matches = {m1}
    NoMatch = NoMatch
    MatchOf <- ThreeMessages
    Cmds = {c1, c2}
    Limit = 2
    MaxFaults = 1
INVARIANTS MigratorInv DlqInv GuardedOnce
PROPERTY Drains
CHECK_DEADLOCK FALSE
