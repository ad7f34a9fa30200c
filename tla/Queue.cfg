\* One task; one worker and two faults, or two workers and one.  Twelve messages are more
\* than either can append.
SPECIFICATION MCSpec
CONSTANTS
    Tasks = {a}
    Workers = {w1, w2}
    Batch = 2
    MaxRetries = 1
    MaxLen = 0
    GroupFirst = FALSE
    MaxMsgs = 12
    MaxFaults = 2
INVARIANTS NoLoss BudgetInv
PROPERTY ImplementsLedger
CHECK_DEADLOCK FALSE
