SPECIFICATION Spec
CONSTANTS
    MaxTransactions = 3
    MaxSessions = 3
    MaxPresses = 3
INVARIANT
    InterruptsHeeded
CHECK_DEADLOCK FALSE
