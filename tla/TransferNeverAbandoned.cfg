SPECIFICATION Spec
CONSTANTS
    MaxTransactions = 3
    MaxSessions = 3
    MaxPresses = 3
INVARIANT
    TransferNeverAbandoned
CHECK_DEADLOCK FALSE
