SPECIFICATION Spec
CONSTANTS
    MaxTransactions = 3
    MaxSessions = 3
    MaxPresses = 3
INVARIANTS
    TypeOK
    HandlerReportsWrite
    FirstPressWaits
    InterruptNotForgotten
    CleanStopMeansUntouched
PROPERTIES
    StopsAfterTransfer
    ForceQuitWorks
CHECK_DEADLOCK FALSE
