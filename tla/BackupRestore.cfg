SPECIFICATION Spec
CONSTANTS
    Bodies = {a, b}
    Identities = {1, 2}
    IdentityOf <- MCIdentityOf
    Payloads = {1, 2}
    MaxAttempts = 1
    MaxMoves = 2
    NoBody = NoBody
    NoPayload = NoPayload
INVARIANTS
    RecoveryDurable
    OnlyTargetChanges
    ExitIsTrue
CHECK_DEADLOCK FALSE
