SPECIFICATION Spec
CONSTANTS
    Packet = 2
    FirstCapacity = 2
    LastCapacity = 6
    Tiers = {4}
    Promotions = 2
    PayloadLengths = {1, 3, 4}
    MaxPayload = 4
    DataLength = 1
    MaxId = 6
    BulkTimeout = 2
    IdleTimeout = 3
    HardTimeout = 4
    DropTimeout = 1
    MaxCommands = 7
INVARIANTS
    AnswersOwnCommand
    PromptCameraKeepsSession
    WithinDeadline
    SessionGivenBack
PROPERTIES
    TransactionEnds
    KeepsLink
CHECK_DEADLOCK FALSE
