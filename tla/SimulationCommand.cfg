SPECIFICATION CommandSpec
CONSTANTS
    Slots = {c1, c2}
    VerifiedSlots = {c1}
    Values = {1, 2}
    Absent = 0
    NumSettings = 2
    MaxTurns = 2
    NoRequest = NoRequest
    NoSlot = NoSlot
    NotRead = NotRead
    Present <- MCPresent
INVARIANTS
    AnswerIsTrue
    StatusAccounts
    OutputIsWhole
CHECK_DEADLOCK FALSE
