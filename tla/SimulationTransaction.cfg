SPECIFICATION Spec
CONSTANTS
    Slots = {c1, c2}
    VerifiedSlots = {c1}
    Values = {1, 2}
    Absent = 0
    NumSettings = 2
    MaxTurns = 2
    NoRequest = NoRequest
    NoSlot = NoSlot
    Present <- MCPresent
INVARIANTS
    TypeOK
    AppliedIsTrue
    WrongSlotReported
    SelectorPutBack
    JournalExplainsChange
    CleanRunApplies
PROPERTIES
    Answered
    KeepsPromise
CHECK_DEADLOCK FALSE
