SPECIFICATION Spec
CONSTANTS
    Definitions <- MCDefinitions
    Values <- MCValues
    None = None
    Invalid = Invalid
INVARIANTS
    ReadBreaksNoRule
    AcceptedBreaksNoRule
    RequestTakesEffect
CHECK_DEADLOCK FALSE
