SPECIFICATION Spec
CONSTANTS
    Definitions <- MCDefinitions
    Values <- MCValues
    None = None
    Invalid = Invalid
INVARIANT
    ExportedProfileImports
CHECK_DEADLOCK FALSE
