SPECIFICATION ToolSpec
CONSTANTS
    Slots = {"C1", "C2", "C3"}
    MaxPresses = 3
    Base = 16
    MaxElements = 12
    LoneSurrogates = {13}
    AnyType = AnyType
    Malformed = Malformed
    Advertised <- MCAdvertised
    SettingReads <- MCSettingReads
    Answers <- MCAnswers
    PinSets <- MCPinSets
    Layout <- MCLayout
    DiscoveryLimit = 12
    LongDescriptors = {"long"}
    Unavailable = Unavailable
INVARIANTS
    WriteIsOnRecord
    RecordIsTrue
    ChangeIsReported
    ArtifactIsTrue
CHECK_DEADLOCK FALSE
