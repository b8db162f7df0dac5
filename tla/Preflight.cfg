SPECIFICATION Spec
CONSTANTS
    Base = 16
    MaxElements = 12
    LoneSurrogates = {13}
    AnyType = AnyType
    Malformed = Malformed
    Products <- MCProducts
    Supported = {"xt5", "xt3"}
    NoProduct = NoProduct
    Firmwares <- MCFirmwares
    Serials <- MCSerials
    Properties = {"slot", "setting", "rawProfile", "startRaw", "battery"}
    Codes <- MCCodes
    Declared <- MCDeclared
    Candidates <- MCCandidates
    WriteTypes <- MCWriteTypes
    Settings <- MCSettings
    Modes = {5, 6}
    Levels = {49, 50}
    Profiles <- MCProfiles
    Managers <- MCManagers
    RawEvidence <- MCRawEvidence
    Layout <- MCLayout
    Layouts <- MCLayouts
    MaxPermits = 1
    NoForm = NoForm
    NoSerial = NoSerial
    Unread = Unread
    ShapeOnly = ShapeOnly
    NoCamera = NoCamera
    NoProfile = NoProfile
    NoPermit = NoPermit
    NoCommand = NoCommand
INVARIANTS
    OnlyProvenMutations
CHECK_DEADLOCK FALSE
