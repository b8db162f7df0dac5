SPECIFICATION Spec
CONSTANTS
    MaxObjects = 3
    Profiles = {1, 2}
    MaxPolls = 3
    NoProfile = NoProfile
    NoHandle = NoHandle
INVARIANTS
    DeletedOnlyWhenSaved
    RetainedObjectsNamed
    ProfileAccounted
    NeverClosedWhileConverting
PROPERTIES
    CommandEnds
CHECK_DEADLOCK FALSE
