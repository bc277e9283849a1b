SPECIFICATION LookupSpec
CONSTANTS
    Names = {n1, n2, n3}
    HashValues = {0, 3, 7}
    MaxResources = 3
    MinBuckets = 2
    U32 = 256
    Threads = {t1}
    Ids = {1, 2}
INVARIANTS
    BuildTypeOK
    EveryEntryIndexed
    PathsFullAndOlder
    RoomLeft
    BoundedInsertion
    LookupTypeOK
    BoundedProbe
PROPERTIES
    BuildTerminates
    ImplementsDirectory
    CallsReturn
