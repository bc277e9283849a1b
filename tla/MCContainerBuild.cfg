SPECIFICATION BuildSpec
CONSTANTS
    k1 = k1
    k2 = n1
    Names = {n1, n2}
    Texts = {k1, n1}
    Lengths = {2, 7}
    Metadata <- MCMetadata
    FileSizes = {0, 17}
    MinBuckets = 2
    MaxResources = 2
    MaxChanges = 1
INVARIANTS
    ContainerTypeOK
    LayoutSound
    DataTrue
    FailureNamesFile
PROPERTY BuildEnds
CHECK_DEADLOCK FALSE
