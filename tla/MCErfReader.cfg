SPECIFICATION ReaderSpec
CONSTANTS
    k1 = k1
    k2 = k2
    Names = {n1, n2}
    Texts = {k1, k2}
    Lengths = {2, 7}
    Metadata <- MCMetadata
    FileSizes = {0, 17}
    MinBuckets = 16
    MaxResources = 2
    MaxChanges = 0
    Values = {0, 2, 300, 1048576}
SYMMETRY NameSymmetry
INVARIANTS
    ReaderTypeOK
    OpenFaithful
    
    MetadataFaithful
CHECK_DEADLOCK FALSE
