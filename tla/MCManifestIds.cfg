SPECIFICATION IdsSpec
CONSTANTS
    Names = {n1, n2}
    Languages = {neutral, en}
    WrittenIds = {0, 1, 2, 9, 16}
    MaxResources = 3
    LongMax = 15
    U32 = 8
INVARIANTS
    IdsTypeOK
    UniqueFinalIds
    AutoIdsLeast
    VerdictRight
PROPERTY IdsDecided
CHECK_DEADLOCK FALSE
