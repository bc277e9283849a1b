SPECIFICATION IdsSpec
CONSTANTS
    Names = {n1, n2}
    Languages = {neutral, en}
    WrittenIds = {0, 1, 2, 9, 16}
    MaxResources = 2
    LongMax = 15
    U32 = 8
INVARIANT ExplicitIdKept
CHECK_DEADLOCK FALSE
