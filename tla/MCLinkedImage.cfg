SPECIFICATION ImageSpec
CONSTANTS
    Paths = {p1, p2}
    Prefixes <- MCPrefixes
    Sizes = {432, 449}
    BlockSize = 480
    MaxEdits = 1
    MaxRuns = 2
SYMMETRY PathSymmetry
INVARIANTS
    ElfrcTypeOK
    SuccessWhole
    RefusalsHarmless
    TornRefused
    OwnContainer
CHECK_DEADLOCK FALSE
