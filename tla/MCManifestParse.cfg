SPECIFICATION ParseSpec
CONSTANTS
    U32 = 16
    Texts <- MCTexts
    Number <- MCNumber
    Documents <- MCDocuments
INVARIANTS
    ParseTypeOK
    FirstErrorReported
    NothingLeft
    DefaultsApplied
PROPERTY ScalarsDecided
CHECK_DEADLOCK FALSE
