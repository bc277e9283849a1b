SPECIFICATION ParseSpec
CONSTANTS
    U32 = 16
    Texts <- MCTexts
    Number <- MCNumber
    Documents <- MCDocuments
INVARIANT MalformedRefused
CHECK_DEADLOCK FALSE
