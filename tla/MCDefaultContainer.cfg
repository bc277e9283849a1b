SPECIFICATION DefaultSpec
CONSTANTS
    Threads = {t1, t2, t3}
INVARIANTS
    DefaultTypeOK
    OneContainer
    SoundAnswers
PROPERTY FirstRefusalExplained
