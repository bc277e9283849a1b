SPECIFICATION DefaultSpec
CONSTANTS
    Threads = {t1, t2, t3}
INVARIANT AbsenceExplained
