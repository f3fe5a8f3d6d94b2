\* Two threads whose calls overlap.  A use after free may end the process.
SPECIFICATION Spec
CONSTANTS
    Threads = {t1, t2}
    Workers = {w1, w2}
    NoWorker = NoWorker
    InitialDigit = 0
    Quota <- ShrinkingQuota
    MaxDigit = 20
    MaxUnits = 2
INVARIANTS
    UnitsBelowNext
SYMMETRY ThreadSymmetry
CHECK_DEADLOCK FALSE
