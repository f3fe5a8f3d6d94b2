\* Two threads create a unit at the same time.
SPECIFICATION Spec
CONSTANTS
    Threads = {t1, t2}
    Workers = {w1, w2}
    NoWorker = NoWorker
    InitialDigit = 0
    Quota <- ShrinkingQuota
    MaxDigit = 20
    MaxUnits = 2
INVARIANTS
    NoDigitSkipped
SYMMETRY ThreadSymmetry
CHECK_DEADLOCK FALSE
