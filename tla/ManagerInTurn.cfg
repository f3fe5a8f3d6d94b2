\* Calls that do not overlap: units of 3, 1 and, clamped, 1 digits.
SPECIFICATION TurnSpec
CONSTANTS
    Threads = {t1, t2}
    Workers = {w1, w2}
    NoWorker = NoWorker
    InitialDigit = 0
    Quota <- ShrinkingQuota
    MaxDigit = 20
    MaxUnits = 3
INVARIANTS
    TypeOK
    NoDigitSkipped
PROPERTIES
    ImplementsLedger
SYMMETRY ThreadSymmetry
