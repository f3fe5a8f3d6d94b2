\* Two workers, units of 3, 2, 1 and 1 digits: the size is clamped from 7 on.
SPECIFICATION Spec
CONSTANTS
    Workers = {w1, w2}
    NoWorker = NoWorker
    InitialDigit = 0
    Quota <- ShrinkingQuota
    MaxDigit = 8
INVARIANTS
    TypeOK
    Tiling
    NothingForgotten
    OwnerKnown
PROPERTIES
    KeptForOwner
SYMMETRY WorkerSymmetry
