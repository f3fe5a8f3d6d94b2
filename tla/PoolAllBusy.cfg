\* A unit comes back faster than the thread gets ready.
SPECIFICATION Spec
CONSTANTS
    NThreads = 1
    MaxUnits = 2
    MaxSpurious = 0
    MaxFailures = 0
INVARIANTS
    ThreadForEachUnit
CHECK_DEADLOCK FALSE
