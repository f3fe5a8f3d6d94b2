\* A unit is passed to a thread that is not waiting.
SPECIFICATION FairSpec
CONSTANTS
    NThreads = 1
    MaxUnits = 2
    MaxSpurious = 0
    MaxFailures = 0
PROPERTIES
    SubmittedIsComputed
CHECK_DEADLOCK FALSE
