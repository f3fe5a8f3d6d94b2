\* Results of two sessions, restarts with and without --overwrite, crashes.
SPECIFICATION FairSpec
CONSTANTS
    Results <- TwoSessions
    InitialFiles = {0, 1, 3}
    Window = 2
    SizeMod = 64
    MaxHeld = 3
INVARIANTS
    TypeOK
    DigitsInOrder
    OutputIsPrefix
    NothingNeededHeld
    StatsFollowFile
    CleanExitLosesNothing
PROPERTIES
    ImplementsPiFile
    NeededIsWritten
    CloseCompletes
