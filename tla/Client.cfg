\* A broken connection and a message to send besides HELO and GoodBye.  The
\* threads end with the destructor, and a mute client stops.
SPECIFICATION FairSpec
CONSTANTS
    MaxSends = 1
    MaxCuts = 1
INVARIANTS
    TypeOK
    NothingDropped
    ResultsSentBeforeClose
PROPERTIES
    SentInOrder
    EventuallySent
    DestructorReturns
CHECK_DEADLOCK FALSE
