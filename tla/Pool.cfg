\* Two threads, a spurious wakeup and a failed computation.  A lost notification
\* or an uncaught exception may stop everything.
SPECIFICATION FairSpec
CONSTANTS
    NThreads = 2
    MaxUnits = 3
    MaxSpurious = 1
    MaxFailures = 1
INVARIANTS
    TypeOK
    PublishedOnce
    AtMostOnePerThread
    BusyWhileComputing
PROPERTIES
    NeverReplaced
    ReaderReturns
CHECK_DEADLOCK FALSE
