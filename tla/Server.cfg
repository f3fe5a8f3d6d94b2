\* Two connections, or one that is lost, and one message of a client.  The
\* server stops, or is stuck, or its process ends.
SPECIFICATION FairSpec
CONSTANTS
    MaxChanges = 2
    MaxMessages = 1
INVARIANTS
    TypeOK
    DestroyedUnused
    LossReported
    SentBeforeDestroyed
PROPERTIES
    CleanupCompletes
CHECK_DEADLOCK FALSE
