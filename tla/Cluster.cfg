\* Two workers of one thread each, or one of two threads and one of none (with
\* one thread, a worker that keeps a unit gets no other to replace it).  One
\* connection breaks and is made again, or one worker quits or crashes; the
\* ledger follows the first unit, which either worker may have, lose and find
\* again.  Some states are final: a worker is gone or mute, the other one idle.
SPECIFICATION FairSpec
CONSTANTS
    Workers = {w1, w2}
    NoWorker = NoWorker
    InitialDigit = 0
    Quota <- OneDigit
    MaxDigit = 1
    w1 = w1
    w2 = w2
    NThreads = 2
    Teams <- TwoThreads
    MaxLosses = 1
INVARIANTS
    TypeOK
    OwnedIsHeld
    ThreadsAccounted
PROPERTIES
    EachDigitComputed
CHECK_DEADLOCK FALSE
