CONSTANTS
    t1 = t1  t2 = t2  t3 = t3
    Threads <- MCThreads
    Reader = Reader
    NoOne = NoOne
    QueueCap = 2
    PoolCap = 2
    Calls = 1
SPECIFICATION FairSpec

PROPERTY EveryCallReturns
\* The server waits for the next call.
CHECK_DEADLOCK FALSE
