CONSTANTS
    t1 = t1  t2 = t2  t3 = t3
    Threads <- MCThreads
    Reader = Reader
    NoOne = NoOne
    QueueCap = 2
    PoolCap = 3
    Calls = 2
SPECIFICATION FairSpec
INVARIANTS TypeOK OneWakeup PoolConserved AnswersMatchCalls
PROPERTIES ServiceSpec NotifiedCallReturns
\* When the calls are over the server waits for the next one.
CHECK_DEADLOCK FALSE
