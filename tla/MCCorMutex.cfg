CONSTANTS
    c1 = c1  c2 = c2  c3 = c3
    NoCo = NoCo
    Co <- MCCo
    N = 2
    Place <- MCPlace
    Builds = {TRUE, FALSE}
    WaitCap = 2
    TaskCaps = {1, 3}
    Rounds = 2
SPECIFICATION FairSpec
INVARIANTS TypeOK MutualExclusion LockHasOwner NoNullResume ScheduledOnce NoLostWakeup
PROPERTY EveryLockEnds
\* A coroutine that the full queue destroyed keeps the others from nothing, and
\* when all are done or lost the executors are idle.
CHECK_DEADLOCK FALSE
