SPECIFICATION FairSpec
CONSTANTS
    Worker = {w1, w2}
    Spinner = {s1}
    Job = {j1, j2}
    None = None
INVARIANTS TypeOK OutstandingCounts NoLostWakeup
PROPERTIES ImplementsBarrier WaitReturns StopReturns
