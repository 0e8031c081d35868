SPECIFICATION FairSpec
CONSTANTS
    w1 = w1
    w2 = w2
    j1 = j1
    j2 = j2
    j3 = j3
    j4 = j4
    host = host
    ctx = ctx
    Worker <- MCWorker
    Job <- MCJob
    Host <- MCHost
    Context <- MCContext
    MaxDnsJob = 4
    None = None
INVARIANTS
    TypeOK
    CounterIsExact
    WorkersServeUntilClean
    NoLostWakeup
    CleanLeavesNothing
PROPERTIES
    CleanEnds
CHECK_DEADLOCK FALSE
