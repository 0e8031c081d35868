SPECIFICATION Spec
CONSTANTS
    h1 = h1
    h2 = h2
    s1 = s1
    s2 = s2
    s3 = s3
    s4 = s4
    r1 = r1
    r2 = r2
    r3 = r3
    j1 = j1
    j2 = j2
    j3 = j3
    w1 = w1
    w2 = w2
    Key <- MCKey
    Source <- MCSource
    RequestId <- MCRequestId
    Job <- MCJob
    Worker <- MCWorker
    MaxRequestNodes = 2
    MaxDnsJob = 3
    CacheTimeoutMS = 1
    StartTime = 1
    MaxTime = 3
    None = None
SYMMETRY Symmetry
INVARIANTS
    TypeOK
    CacheIsConsistent
    ResolvedIsListed
    AnswersAreRight
    OneJobPerRequest
PROPERTIES
    OnlyUnresolvedIsDropped
    NoLookupIsLost
