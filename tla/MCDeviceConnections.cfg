SPECIFICATION FairSpec
CONSTANTS
    c1 = c1
    c2 = c2
    c3 = c3
    Conn <- MCConn
    MaxConnections = 2
    NewTimeout = 2
    IdleTimeout = 3
    StartTime = 3
    MaxTime = 8
INVARIANTS
    TypeOK
    EachInOneList
    NoOverdueSurvivor
PROPERTIES
    ReaperSpec
    DeferredIsDestroyed
