SPECIFICATION Spec
CONSTANTS
    c1 = c1
    c2 = c2
    c3 = c3
    Conn <- MCConn
    MaxConnections = 2
    ChallengeTimeout = 1
    IdleTimeout = 3
    StartTime = 3
    MaxTime = 8
INVARIANTS
    TypeOK
    EachInOneList
    ChallengeDecidesList
    NoOverdueSurvivor
PROPERTIES
    ReaperSpec
