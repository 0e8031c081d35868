SPECIFICATION FairSpec
CONSTANTS
    a1 = a1
    a2 = a2
    c1 = c1
    c2 = c2
    c3 = c3
    Server <- MCOneServer
    Connection <- MCOneConnection
    ReconnectInterval = 2
    KeepAliveInterval = 1
    ResponseTimeout = 2
    StartTime = 2
    MaxTime = 4
    None = None
PROPERTIES
    TickEnds
