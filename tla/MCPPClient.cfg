SPECIFICATION Spec
CONSTANTS
    a1 = a1
    a2 = a2
    c1 = c1
    c2 = c2
    c3 = c3
    Server <- MCServer
    Connection <- MCConnection
    ReconnectInterval = 2
    KeepAliveInterval = 1
    ResponseTimeout = 2
    StartTime = 2
    MaxTime = 6
    None = None
SYMMETRY Symmetry
INVARIANTS
    TypeOK
    OneConnectionPerServer
    ListTellsState
    ReadyIsWatched
PROPERTIES
    NobodyGoesUnasked
