SPECIFICATION Spec
CONSTANTS
    k1 = k1
    k2 = k2
    k3 = k3
    p1 = p1
    p2 = p2
    d1 = d1
    d2 = d2
    r1 = r1
    DeviceConn <- MCDeviceConn
    ProxyConn <- MCProxyConn
    MaxDeviceConnections = 3
    MaxProxyConnections = 1
    NewTimeout = 1
    DeviceIdleTimeout = 2
    ChallengeTimeout = 1
    ProxyIdleTimeout = 2
    StartTime = 2
    MaxTime = 4
    Device <- MCDevice
    RelayId <- MCNone
    ProxySideId = {1, 3}
    DeviceSideId = {0, 1}
    IdSpace = 2
    None = None
SYMMETRY Symmetry
INVARIANTS
    FoundDeviceHasCtrlConnection
