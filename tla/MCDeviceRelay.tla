--------------------------- MODULE MCDeviceRelay ---------------------------
(* DeviceRelay for TLC: three device connections (a control connection and two
   data connections, or the reverse), two devices, two proxy connections in a
   pool of one, or only one.
   Symmetry: no definition tells two ids of one kind apart. *)
EXTENDS DeviceRelay, TLC

CONSTANTS k1, k2, k3, p1, p2, d1, d2, r1

MCDeviceConn == {k1, k2, k3}
MCProxyConn == {p1, p2}
MCDevice == {d1, d2}
MCOneProxy == {p1}
MCRelayId == {r1}
MCNone == {}

Symmetry == Permutations(DeviceConn) \union Permutations(ProxyConn) \union Permutations(Device)

=============================================================================
