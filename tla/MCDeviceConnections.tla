------------------------ MODULE MCDeviceConnections ------------------------
(* DeviceConnections for TLC: three ids for a pool of two, a first timeout of
   two clock units and a longer one of three. *)
EXTENDS DeviceConnections

CONSTANTS c1, c2, c3

MCConn == {c1, c2, c3}

(* RemoveFirst is xListNode's unlinking: it leaves the other nodes in order. *)
ASSUME \A l \in {s \in BoundedSeq(MCConn, 3) : IsInjective(s)}, c \in MCConn :
    RemoveFirst(l, c) = Remove(l, c)

=============================================================================
