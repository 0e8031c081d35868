------------------------- MODULE MCProxyConnections -------------------------
(* ProxyConnections for TLC: three ids for a pool of two, a challenge timeout
   of one clock unit and an idle timeout of three. *)
EXTENDS ProxyConnections

CONSTANTS c1, c2, c3

MCConn == {c1, c2, c3}

=============================================================================
