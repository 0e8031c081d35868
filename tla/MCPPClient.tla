----------------------------- MODULE MCPPClient -----------------------------
(* PPClient for TLC: two servers and three connection objects, so that one may
   be closing while both servers are connected to anew.  Symmetry: connection
   objects and servers are told apart by nothing. *)
EXTENDS PPClient, TLC

CONSTANTS a1, a2, c1, c2, c3

MCServer == {a1, a2}
MCConnection == {c1, c2, c3}
MCOneServer == {a1}
MCOneConnection == {c1}

Symmetry == Permutations(Server) \union Permutations(Connection)

=============================================================================
