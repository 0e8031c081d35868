--------------------------- MODULE MCMySqlSession ---------------------------
(* MySqlSession for TLC: two statements, which nothing tells apart, two
   transactions one after the other, and two connections, so that a transaction
   and a statement may see theirs replaced. *)
EXTENDS MySqlSession, TLC

CONSTANTS s1, s2

MCStmt == {s1, s2}

Symmetry == Permutations(Stmt)

=============================================================================
