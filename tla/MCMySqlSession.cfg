SPECIFICATION Spec
CONSTANTS
    s1 = s1
    s2 = s2
    Stmt <- MCStmt
    MaxVersion = 2
    MaxTx = 2
SYMMETRY Symmetry
INVARIANTS
    TypeOK
    HandleOfThisConnection
    AllOrNothing
    NoLeftTransaction
    AssertionNeedsReuse
