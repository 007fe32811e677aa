------------------------------ MODULE MCPairing ------------------------------
EXTENDS Pairing, TLC
CONSTANTS j1, j2
Scene(m, c, p, v) == [mints |-> m, calls |-> c, pairs |-> p, verbs |-> v]
\* The window against its callers; the session against the other writers; one
\* invitation against an unpairing and another writer.
Scenes == {Scene(1, 3, 0, 0), Scene(2, 2, 0, 0), Scene(0, 0, 2, 3), Scene(1, 2, 0, 1)}
Machines == Permutations({j1, j2})
=============================================================================
