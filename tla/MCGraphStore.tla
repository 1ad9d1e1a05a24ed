------------------------------ MODULE MCGraphStore ------------------------------
EXTENDS GraphStore, TLC

CONSTANTS n1, n2, n3, n4, n5, g1, g2

MCNodes == {n1, n2, n3, n4, n5}
MCGraphs == {g1, g2}
AnyNode == Permutations(MCNodes)
=============================================================================
