--------------------------- MODULE MCUnitDecision ---------------------------
EXTENDS UnitDecision
CONSTANTS u1, u2
Sym == Permutations({u1, u2})
=============================================================================
