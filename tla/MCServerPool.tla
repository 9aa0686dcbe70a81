---------------------------- MODULE MCServerPool ----------------------------
(***************************************************************************)
(* Instances of ServerPool for TLC.                                        *)
(***************************************************************************)
EXTENDS ServerPool, TLC

CONSTANTS p1, p2, g1, g2

PoolSymmetry == Permutations(Port) \cup Permutations(Game)
=============================================================================
