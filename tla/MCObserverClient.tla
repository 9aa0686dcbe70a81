-------------------------- MODULE MCObserverClient --------------------------
EXTENDS ObserverClient, TLC

CONSTANTS s1, s2, t1

Sym == Permutations(Sock)
=============================================================================
