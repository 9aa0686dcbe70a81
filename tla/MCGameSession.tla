---------------------------- MODULE MCGameSession ----------------------------
(***************************************************************************)
(* Instance of GameSession for TLC: two agents, and the WebSockets a1, a2  *)
(* of the first and b1, b2 of the second.                                  *)
(***************************************************************************)
EXTENDS GameSession, TLC

CONSTANTS agentA, agentB, a1, a2, b1, b2

OwnerOf == [h \in Handler |-> IF h \in {a1, a2} THEN agentA ELSE agentB]

\* The two WebSockets of the first agent are interchangeable.
Sockets == Permutations({a1, a2})
=============================================================================
