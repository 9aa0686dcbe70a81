----------------------------- MODULE MCProxyPool -----------------------------
(***************************************************************************)
(* Instance of ProxyPool for TLC: each game has an agent whose connection  *)
(* is registered; the first has a call too, and one new connection to try. *)
(***************************************************************************)
EXTENDS ProxyPool

CONSTANTS g1, g2, a1, a2, o1, k1

Games == [x \in AgentConn \cup Call |-> IF x = a2 THEN g2 ELSE g1]
=============================================================================
