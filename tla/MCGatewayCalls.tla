--------------------------- MODULE MCGatewayCalls ---------------------------
(***************************************************************************)
(* What ends in the gateway: calls that wait for an answer of the proxy    *)
(* (RequestManager) and connections of agents (ConnectionManager).  The    *)
(* two share the event loop and nothing else: a behaviour is one of the    *)
(* one or of the other.  Two calls are enough, as calls share nothing but  *)
(* the cleanup loop and stop().                                            *)
(***************************************************************************)
EXTENDS RequestManager, TLC

CONSTANTS r1, r2, Conn, Agent, AgentOf, NoConn, MaxPerAgent, MaxTracked, c1, c2, a1

VARIABLES handler, socket, connections, byAgent, session, authed, idle, cached, age,
          slots, tasks, closer, maint, part

connVars == <<handler, socket, connections, byAgent, session, authed, idle, cached, age,
              slots, tasks, closer, maint>>

CM == INSTANCE ConnectionManager

Kinds == [r \in Req |-> IF r = r1 THEN "global" ELSE "action"]
OneAgent == [c \in Conn |-> a1]

GatewayInit == part \in {"calls", "connections"} /\ Init /\ CM!Init

\* The loop of maintenance goes round without connections too.
GatewayNext == \/ part = "calls" /\ Next /\ UNCHANGED <<part, connVars>>
               \/ part = "calls" /\ CM!MaintStep /\ UNCHANGED <<part, vars>>
               \/ part = "connections" /\ CM!Next /\ UNCHANGED <<part, vars>>

GatewaySpec == /\ GatewayInit /\ [][GatewayNext]_<<part, vars, connVars>>
               /\ Fairness /\ CM!Fairness

\* Nothing that ended, or will never authenticate, stays registered: what the
\* handler's finally, the failed sends and the heartbeat rounds see to together.
EndedRemoved == CM!EndedRemoved
=============================================================================
