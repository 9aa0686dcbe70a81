---------------------------- MODULE MCRegistries ----------------------------
(***************************************************************************)
(* Who holds what: the WebSockets of agents their place in the gateway     *)
(* (ConnectionManager), and games their ports (ServerPool).  The two share *)
(* nothing: a behaviour is one of the one or of the other.  The WebSockets *)
(* all belong to one agent; a second port is there for a game to be moved  *)
(* to.                                                                     *)
(***************************************************************************)
EXTENDS ConnectionManager, TLC

CONSTANTS c1, c2, c3, a1, Port, Game, None, MaxRetries, p1, p2

VARIABLES row, alloc, civ, users, used, post, local, lock, call, reply, rel, part

portVars == <<row, alloc, civ, users, used, post, local, lock, call, reply, rel>>

Pool == INSTANCE ServerPool

OneAgent == [c \in Conn |-> a1]

RegistrySymmetry == Permutations(Conn) \cup Permutations(Port)

RegistriesInit == part \in {"connections", "ports"} /\ Init /\ Pool!Init

RegistriesNext == \/ part = "connections" /\ Next /\ UNCHANGED <<part, portVars>>
                  \/ part = "ports" /\ Pool!Next /\ UNCHANGED <<part, vars>>

RegistriesSpec == RegistriesInit /\ [][RegistriesNext]_<<part, vars, portVars>>

\* A game keeps its port: what the table of allocations, the retries and the
\* GameSessions of the proxy see to together.
SamePort == Pool!SamePort
=============================================================================
