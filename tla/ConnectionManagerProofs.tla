----------------------- MODULE ConnectionManagerProofs -----------------------
(***************************************************************************)
(* Proofs about ConnectionManager, for every set of connections, every     *)
(* number of agents and every limit.                                       *)
(***************************************************************************)
EXTENDS ConnectionManager, FiniteSetTheorems, TLAPS

\* Unfolds what the disconnect helpers do, for the steps below.
DisconnectType == \A c \in Conn :
    /\ DisconnectAtOnce(c) \/ BeginClose(c, "task") \/ BeginClose(c, "reaper")
          \/ NothingToRemove
    => /\ connections' \subseteq Conn
       /\ idle' \subseteq Conn
       /\ byAgent' \in [Agent -> SUBSET Conn]
       /\ cached' \in [Agent -> Conn \cup {NoConn}]
       /\ age' \in [Agent -> {"none", "cooling", "resumable", "stale"}]
       /\ \A a \in Agent : age'[a] = "none" <=> cached'[a] = NoConn

\* The part of the state handle_disconnect touches keeps its types.
LEMMA DisconnectKeepsTypes == TypeOK => DisconnectType
  BY ConnAssumption
     DEF TypeOK, DisconnectType, DisconnectAtOnce, BeginClose, NothingToRemove,
         CacheAndUnindex, Forget

\* Every variable keeps its type: the maintenance loop's list and position, the
\* indexes, the cache, and the slots, which release_connection never makes
\* negative.
THEOREM TypeCorrect == Spec => []TypeOK
<1>1. Init => TypeOK
  BY ConnAssumption DEF Init, TypeOK, Resting, Round
<1>2. TypeOK /\ [Next]_vars => TypeOK'
  <2> SUFFICES ASSUME TypeOK, [Next]_vars PROVE TypeOK'
    OBVIOUS
  <2> USE ConnAssumption
  <2>1. ASSUME NEW c \in Conn, HandlerStep(c) PROVE TypeOK'
    <3>1. CASE Refuse(c)
      BY <3>1 DEF Refuse, TypeOK, registry
    <3>2. CASE RefusedLeave(c)
      BY <3>2 DEF RefusedLeave, Release, TypeOK, registry
    <3>3. CASE Admit(c)
      BY <3>3 DEF Admit, LookUp, TypeOK
    <3>4. CASE Overflow(c)
      BY <3>4 DEF Overflow, LookUp, TypeOK
    <3>5. CASE AuthSuccess(c)
      BY <3>5 DEF AuthSuccess, TypeOK
    <3>6. CASE Leave(c)
      BY <3>6 DEF Leave, TypeOK, registry
    <3>7. CASE Finish(c)
      BY <3>7, DisconnectKeepsTypes DEF Finish, Release, TypeOK, DisconnectType
    <3> QED
      BY <2>1, <3>1, <3>2, <3>3, <3>4, <3>5, <3>6, <3>7 DEF HandlerStep
  <2>2. ASSUME NEW c \in Conn, TaskStep(c) PROVE TypeOK'
    <3>1. CASE SendFails(c)
      BY <3>1 DEF SendFails, TypeOK, registry
    <3>2. CASE TaskStarts(c)
      <4>1. CASE UNCHANGED <<socket, closer>> /\ (NothingToRemove \/ DisconnectAtOnce(c))
        BY <3>2, <4>1, DisconnectKeepsTypes DEF TaskStarts, TypeOK, DisconnectType
      <4>2. CASE BeginClose(c, "task")
        <5>1. socket' \in [Conn -> {"open", "closing", "dead"}]
              /\ closer' \in [Conn -> {"none", "task", "reaper"}]
          BY <4>2 DEF BeginClose, TypeOK
        <5> QED
          BY <3>2, <4>2, <5>1, DisconnectKeepsTypes DEF TaskStarts, TypeOK,
                 DisconnectType
      <4> QED
        BY <3>2, <4>1, <4>2 DEF TaskStarts
    <3>3. CASE TaskEnds(c)
      BY <3>3 DEF TaskEnds, EndClose, Forget, TypeOK
    <3> QED
      BY <2>2, <3>1, <3>2, <3>3 DEF TaskStep
  <2>3. ASSUME NEW seen \in SUBSET Conn, NEW doomed \in SUBSET Conn, NEW size \in Nat,
               Scan(seen, doomed, size)
        PROVE maint' \in Round
    BY <2>3 DEF Scan, Resting, TypeOK, Round
  <2>4. CASE MaintStep
    <3>1. CASE RoundStarts
      <4>1. Cardinality(connections) \in Nat
        BY FS_Subset, FS_CardinalityType DEF TypeOK
      <4>2. maint' \in Round
        BY <3>1, <4>1, <2>3 DEF RoundStarts
      <4> QED
        BY <3>1, <4>2 DEF RoundStarts, TypeOK, registry
    <3>2. CASE HeartbeatReturns
      <4>1. PICK sent \in BOOLEAN :
              LET listed == IF sent THEN maint.doomed ELSE maint.doomed \cup {maint.on}
              IN  IF Cardinality(connections) = maint.size
                  THEN Scan(maint.seen, listed, maint.size)
                  ELSE maint' = Resting
        BY <3>2 DEF HeartbeatReturns
      <4>2. maint.seen \in SUBSET Conn /\ maint.doomed \in SUBSET Conn /\ maint.size \in Nat
            /\ maint.on \in Conn
        BY <3>2 DEF HeartbeatReturns, TypeOK, Round
      <4>3. Resting \in Round
        BY DEF Resting, Round
      <4>4. maint' \in Round
        BY <4>1, <4>2, <4>3, <2>3
      <4>5. idle' \subseteq Conn
        BY <3>2 DEF HeartbeatReturns, TypeOK
      <4> QED
        BY <3>2, <4>4, <4>5 DEF HeartbeatReturns, TypeOK
    <3>3. CASE ReapReturns
      <4>1. maint' \in Round
        BY <3>3 DEF ReapReturns, Resting, Round, TypeOK
      <4> QED
        BY <3>3, <4>1 DEF ReapReturns, EndClose, Forget, TypeOK
    <3>4. CASE RoundEnds
      <4>1. maint' \in Round
        BY <3>4 DEF RoundEnds, Resting, Round
      <4> QED
        BY <3>4, <4>1 DEF RoundEnds, TypeOK
    <3>5. ASSUME NEW c \in Conn, ReapNext(c) PROVE TypeOK'
      <4>1. maint' \in Round
        <5>1. [maint EXCEPT !.doomed = @ \ {c}] \in Round
          BY DEF TypeOK, Round
        <5>2. maint' = [maint EXCEPT !.doomed = @ \ {c}]
                \/ maint' = [[maint EXCEPT !.doomed = @ \ {c}] EXCEPT !.at = "closing", !.on = c]
          BY <3>5 DEF ReapNext
        <5> QED
          BY <5>1, <5>2 DEF Round
      <4>2. CASE UNCHANGED <<socket, closer>> /\ (NothingToRemove \/ DisconnectAtOnce(c))
        BY <3>5, <4>1, <4>2, DisconnectKeepsTypes DEF ReapNext, TypeOK, DisconnectType
      <4>3. CASE BeginClose(c, "reaper")
        <5>1. socket' \in [Conn -> {"open", "closing", "dead"}]
              /\ closer' \in [Conn -> {"none", "task", "reaper"}]
          BY <4>3 DEF BeginClose, TypeOK
        <5> QED
          BY <3>5, <4>1, <4>3, <5>1, DisconnectKeepsTypes DEF ReapNext, TypeOK,
                 DisconnectType
      <4> QED
        BY <3>5, <4>2, <4>3 DEF ReapNext
    <3> QED
      BY <2>4, <3>1, <3>2, <3>3, <3>4, <3>5 DEF MaintStep
  <2>5. CASE EnvStep
    BY <2>5 DEF EnvStep, ClientLeaves, BecomesIdle, SessionAges, TypeOK, registry
  <2>6. CASE UNCHANGED vars
    BY <2>6 DEF vars, registry, TypeOK
  <2> QED
    BY <2>1, <2>2, <2>4, <2>5, <2>6 DEF Next
<1> QED
  BY <1>1, <1>2, PTL DEF Spec

-----------------------------------------------------------------------------
(* The registry.  NoZombie is not inductive: it needs that a registered    *)
(* connection has a handler that is not through, which needs that nobody   *)
(* registers a connection but its own handler on arrival.  That a served   *)
(* connection is indexed needs that the index loses a connection only      *)
(* together with its WebSocket.                                            *)

RegisteredHasHandler == \A c \in connections : handler[c] \in {"open", "leaving"}

ServedIsIndexed == \A c \in Conn :
    handler[c] = "open" /\ socket[c] = "open" => c \in byAgent[AgentOf[c]]

RegistryInv ==
    /\ RegisteredHasHandler
    /\ ServedIsIndexed
    /\ IndexConsistent
    /\ CacheHoldsDisconnected

\* The registry invariant reads these variables only.
LEMMA RegistryFrame ==
  RegistryInv /\ UNCHANGED <<handler, socket, connections, byAgent, cached, closer>>
  => RegistryInv'
  BY DEF RegistryInv, RegisteredHasHandler, ServedIsIndexed, IndexConsistent,
         CacheHoldsDisconnected

\* handle_disconnect of a registered connection, run to its end at once,
\* whatever its handler does at the same time as long as it is not served.
LEMMA AtOnceKeepsRegistry ==
  ASSUME TypeOK, RegistryInv, NEW c \in connections, DisconnectAtOnce(c),
         UNCHANGED <<socket, closer>>,
         \/ UNCHANGED handler
         \/ handler[c] = "leaving" /\ handler' = [handler EXCEPT ![c] = "gone"]
  PROVE  RegistryInv'
<1> USE ConnAssumption
    DEF TypeOK, RegistryInv, DisconnectAtOnce, CacheAndUnindex, Forget
<1>1. c \in Conn /\ AgentOf[c] \in Agent
  OBVIOUS
<1>2. byAgent' = [byAgent EXCEPT ![AgentOf[c]] = @ \ {c}] /\ connections' = connections \ {c}
  OBVIOUS
<1>3. RegisteredHasHandler'
  BY <1>1, <1>2 DEF RegisteredHasHandler
<1>4. ServedIsIndexed'
  BY <1>1, <1>2 DEF ServedIsIndexed
<1>5. IndexConsistent'
  BY <1>1, <1>2 DEF IndexConsistent
<1>6. CacheHoldsDisconnected'
  BY <1>1, <1>2 DEF CacheHoldsDisconnected, RegisteredHasHandler
<1> QED
  BY <1>3, <1>4, <1>5, <1>6

\* handle_disconnect of a registered connection up to websocket.close().
LEMMA BeginKeepsRegistry ==
  ASSUME TypeOK, RegistryInv, NEW c \in connections, NEW who \in {"task", "reaper"},
         BeginClose(c, who), UNCHANGED handler
  PROVE  RegistryInv'
<1> USE ConnAssumption DEF TypeOK, RegistryInv, BeginClose, CacheAndUnindex
<1>1. c \in Conn /\ AgentOf[c] \in Agent
  OBVIOUS
<1>2. byAgent' = [byAgent EXCEPT ![AgentOf[c]] = @ \ {c}] /\ connections' = connections
  OBVIOUS
<1>3. RegisteredHasHandler'
  BY <1>2 DEF RegisteredHasHandler
<1>4. ServedIsIndexed'
  BY <1>1, <1>2 DEF ServedIsIndexed
<1>5. IndexConsistent'
  BY <1>1, <1>2 DEF IndexConsistent
<1>6. CacheHoldsDisconnected'
  BY <1>1, <1>2 DEF CacheHoldsDisconnected, RegisteredHasHandler
<1> QED
  BY <1>3, <1>4, <1>5, <1>6

\* The end of a remove_connection that had suspended in websocket.close(),
\* also when the connection was removed meanwhile.
LEMMA EndKeepsRegistry ==
  ASSUME TypeOK, RegistryInv, NEW c \in Conn, c \notin byAgent[AgentOf[c]],
         EndClose(c), UNCHANGED handler
  PROVE  RegistryInv'
<1> USE ConnAssumption DEF TypeOK, RegistryInv, EndClose, Forget
<1>1. RegisteredHasHandler'
  BY DEF RegisteredHasHandler
<1>2. ServedIsIndexed'
  BY DEF ServedIsIndexed
<1>3. IndexConsistent'
  BY DEF IndexConsistent
<1>4. CacheHoldsDisconnected'
  BY DEF CacheHoldsDisconnected
<1> QED
  BY <1>1, <1>2, <1>3, <1>4

\* A connection whose WebSocket somebody is closing has left the index and
\* does not come back to it.
BeingRemoved == \A c \in Conn :
    closer[c] # "none" \/ (maint.at = "closing" /\ maint.on = c)
    => c \notin byAgent[AgentOf[c]] /\ handler[c] # "new"

LEMMA RegistryStep == TypeOK /\ RegistryInv /\ BeingRemoved /\ [Next]_vars => RegistryInv'
<1> SUFFICES ASSUME TypeOK, RegistryInv, BeingRemoved, [Next]_vars PROVE RegistryInv'
  OBVIOUS
<1> USE ConnAssumption
<1>1. ASSUME NEW c \in Conn, HandlerStep(c) PROVE RegistryInv'
  <2>1. CASE Refuse(c) \/ RefusedLeave(c) \/ Overflow(c)
    <3>1. /\ handler[c] \in {"new", "refused"} /\ UNCHANGED <<connections, byAgent, closer>>
          /\ handler' = [handler EXCEPT ![c] = "refused"] \/ handler' = [handler EXCEPT ![c] = "gone"]
          /\ UNCHANGED socket \/ socket' = [socket EXCEPT ![c] = "dead"]
      BY <2>1 DEF Refuse, RefusedLeave, Overflow, registry
    <3>2. \A a \in Agent : cached'[a] = cached[a] \/ cached'[a] = NoConn
      BY <2>1 DEF Refuse, RefusedLeave, Overflow, LookUp, registry, TypeOK
    <3>3. CacheHoldsDisconnected'
      BY <3>1, <3>2 DEF RegistryInv, CacheHoldsDisconnected, TypeOK
    <3>4. RegisteredHasHandler'
      BY <3>1 DEF RegistryInv, RegisteredHasHandler, TypeOK
    <3>5. ServedIsIndexed' /\ IndexConsistent'
      BY <3>1 DEF RegistryInv, ServedIsIndexed, IndexConsistent, TypeOK
    <3> QED
      BY <3>3, <3>4, <3>5 DEF RegistryInv
  <2>2. CASE Admit(c)
    <3>1. /\ handler[c] = "new" /\ connections' = connections \cup {c}
          /\ byAgent' = [byAgent EXCEPT ![AgentOf[c]] = @ \cup {c}]
          /\ handler' = [handler EXCEPT ![c] = "open"] /\ UNCHANGED <<socket, closer>>
      BY <2>2 DEF Admit
    <3>2. \A a \in Agent : cached'[a] = cached[a] \/ cached'[a] = NoConn
      BY <2>2 DEF Admit, LookUp, TypeOK
    <3>3. CacheHoldsDisconnected'
      BY <3>1, <3>2 DEF RegistryInv, CacheHoldsDisconnected, TypeOK
    <3>4. RegisteredHasHandler' /\ ServedIsIndexed'
      BY <3>1 DEF RegistryInv, RegisteredHasHandler, ServedIsIndexed, TypeOK
    <3>5. IndexConsistent'
      BY <3>1 DEF RegistryInv, IndexConsistent, TypeOK
    <3> QED
      BY <3>3, <3>4, <3>5 DEF RegistryInv
  <2>3. CASE AuthSuccess(c)
    BY <2>3, RegistryFrame DEF AuthSuccess
  <2>4. CASE Leave(c)
    BY <2>4 DEF Leave, registry, TypeOK, RegistryInv, RegisteredHasHandler,
           ServedIsIndexed, 
                IndexConsistent, CacheHoldsDisconnected
  <2>5. CASE Finish(c)
    <3>1. CASE c \in connections
      BY <2>5, <3>1, AtOnceKeepsRegistry DEF Finish
    <3>2. CASE c \notin connections
      BY <2>5, <3>2 DEF Finish, NothingToRemove, TypeOK, RegistryInv,
             RegisteredHasHandler, 
                        ServedIsIndexed, IndexConsistent, CacheHoldsDisconnected
    <3> QED
      BY <3>1, <3>2
  <2> QED
    BY <1>1, <2>1, <2>2, <2>3, <2>4, <2>5 DEF HandlerStep
<1>2. ASSUME NEW c \in Conn, TaskStep(c) PROVE RegistryInv'
  <2>1. CASE SendFails(c)
    BY <2>1, RegistryFrame DEF SendFails, registry
  <2>2. CASE TaskStarts(c)
    <3>1. CASE NothingToRemove /\ UNCHANGED <<socket, closer>>
      BY <2>2, <3>1, RegistryFrame DEF TaskStarts, NothingToRemove
    <3>2. CASE c \in connections /\ DisconnectAtOnce(c) /\ UNCHANGED <<socket, closer>>
      BY <2>2, <3>2, AtOnceKeepsRegistry DEF TaskStarts
    <3>3. CASE c \in connections /\ BeginClose(c, "task")
      BY <2>2, <3>3, BeginKeepsRegistry DEF TaskStarts
    <3> QED
      BY <2>2, <3>1, <3>2, <3>3 DEF TaskStarts
  <2>3. CASE TaskEnds(c)
    BY <2>3, EndKeepsRegistry DEF TaskEnds, BeingRemoved
  <2> QED
    BY <1>2, <2>1, <2>2, <2>3 DEF TaskStep
<1>3. CASE MaintStep
  <2>1. CASE RoundStarts \/ HeartbeatReturns
    BY <2>1, RegistryFrame DEF RoundStarts, HeartbeatReturns, registry
  <2>2. CASE ReapReturns
    <3>1. maint.on \in Conn /\ maint.on \notin byAgent[AgentOf[maint.on]]
      BY <2>2 DEF ReapReturns, BeingRemoved, TypeOK, Round
    <3> QED
      BY <2>2, <3>1, EndKeepsRegistry DEF ReapReturns
  <2>3. CASE RoundEnds
    BY <2>3 DEF RoundEnds, TypeOK, RegistryInv, RegisteredHasHandler, ServedIsIndexed,
                IndexConsistent, CacheHoldsDisconnected
  <2>4. ASSUME NEW c \in Conn, ReapNext(c) PROVE RegistryInv'
    <3>1. CASE NothingToRemove /\ UNCHANGED <<socket, closer>>
      BY <2>4, <3>1, RegistryFrame DEF ReapNext, NothingToRemove
    <3>2. CASE c \in connections /\ DisconnectAtOnce(c) /\ UNCHANGED <<socket, closer>>
      BY <2>4, <3>2, AtOnceKeepsRegistry DEF ReapNext
    <3>3. CASE c \in connections /\ BeginClose(c, "reaper")
      BY <2>4, <3>3, BeginKeepsRegistry DEF ReapNext
    <3> QED
      BY <2>4, <3>1, <3>2, <3>3 DEF ReapNext
  <2> QED
    BY <1>3, <2>1, <2>2, <2>3, <2>4 DEF MaintStep
<1>4. CASE EnvStep
  <2>1. ASSUME NEW c \in Conn, ClientLeaves(c) PROVE RegistryInv'
    BY <2>1 DEF ClientLeaves, registry, TypeOK, RegistryInv, RegisteredHasHandler,
                ServedIsIndexed, IndexConsistent, CacheHoldsDisconnected
  <2>2. ASSUME NEW c \in Conn, BecomesIdle(c) PROVE RegistryInv'
    BY <2>2, RegistryFrame DEF BecomesIdle
  <2>3. ASSUME NEW a \in Agent, SessionAges(a) PROVE RegistryInv'
    BY <2>3, RegistryFrame DEF SessionAges
  <2> QED
    BY <1>4, <2>1, <2>2, <2>3 DEF EnvStep
<1>5. CASE UNCHANGED vars
  BY <1>5, RegistryFrame DEF vars, registry
<1> QED
  BY <1>1, <1>2, <1>3, <1>4, <1>5 DEF Next

\* The index gains a connection only on its arrival, whoever acts.
LEMMA IndexGains ==
  TypeOK /\ [Next]_vars =>
    \A c \in Conn :
      /\ handler[c] # "new" => handler'[c] # "new"
      /\ c \in byAgent'[AgentOf[c]] => c \in byAgent[AgentOf[c]] \/ handler[c] = "new"
<1> SUFFICES ASSUME TypeOK, [Next]_vars
             PROVE  /\ \A c \in Conn : handler[c] # "new" => handler'[c] # "new"
                    /\ \A c \in Conn : c \in byAgent'[AgentOf[c]] =>
                                       c \in byAgent[AgentOf[c]] \/ handler[c] = "new"
  OBVIOUS
<1> USE ConnAssumption DEF TypeOK
<1>1. ASSUME NEW d \in Conn
      PROVE  /\ (Refuse(d) \/ RefusedLeave(d) \/ Overflow(d) \/ AuthSuccess(d) \/ Leave(d)) =>
                  /\ UNCHANGED byAgent
                  /\ \A c \in Conn : handler[c] # "new" => handler'[c] # "new"
             /\ Admit(d) => /\ handler[d] = "new"
                            /\ handler' = [handler EXCEPT ![d] = "open"]
                            /\ byAgent' = [byAgent EXCEPT ![AgentOf[d]] = @ \cup {d}]
  BY DEF Refuse, RefusedLeave, Overflow, AuthSuccess, Leave, Admit, registry
<1>2. ASSUME NEW d \in Conn,
             DisconnectAtOnce(d) \/ NothingToRemove \/ EndClose(d)
             \/ BeginClose(d, "task") \/ BeginClose(d, "reaper")
      PROVE  \A a \in Agent : byAgent'[a] \subseteq byAgent[a]
  BY <1>2 DEF DisconnectAtOnce, NothingToRemove, EndClose, BeginClose, CacheAndUnindex
<1>3. ASSUME NEW d \in Conn, HandlerStep(d)
      PROVE  /\ \A c \in Conn : handler[c] # "new" => handler'[c] # "new"
             /\ \A c \in Conn : c \in byAgent'[AgentOf[c]] =>
                                c \in byAgent[AgentOf[c]] \/ handler[c] = "new"
  <2>1. CASE Finish(d)
    <3>1. handler[d] = "leaving" /\ handler' = [handler EXCEPT ![d] = "gone"]
      BY <2>1 DEF Finish
    <3>2. \A a \in Agent : byAgent'[a] \subseteq byAgent[a]
      BY <2>1, <1>2 DEF Finish
    <3> QED
      BY <3>1, <3>2
  <2>2. CASE Admit(d)
    BY <2>2, <1>1
  <2>3. CASE Refuse(d) \/ RefusedLeave(d) \/ Overflow(d) \/ AuthSuccess(d) \/ Leave(d)
    BY <2>3, <1>1
  <2> QED
    BY <1>3, <2>1, <2>2, <2>3 DEF HandlerStep
<1>4. ASSUME NEW d \in Conn, TaskStep(d) \/ ReapNext(d)
      PROVE  UNCHANGED handler /\ \A a \in Agent : byAgent'[a] \subseteq byAgent[a]
  BY <1>4, <1>2 DEF TaskStep, SendFails, TaskStarts, TaskEnds, ReapNext, registry
<1>5. CASE RoundStarts \/ HeartbeatReturns \/ RoundEnds \/ EnvStep \/ UNCHANGED vars
  BY <1>5 DEF RoundStarts, HeartbeatReturns, RoundEnds, EnvStep, ClientLeaves,
              BecomesIdle, SessionAges, vars, registry
<1>6. CASE ReapReturns
  BY <1>6, <1>2 DEF ReapReturns, Round, EndClose
<1> QED
  BY <1>3, <1>4, <1>5, <1>6 DEF Next, MaintStep

LEMMA BeingRemovedStep == TypeOK /\ RegistryInv /\ BeingRemoved /\ [Next]_vars => BeingRemoved'
<1> SUFFICES ASSUME TypeOK, RegistryInv, BeingRemoved, [Next]_vars,
                    NEW c \in Conn,
                    closer'[c] # "none" \/ (maint'.at = "closing" /\ maint'.on = c)
             PROVE  c \notin byAgent'[AgentOf[c]] /\ handler'[c] # "new"
  BY DEF BeingRemoved
<1> USE ConnAssumption
<1>1. CASE closer[c] # "none" \/ (maint.at = "closing" /\ maint.on = c)
  BY <1>1, IndexGains DEF BeingRemoved
<1>2. CASE ~(closer[c] # "none" \/ (maint.at = "closing" /\ maint.on = c))
  <2>1. c \in connections /\ UNCHANGED handler
        /\ (BeginClose(c, "task") \/ BeginClose(c, "reaper"))
    <3>1. ASSUME NEW d \in Conn, HandlerStep(d) PROVE FALSE
      BY <1>2, <3>1 DEF HandlerStep, Refuse, RefusedLeave, Admit, Overflow, AuthSuccess,
                        Leave, Finish
    <3>2. ASSUME NEW d \in Conn, TaskStep(d)
          PROVE  d = c /\ c \in connections /\ BeginClose(c, "task") /\ UNCHANGED handler
      BY <1>2, <3>2 DEF TaskStep, SendFails, TaskStarts, TaskEnds, EndClose,
             BeginClose, TypeOK
    <3>3. ASSUME NEW d \in Conn, ReapNext(d)
          PROVE  d = c /\ c \in connections /\ BeginClose(c, "reaper") /\ UNCHANGED handler
      <4>1. CASE UNCHANGED closer /\ maint' = [maint EXCEPT !.doomed = @ \ {d}]
        BY <1>2, <3>3, <4>1 DEF ReapNext, TypeOK, Round
      <4>2. CASE /\ d \in connections /\ BeginClose(d, "reaper")
                 /\ maint' = [[maint EXCEPT !.doomed = @ \ {d}] EXCEPT !.at = "closing", !.on = d]
        <5>1. closer' = [closer EXCEPT ![d] = "reaper"] /\ maint'.on = d
          BY <4>2 DEF BeginClose, TypeOK, Round
        <5>2. d = c
          BY <1>2, <5>1 DEF TypeOK
        <5> QED
          BY <3>3, <4>2, <5>2 DEF ReapNext
      <4> QED
        BY <3>3, <4>1, <4>2 DEF ReapNext
    <3>4. CASE RoundStarts \/ HeartbeatReturns
      <4>1. UNCHANGED closer
        BY <3>4 DEF RoundStarts, HeartbeatReturns
      <4>2. ASSUME NEW seen, NEW doomed, NEW size, Scan(seen, doomed, size)
            PROVE  maint'.at # "closing"
        BY <4>2 DEF Scan, Resting
      <4>3. maint'.at # "closing"
        BY <3>4, <4>2 DEF RoundStarts, HeartbeatReturns, Resting
      <4> QED
        BY <1>2, <4>1, <4>3
    <3>5. CASE ReapReturns \/ RoundEnds
      <4>1. UNCHANGED closer \/ closer' = [closer EXCEPT ![maint.on] = "none"]
        BY <3>5 DEF ReapReturns, RoundEnds, EndClose
      <4>2. maint'.at # "closing"
        <5>1. maint' = Resting \/ maint' = [maint EXCEPT !.at = "reaping", !.on = NoConn]
          BY <3>5 DEF ReapReturns, RoundEnds
        <5>2. maint \in Round
          BY DEF TypeOK
        <5>3. maint' = Resting => maint'.at = "sleep"
          BY DEF Resting
        <5>4. maint' = [maint EXCEPT !.at = "reaping", !.on = NoConn] => maint'.at = "reaping"
          BY <5>2 DEF Round
        <5> QED
          BY <5>1, <5>3, <5>4
      <4> QED
        BY <1>2, <4>1, <4>2 DEF TypeOK
    <3>6. CASE EnvStep \/ UNCHANGED vars
      BY <1>2, <3>6 DEF EnvStep, ClientLeaves, BecomesIdle, SessionAges, vars
    <3> QED
      BY <3>1, <3>2, <3>3, <3>4, <3>5, <3>6 DEF Next, MaintStep
  <2> QED
    BY <2>1 DEF BeginClose, CacheAndUnindex, TypeOK, RegistryInv, RegisteredHasHandler
<1> QED
  BY <1>1, <1>2

\* The invariant of the registry holds initially and in every step.
THEOREM RegistryCorrect == Spec => [](RegistryInv /\ BeingRemoved)
<1>1. Init => RegistryInv /\ BeingRemoved
  BY ConnAssumption DEF Init, RegistryInv, BeingRemoved, RegisteredHasHandler,
         ServedIsIndexed, 
         IndexConsistent, CacheHoldsDisconnected, Resting
<1>2. TypeOK /\ RegistryInv /\ BeingRemoved /\ [Next]_vars => (RegistryInv /\ BeingRemoved)'
  BY RegistryStep, BeingRemovedStep
<1> QED
  BY <1>1, <1>2, TypeCorrect, PTL DEF Spec

\* agent_connections and connections agree, in every interleaving of the three
\* parties that remove connections.
THEOREM IndexesAgree == Spec => []IndexConsistent
  BY RegistryCorrect, PTL DEF RegistryInv

\* What disconnected_sessions offers for resumption is not in use.
THEOREM CacheIsDisconnected == Spec => []CacheHoldsDisconnected
  BY RegistryCorrect, PTL DEF RegistryInv

\* A handler that is through leaves no connection registered: remove_connection
\* by somebody else and by the handler, in either order, removes it.
THEOREM NoZombies == Spec => []NoZombie
<1>1. TypeOK /\ RegistryInv => NoZombie
  BY DEF TypeOK, RegistryInv, RegisteredHasHandler, IndexConsistent, NoZombie
<1> QED
  BY <1>1, RegistryCorrect, TypeCorrect, PTL

-----------------------------------------------------------------------------
(* The limits: sets of connections are finite, so the counts grow by one    *)
(* with an arrival and shrink by one with a departure.                      *)

WithinLimit == \A a \in Agent : Cardinality(byAgent[a]) <= MaxPerAgent

LEMMA WithinLimitStep == TypeOK /\ WithinLimit /\ [Next]_vars => WithinLimit'
<1> SUFFICES ASSUME TypeOK, WithinLimit, [Next]_vars, NEW a \in Agent
             PROVE  Cardinality(byAgent'[a]) <= MaxPerAgent
  BY DEF WithinLimit
<1> USE ConnAssumption DEF TypeOK
<1>1. byAgent[a] \subseteq Conn /\ IsFiniteSet(byAgent[a]) /\ Cardinality(byAgent[a]) \in Nat
  BY FS_Subset, FS_CardinalityType
<1>2. CASE byAgent'[a] \subseteq byAgent[a]
  <2>1. Cardinality(byAgent'[a]) <= Cardinality(byAgent[a]) /\ Cardinality(byAgent'[a]) \in Nat
    BY <1>1, <1>2, FS_Subset, FS_CardinalityType
  <2> QED
    BY <1>1, <2>1 DEF WithinLimit
<1>3. ASSUME NEW c \in Conn, Admit(c), AgentOf[c] = a
      PROVE  Cardinality(byAgent'[a]) <= MaxPerAgent
  <2>1. Cardinality(byAgent[a]) < MaxPerAgent /\ byAgent'[a] = byAgent[a] \cup {c}
    BY <1>3 DEF Admit
  <2>2. Cardinality(byAgent[a] \cup {c}) = IF c \in byAgent[a] THEN Cardinality(byAgent[a])
                                          ELSE Cardinality(byAgent[a]) + 1
    BY <1>1, FS_AddElement
  <2> QED
    BY <1>1, <2>1, <2>2
<1>4. CASE \A c \in Conn : ~(Admit(c) /\ AgentOf[c] = a)
  <2>1. ASSUME NEW c \in Conn, HandlerStep(c) PROVE byAgent'[a] \subseteq byAgent[a]
    BY <1>4, <2>1 DEF HandlerStep, Refuse, RefusedLeave, Admit, Overflow, AuthSuccess,
           Leave, 
                      Finish, DisconnectAtOnce, NothingToRemove, CacheAndUnindex, registry
  <2>2. ASSUME NEW c \in Conn, TaskStep(c) \/ ReapNext(c) PROVE byAgent'[a] \subseteq byAgent[a]
    BY <2>2 DEF TaskStep, SendFails, TaskStarts, TaskEnds, ReapNext, DisconnectAtOnce,
                NothingToRemove, BeginClose, EndClose, CacheAndUnindex, registry
  <2>3. ASSUME RoundStarts \/ HeartbeatReturns \/ ReapReturns \/ RoundEnds
        PROVE  byAgent'[a] \subseteq byAgent[a]
    BY <2>3 DEF RoundStarts, HeartbeatReturns, ReapReturns, RoundEnds, EndClose,
           registry
  <2>4. ASSUME EnvStep \/ UNCHANGED vars PROVE byAgent'[a] \subseteq byAgent[a]
    BY <2>4 DEF EnvStep, ClientLeaves, BecomesIdle, SessionAges, vars, registry
  <2> QED
    <3>1. byAgent'[a] \subseteq byAgent[a]
      BY <2>1, <2>2, <2>3, <2>4 DEF Next, MaintStep
    <3> QED
      BY <1>2, <3>1
<1> QED
  BY <1>3, <1>4

\* An agent is never served on more than max_connections_per_agent WebSockets,
\* and each of them is in agent_connections.
THEOREM LimitHolds == Spec => []ServedWithinLimit
<1>1. Init => WithinLimit
  BY FS_EmptySet, ConnAssumption DEF Init, WithinLimit
<1>2. TypeOK /\ WithinLimit /\ RegistryInv => ServedWithinLimit
  <2> SUFFICES ASSUME TypeOK, WithinLimit, RegistryInv, NEW a \in Agent
               PROVE  Served(a) \subseteq byAgent[a] /\ Cardinality(Served(a)) <= MaxPerAgent
    BY DEF ServedWithinLimit
  <2> USE ConnAssumption
  <2>1. Served(a) \subseteq byAgent[a]
    BY DEF Served, RegistryInv, ServedIsIndexed
  <2>2. IsFiniteSet(byAgent[a]) /\ Cardinality(byAgent[a]) \in Nat
    BY FS_Subset, FS_CardinalityType DEF TypeOK
  <2>3. Cardinality(Served(a)) <= Cardinality(byAgent[a]) /\ Cardinality(Served(a)) \in Nat
    BY <2>1, <2>2, FS_Subset, FS_CardinalityType
  <2> QED
    BY <2>1, <2>2, <2>3 DEF WithinLimit
<1> QED
  BY <1>1, <1>2, WithinLimitStep, TypeCorrect, RegistryCorrect, PTL DEF Spec

LEMMA HoldingFinite ==
  ASSUME NEW a \in Agent
  PROVE  IsFiniteSet(Holding(a)) /\ Cardinality(Holding(a)) \in Nat
  BY ConnAssumption, FS_Subset, FS_CardinalityType DEF Holding

LEMMA NoSlotLeakStep == TypeOK /\ NoSlotLeak /\ [Next]_vars => NoSlotLeak'
<1> SUFFICES ASSUME TypeOK, NoSlotLeak, [Next]_vars, NEW a \in Agent
             PROVE  slots'[a] <= Cardinality(Holding(a))'
  BY DEF NoSlotLeak
<1> USE ConnAssumption, HoldingFinite DEF TypeOK
<1>1. slots[a] \in Nat /\ slots[a] <= Cardinality(Holding(a))
  BY DEF NoSlotLeak
<1>2. CASE slots'[a] = slots[a] /\ Holding(a)' = Holding(a)
  BY <1>1, <1>2
<1>3. ASSUME NEW c \in Conn, Admit(c), AgentOf[c] = a
      PROVE  slots'[a] <= Cardinality(Holding(a))'
  <2>1. slots'[a] = slots[a] + 1 /\ Holding(a)' = Holding(a) \cup {c} /\ c \notin Holding(a)
    BY <1>3 DEF Admit, Holding
  <2>2. Cardinality(Holding(a) \cup {c}) = Cardinality(Holding(a)) + 1
    BY <2>1, FS_AddElement
  <2> QED
    BY <1>1, <2>1, <2>2
<1>4. ASSUME NEW c \in Conn, RefusedLeave(c), AgentOf[c] = a
      PROVE  slots'[a] <= Cardinality(Holding(a))'
  <2>1. slots'[a] \in Nat /\ slots'[a] <= slots[a] /\ Holding(a)' = Holding(a)
    BY <1>4 DEF RefusedLeave, Release, Holding
  <2> QED
    BY <1>1, <2>1
<1>5. ASSUME NEW c \in Conn, Finish(c), AgentOf[c] = a
      PROVE  slots'[a] <= Cardinality(Holding(a))'
  <2>1. Holding(a)' = Holding(a) \ {c} /\ c \in Holding(a)
    BY <1>5 DEF Finish, Holding
  <2>2. slots'[a] = IF slots[a] > 0 THEN slots[a] - 1 ELSE 0
    BY <1>5 DEF Finish, Release
  <2>3. Cardinality(Holding(a) \ {c}) = Cardinality(Holding(a)) - 1
    BY <2>1, FS_RemoveElement
  <2>4. Cardinality(Holding(a) \ {c}) \in Nat
    BY FS_Subset, FS_CardinalityType
  <2> QED
    BY <1>1, <2>1, <2>2, <2>3, <2>4
<1>6. CASE \A c \in Conn : ~((Admit(c) \/ RefusedLeave(c) \/ Finish(c)) /\ AgentOf[c] = a)
  <2>1. ASSUME NEW c \in Conn, HandlerStep(c)
        PROVE  slots'[a] = slots[a] /\ Holding(a)' = Holding(a)
    BY <1>6, <2>1 DEF HandlerStep, Refuse, RefusedLeave, Admit, Overflow, AuthSuccess,
           Leave, 
                      Finish, Release, Holding, registry
  <2>2. ASSUME NEW c \in Conn, TaskStep(c) \/ ReapNext(c) PROVE UNCHANGED <<slots, handler>>
    BY <2>2 DEF TaskStep, SendFails, TaskStarts, TaskEnds, ReapNext
  <2>3. CASE RoundStarts \/ HeartbeatReturns \/ ReapReturns \/ RoundEnds
    BY <1>2, <2>3 DEF RoundStarts, HeartbeatReturns, ReapReturns, RoundEnds, Holding
  <2>4. CASE EnvStep \/ UNCHANGED vars
    BY <1>2, <2>4 DEF EnvStep, ClientLeaves, BecomesIdle, SessionAges, vars, Holding
  <2>5. UNCHANGED <<slots, handler>> => slots'[a] = slots[a] /\ Holding(a)' = Holding(a)
    BY DEF Holding
  <2> QED
    BY <1>2, <2>1, <2>2, <2>3, <2>4, <2>5 DEF Next, MaintStep
<1> QED
  BY <1>3, <1>4, <1>5, <1>6

\* Every way out of handle_connection gives its slot back: the rate limiter
\* never counts more connections of an agent than hold a slot.
THEOREM SlotsNotLeaked == Spec => []NoSlotLeak
<1>1. Init => NoSlotLeak
  BY FS_EmptySet, FS_CardinalityType, HoldingFinite DEF Init, NoSlotLeak, Holding
<1> QED
  BY <1>1, NoSlotLeakStep, TypeCorrect, PTL DEF Spec

\* What is registered, served, gone and cached agree, in every interleaving of
\* handlers, tasks and the maintenance loop (RegistrySound).
THEOREM RegistryAgrees == Spec => []RegistrySound
  BY TypeCorrect, IndexesAgree, NoZombies, LimitHolds, CacheIsDisconnected, PTL DEF RegistrySound
=============================================================================
