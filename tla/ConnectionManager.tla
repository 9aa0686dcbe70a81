------------------------- MODULE ConnectionManager -------------------------
(***************************************************************************)
(* The LLM gateway's agent connections: the handler of each agent          *)
(* WebSocket (llm-gateway/websocket_handlers.py, handle_connection), the   *)
(* ConnectionManager it registers with (connection_manager.py) and the     *)
(* connection slots of the rate limiter (utils/rate_slots.py).           *)
(*                                                                         *)
(* Everything runs on one asyncio loop, so a step is the code between two  *)
(* awaits that really suspend: a WebSocket send or close, receive_text,    *)
(* the close of the proxy connection, a sleep.  The asyncio locks involved *)
(* are never held across such an await and so never suspend.  A WebSocket  *)
(* (starlette over uvicorn) suspends in its first close while the client   *)
(* is there; a later close, or one after the client left, raises at once.  *)
(*                                                                         *)
(* A member of Conn stands for one WebSocket, its handler, its             *)
(* connection_id and its ConnectionInfo; a session id is named by the      *)
(* connection that created it.                                             *)
(***************************************************************************)
EXTENDS Naturals, FiniteSets

CONSTANTS
    Conn,         \* the WebSockets agents may open
    Agent,        \* agent ids
    AgentOf,      \* the agent id in the URL of each WebSocket
    NoConn,       \* no cached session
    MaxPerAgent,  \* settings.max_connections_per_agent
    MaxTracked    \* the rate limiter's MAX_CONNECTIONS_PER_AGENT

ASSUME ConnAssumption ==
    /\ IsFiniteSet(Conn)
    /\ AgentOf \in [Conn -> Agent]
    /\ NoConn \notin Conn
    /\ MaxPerAgent \in Nat \ {0}
    /\ MaxTracked \in Nat \ {0}

VARIABLES
    handler,      \* where handle_connection stands
    socket,       \* the WebSocket under the handler
    connections,  \* keys of ConnectionManager.connections
    byAgent,      \* agent_connections (no entry = the empty set)
    session,      \* ConnectionInfo.session_id
    authed,       \* ConnectionInfo.authenticated
    idle,         \* connections whose last_seen is older than agent_timeout
    cached,       \* disconnected_sessions: the ConnectionInfo kept per agent
    age,          \* of each cached session: time since disconnected_at
    slots,        \* the rate limiter's active_connections
    tasks,        \* handle_disconnect tasks created and not yet started
    closer,       \* who awaits websocket.close() inside remove_connection
    maint         \* _heartbeat_loop inside maintain_connections

registry == <<connections, byAgent, session, authed, idle, cached, age>>
vars == <<handler, socket, registry, slots, tasks, closer, maint>>

\* The handlers of agent a that hold a slot of the rate limiter.
Holding(a) == {c \in Conn : AgentOf[c] = a /\ handler[c] \in {"open", "leaving"}}

Resting == [at |-> "sleep", seen |-> {}, doomed |-> {}, size |-> 0, on |-> NoConn]

\* A round: where it stands, the entries it went through, the expired ones,
\* the size of the dict when it began, and the connection it is busy with.
Round == {m \in [at : {"sleep", "beating", "reaping", "closing"}, seen : SUBSET Conn,
                 doomed : SUBSET Conn, size : Nat, on : Conn \cup {NoConn}] :
            m.on = NoConn <=> m.at \in {"sleep", "reaping"}}

TypeOK ==
    /\ handler \in [Conn -> {"new", "refused", "open", "leaving", "gone"}]
    /\ socket \in [Conn -> {"open", "closing", "dead"}]
    /\ connections \subseteq Conn
    /\ byAgent \in [Agent -> SUBSET Conn]
    /\ session \in [Conn -> Conn \cup {NoConn}]
    /\ authed \subseteq Conn
    /\ idle \subseteq Conn
    /\ cached \in [Agent -> Conn \cup {NoConn}]
    /\ age \in [Agent -> {"none", "cooling", "resumable", "stale"}]
    /\ \A a \in Agent : age[a] = "none" <=> cached[a] = NoConn
    /\ slots \in [Agent -> Nat]
    /\ tasks \subseteq Conn
    /\ closer \in [Conn -> {"none", "task", "reaper"}]
    /\ maint \in Round

Init ==
    /\ handler = [c \in Conn |-> "new"]
    /\ socket = [c \in Conn |-> "open"]
    /\ connections = {}
    /\ byAgent = [a \in Agent |-> {}]
    /\ session = [c \in Conn |-> NoConn]
    /\ authed = {}
    /\ idle = {}
    /\ cached = [a \in Agent |-> NoConn]
    /\ age = [a \in Agent |-> "none"]
    /\ slots = [a \in Agent |-> 0]
    /\ tasks = {}
    /\ closer = [c \in Conn |-> "none"]
    /\ maint = Resting

-----------------------------------------------------------------------------
(* Arrival: track_connection, then add_connection.                         *)

\* The count is below the limit.  (track_connection also says no to a blocked
\* agent, and rate-limit violations or too many attempts block one at any
\* time: Refuse needs no other reason.)
TrackConnection(a) == slots[a] < MaxTracked

\* check_resumable_session drops a session past the window, add_connection
\* drops the one it resumes; one still in its cooldown stays.
LookUp(a) ==
    IF age[a] \in {"resumable", "stale"}
    THEN cached' = [cached EXCEPT ![a] = NoConn] /\ age' = [age EXCEPT ![a] = "none"]
    ELSE UNCHANGED <<cached, age>>

\* release_connection: the count never goes below zero.
Release(a) == slots' = [slots EXCEPT ![a] = IF @ > 0 THEN @ - 1 ELSE 0]

\* track_connection said no: the handler sends an error and returns.
Refuse(c) ==
    /\ handler[c] = "new"
    /\ handler' = [handler EXCEPT ![c] = "refused"]
    /\ UNCHANGED <<socket, registry, slots, tasks, closer, maint>>

\* Its finally block has no connection_id to remove, and releases a slot.
RefusedLeave(c) ==
    /\ handler[c] = "refused"
    /\ handler' = [handler EXCEPT ![c] = "gone"]
    /\ socket' = [socket EXCEPT ![c] = "dead"]
    /\ Release(AgentOf[c])
    /\ UNCHANGED <<registry, tasks, closer, maint>>

\* Mutant of Admit: the limit test is off by one.
AdmitOneMore(c) ==
    LET a == AgentOf[c]
    IN  /\ handler[c] = "new"
        /\ TrackConnection(a)
        /\ Cardinality(byAgent[a]) <= MaxPerAgent
        /\ handler' = [handler EXCEPT ![c] = "open"]
        /\ slots' = [slots EXCEPT ![a] = @ + 1]
        /\ connections' = connections \cup {c}
        /\ byAgent' = [byAgent EXCEPT ![a] = @ \cup {c}]
        /\ session' = [session EXCEPT ![c] = c]
        /\ UNCHANGED <<socket, authed, idle, cached, age, tasks, closer, maint>>

\* add_connection succeeds: a resumed or a fresh session.
Admit(c) ==
    LET a == AgentOf[c]
        resumes == age[a] = "resumable"
    IN  /\ handler[c] = "new"
        /\ TrackConnection(a)
        /\ Cardinality(byAgent[a]) < MaxPerAgent
        /\ handler' = [handler EXCEPT ![c] = "open"]
        /\ slots' = [slots EXCEPT ![a] = @ + 1]
        /\ connections' = connections \cup {c}
        /\ byAgent' = [byAgent EXCEPT ![a] = @ \cup {c}]
        /\ session' = [session EXCEPT ![c] = IF resumes THEN session[cached[a]] ELSE c]
        /\ authed' = IF resumes /\ cached[a] \in authed THEN authed \cup {c} ELSE authed
        /\ LookUp(a)
        /\ UNCHANGED <<socket, idle, tasks, closer, maint>>

\* Mutant of Overflow: the early exit keeps the slot it tracked.
OverflowKeepsSlot(c) ==
    LET a == AgentOf[c]
    IN  /\ handler[c] = "new"
        /\ TrackConnection(a)
        /\ Cardinality(byAgent[a]) >= MaxPerAgent
        /\ handler' = [handler EXCEPT ![c] = "gone"]
        /\ socket' = [socket EXCEPT ![c] = "dead"]
        /\ slots' = [slots EXCEPT ![a] = @ + 1]
        /\ UNCHANGED <<registry, tasks, closer, maint>>

\* add_connection raises ValueError after the lookup: the handler leaves at
\* once through its finally block, which gives the slot back.
Overflow(c) ==
    LET a == AgentOf[c]
    IN  /\ handler[c] = "new"
        /\ TrackConnection(a)
        /\ Cardinality(byAgent[a]) >= MaxPerAgent
        /\ handler' = [handler EXCEPT ![c] = "gone"]
        /\ socket' = [socket EXCEPT ![c] = "dead"]
        /\ LookUp(a)
        /\ UNCHANGED <<connections, byAgent, session, authed, idle, slots, tasks,
                       closer, maint>>

\* The listener got auth_success: update_agent_auth marks every connection of
\* the agent, not only the one that authenticated.
AuthSuccess(c) ==
    /\ handler[c] = "open"
    /\ authed' = authed \cup byAgent[AgentOf[c]]
    /\ UNCHANGED <<handler, socket, connections, byAgent, session, idle, cached,
                   age, slots, tasks, closer, maint>>

-----------------------------------------------------------------------------
(* Departure: handle_disconnect, entered by the handler's finally block,   *)
(* by a task that send_to_agent creates, and by the maintenance loop.      *)

\* Mutant of CacheAndUnindex: the connection stays in its agent's set.
CacheOnly(c) ==
    /\ cached' = [cached EXCEPT ![AgentOf[c]] = c]
    /\ age' = [age EXCEPT ![AgentOf[c]] = "cooling"]
    /\ UNCHANGED byAgent

\* _cleanup_agent_disconnect and the first half of remove_connection: the
\* session is cached and the connection leaves its agent's set.
CacheAndUnindex(c) ==
    LET a == AgentOf[c]
    IN  /\ cached' = [cached EXCEPT ![a] = c]
        /\ age' = [age EXCEPT ![a] = "cooling"]
        /\ byAgent' = [byAgent EXCEPT ![a] = @ \ {c}]

NothingToRemove == UNCHANGED <<cached, age, byAgent, connections, idle>>

\* del self.connections[connection_id]; nobody asks for its age any more.
Forget(c) == connections' = connections \ {c} /\ idle' = idle \ {c}

\* A whole handle_disconnect whose websocket.close() does not suspend.
DisconnectAtOnce(c) ==
    /\ socket[c] # "open"
    /\ CacheAndUnindex(c)
    /\ Forget(c)

ClientLeaves(c) ==
    /\ handler[c] = "open"
    /\ socket[c] = "open"
    /\ socket' = [socket EXCEPT ![c] = "dead"]
    /\ UNCHANGED <<handler, registry, slots, tasks, closer, maint>>

\* receive_text raises; the finally block first cancels the handler's tasks
\* and closes its proxy connection, which suspends.
Leave(c) ==
    /\ handler[c] = "open"
    /\ socket[c] # "open"
    /\ handler' = [handler EXCEPT ![c] = "leaving"]
    /\ UNCHANGED <<socket, registry, slots, tasks, closer, maint>>

\* Mutants of Finish: a connection that somebody else is removing is left to
\* them; only authenticated connections are removed.
FinishUnlessRemoving(c) ==
    /\ handler[c] = "leaving"
    /\ handler' = [handler EXCEPT ![c] = "gone"]
    /\ IF c \in byAgent[AgentOf[c]] THEN DisconnectAtOnce(c) ELSE NothingToRemove
    /\ Release(AgentOf[c])
    /\ UNCHANGED <<socket, session, authed, tasks, closer, maint>>

FinishIfAuthed(c) ==
    /\ handler[c] = "leaving"
    /\ handler' = [handler EXCEPT ![c] = "gone"]
    /\ IF c \in connections \cap authed THEN DisconnectAtOnce(c) ELSE NothingToRemove
    /\ Release(AgentOf[c])
    /\ UNCHANGED <<socket, session, authed, tasks, closer, maint>>

\* The rest of the finally block: handle_disconnect, then release_connection.
Finish(c) ==
    /\ handler[c] = "leaving"
    /\ handler' = [handler EXCEPT ![c] = "gone"]
    /\ IF c \in connections THEN DisconnectAtOnce(c) ELSE NothingToRemove
    /\ Release(AgentOf[c])
    /\ UNCHANGED <<socket, session, authed, tasks, closer, maint>>

\* end_game notifies the agent through send_to_agent, which picks an
\* authenticated connection; later the send fails and send_to_agent does
\* asyncio.create_task(handle_disconnect).  (The task has nothing to do when
\* the connection was removed before the send failed.)
SendFails(c) ==
    /\ c \in authed \cap connections
    /\ tasks' = tasks \cup {c}
    /\ UNCHANGED <<handler, socket, registry, slots, closer, maint>>

\* Mutant of BeginClose: the agent's set is left for after the close.
BeginCloseFirst(c, who) ==
    /\ socket[c] = "open"
    /\ socket' = [socket EXCEPT ![c] = "closing"]
    /\ closer' = [closer EXCEPT ![c] = who]
    /\ cached' = [cached EXCEPT ![AgentOf[c]] = c]
    /\ age' = [age EXCEPT ![AgentOf[c]] = "cooling"]
    /\ UNCHANGED <<byAgent, connections, idle>>

\* handle_disconnect up to the await of websocket.close().
BeginClose(c, who) ==
    /\ socket[c] = "open"
    /\ socket' = [socket EXCEPT ![c] = "closing"]
    /\ closer' = [closer EXCEPT ![c] = who]
    /\ CacheAndUnindex(c)
    /\ UNCHANGED <<connections, idle>>

TaskStarts(c) ==
    /\ c \in tasks
    /\ tasks' = tasks \ {c}
    /\ \/ /\ c \notin connections
          /\ NothingToRemove
          /\ UNCHANGED <<socket, closer>>
       \/ /\ c \in connections
          /\ DisconnectAtOnce(c)
          /\ UNCHANGED <<socket, closer>>
       \/ /\ c \in connections
          /\ BeginClose(c, "task")
    /\ UNCHANGED <<handler, session, authed, slots, maint>>

\* close() returned: del self.connections[connection_id].  When somebody else
\* removed it meanwhile this raises KeyError, and the task dies of it.
EndClose(c) ==
    /\ closer' = [closer EXCEPT ![c] = "none"]
    /\ socket' = [socket EXCEPT ![c] = "dead"]
    /\ Forget(c)
    /\ UNCHANGED <<cached, age, byAgent>>

TaskEnds(c) ==
    /\ closer[c] = "task"
    /\ EndClose(c)
    /\ UNCHANGED <<handler, session, authed, slots, tasks, maint>>

-----------------------------------------------------------------------------
(* maintain_connections: one round of the heartbeat loop.                  *)

\* Mutant of Scan: only authenticated connections are tested for expiry.
ScanAuthed(seen, doomed, size) ==
    LET met == {c \in connections : c \notin authed \/ c \in seen}
        rest == connections \ met
    IN  \/ \E c \in rest :
             maint' = [at |-> "beating", seen |-> met \cup {c},
                       doomed |-> doomed \cup ({c} \cap idle), size |-> size, on |-> c]
        \/ /\ rest = {}
           /\ maint' = [at |-> "reaping", seen |-> {}, doomed |-> doomed,
                        size |-> 0, on |-> NoConn]

\* The for loop over self.connections.items() from where it stands to its
\* next await: some entries are passed over (idle ones are put on the list,
\* unauthenticated ones get no ping), then one is sent a heartbeat or the
\* loop is over.  The iterator yields at most as many entries as the dict had
\* when the loop began and raises RuntimeError when it finds one more.
Scan(seen, doomed, size) ==
    \E passed \in SUBSET (connections \ seen) :
        /\ \A c \in passed : c \in idle \/ c \notin authed
        /\ LET met == seen \cup passed
               rest == connections \ met
               listed == doomed \cup (passed \cap idle)
           IN  /\ Cardinality(met) <= size
               /\ \/ \E c \in rest :
                        /\ Cardinality(met) < size
                        /\ c \in authed \ idle
                        /\ maint' = [at |-> "beating", seen |-> met \cup {c},
                                     doomed |-> listed, size |-> size, on |-> c]
                  \/ /\ rest = {}
                     /\ maint' = [at |-> "reaping", seen |-> {}, doomed |-> listed,
                                  size |-> 0, on |-> NoConn]
                  \/ /\ rest # {}
                     /\ Cardinality(met) = size
                     /\ maint' = Resting

RoundStarts ==
    /\ maint.at = "sleep"
    /\ Scan({}, {}, Cardinality(connections))
    /\ UNCHANGED <<handler, socket, registry, slots, tasks, closer>>

\* The ping was sent (update_activity) or failed (the entry is put on the
\* list).  Asking the iterator for the next entry raises RuntimeError when
\* the dict changed size meanwhile, which ends the round.
HeartbeatReturns ==
    /\ maint.at = "beating"
    /\ \E sent \in BOOLEAN :
         /\ idle' = IF sent THEN idle \ {maint.on} ELSE idle
         /\ LET listed == IF sent THEN maint.doomed ELSE maint.doomed \cup {maint.on}
            IN  IF Cardinality(connections) = maint.size
                THEN Scan(maint.seen, listed, maint.size)
                ELSE maint' = Resting
    /\ UNCHANGED <<handler, socket, connections, byAgent, session, authed,
                   cached, age, slots, tasks, closer>>

\* Mutant of ReapNext: the list is not shortened.
ReapSame(c) ==
    /\ maint.at = "reaping"
    /\ c \in maint.doomed
    /\ IF c \in connections THEN DisconnectAtOnce(c) ELSE NothingToRemove
    /\ UNCHANGED <<handler, socket, session, authed, slots, tasks, closer, maint>>

\* handle_disconnect of the next connection on the list.
ReapNext(c) ==
    /\ maint.at = "reaping"
    /\ c \in maint.doomed
    /\ LET shorter == [maint EXCEPT !.doomed = @ \ {c}]
       IN  \/ /\ c \notin connections
              /\ NothingToRemove
              /\ maint' = shorter
              /\ UNCHANGED <<socket, closer>>
           \/ /\ c \in connections
              /\ DisconnectAtOnce(c)
              /\ maint' = shorter
              /\ UNCHANGED <<socket, closer>>
           \/ /\ c \in connections
              /\ BeginClose(c, "reaper")
              /\ maint' = [shorter EXCEPT !.at = "closing", !.on = c]
    /\ UNCHANGED <<handler, session, authed, slots, tasks>>

\* close() returned; a KeyError ends the round.
ReapReturns ==
    /\ maint.at = "closing"
    /\ EndClose(maint.on)
    /\ maint' = IF maint.on \in connections
                THEN [maint EXCEPT !.at = "reaping", !.on = NoConn]
                ELSE Resting
    /\ UNCHANGED <<handler, session, authed, slots, tasks>>

\* The last part of the round: sessions past the window leave the cache.
RoundEnds ==
    /\ maint.at = "reaping"
    /\ maint.doomed = {}
    /\ cached' = [a \in Agent |-> IF age[a] = "stale" THEN NoConn ELSE cached[a]]
    /\ age' = [a \in Agent |-> IF age[a] = "stale" THEN "none" ELSE age[a]]
    /\ maint' = Resting
    /\ UNCHANGED <<handler, socket, connections, byAgent, session, authed, idle,
                   slots, tasks, closer>>

-----------------------------------------------------------------------------
(* The clock.                                                              *)

BecomesIdle(c) ==
    /\ c \in connections \ idle
    /\ idle' = idle \cup {c}
    /\ UNCHANGED <<handler, socket, connections, byAgent, session, authed, cached,
                   age, slots, tasks, closer, maint>>

SessionAges(a) ==
    /\ \/ /\ age[a] = "cooling"
          /\ age' = [age EXCEPT ![a] = "resumable"]
       \/ /\ age[a] = "resumable"
          /\ age' = [age EXCEPT ![a] = "stale"]
    /\ UNCHANGED <<handler, socket, connections, byAgent, session, authed, idle,
                   cached, slots, tasks, closer, maint>>

-----------------------------------------------------------------------------
HandlerStep(c) ==
    \/ Refuse(c) \/ RefusedLeave(c) \/ Admit(c) \/ Overflow(c)
    \/ AuthSuccess(c) \/ Leave(c) \/ Finish(c)

TaskStep(c) == SendFails(c) \/ TaskStarts(c) \/ TaskEnds(c)

MaintStep ==
    \/ RoundStarts \/ HeartbeatReturns \/ ReapReturns \/ RoundEnds
    \/ \E c \in Conn : ReapNext(c)

EnvStep ==
    \/ \E c \in Conn : ClientLeaves(c) \/ BecomesIdle(c)
    \/ \E a \in Agent : SessionAges(a)

Next ==
    \/ \E c \in Conn : HandlerStep(c) \/ TaskStep(c)
    \/ MaintStep
    \/ EnvStep

Spec == Init /\ [][Next]_vars

\* What asyncio and the network guarantee: a handler whose WebSocket ended
\* gets to its finally block and through it, a created task runs, close()
\* returns within its timeout, a ping is sent or fails, the heartbeat loop
\* goes on.  Nothing is assumed of the clients or of the clock.
Fairness ==
    /\ \A c \in Conn :
         /\ WF_vars(RefusedLeave(c))
         /\ WF_vars(Leave(c))
         /\ WF_vars(Finish(c))
         /\ WF_vars(TaskStarts(c))
         /\ WF_vars(TaskEnds(c))
    /\ WF_vars(MaintStep)

FairSpec == Spec /\ Fairness

-----------------------------------------------------------------------------
(* Properties.                                                             *)

\* The two indexes agree: a connection in agent_connections is in
\* connections, under its own agent, and one that is only in connections is
\* between the two removals of a remove_connection that is still running.
IndexConsistent ==
    /\ \A a \in Agent : \A c \in byAgent[a] : c \in connections /\ AgentOf[c] = a
    /\ \A c \in connections : c \notin byAgent[AgentOf[c]] => closer[c] # "none"

\* No zombie: when the handler of a WebSocket is through its finally block,
\* its connection is registered nowhere, whoever else (a failed send, the
\* maintenance loop) was removing it at the time.
NoZombie ==
    \A c \in Conn : handler[c] = "gone" =>
        c \notin connections /\ \A a \in Agent : c \notin byAgent[a]

\* Every agent that is served (its handler is in its message loop and its
\* WebSocket is up) is in the index, so that it can be notified and counts
\* against max_connections_per_agent.
Served(a) == {c \in Conn : AgentOf[c] = a /\ handler[c] = "open" /\ socket[c] = "open"}
ServedWithinLimit ==
    \A a \in Agent : Served(a) \subseteq byAgent[a] /\ Cardinality(Served(a)) <= MaxPerAgent

\* No slot of the rate limiter leaks: an agent is never charged for more
\* connections than it has handlers that will still release one.
NoSlotLeak == \A a \in Agent : slots[a] <= Cardinality(Holding(a))

\* disconnected_sessions holds a connection of the agent that has left the
\* index for good: what is offered for resumption is never a connection that
\* still receives messages.
CacheHoldsDisconnected ==
    \A a \in Agent : cached[a] # NoConn =>
        /\ AgentOf[cached[a]] = a
        /\ cached[a] \notin byAgent[a]
        /\ handler[cached[a]] # "new"

\* What is registered, served, gone and cached agree with each other (TypeOK is
\* the type invariant that this rests on).
RegistrySound ==
    TypeOK /\ IndexConsistent /\ NoZombie /\ ServedWithinLimit /\ CacheHoldsDisconnected

\* A connection whose WebSocket ended is eventually removed.
LeftRemoved == \A c \in Conn :
    (c \in connections /\ socket[c] = "dead") ~> (c \notin connections)

\* A connection that never authenticates gets no heartbeat, so its last_seen
\* is never updated: once agent_timeout is over it is removed (unless a
\* sibling's auth_success marks it), even though rounds may be cut short.
IdleReaped == \A c \in Conn :
    (c \in connections \cap idle) ~> (c \notin connections \/ c \in authed)

\* Nothing that ended, or will never authenticate, stays registered: the
\* handler's finally, the failed sends and the rounds that can be cut short
\* see to it together.
EndedRemoved == LeftRemoved /\ IdleReaped
=============================================================================
