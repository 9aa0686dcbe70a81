------------------------------ MODULE ProxyPool ------------------------------
(***************************************************************************)
(* The gateway's pool of connections to the FreeCiv proxy, one per game:   *)
(* ConnectionStateManager with its health-check and cleanup loops          *)
(* (llm-gateway/connection_state_manager.py), the calls that use it        *)
(* (LLMGateway.forward_to_proxy and what it runs, main.py; end_game) and   *)
(* the agents' listeners that register their own connection in it          *)
(* (websocket_handlers.py).                                                *)
(*                                                                         *)
(* One asyncio loop runs all of them.  The pool's lock is held across an   *)
(* await in one place only, the close handshake of a connection that is    *)
(* being removed; a step that takes the lock therefore is atomic, and is   *)
(* enabled while nobody is closing.                                        *)
(***************************************************************************)
EXTENDS Naturals, FiniteSets

CONSTANTS
    Game,
    AgentConn,       \* connections that agents' listeners register
    OwnConn,         \* connections that the gateway opens itself
    Call,            \* calls of forward_to_proxy
    GameOf,          \* the game of an agent's connection or of a call
    MaxConnections,  \* CONNECTION_POOL_MAX
    GlobalLimit,     \* GLOBAL_CONNECTION_LIMIT
    MaxAttempts,     \* settings.max_retry_attempts
    MaxRetry,        \* max_retry_count
    MaxHealth,       \* max_health_failures
    NoConn,
    Cleaner, Ender   \* who removes entries, beside the calls

Conn == AgentConn \cup OwnConn

ASSUME PoolAssumption ==
    /\ IsFiniteSet(Game)
    /\ AgentConn \cap OwnConn = {}
    /\ NoConn \notin Conn \cup Call \cup {Cleaner, Ender}
    /\ GameOf \in [AgentConn \cup Call -> Game]
    /\ {MaxConnections, GlobalLimit, MaxAttempts, MaxRetry, MaxHealth} \subseteq Nat \ {0}
    /\ MaxConnections < GlobalLimit
    /\ MaxHealth > 1
    /\ Cleaner # Ender /\ {Cleaner, Ender} \cap Call = {}

VARIABLES
    entry,     \* _connections; an entry without connection is no entry
    count,     \* GlobalConnectionTracker._global_count
    ws,        \* the WebSockets
    closer,    \* who awaits a close with the lock held (Nobody: lock is free)
    closing,   \* ... and the connection it closes
    pc,        \* where each call stands
    attempt,   \* ... which attempt to connect it is on
    mine,      \* ... and the connection it holds
    snap,      \* the health check's snapshot: the connection of each game
    todo, bad, \* the games it has still to ping, and found unhealthy
    doomed     \* the cleanup loop's candidates

pool   == <<entry, count>>
lock   == <<closer, closing>>
call   == <<pc, attempt, mine>>
health == <<snap, todo, bad>>
vars   == <<entry, count, ws, closer, closing, pc, attempt, mine, snap, todo, bad, doomed>>

Nobody == NoConn

Entry == [conn : Conn \cup {NoConn}, status : {"connected", "failed"}, retries : 0..MaxRetry,
          hfails : 0..MaxHealth, error : BOOLEAN, used : {"recent", "minute", "hour"}]

\* A dict without the key, and the ConnectionInfo that add_connection makes.
Absent == [conn |-> NoConn, status |-> "failed", retries |-> 0, hfails |-> 0,
           error |-> FALSE, used |-> "hour"]
Fresh(c) == [conn |-> c, status |-> "connected", retries |-> 0, hfails |-> 0,
             error |-> FALSE, used |-> "recent"]

Present == {g \in Game : entry[g].conn # NoConn}

TypeOK ==
    /\ entry \in [Game -> Entry]
    /\ count \in Nat
    /\ ws \in [Conn -> {"new", "open", "closed"}]
    /\ closer \in Call \cup {Cleaner, Ender, Nobody}
    /\ closing \in Conn \cup {NoConn}
    /\ closer = Nobody <=> closing = NoConn
    /\ pc \in [Call -> {"start", "ensure", "lookup", "opening", "marking", "adding", "init",
                        "retrieve", "sending", "sendfailed", "exhausted", "removing",
                        "sent", "refused"}]
    /\ attempt \in [Call -> 1..MaxAttempts]
    /\ mine \in [Call -> Conn \cup {NoConn}]
    /\ \A k \in Call : pc[k] \in {"adding", "sending"} => mine[k] # NoConn
    /\ snap \in [Game -> Conn \cup {NoConn}]
    /\ todo \subseteq Game
    /\ bad \subseteq Game
    /\ doomed \subseteq Game

Init ==
    /\ entry = [g \in Game |-> Absent]
    /\ count = 0
    /\ ws = [c \in Conn |-> "new"]
    /\ closer = Nobody /\ closing = NoConn
    /\ pc = [k \in Call |-> "start"]
    /\ attempt = [k \in Call |-> 1]
    /\ mine = [k \in Call |-> NoConn]
    /\ snap = [g \in Game |-> NoConn]
    /\ todo = {} /\ bad = {} /\ doomed = {}

-----------------------------------------------------------------------------
(* The manager's methods, each under the lock.                             *)

Free == closer = Nobody

Connected(g) == entry[g].conn # NoConn /\ entry[g].status = "connected"
Usable(g)    == Connected(g) /\ ws[entry[g].conn] = "open"

Up(n, limit) == IF n < limit THEN n + 1 ELSE n

Touched(e)   == [e EXCEPT !.used = "recent"]
Unhealthy(e) == [e EXCEPT !.status = "failed", !.hfails = Up(@, MaxHealth)]
Failed(e, t) == [e EXCEPT !.status = "failed", !.error = t, !.retries = Up(@, MaxRetry)]

\* Mutant of GetHealthy: a WebSocket found open makes a failed entry usable.
GetHealthyRevives(g) ==
    entry' = CASE entry[g].conn # NoConn /\ ws[entry[g].conn] = "open" ->
                        [entry EXCEPT ![g] = [Touched(@) EXCEPT !.status = "connected"]]
               [] Connected(g) /\ ~Usable(g) -> [entry EXCEPT ![g] = Unhealthy(@)]
               [] OTHER -> entry

\* What get_healthy_connection does to the entry: a usable one was used now, a
\* connected one whose WebSocket is closed is marked unhealthy.
GetHealthy(g) ==
    entry' = CASE Usable(g)                  -> [entry EXCEPT ![g] = Touched(@)]
               [] Connected(g) /\ ~Usable(g) -> [entry EXCEPT ![g] = Unhealthy(@)]
               [] OTHER                      -> entry

\* mark_connection_failed: it blames whatever connection the game has by now.
\* told: whether the error has a text.
MarkFailed(g, told) ==
    entry' = IF g \in Present THEN [entry EXCEPT ![g] = Failed(@, told)] ELSE entry

\* The tests of add_connection, global and local.
HasRoom == count < GlobalLimit /\ Cardinality(Present) < MaxConnections

\* Mutant of Add: the global slot of the replaced entry is not given back.
AddKeepsSlot(g, c) ==
    /\ entry' = [entry EXCEPT ![g] = Fresh(c)]
    /\ count' = count + 1

\* add_connection with room: an entry is replaced, its WebSocket left open.
Add(g, c) ==
    /\ entry' = [entry EXCEPT ![g] = Fresh(c)]
    /\ count' = IF g \in Present THEN count ELSE count + 1

\* Mutant of StartsClose: the entry is there until its WebSocket is closed.
StartsCloseFirst(a, g) ==
    /\ g \in Present
    /\ ws[entry[g].conn] = "open"
    /\ closer' = a
    /\ closing' = entry[g].conn
    /\ UNCHANGED pool

\* remove_connection by a: the lock is held across close() when the WebSocket
\* is open; nothing is awaited when it is closed or there is no entry.
StartsClose(a, g) ==
    /\ g \in Present
    /\ ws[entry[g].conn] = "open"
    /\ entry' = [entry EXCEPT ![g] = Absent]
    /\ closer' = a
    /\ closing' = entry[g].conn
    /\ UNCHANGED count

\* Mutant of RemovesAtOnce: the global slot is not given back.
RemovesKeepsSlot(g) ==
    /\ ~(g \in Present /\ ws[entry[g].conn] = "open")
    /\ entry' = [entry EXCEPT ![g] = Absent]
    /\ UNCHANGED <<count, closer, closing>>

RemovesAtOnce(g) ==
    /\ ~(g \in Present /\ ws[entry[g].conn] = "open")
    /\ entry' = [entry EXCEPT ![g] = Absent]
    /\ count' = IF g \in Present /\ count > 0 THEN count - 1 ELSE count
    /\ UNCHANGED lock

-----------------------------------------------------------------------------
(* A call of forward_to_proxy.                                             *)

Goes(k, from, to) == pc[k] = from /\ pc' = [pc EXCEPT ![k] = to]

Start(k) ==
    /\ Free
    /\ GetHealthy(GameOf[k])
    /\ \/ /\ Usable(GameOf[k])
          /\ Goes(k, "start", "sending")
          /\ mine' = [mine EXCEPT ![k] = entry[GameOf[k]].conn]
       \/ /\ ~Usable(GameOf[k])
          /\ Goes(k, "start", "ensure")
          /\ UNCHANGED mine
    /\ UNCHANGED <<count, ws, lock, attempt, health, doomed>>

\* _ensure_proxy_connection: an entry that failed with an error and was used
\* within COOLDOWN_PERIOD refuses the call.
CoolingDown(g) == LET e == entry[g] IN
    e.conn # NoConn /\ e.status = "failed" /\ e.error /\ e.used = "recent"

Ensure(k) ==
    /\ Free
    /\ Goes(k, "ensure", IF CoolingDown(GameOf[k]) THEN "refused" ELSE "lookup")
    /\ UNCHANGED <<pool, ws, lock, attempt, mine, health, doomed>>

\* connect_to_freeciv_proxy asks get_connection, which does not look at the
\* WebSocket; "Already connected" ends the attempts.
LookUp(k) ==
    /\ Free
    /\ \/ /\ Connected(GameOf[k])
          /\ entry' = [entry EXCEPT ![GameOf[k]] = Touched(@)]
          /\ Goes(k, "lookup", "retrieve")
       \/ /\ ~Connected(GameOf[k])
          /\ Goes(k, "lookup", "opening")
          /\ UNCHANGED entry
    /\ UNCHANGED <<count, ws, lock, attempt, mine, health, doomed>>

Opens(k) ==
    /\ Goes(k, "opening", "adding")
    /\ \E c \in OwnConn :
          /\ ws[c] = "new"
          /\ ws' = [ws EXCEPT ![c] = "open"]
          /\ mine' = [mine EXCEPT ![k] = c]
    /\ UNCHANGED <<pool, lock, attempt, health, doomed>>

OpenFails(k) ==
    /\ Goes(k, "opening", "marking")
    /\ UNCHANGED <<pool, ws, lock, attempt, mine, health, doomed>>

\* Mutant of NextAttempt: the attempts are not counted.
NextAttemptAlways(k, from) ==
    /\ Goes(k, from, "lookup")
    /\ UNCHANGED attempt

\* The loop over the attempts, with its back-off.
NextAttempt(k, from) ==
    \/ /\ attempt[k] < MaxAttempts
       /\ Goes(k, from, "lookup")
       /\ attempt' = [attempt EXCEPT ![k] = @ + 1]
    \/ /\ attempt[k] = MaxAttempts
       /\ Goes(k, from, "exhausted")
       /\ UNCHANGED attempt

\* The except clause of connect_to_freeciv_proxy: a timeout has no text.
MarkAttempt(k) ==
    /\ Free
    /\ \E told \in BOOLEAN : MarkFailed(GameOf[k], told)
    /\ NextAttempt(k, "marking")
    /\ UNCHANGED <<count, ws, lock, mine, health, doomed>>

\* The connection is added, or closed when there is no room.
AddOwn(k) ==
    /\ Free
    /\ \/ /\ HasRoom
          /\ Add(GameOf[k], mine[k])
          /\ Goes(k, "adding", "init")
          /\ UNCHANGED <<ws, attempt, mine>>
       \/ /\ ~HasRoom
          /\ ws' = [ws EXCEPT ![mine[k]] = "closed"]
          /\ mine' = [mine EXCEPT ![k] = NoConn]
          /\ NextAttempt(k, "adding")
          /\ UNCHANGED pool
    /\ UNCHANGED <<lock, health, doomed>>

\* _initialize_freeciv_game, whose result only decides about the listener.
Initialised(k) ==
    /\ Goes(k, "init", "retrieve")
    /\ UNCHANGED <<pool, ws, lock, attempt, mine, health, doomed>>

\* Mutant of Retrieve: the connection is not tested for None.
RetrieveUnchecked(k) ==
    /\ Free
    /\ GetHealthy(GameOf[k])
    /\ Goes(k, "retrieve", "sending")
    /\ mine' = [mine EXCEPT ![k] = IF Usable(GameOf[k]) THEN entry[GameOf[k]].conn ELSE NoConn]
    /\ UNCHANGED <<count, ws, lock, attempt, health, doomed>>

Retrieve(k) ==
    /\ Free
    /\ GetHealthy(GameOf[k])
    /\ \/ /\ Usable(GameOf[k])
          /\ Goes(k, "retrieve", "sending")
          /\ mine' = [mine EXCEPT ![k] = entry[GameOf[k]].conn]
       \/ /\ ~Usable(GameOf[k])
          /\ Goes(k, "retrieve", "refused")
          /\ mine' = [mine EXCEPT ![k] = NoConn]
    /\ UNCHANGED <<count, ws, lock, attempt, health, doomed>>

\* send() raises on a connection that is closed or closing.
Send(k) ==
    /\ pc[k] = "sending"
    /\ \/ ws[mine[k]] = "open" /\ mine[k] # closing /\ Goes(k, "sending", "sent")
       \/ (ws[mine[k]] = "closed" \/ mine[k] = closing) /\ Goes(k, "sending", "sendfailed")
    /\ mine' = [mine EXCEPT ![k] = NoConn]
    /\ UNCHANGED <<pool, ws, lock, attempt, health, doomed>>

MarkSend(k) ==
    /\ Free
    /\ MarkFailed(GameOf[k], TRUE)
    /\ Goes(k, "sendfailed", "refused")
    /\ UNCHANGED <<count, ws, lock, attempt, mine, health, doomed>>

\* _handle_connection_failure: the entry is marked, then removed.  The retry
\* count it then reads is that of no entry, or of a newer one.
MarkExhausted(k) ==
    /\ Free
    /\ MarkFailed(GameOf[k], TRUE)
    /\ Goes(k, "exhausted", "removing")
    /\ UNCHANGED <<count, ws, lock, attempt, mine, health, doomed>>

RemoveExhausted(k) ==
    /\ Free
    /\ pc[k] = "removing"
    /\ \/ StartsClose(k, GameOf[k]) /\ UNCHANGED pc
       \/ RemovesAtOnce(GameOf[k]) /\ Goes(k, "removing", "refused")
    /\ UNCHANGED <<ws, attempt, mine, health, doomed>>

-----------------------------------------------------------------------------
(* Who else works on the pool.                                             *)

\* An agent's listener got auth_success on its own connection and registers it.
AgentRegisters(c) ==
    /\ Free
    /\ ws[c] = "new"
    /\ ws' = [ws EXCEPT ![c] = "open"]
    /\ \/ HasRoom /\ Add(GameOf[c], c)
       \/ ~HasRoom /\ UNCHANGED pool
    /\ UNCHANGED <<lock, call, health, doomed>>

\* A WebSocket closes: its agent left, the proxy ended it, a ping timed out.
Drops(c) ==
    /\ ws[c] = "open"
    /\ ws' = [ws EXCEPT ![c] = "closed"]
    /\ UNCHANGED <<pool, lock, call, health, doomed>>

\* end_game.  A game that ended may come back: an agent that authenticates for
\* it makes a new session of it.
EndGame(g) ==
    /\ Free
    /\ g \in Present
    /\ StartsClose(Ender, g) \/ RemovesAtOnce(g)
    /\ UNCHANGED <<ws, call, health, doomed>>

\* The close of a removed connection returns; its slot is free again.
Closes ==
    /\ ~Free
    /\ ws' = [ws EXCEPT ![closing] = "closed"]
    /\ closer' = Nobody
    /\ closing' = NoConn
    /\ count' = IF count > 0 THEN count - 1 ELSE count
    /\ pc' = IF closer \in Call THEN [pc EXCEPT ![closer] = "refused"] ELSE pc
    /\ UNCHANGED <<entry, attempt, mine, health, doomed>>

NoSnap == [g \in Game |-> NoConn]

\* A round of _perform_health_checks: the copy of the pool ...
HealthBegins ==
    /\ Free
    /\ snap = NoSnap
    /\ \E g \in Game : Connected(g)
    /\ snap' = [g \in Game |-> IF Connected(g) THEN entry[g].conn ELSE NoConn]
    /\ todo' = {g \in Game : Connected(g)}
    /\ UNCHANGED <<pool, ws, lock, call, bad, doomed>>

\* ... a ping of each connection, the lock not held ...
HealthPing(g) ==
    /\ g \in todo
    /\ todo' = todo \ {g}
    /\ \/ bad' = bad \cup {g}
       \/ ws[snap[g]] = "open" /\ UNCHANGED bad
    /\ UNCHANGED <<pool, ws, lock, call, snap, doomed>>

\* Mutant of HealthMarks: the status is not tested again.
HealthMarksAll ==
    /\ Free
    /\ snap # NoSnap /\ todo = {}
    /\ entry' = [g \in Game |-> IF g \in bad /\ g \in Present THEN Unhealthy(entry[g])
                                                              ELSE entry[g]]
    /\ snap' = NoSnap
    /\ bad' = {}
    /\ UNCHANGED <<count, ws, lock, call, todo, doomed>>

\* ... and the marks, on the entries that the games have now.
HealthMarks ==
    /\ Free
    /\ snap # NoSnap /\ todo = {}
    /\ entry' = [g \in Game |-> IF g \in bad /\ Connected(g) THEN Unhealthy(entry[g])
                                                             ELSE entry[g]]
    /\ snap' = NoSnap
    /\ bad' = {}
    /\ UNCHANGED <<count, ws, lock, call, todo, doomed>>

\* Mutant of Expired: no end to entries that failed and are not used.
ExpiredByCount(g) ==
    /\ g \in Present
    /\ entry[g].hfails >= MaxHealth \/ entry[g].retries >= MaxRetry

\* _cleanup_failed_connections: the candidates ...
Expired(g) ==
    /\ g \in Present
    /\ \/ entry[g].hfails >= MaxHealth
       \/ entry[g].retries >= MaxRetry
       \/ entry[g].status = "failed" /\ entry[g].used = "hour"

CleanupScan ==
    /\ Free
    /\ doomed = {}
    /\ \E g \in Game : Expired(g)
    /\ doomed' = {g \in Game : Expired(g)}
    /\ UNCHANGED <<pool, ws, lock, call, health>>

\* ... which are removed one after the other, whatever they are by then.
CleanupRemove(g) ==
    /\ Free
    /\ g \in doomed
    /\ doomed' = doomed \ {g}
    /\ StartsClose(Cleaner, g) \/ RemovesAtOnce(g)
    /\ UNCHANGED <<ws, call, health>>

\* last_used recedes: past COOLDOWN_PERIOD, past an hour.
Ages(g) ==
    /\ g \in Present
    /\ entry[g].used # "hour"
    /\ entry' = [entry EXCEPT ![g].used = IF @ = "recent" THEN "minute" ELSE "hour"]
    /\ UNCHANGED <<count, ws, lock, call, health, doomed>>

CallStep(k) ==
    \/ Start(k) \/ Ensure(k) \/ LookUp(k) \/ Opens(k) \/ OpenFails(k) \/ MarkAttempt(k)
    \/ AddOwn(k) \/ Initialised(k) \/ Retrieve(k) \/ Send(k) \/ MarkSend(k)
    \/ MarkExhausted(k) \/ RemoveExhausted(k)

HealthStep == HealthBegins \/ (\E g \in Game : HealthPing(g)) \/ HealthMarks

CleanupStep == CleanupScan \/ \E g \in Game : CleanupRemove(g)

Next ==
    \/ \E k \in Call : CallStep(k)
    \/ \E c \in AgentConn : AgentRegisters(c)
    \/ \E c \in Conn : Drops(c)
    \/ \E g \in Game : EndGame(g) \/ Ages(g)
    \/ Closes
    \/ HealthStep
    \/ CleanupStep

Spec == Init /\ [][Next]_vars

\* A call goes on (connecting, sending and the waits are bounded), the lock is
\* handed out in order, a close ends within WEBSOCKET_CLOSE_TIMEOUT, the
\* cleanup loop runs and time passes.
Fairness ==
    /\ \A k \in Call : WF_vars(pc[k] # "start" /\ CallStep(k))
    /\ WF_vars(Closes)
    /\ WF_vars(CleanupScan)
    /\ \A g \in Game : WF_vars(CleanupRemove(g)) /\ WF_vars(Ages(g))

FairSpec == Spec /\ Fairness

-----------------------------------------------------------------------------
(* Properties.                                                             *)

\* "Reserve global connection slot": the global count is the number of entries,
\* plus the one being closed, so that no slot is ever lost or given twice.
CountExact == count = Cardinality(Present) + (IF Free THEN 0 ELSE 1)

\* CONNECTION_POOL_MAX is kept, also while the lock is held across a close, and
\* keeps the count below GLOBAL_CONNECTION_LIMIT, which never refuses anybody.
WithinCapacity == count <= MaxConnections

\* A connection serves one game at most, and none when it is being closed.
OneEntry ==
    /\ closing = NoConn \/ \A g \in Game : entry[g].conn # closing
    /\ \A g, h \in Present : entry[g].conn = entry[h].conn => g = h

\* An entry is found unhealthy once: the health failures never reach
\* max_health_failures, so what removes it is its retries or an hour unused.
UnhealthyOnce == \A g \in Game : entry[g].hfails <= 1

\* The slots, the entries and their connections agree.
PoolSound == CountExact /\ WithinCapacity /\ OneEntry /\ UnhealthyOnce

\* A connection that failed is given to nobody again: only another connection
\* makes the game's entry usable.
NoResurrection == [][\A g \in Game :
    entry[g].status = "failed" /\ entry'[g].status = "connected"
        => entry'[g].conn # entry[g].conn]_vars

\* Every call of forward_to_proxy returns.
CallReturns == \A k \in Call : pc[k] # "start" ~> pc[k] \in {"sent", "refused"}

\* "Background task to clean up failed connections": a failed entry is
\* eventually removed or replaced.
FailedReclaimed == \A g \in Game :
    (g \in Present /\ entry[g].status = "failed") ~> ~(g \in Present /\ entry[g].status = "failed")

\* Callers get through, and failed entries make room.
PoolServes == CallReturns /\ FailedReclaimed
=============================================================================
