----------------------------- MODULE GameSession -----------------------------
(***************************************************************************)
(* One game in the proxy: GameSession and its manager                      *)
(* (freeciv-proxy/game_session_manager.py) and the part of LLMWSHandler    *)
(* (llm_handler.py) that joins agents to it, pauses it when one of them    *)
(* drops, closes the partners, resumes it when all are back, and releases  *)
(* the civserver's port.                                                   *)
(*                                                                         *)
(* A Handler is one WebSocket of an agent.  The CivCom (TCP connection to  *)
(* the civserver) and the session that a handler creates are named after   *)
(* it, so a later handler of the agent may hold those of an earlier one.   *)
(* Handlers run on the IOLoop; CivComs are threads that stop at any time.  *)
(* on_close of a handler runs after its on_message has ended.              *)
(***************************************************************************)
EXTENDS Naturals, FiniteSets

CONSTANTS
    Agent,     \* agents of the game
    Handler,   \* their WebSockets to the proxy, past and future
    Owner,     \* the agent of each
    None       \* stands for Python's None

ASSUME GameAssumption ==
    /\ Owner \in [Handler -> Agent]
    /\ None \notin Handler

VARIABLES
    ws,         \* the WebSocket of a handler
    kicked,     \* handlers closed with code 4001
    stage,      \* how far _handle_llm_connect got
    mode,       \* is_reconnecting, and with a player_id that it knows
    sid,        \* handler.session_id
    civ,        \* handler.civcom
    sess,       \* SessionInfo.state
    agentSess,  \* agent_to_session
    seated,     \* sessions with a player_id
    conn,       \* CivCom.stopped
    attached,   \* CivCom.civwebserver
    ended,      \* CivCom.game_is_over
    reg,        \* civcom_registry
    llm,        \* llm_agents
    game,       \* the GameSession of the game
    player,     \* GameSession.players: the handler of each player
    ready,      \* players marked ready
    port,       \* whether the metaserver holds the port for the game
    releases,   \* release_civserver_port tasks scheduled by on_close
    sweep       \* what cleanup_stale_paused_sessions is releasing

agentVars == <<ws, kicked, stage, mode, sid, civ, llm>>
sessVars  == <<sess, agentSess, seated>>
civVars   == <<conn, attached, ended, reg>>
gameVars  == <<game, player, ready, port, releases, sweep>>
vars      == <<agentVars, sessVars, civVars, gameVars>>

Joining == {"dialing", "entering"}
Usable  == {"active", "suspended"}

\* A GameSession as its constructor leaves it; `present` tells whether the
\* manager has one for the game.
NewGame == [present |-> TRUE, starting |-> FALSE, started |-> FALSE, paused |-> FALSE,
            over |-> FALSE, releasing |-> FALSE, recent |-> FALSE]

Games == [present : BOOLEAN, starting : BOOLEAN, started : BOOLEAN, paused : BOOLEAN,
          over : BOOLEAN, releasing : BOOLEAN, recent : BOOLEAN]

AgentTypes ==
    /\ ws \in [Handler -> {"idle", "open", "closing", "closed"}]
    /\ kicked \subseteq Handler
    /\ stage \in [Handler -> {"none", "up", "failed", "portless"} \cup Joining]
    /\ mode \in [Handler -> {"new", "resumed", "known"}]
    /\ sid \in [Handler -> Handler \cup {None}]
    /\ civ \in [Handler -> Handler \cup {None}]
    /\ llm \in [Agent -> Handler \cup {None}]

SessTypes ==
    /\ sess \in [Handler -> {"none", "gone"} \cup Usable]
    /\ agentSess \in [Agent -> Handler \cup {None}]
    /\ seated \subseteq Handler

CivTypes ==
    /\ conn \in [Handler -> {"none", "alive", "stopped"}]
    /\ attached \in [Handler -> Handler \cup {None}]
    /\ ended \subseteq Handler
    /\ reg \in [Agent -> Handler \cup {None}]

GameTypes ==
    /\ game \in Games
    /\ player \in [Agent -> Handler \cup {None}]
    /\ ready \subseteq Agent
    /\ port \in {"held", "free"}
    /\ releases \in Nat
    /\ sweep \in {"none", "over", "stale"}

TypeOK == AgentTypes /\ SessTypes /\ CivTypes /\ GameTypes

Init ==
    /\ ws = [h \in Handler |-> "idle"]
    /\ kicked = {}
    /\ stage = [h \in Handler |-> "none"]
    /\ mode = [h \in Handler |-> "new"]
    /\ sid = [h \in Handler |-> None]
    /\ civ = [h \in Handler |-> None]
    /\ sess = [h \in Handler |-> "none"]
    /\ agentSess = [a \in Agent |-> None]
    /\ seated = {}
    /\ conn = [h \in Handler |-> "none"]
    /\ attached = [h \in Handler |-> None]
    /\ ended = {}
    /\ reg = [a \in Agent |-> None]
    /\ llm = [a \in Agent |-> None]
    /\ game = [NewGame EXCEPT !.present = FALSE]
    /\ player = [a \in Agent |-> None]
    /\ ready = {}
    /\ port = "free"
    /\ releases = 0
    /\ sweep = "none"

Players == {a \in Agent : player[a] # None}

\* A CivCom that is there and not stopped.
Live(c) == c # None /\ conn[c] = "alive"

-----------------------------------------------------------------------------
(* Joining: _handle_llm_connect.                                           *)

\* try_resume_session_for_agent finds a suspended session of the agent.
Resumable(a) == agentSess[a] # None /\ sess[agentSess[a]] = "suspended"

\* Mutant of Takes: create_session leaves the agent's other session alone.
TakesOnly(a, s) ==
    /\ sess' = [sess EXCEPT ![s] = "active"]
    /\ agentSess' = [agentSess EXCEPT ![a] = s]

\* try_resume_session_for_agent, or create_session, which terminates the
\* agent's other session.
Takes(a, s) ==
    /\ sess' = [x \in Handler |-> IF x = s THEN "active"
                                  ELSE IF x = agentSess[a] THEN "gone" ELSE sess[x]]
    /\ agentSess' = [agentSess EXCEPT ![a] = s]

\* A session is resumed or created and the handler registered.  m is "known"
\* when there is a player_id to restore: the session's, or one that the client
\* was given earlier.
Login(h, m) ==
    LET a == Owner[h]
        s == IF Resumable(a) THEN agentSess[a] ELSE h
    IN  /\ ws[h] = "idle"
        /\ ws' = [ws EXCEPT ![h] = "open"]
        /\ m \in {"new", "resumed", "known"}
        /\ m = "new" => ~Resumable(a)
        /\ m = "resumed" => Resumable(a) /\ s \notin seated
        /\ m = "known" => \/ Resumable(a) /\ s \in seated
                          \/ \E g \in Handler : Owner[g] = a /\ stage[g] = "up"
        /\ mode' = [mode EXCEPT ![h] = m]
        /\ Takes(a, s)
        /\ sid' = [sid EXCEPT ![h] = s]
        /\ llm' = [llm EXCEPT ![a] = h]
        /\ UNCHANGED kicked

\* allocate_civserver_port: a resumed session knows its port; otherwise the
\* local GameSession does; otherwise the metaserver allocates one and a
\* placeholder GameSession is made.
Allocate(h) ==
    IF Resumable(Owner[h]) \/ game.present
    THEN UNCHANGED <<game, port>>
    ELSE game' = NewGame /\ port' = "held"

\* get_or_create_session.
TheGame == IF game.present THEN game ELSE NewGame

\* add_player: an existing player gets the new handler, everyone is refused
\* while the port is being released.
AddPlayer(h) ==
    IF TheGame.releasing THEN player ELSE [player EXCEPT ![Owner[h]] = h]

\* Mutant of CheckAndResume: the check comes before self.civcom is assigned.
CheckAndResumeEarly(h, g, p) ==
    LET q   == IF g.paused /\ p[Owner[h]] # None THEN [p EXCEPT ![Owner[h]] = h] ELSE p
        all == \A a \in Agent : q[a] # None => civ[q[a]] # None /\ conn'[civ[q[a]]] = "alive"
    IN  /\ player' = q
        /\ game' = IF g.paused /\ all /\ ~g.recent
                   THEN [g EXCEPT !.paused = FALSE, !.recent = TRUE] ELSE g

\* _check_and_resume_game and resume_game, given the game and its players so
\* far: it resumes when every player's handler has a CivCom that is not
\* stopped, but not within two seconds of the last time.
CheckAndResume(h, g, p) ==
    LET q   == IF g.paused /\ p[Owner[h]] # None THEN [p EXCEPT ![Owner[h]] = h] ELSE p
        all == \A a \in Agent : q[a] # None => civ'[q[a]] # None /\ conn'[civ'[q[a]]] = "alive"
    IN  /\ player' = q
        /\ game' = IF g.paused /\ all /\ ~g.recent
                   THEN [g EXCEPT !.paused = FALSE, !.recent = TRUE] ELSE g

\* Mutant of Register: the CivCom that is replaced is not stopped.
RegisterOnly(c) ==
    /\ conn' = [conn EXCEPT ![c] = "alive"]
    /\ attached' = [attached EXCEPT ![c] = c]
    /\ reg' = [reg EXCEPT ![Owner[c]] = c]

\* A CivCom starts and register_game stops the one that it replaces.
Register(c) ==
    LET old == reg[Owner[c]]
    IN  /\ conn' = [x \in Handler |-> IF x = c THEN "alive"
                                      ELSE IF x = old THEN "stopped" ELSE conn[x]]
        /\ attached' = [x \in Handler |-> IF x = c THEN c
                                          ELSE IF x = old THEN None ELSE attached[x]]
        /\ reg' = [reg EXCEPT ![Owner[c]] = c]

\* CivComs of D are stopped and detached, and r is the registry after that.
StopAll(D, r) ==
    /\ conn' = [x \in Handler |-> IF x \in D THEN "stopped" ELSE conn[x]]
    /\ attached' = [x \in Handler |-> IF x \in D THEN None ELSE attached[x]]
    /\ reg' = r

\* The agent is back before its CivCom died: it is reused, /take is sent, and
\* nothing suspends until auth_success is sent and the game perhaps resumed.
Reattach(h) ==
    LET c == reg[Owner[h]]
    IN  /\ Login(h, "known")
        /\ Live(c)
        /\ civ' = [civ EXCEPT ![h] = c]
        /\ attached' = [attached EXCEPT ![c] = h]
        /\ seated' = seated \cup {sid'[h]}
        /\ stage' = [stage EXCEPT ![h] = "up"]
        /\ UNCHANGED conn
        /\ CheckAndResume(h, TheGame, AddPlayer(h))
        /\ port' = IF Resumable(Owner[h]) \/ game.present THEN port ELSE "held"
        /\ UNCHANGED <<ended, reg, ready, releases, sweep>>

\* The same, but the client expects another turn than the CivCom knows: the
\* CivCom is destroyed and the connection left without one.
Drift(h) ==
    LET c == reg[Owner[h]]
    IN  /\ Login(h, "known")
        /\ Live(c)
        /\ StopAll({c}, [reg EXCEPT ![Owner[h]] = None])
        /\ stage' = [stage EXCEPT ![h] = "failed"]
        /\ Allocate(h)
        /\ UNCHANGED <<civ, seated, ended, player, ready, releases, sweep>>

\* No CivCom to reuse: a new one connects.  Or the one of a session that was
\* dropped before it had a player_id is reused, and has yet to get one.
Dial(h) ==
    LET c == reg[Owner[h]]
    IN  /\ \E m \in {"new", "resumed", "known"} :
              /\ Login(h, m)
              /\ \/ /\ m = "new" \/ ~Live(c)
                    /\ civ' = [civ EXCEPT ![h] = h]
                    /\ Register(h)
                 \/ /\ m = "resumed" /\ Live(c)
                    /\ civ' = [civ EXCEPT ![h] = c]
                    /\ attached' = [attached EXCEPT ![c] = h]
                    /\ UNCHANGED <<conn, reg>>
        /\ stage' = [stage EXCEPT ![h] = "dialing"]
        /\ Allocate(h)
        /\ UNCHANGED <<seated, ended, player, ready, releases, sweep>>

\* The civserver cannot be reached: the session is terminated (E140).
DialFails(h) ==
    LET a == Owner[h]
        s == IF Resumable(a) THEN agentSess[a] ELSE h
    IN  /\ ws[h] = "idle"
        /\ ~(Resumable(a) /\ Live(reg[a]))
        /\ ws' = [ws EXCEPT ![h] = "open"]
        /\ sess' = [x \in Handler |-> IF x \in {s, agentSess[a]} THEN "gone" ELSE sess[x]]
        /\ agentSess' = [agentSess EXCEPT ![a] = None]
        /\ llm' = [llm EXCEPT ![a] = None]
        /\ stage' = [stage EXCEPT ![h] = "failed"]
        /\ Allocate(h)
        /\ UNCHANGED <<kicked, mode, sid, civ, seated, civVars, player, ready, releases, sweep>>

\* The metaserver has no port: the outer except clause stops the CivCom that
\* is registered for the agent, whoever uses it.
AllocateFails(h) ==
    LET c == reg[Owner[h]]
    IN  /\ ~game.present /\ ~Resumable(Owner[h])
        /\ \E m \in {"new", "known"} : Login(h, m)
        /\ stage' = [stage EXCEPT ![h] = "portless"]
        /\ StopAll({c} \ {None}, [reg EXCEPT ![Owner[h]] = None])
        /\ UNCHANGED <<civ, seated, ended, gameVars>>

\* The E142 clause: the handler's own CivCom stops, and so does the one that
\* is registered for the agent if it is another.
FailJoin(h) ==
    LET c == reg[Owner[h]]
    IN  /\ stage' = [stage EXCEPT ![h] = "failed"]
        /\ StopAll({civ[h], c} \ {None},
                   IF c = civ[h] THEN reg ELSE [reg EXCEPT ![Owner[h]] = None])

\* skip_nation_selection: also for a player who joins a running game again.
SkipsNation(h) == mode[h] = "known" \/ (mode[h] = "resumed" /\ TheGame.started)

\* The player_id is there and the player is added.  A handler that skips the
\* nation sends auth_success at once, which raises when the WebSocket closes.
Enter(h) ==
    /\ stage[h] = "dialing"
    /\ seated' = seated \cup {sid[h]}
    /\ \/ /\ SkipsNation(h)
          /\ ws[h] = "open"
          /\ stage' = [stage EXCEPT ![h] = "up"]
          /\ UNCHANGED <<civ, conn, attached, reg>>
          /\ CheckAndResume(h, TheGame, AddPlayer(h))
       \/ /\ SkipsNation(h)
          /\ ws[h] = "closing"
          /\ FailJoin(h)
          /\ player' = AddPlayer(h)
          /\ game' = TheGame
          /\ UNCHANGED civ
       \/ /\ ~SkipsNation(h)
          /\ stage' = [stage EXCEPT ![h] = "entering"]
          /\ player' = AddPlayer(h)
          /\ game' = TheGame
          /\ UNCHANGED <<civ, conn, attached, reg>>
    /\ UNCHANGED <<ws, kicked, mode, sid, llm, sess, agentSess, ended>>
    /\ UNCHANGED <<ready, port, releases, sweep>>

\* The civserver sends no player_id.
NoPlayerId(h) ==
    /\ stage[h] = "dialing"
    /\ mode[h] # "known"
    /\ FailJoin(h)
    /\ game' = TheGame
    /\ UNCHANGED <<ws, kicked, mode, sid, civ, llm, sessVars, ended>>
    /\ UNCHANGED <<player, ready, port, releases, sweep>>

\* The civserver refuses a reconnecting handler's login, and what the agent
\* has registered makes way for another try, with a new CivCom.  Another
\* handler of the agent that had taken the refused one keeps it, stopped: it
\* is as good as none.
Redial(h) ==
    /\ stage[h] = "dialing"
    /\ mode[h] # "new" /\ civ[h] = h
    /\ Register(h)
    /\ civ' = [g \in Handler |-> IF g # h /\ civ[g] = h THEN None ELSE civ[g]]
    /\ ended' = ended \ {h}
    /\ UNCHANGED <<ws, kicked, stage, mode, sid, llm, sessVars, gameVars>>

\* A session that is still there goes, and with it the agent's entry.
Ends(s) ==
    /\ sess' = [sess EXCEPT ![s] = "gone"]
    /\ agentSess' = [agentSess EXCEPT ![Owner[s]] = IF sess[s] \in Usable THEN None ELSE @]

\* An exception while connecting terminates the session.
Terminates(h) ==
    /\ Ends(sid[h])
    /\ sid' = [sid EXCEPT ![h] = None]
    /\ llm' = [llm EXCEPT ![Owner[h]] = None]
    /\ UNCHANGED ws

\* ... which it refuses too (E_STALE_CONNECTION), or which cannot be made.
StaleRejected(h) ==
    LET a == Owner[h]
    IN  /\ stage[h] = "dialing"
        /\ mode[h] # "new" /\ civ[h] = h
        /\ StopAll({h, reg[a]} \ {None}, [reg EXCEPT ![a] = None])
        /\ stage' = [stage EXCEPT ![h] = "failed"]
        /\ \/ /\ ws[h] = "open"
              /\ ws' = [ws EXCEPT ![h] = "closing"]
              /\ UNCHANGED <<sid, llm, sess, agentSess>>
           \/ Terminates(h)
        /\ UNCHANGED <<kicked, mode, civ, seated, ended, gameVars>>

\* The client expects another turn than the new connection reports: an error
\* is sent, which raises when the WebSocket closes, and the CivCom stays.
DriftOnDial(h) ==
    /\ stage[h] = "dialing"
    /\ mode[h] # "new" /\ civ[h] = h
    /\ stage' = [stage EXCEPT ![h] = "failed"]
    /\ \/ ws[h] = "open" /\ UNCHANGED <<ws, sid, llm, sess, agentSess>>
       \/ ws[h] = "closing" /\ Terminates(h)
    /\ UNCHANGED <<kicked, mode, civ, seated, civVars, gameVars>>

\* Nation and readiness are sent, the player is marked ready (which schedules
\* the start when all are), auth_success is sent and the game perhaps resumed.
Ready(h) ==
    LET now   == IF player[Owner[h]] # None THEN ready \cup {Owner[h]} ELSE ready
        start == /\ player[Owner[h]] # None /\ ~game.started
                 /\ Cardinality(Players) >= 2 /\ Players \subseteq now
        g     == [game EXCEPT !.starting = @ \/ start]
    IN  /\ stage[h] = "entering"
        /\ ready' = now
        /\ \/ /\ ws[h] = "open"
              /\ stage' = [stage EXCEPT ![h] = "up"]
              /\ UNCHANGED <<civ, conn, attached, reg>>
              /\ CheckAndResume(h, g, player)
           \/ /\ ws[h] = "closing"
              /\ FailJoin(h)
              /\ game' = g
              /\ UNCHANGED <<civ, player>>
        /\ UNCHANGED <<ws, kicked, mode, sid, llm, sessVars, ended, port, releases, sweep>>

\* _initiate_game_start, half a second later.
StartGame ==
    /\ game.starting
    /\ \E a \in Agent : Live(reg[a])
    /\ Players # {}
    /\ \A a \in Players : a \in ready /\ Live(civ[player[a]])
    /\ game' = [game EXCEPT !.starting = FALSE, !.started = TRUE]
    /\ UNCHANGED <<agentVars, sessVars, civVars, player, ready, port, releases, sweep>>

\* It gives up when a CivCom is missing or dead; nobody tries again.
StartAborts ==
    /\ game.starting
    /\ \/ Players = {}
       \/ \A a \in Agent : ~Live(reg[a])
       \/ \E a \in Agent : reg[a] # None /\ ~Live(reg[a])
       \/ \E a \in Players : a \notin ready \/ ~Live(civ[player[a]])
    /\ game' = [game EXCEPT !.starting = FALSE]
    /\ UNCHANGED <<agentVars, sessVars, civVars, player, ready, port, releases, sweep>>

-----------------------------------------------------------------------------
(* Leaving: on_close, and what makes a WebSocket close.                    *)

\* The peer goes away, or a message comes for a session that is not active
\* (E102): in both cases the WebSocket is closing.
Closes(h) ==
    /\ ws[h] = "open"
    /\ ws' = [ws EXCEPT ![h] = "closing"]
    /\ UNCHANGED <<kicked, stage, mode, sid, civ, llm, sessVars, civVars, gameVars>>

\* Mutant of CanSuspend: a suspended session cannot be suspended.
CanSuspendActive(s) == s # None /\ sess[s] = "active"

\* suspend_session succeeds: also for a session that is already suspended.
CanSuspend(s) == s # None /\ sess[s] \in Usable

\* Mutant of Forgets: self.civcom is not reset.
ForgetsNothing(h) == UNCHANGED civ

\* self.civcom = None.
Forgets(h) == civ' = [civ EXCEPT ![h] = None]

\* on_close.  code is 4001 when a partner closed the WebSocket and the peer
\* echoed that.  A drop pauses a started game through its own CivCom or a
\* partner's, suspends the partners' sessions and closes their WebSockets
\* (not those of an agent that is back with a newer handler).  Then the own
\* session is suspended and the CivCom kept for a reconnection; failing that
\* the CivCom stops, the player leaves, and the last one to leave a game that
\* is over or not paused schedules the release of the port.
OnClose(h, code) ==
    LET a     == Owner[h]
        c     == civ[h]
        over  == game.over \/ (game.present /\ c \in ended)
        drops == /\ code # 4001 /\ game.started
                 /\ ~over /\ c \notin ended
        kicks == IF drops /\ Live(c)
                 THEN {player[b] : b \in Players \ {a}} ELSE {}
        susp  == {sid[g] : g \in kicks} \cup {sid[h]}
        kept  == CanSuspend(sid[h]) /\ Live(c)
        left  == IF kept \/ ~game.present \/ stage[h] = "portless"
                 THEN player ELSE [player EXCEPT ![a] = None]
        pause == game.paused \/ (drops /\ \E g \in {h} \cup {player[b] : b \in Players \ {a}} :
                                              Live(civ[g]))
        frees == /\ game.present /\ ~kept /\ stage[h] # "portless"
                 /\ \A b \in Agent : left[b] = None
                 /\ ~pause \/ over
    IN  /\ ws[h] = "closing" /\ stage[h] \notin Joining
        /\ code = 4001 => h \in kicked
        /\ ws' = [g \in Handler |->
                    IF g = h THEN "closed"
                    ELSE IF g \in kicks /\ ws[g] = "open" /\ llm[Owner[g]] \in {g, None}
                         THEN "closing" ELSE ws[g]]
        /\ kicked' = kicked \cup {g \in kicks : ws[g] = "open" /\ llm[Owner[g]] \in {g, None}}
        /\ sess' = [s \in Handler |-> IF s \in susp /\ CanSuspend(s)
                                      THEN "suspended" ELSE sess[s]]
        /\ game' = [game EXCEPT !.paused = pause, !.over = over, !.releasing = @ \/ frees]
        /\ IF kept
           THEN /\ attached' = [attached EXCEPT ![c] = None]
                /\ UNCHANGED <<conn, reg>>
           ELSE StopAll({c} \ {None}, IF reg[a] = c THEN [reg EXCEPT ![a] = None] ELSE reg)
        /\ player' = left
        /\ ready' = {b \in ready : left[b] # None}
        /\ releases' = IF frees THEN releases + 1 ELSE releases
        /\ Forgets(h)
        /\ llm' = [llm EXCEPT ![a] = None]
        /\ UNCHANGED <<stage, mode, sid, agentSess, seated, ended, port, sweep>>

\* _track_send_failure: writes to a WebSocket that is closing have failed so
\* often that the game is paused before on_close comes.
DeadWrites(h) ==
    /\ ws[h] = "closing"
    /\ game.present /\ game.started /\ ~game.paused
    /\ Live(civ[h]) /\ attached[civ[h]] = h
    /\ game' = [game EXCEPT !.paused = TRUE]
    /\ UNCHANGED <<agentVars, sessVars, civVars, player, ready, port, releases, sweep>>

-----------------------------------------------------------------------------
(* The civserver, the clocks and the periodic cleanup.                     *)

\* The civserver closes the connection, or the thread crashes.
CivcomStops(c) ==
    /\ conn[c] = "alive"
    /\ StopAll({c}, reg)
    /\ UNCHANGED <<agentVars, sessVars, ended, gameVars>>

\* PACKET_ENDGAME_REPORT arrives: mark_game_over, unless no handler is
\* attached to the CivCom to tell it which game this is.
Endgame(c) ==
    /\ conn[c] = "alive" /\ c \notin ended
    /\ game.started
    /\ ended' = ended \cup {c}
    /\ game' = [game EXCEPT !.over = @ \/ attached[c] # None]
    /\ UNCHANGED <<agentVars, sessVars, conn, attached, reg>>
    /\ UNCHANGED <<player, ready, port, releases, sweep>>

\* A session outlives its timeout.
SessionExpires(s) ==
    /\ sess[s] \in Usable
    /\ Ends(s)
    /\ UNCHANGED <<agentVars, seated, civVars, gameVars>>

\* cleanup_dead_civcoms: a stopped CivCom, or one detached for too long.
CivcomExpires(a) ==
    LET c == reg[a]
    IN  /\ c # None
        /\ ~Live(c) \/ attached[c] = None
        /\ StopAll({c}, [reg EXCEPT ![a] = None])
        /\ UNCHANGED <<agentVars, sessVars, ended, gameVars>>

\* _sweep_stale_agents: the WebSocket of a registered handler is closed.
StaleAgentSwept(a) ==
    /\ llm[a] # None /\ ws[llm[a]] # "open"
    /\ llm' = [llm EXCEPT ![a] = None]
    /\ UNCHANGED <<ws, kicked, stage, mode, sid, civ, sessVars, civVars, gameVars>>

\* Two seconds have passed since resume_game.
DebounceEnds ==
    /\ game.recent
    /\ game' = [game EXCEPT !.recent = FALSE]
    /\ UNCHANGED <<agentVars, sessVars, civVars, player, ready, port, releases, sweep>>

\* Mutant of Released: a release is counted off twice.
ReleasedTwice(ok) ==
    /\ releases > 0
    /\ releases' = releases - 2
    /\ port' = IF ok THEN "free" ELSE port
    /\ game' = [game EXCEPT !.releasing = FALSE]
    /\ UNCHANGED <<agentVars, sessVars, civVars, player, ready, sweep>>

\* release_civserver_port, scheduled by on_close, succeeds or gives up.
Released(ok) ==
    /\ releases > 0
    /\ releases' = releases - 1
    /\ port' = IF ok THEN "free" ELSE port
    /\ game' = [game EXCEPT !.releasing = FALSE]
    /\ UNCHANGED <<agentVars, sessVars, civVars, player, ready, sweep>>

\* cleanup_stale_paused_sessions takes a game that is over and has no player,
\* or one paused for too long with no WebSocket of a player open.
SweepBegins(why) ==
    /\ sweep = "none" /\ game.present /\ ~game.releasing
    /\ \/ why = "over" /\ game.over /\ Players = {}
       \/ /\ why = "stale" /\ game.paused /\ ~game.over
          /\ \A a \in Players : ws[player[a]] # "open"
    /\ sweep' = why
    /\ game' = [game EXCEPT !.releasing = TRUE]
    /\ UNCHANGED <<agentVars, sessVars, civVars, player, ready, port, releases>>

\* Its release succeeds and the GameSession goes, or fails.
SweepEnds(ok) ==
    /\ sweep # "none"
    /\ sweep' = "none"
    /\ \/ /\ ok
          /\ port' = "free"
          /\ game' = [NewGame EXCEPT !.present = FALSE]
          /\ player' = [a \in Agent |-> None]
          /\ ready' = {}
       \/ /\ ~ok
          /\ game' = [game EXCEPT !.releasing = FALSE]
          /\ UNCHANGED <<port, player, ready>>
    /\ UNCHANGED <<agentVars, sessVars, civVars, releases>>

AgentStep(h) ==
    \/ Reattach(h) \/ Drift(h) \/ Dial(h) \/ DialFails(h) \/ AllocateFails(h)
    \/ Enter(h) \/ NoPlayerId(h) \/ Ready(h)
    \/ Redial(h) \/ StaleRejected(h) \/ DriftOnDial(h)
    \/ Closes(h) \/ DeadWrites(h)
    \/ \E code \in {1000, 4001} : OnClose(h, code)

Timeouts ==
    \/ \E c \in Handler : CivcomStops(c) \/ Endgame(c)
    \/ \E s \in Handler : SessionExpires(s)
    \/ \E a \in Agent : CivcomExpires(a) \/ StaleAgentSwept(a)
    \/ DebounceEnds

Release ==
    \/ \E ok \in BOOLEAN : Released(ok) \/ SweepEnds(ok)
    \/ \E why \in {"over", "stale"} : SweepBegins(why)

Next ==
    \/ \E h \in Handler : AgentStep(h)
    \/ StartGame \/ StartAborts
    \/ Timeouts
    \/ Release

Spec == Init /\ [][Next]_vars

\* on_close is called, scheduled releases run, the periodic cleanup runs, and
\* the metaserver answers it in the end.
Fairness ==
    /\ \A h \in Handler : WF_vars(\E code \in {1000, 4001} : OnClose(h, code))
    /\ WF_vars(\E ok \in BOOLEAN : Released(ok))
    /\ WF_vars(\E why \in {"over", "stale"} : SweepBegins(why))
    /\ WF_vars(\E ok \in BOOLEAN : SweepEnds(ok))
    /\ SF_vars(SweepEnds(TRUE))

FairSpec == Spec /\ Fairness

-----------------------------------------------------------------------------
(* Properties.                                                             *)

\* "prevents zombie accumulation": a CivCom thread that runs is the one that
\* is registered for its agent, so a reconnection or the cleanup finds it, and
\* the agent is never logged in twice.
NoOrphanCivcom == \A c \in Handler : conn[c] = "alive" => reg[Owner[c]] = c

\* An agent has one session that can be used or resumed, the one that
\* agent_to_session names.
OneSession == \A s \in Handler : sess[s] \in Usable => agentSess[Owner[s]] = s

\* Sessions and CivComs are found again by the agent they belong to.
AgentsFound == NoOrphanCivcom /\ OneSession

\* Every agent is back: joined, its WebSocket open, its CivCom running.
AllBack == \A a \in Agent :
    LET h == player[a]
    IN  h # None /\ stage[h] = "up" /\ ws[h] = "open" /\ Live(civ[h])

\* "When both reconnect, the game will resume": whoever comes back last
\* resumes the game, except within two seconds of the last resume.
LastBackResumes ==
    [][game.paused /\ ~AllBack /\ AllBack' => ~game'.paused \/ game.recent]_vars

\* A game is never resumed for an agent whose WebSocket has been closed.
NoResumeForClosed ==
    [][(game.paused /\ ~game'.paused /\ game'.present)
          => \A a \in Agent : player'[a] # None => ws'[player'[a]] # "closed"]_vars

\* "B's own on_close() must also return True so CivCom is preserved": closing
\* an agent whose session its partner suspended stops no CivCom.
SuspendedKeepsCivcom ==
    [][\A h \in kicked :
          (/\ ws[h] = "closing" /\ ws'[h] = "closed"
           /\ sid[h] # None /\ sess[sid[h]] \in Usable) => conn' = conn]_vars

\* What the closing of an agent's WebSocket may not do to the game.
CloseIsClean == NoResumeForClosed /\ SuspendedKeepsCivcom

\* "This prevents AI takeover": while a player of a started game is away, the
\* game is paused.
PausedWhileAway ==
    \A a \in Agent :
        (player[a] # None /\ ws[player[a]] = "closed" /\ game.started /\ ~game.over)
            => game.paused
=============================================================================
