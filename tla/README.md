# Freeciv3D, verified

TLA+ models of the services that let LLM agents play freeciv (the LLM gateway, the
freeciv proxy, the pool of civservers), of the web client that shows the game to
players and observers, and of the container that streams it; TLC configurations
that check them on small instances; and TLAPS proofs of what matters most. Paths
are relative to the repository, which is `src/` here.

## The system

An agent opens a WebSocket to the **gateway** (`llm-gateway/`, FastAPI, one asyncio
loop), which opens another to the **proxy** (`freeciv-proxy/`, Tornado, one loop and
one thread per civserver connection), which speaks freeciv's protocol to a
**civserver**, one process per port, started by **publite2** and registered in the
**metaserver** (servlets over MySQL). A game is a `game_id`; the proxy asks the
metaserver for a port for it and its agents meet on the civserver of that port.
People play, and watch, in the **web client** (`freeciv-web/.../javascript/`, one
thread of callbacks), which has a WebSocket to the proxy; the **streaming
container** (`streaming/`) runs one in a browser without a screen and records it.

    agent --WS--> gateway --WS--> proxy --thread/TCP--> civserver
                     |              |  \                    |  report, 1/min
    REST client -----+              |   +--allocate/release--> metaserver <--poll-- publite2
                                    WS
                 web client --------+
                     |  postMessage
    streaming container (browser, FFmpeg) --> RTMP, bucket

| component | state | operations | interacts through | hard | correct when |
|---|---|---|---|---|---|
| Agent connections: `connection_manager.py`, `handle_connection` | `connections`, `agent_connections`, `disconnected_sessions`, connections per agent | add, disconnect, resume, send, heartbeat round | the handler's `finally`, tasks of failed sends, the maintenance loop | three removers of one connection, each suspended in `close()`; a dict iterated across an await | indexes agree, nothing leaks, limits hold, what ended is removed |
| Agent handshake: `websocket_handlers.py` | `authenticated`, `proxy_connection`, the listener and watchdog tasks | `llm_connect`, `auth_success`, terminal error, timeout, disconnect | cancellation | cancel against answer; tasks that outlive the connection they were started for | one reader per connection, every attempt answered, nothing left behind |
| Request correlation: `request_manager.py` | `pending_requests`, statistics | create, wait, resolve, cancel, clean up, stop | futures completed by the listeners | four parties complete one future | completed once, every call ends |
| Proxy connection pool: `connection_state_manager.py`, `forward_to_proxy` | an entry per game, a global count | get, add, mark failed, remove, health round, cleanup round | one lock, held across a close | actions by game_id on entries replaced meanwhile | slots counted exactly, failed entries go away and never come back |
| Game registry, REST: `main.py`, `api_endpoints.py` | `game_sessions`, `active_agents`, spectators | create, join, end | all of the above | tests before awaits | an ended game leaves nothing |
| Stream manager: `stream_manager.py` | `active_streams` | start with rollback, stop | Kubernetes, YouTube | stop during start | no stream without a game |
| Game sessions (proxy): `llm_handler.py`, `game_session_manager.py`, `session_manager.py`, `state_extractor.py` | the GameSession (players, phase, paused, releasing), LLM sessions, the CivCom registry, `llm_agents` | join, reuse, dial, ready, start, close, suspend, resume, sweep, release | `on_close`, `call_later`, CivCom threads | old and new WebSockets of an agent overlap; closing one closes its partners | one session and one CivCom per agent, paused while away, resumed by the last one back, port released |
| Server pool: `publite2/`, `ServerAllocator`, `ServerRelease`, `Metaserver`, `GameSessionManager` | `servers`, `game_allocations`, processes | allocate, release, report, quit, restart | HTTP with retries, reports from a thread | lost responses, two writers of `available`, restarts | a game keeps its port, ports come back, one game per civserver |
| Observer connection: `clinet.js`, `civclient.js`, `packhand.js` | the WebSocket, retry counters and flags, the map, tiles kept for it | connect, retry, time out, start the game | sockets, timers, packets, the launcher | events of an earlier attempt | no tile lost, no start on an old map, a retry never stuck |
| Observer camera: `civclient.js` | three intervals, what was told to the embedding page | follow, search, center, reset | packets, the user | intervals overwritten in their variable | each interval can be stopped, the page is told once |
| Message log: `EventAggregator.js`, `messages.js` | timer, burst, data | report, fire | a handler that reports again | reentrancy, timers overwritten | each event handed over once, in order |
| Unit orders: `control.js`, `action_dialog.js`, `mapctrl.js` | focus, urgent and waiting units, the dialogs, goto globals | ask, act, wait, advance focus, goto | requests and replies of the civserver | a request overtaken by the next; units that die | focus alive and fair, a goto ends in its own order |
| City dialog: `city.js` | worklist and selections, the table of tiles | edit, insert, buy; look up a tile | packets of the city | a selection in a list that changed; caches per border | selections follow, tiles found |
| Diplomacy: `diplomacy.js` | clauses, dialogs, thumbs | propose, remove, accept, cancel | the civserver and the other client | messages cross | one agrees to what one sees |
| Tax rates: `rates.js` | three sliders, locks | drag, lock, submit | - | rounding, maxima | what is sent is legal |
| 3D view: `object_position_handler.js`, `preload.js` | objects per tile, models | redraw, download | packets, frames, downloads | draws that wait for a model | no object is lost or outlives what it shows |
| Streaming container: `stream.js` | browser, FFmpeg, recording, upload | launch, navigate, record, shut down | signals, processes | signals at any await, processes that die | recordings complete before upload, nothing left running |
| Rate limiters, state cache, LLM sessions | buckets, LRU, sessions | - | threads, locks | limits, backends | bounded, never stale |

`PROJECT.json` lists the remaining components (packet conversion, validation,
authentication, state extraction, servlets, map rendering, the vendored civserver,
deployment) with the reason each is left out, and under `hazards` forty places in
this code that are hard to test, each with the properties that would catch it
going wrong.

Hazards found beyond those forty, which no property covers: an attempt over the
limit consumes the cached session (`connection_manager.py:198`); the health check
applies the result of a ping to the entry that replaced the one it pinged
(`connection_state_manager.py:476`); the gateway's own listener reads whatever connection is registered, an
agent's too (`main.py:664`), and `end_game` awaits between its tests (`main.py:1197`);
a stream may be stopped while it starts (`stream_manager.py:231`); `on_close` of an old
WebSocket unregisters the new one (`llm_handler.py:5039`), one flag stands for any
number of releases (`:5056`), a player back between its id and its nation skips the
nation (`:1005`), nobody releases the port of a finished game whose agents leave in the
ordinary way (`:4983`); a savegame is loaded again by the civserver restarted on its
port (`init-freeciv-web.sh:53`); a model that failed to
download is never asked for again (`preload.js:668`); `is_paused` follows a send whose
errors are swallowed (`game_session_manager.py:353`) and a start given up is tried again
by nobody (`:689`); the allocator's threshold of ten minutes is shorter than the
suspension it must outlast (`ServerAllocator.java:80`); `total <= server_limit` starts
one civserver too many (`publite2.py:119`); at capacity an agent cannot replace its own
session (`session_manager.py:796`).

## Modules

| module | models | states and actions |
|---|---|---|
| `ConnectionManager` | the gateway's registry of agent connections | one handler per WebSocket (`handler`, `socket`), `closer[c]` = who is suspended in `remove_connection`'s `close()`, `maint` = where the heartbeat round is. `Admit`, `Overflow`, `Refuse` are `handle_connection` up to the message loop, `Leave`/`Finish` its `finally`; `SendFails`, `TaskStarts`, `TaskEnds` a task of `send_to_agent`; `RoundStarts` to `RoundEnds` `maintain_connections` |
| `AgentHandshake` | the tasks of one handler from its message loop on | `main` = where `handle_connection` is; a listener per connection to the proxy and a watchdog per attempt, each with what it awaits and whether it is cancelled. `Connect` to `GreetFails` are `_connect_to_proxy_and_forward`, `Leave` to `Left` the `finally`, `GetsAuth` to `Closed` `_listen_to_proxy`, `Fires` to `Dismissed` the watchdog |
| `RequestManager` | request/response correlation | `caller`, `future`, `pending_requests`, the timer; `Reply` is either listener, with the message types each hands over |
| `ProxyPool` | the pool of proxy connections and its users | an `entry` per game, the count, the lock (`closer`, `closing`), the program counter of `forward_to_proxy` (`pc`), health and cleanup rounds |
| `GameSession` | one game in the proxy | a handler per WebSocket (`stage`, `ws`, `sid`, `civ`), sessions (`sess`, `agentSess`), CivComs (`conn`) and their registry (`reg`), the GameSession (`game`, `player`), the port. `Login`, `Allocate`, `Dial`, `Enter`, `Ready` are the segments of `_handle_llm_connect` between its awaits, `OnClose` is `on_close` with all it closes |
| `ServerPool` | the pool of civservers | `row` and `alloc` are the two tables, `civ`, `users`, `post` a civserver and the report under way, `local`, `call`, `rel` the proxy |
| `ObserverClient` | how an observing page gets to a map on the screen | `page` holds the page's variables, the sockets with what the civserver knows of each, timers and packets under way; one action per callback |
| `ObserverFollow` | the camera of that page | the intervals (`timer`, and `var`, the variables that hold them), what the packets have brought, who moved the camera last, what the embedding page was told |
| `Batcher` | what an event aggregator promises | events wait, and are handed over once and in order |
| `EventAggregator` | `EventAggregator.js` with `update_chatbox` as its handler | timer, burst, count and data of the object; `strays` = timers overwritten while they ran; `update`, `fired`, `fireNow` |
| `UnitDecision` | units that ask the player what to do | the focus, the urgent queue, waiting units, dialogs, and an ordered connection to the civserver in both directions |
| `Goto` | ordering units to a tile | goto globals, path requests and answers under way, moves meanwhile; the history variable `meant` keeps the units that the player wants to detonate |
| `Worklist` | the production tab of the city dialog | the list, the two selections, packets both ways, turn changes |
| `Diplomacy` | a meeting of two players | both clients' clauses, dialogs and thumbs, the treaty at the civserver, messages both ways |
| `Rates` | the tax rates dialog | sliders, locks, the maximum, what was sent |
| `Arrays` | arrays of JavaScript as sequences | `Those`, a filter |
| `CityTiles` | where the yields of a tile are looked up | the maps kept per way the borders cut the city; the geometry of `map.js` |
| `TileObjects` | the objects of the 3D view | the tables of objects per tile, models loaded and wanted, units, cities and extras as the packets leave them. It calls the packet handlers by what they do (`UnitPacket`, `CityPacket`), as other modules give their names to their own view of them |
| `StreamCapture` | the streaming container | where `run()` is, the browser, FFmpeg, the recording, the upload; signals, kills and restarts |
| `TimedParts` | an agent's handler, the camera, the aggregator and the container side by side: parts that live on timers and tasks and share nothing | the variable `part` says which one runs, the others stay as they began |
| `MC...` | the instances TLC checks. `MCRegistries` runs the connections of the gateway or the pool of civservers, `MCGatewayCalls` calls or connections, `MCTimedParts` one of the four of `TimedParts`, `MCClientParts` one of seven parts of the client, again with the others at rest; `MCTileObjects` is the 3D view alone | |
| `...Proofs` | the theorems, eight modules | |

Everything between two awaits, or in one callback of the page, is one action; an
await at which others can run ends one. A transaction that locks the rows it uses
is one action. An operator that begins with "Mutant of" in its comment is the code
with a plausible mistake; it is used nowhere, and stands by to show that a property
would catch the mistake.

**Refinement.** `Batcher` is the abstract specification of an aggregator.
`EventAggregator` implements it under the mapping of its history variables `since`
and `handled`: `Batches` is `Batcher`'s `FairSpec` under that mapping, checked by
TLC with fairness, and `AggBatches` proves its safety part for every policy, number
of events and delay.

## Runs

| run | instance | shows |
|---|---|---|
| `registries_safety` | three WebSockets of one agent, limit 1, two slots; or a game and two civservers; with symmetry | `RegistrySound` (types, `IndexConsistent`, `NoZombie`, `ServedWithinLimit`, `CacheHoldsDisconnected`), `NoSlotLeak`; `SamePort` |
| `gateway_calls` | two calls (a query, an action); two WebSockets | `FuturesSound` (`FutureReachable`, `NoOrphanEntry`, `StatsHonest`, `AnswerIsReply`), `FutureOnce`, `CallsEnd`, and for connections `EndedRemoved` |
| `pool_safety` | two games, two agents' connections, one own, one call, two slots | `PoolSound` (`CountExact`, `WithinCapacity`, `OneEntry`, `UnhealthyOnce`), `NoResurrection`, `PoolServes` (calls return, failed entries are reclaimed) |
| `gamesession_play` | two agents, one with two WebSockets | `AgentsFound` (`NoOrphanCivcom`, `OneSession`), `LastBackResumes`, `CloseIsClean` |
| `serverpool_ports` | two games, one civserver, two retries | `PortReturns`, `TypeOK` |
| `observer_connect` | two WebSockets, a tile, two retries | `NothingMissed`, `RetriesSound`, `StartsWithTiles` |
| `timed_parts` | one handler with three connections to the proxy; three interval timers; two events; two signals and a restart | `HandshakeSound`: `OneReader`, `NoneForgotten`, `NothingLeft`, `Answered`; `HandshakeEnds`: attempts are answered, handlers end. `CameraSound`, `ViewKept`, `ParentHears`; `DataHonest`, `Batches`; `CleanStop`, `StreamEnds`; `TimersTypeOK` |
| `client_parts` | two units, places, items, parties, tiles | `FocusAlive`, `FocusFair`; `FinalOrderOfItsGoto`; `ListSound`, `SelectionFollows`; `RatesLegal`; `MeetingShown`; `TilesFound`; `SceneFaithful` (each with the types of its part) |
| `gamesession_takeover` | as `gamesession_play` | counterexample to `PausedWhileAway` |
| `serverpool_collision` | two games, one civserver | counterexample to `OneGamePerServer` |
| `unit_dialogs` | two units | counterexample to `OneDialog` |
| `model_loads` | one unit, one tile | counterexample to `ShownOnceLoaded` |

**Bounds.** What the code bounds itself keeps its bound, made small: slots
(`MaxTracked`, `MaxConnections`, `GlobalLimit`), attempts and retries
(`MaxAttempts`, `MaxRetry`, `MaxRetries`, `MaxTries`), health failures. What it does
not bound is cut off in the guards of the environment: requests, packets, clicks,
events (`MaxEvents`, `MaxOrders`, `MaxEdits`, `MaxReqs`, `MaxFacts`, `MaxLooks`,
`MaxGames`, `MaxSignals`, ...) and the length of queues between client and civserver
(`MaxUp`, `MaxDown`, `MaxPackets`). A WebSocket lives once, so the number of
connections bounds the history. Why these are enough: three WebSockets give every
interleaving of the three removers with a newcomer at limit 1; the replaced, the
closing and the new entry of a game need three connections, and two games share the
slots; the overlap of an agent's old and new handler needs two WebSockets of one
agent and a partner; a port changes hands between two games, and a game could be moved
to a second port (`SamePort`; with two games as well the instance is out of reach, so
the run has one, and the theorem `PortStays` any number); a handler uses one
connection and opens the next, and the third shows that the second replacement is
like the first; an attempt to observe overlaps the one before it; two units, parties
or tiles are what the client's globals are overwritten between; four facts are
enough for a unit or a city to come, wait for its model, change, and go, before or
after the scene is there. Durations are abstracted: a timeout may pass at any time
after it started. In `CityTiles` the map wraps east-west or not at all, because with
a north-south wrap the code under it is wrong (below).

Symmetry is used for WebSockets, ports, games and units, in runs without
liveness properties only.

**Deadlock** is checked except where the instance really ends: all calls have
returned and the manager was stopped, all WebSockets are used up, a handler or a
container is through, what the environment may do is used up.

**Fairness** is weak fairness of what goes on without asking anyone: a callback
that is due runs, a coroutine that can go on goes on, a bounded wait or close ends
(`WEBSOCKET_CLOSE_TIMEOUT`, `wait_for`), periodic loops run, timers and intervals of
the browser fire, a cancelled task hears of it. Agents, users, the proxy seen from
the gateway, the civserver and the network get none; nor does FFmpeg, which need
not end before it is killed. In `StreamCapture` what is awaited with a timeout ends,
a closed browser closes, and the client library of the bucket gives up in the end.
`ServerPool` needs strong fairness: a civserver that is started again and again does
not crash each time before it has reported or, empty and once used, has quit, and not
every report finds the metaserver out of reach.
`EndedRemoved` holds although arrivals can cut any round short, because an instance
has finitely many arrivals; with endless churn the code promises nothing. Its weak
fairness of `Leave` and `Finish` takes it that a handler whose client has gone gets to its
`finally`; the lost cancellation described next (`Deaf`) can hold one up before that, and
belongs to `AgentHandshake`, where it is an exception of `HandshakeEnds`. Of idle
connections it speaks of those that never authenticate.
`EntryReclaimed`, a part of `CallsEnd`, excepts requests that come after `stop()`: the
manager takes them, and no loop is left to clean up.

`HandshakeEnds` names the two cases in which the code does not come to an end, and
each is needed (without it TLC finds a behaviour). `Misled`: a second `llm_connect`
resets `authenticated` (`websocket_handlers.py:325`, "so the watchdog provides timeout
protection on every auth attempt"), the listener of the first connection receives
its `auth_success` while the second is being opened, and the new attempt's watchdog
finds the handler authenticated: neither an answer nor a timeout need come. `Deaf`: the
listener awaits the watchdog it has cancelled, is cancelled itself, and its `except
asyncio.CancelledError: pass` (`:533`) takes its own cancellation for the watchdog's; the
handler that awaits it waits until the connection to the proxy drops.

## What the counterexamples show

Each disagrees with a sentence of the repository, quoted in `PROJECT.json`:

- `gamesession_takeover`: a partner closed by coordination whose `on_close` runs
  after the other is back leaves a running game with a player away.
- `serverpool_collision`: a released or allocated port is handed to a second game
  while the first uses it. The shortest trace goes through `on_close`, which
  releases the port and keeps the GameSession; with releases and restarts removed
  the civserver's periodic report alone, which writes `available`, gives the same.
- `unit_dialogs`: two units are asked about before the first reply is there; the
  dialogs of both are open at once.
- `model_loads`: a unit comes to a tile and lacks its model, then an extra of the tile
  lacks its own and is noted for the tile instead (`preload.js:684`); when the model of
  the unit is there no tile is noted for it, and the unit stays unseen.

Further behaviour found while modelling, stated by no property of a run:

- *Gateway.* A connection that comes or goes during a heartbeat ends the round
  before anything expired is removed (`connection_manager.py:261`). A reply to a REST
  call that arrives on an agent's connection with another type is forwarded to the
  agent (`websocket_handlers.py:504`). A connection removed twice caches its session
  again after another connection resumed it; a refused connection releases a slot it
  never took. Between `authenticated` and `player_id` (`:527`, `:537`) messages pass with
  no player, the half-authenticated state that the comment at `:367` excludes. The
  watchdog may cancel the listener of a newer attempt, and its "can_retry: False" may be
  followed by `auth_success`; a reconnection that fails leaves the old connection served,
  unauthenticated and unwatched; a proxy that drops an authenticated agent is not
  reported to it. `health_check_failures` never exceeds one; a gateway-owned WebSocket
  that is replaced in the pool is closed by nobody; a failed entry cannot be replaced
  when the pool is full.
- *Proxy and pool.* After the end of a game nothing releases its port when agents leave
  in the ordinary way; after a resume, an agent back within two seconds of the last one
  leaves the game paused (`LastBackResumes` excepts it); `INSERT` leaves `last_seen` null,
  which no cleanup finds; agents that come back after `on_close` has released the port use
  it on from the GameSession (`SamePort` speaks of ports that are held).
- *Observer.* Two sockets may be open at once, the page retries after the game is over,
  and a timeout and a close both count the same retry; a ping interval is left running
  at each retry; the fallback that polls (`civclient.js:258`) moves a camera that the user
  just placed.
- *Orders.* The whole worklist is sent at each edit, so an edit that crosses the end of a
  turn undoes its progress, and a refused change loses the task. A goto clicked before
  the path is answered loses its final order and leaves goto active, and only the first
  unit of a group gets its path. Selecting another unit during a nuclear goto (in the unit
  panel, `control.js:3270`; as cargo, `:2477`; by a rectangle, `webgl/mapctrl.js:295`) hands
  it the detonation, of whatever kind it is. A treaty clause removed without its value shows the wrong
  technology, a replaced pact stays beside the new one, thumbs are stale after a change.
  Locked sliders may show rates that do not add up, which are never sent.
  `map_distance_vector` assigns `dx` where it wraps north-south; `mapstep` gives a tile for
  a step over the edge where its comment (`map.js:374`) says NULL, as `map.js:250` brings
  the position back onto the map: `TilesFound` asks that a step can be taken back only
  where there is a tile.
- *3D view.* The callback of a download forgets that a redraw has asked for another model
  (`preload.js:657`); a model that failed is never asked for again; polluted tiles toggle
  their models at each update; labels of units whose model came too late stay; a global
  observer keeps destroyed cities.
- *Streaming.* A signal before the handlers are installed, or during a retry of FFmpeg, is
  not followed by an orderly stop; FFmpeg or the browser dying while streaming is noticed
  by nobody, and one that could not be spawned is never retried; after FFmpeg was killed a
  partial recording is uploaded; the timer of the upload keeps the process alive up to
  five minutes, beyond the pod's grace period.

## Proofs

The eight `...Proofs` modules hold for every value of the constants (sets of
connections, calls, agents, WebSockets, ports, games, units, items, events, tiles,
and every limit), from the named assumptions alone: null values are no members of
the sets, what is counted is finite, limits are numbers (positive where the code needs
one), a WebSocket has an owner, maximum rates are tens from 50 to 100, what a city
can build can be built, a meeting is of two players. Each component has one inductive
invariant, and the module proves that it holds at first, that each action keeps it, and
that it implies the property.

- **ConnectionManagerProofs.** `RegistryAgrees` is `RegistrySound`. `IndexConsistent`
  and `NoZombie` are not inductive: a `del` by one remover is safe only because a
  connection being removed never returns to the index, a cached connection was
  disconnected, and a handler that is through has nobody registered
  (`RegistryCorrect`). `LimitHolds` adds that the served connections of an agent are
  indexed and counts them against the limit at the admission; `SlotsNotLeaked` counts
  handlers that hold a slot (cardinalities, FiniteSetTheorems).
- **GatewayProofs**: what an agent waits for in the gateway.
  - The handshake: `HandshakeTypes` and `HandshakeIsSound` (`HandshakeSound`).
    That one reads per connection needs more than one listener per connection: a listener
    that has not ended is on the current connection, or the main task awaits it after
    cancelling it, or it has only its last words to say (`OneListener`, `Takeover`,
    `Abandoned`); the same for watchdogs (`OneWatchdog`, `NotTelling`); `Served` and
    `Ending` tie the flags of the handler to where its main task is.
  - The calls: `FuturesAgree` is `FuturesSound`. `NoOrphanEntry` is not inductive: a
    caller wakes up without touching the table, which is right only because an entry's
    future never has a result or an exception (`EntryOpen`). `AnswerIsReply` needs that a
    call gets one reply, which is on the wire, resolved or forwarded and never two of
    these (`OneReply`). `ResolvedOnce` is the action property `FutureOnce`;
    `CountersHonest` follows how each step moves a call between the sets that are counted.
- **ProxyPoolProofs.** `PoolTypes`, `PoolAgrees` (`PoolSound`) and the action property
  `FailedStaysFailed` (`NoResurrection`). The count is exact only if what a step adds was
  not there: a connection that is about to be added is in no entry (`HeldApart`), by one
  call only (`HeldOnce`), and the WebSockets in entries have been opened (`Opened`);
  `FailsOnce` bounds `health_check_failures`.
- **GameSessionProofs.** `TypeCorrect` and `FoundAgain` (`AgentsFound`). The invariant
  adds that a handler that is joining has a session, and that `agent_to_session` names
  a session of that agent: without it taking over a session could orphan another agent's.
  The action properties `LastResumes` (`LastBackResumes`) and `ClosesCleanly`
  (`CloseIsClean`) need what a close leaves behind: a closed handler is forgotten, and a
  CivCom that is registered or held runs (`Trace`).
- **ServerPoolProofs.** `TypeCorrect`, `PortsAgree` (the proxy's copy of a port is that of
  the table) and the action property `PortStays` (`SamePort`): an allocation that is held
  keeps its port, a request for it is answered with that port, and a GameSession gets no
  other. The port is in the table before it is in the proxy, so the invariant also says
  what the request under way has in hand (`ReplyMatches`, `ReplyNew`), that a game with a
  GameSession never asks (`Asker`), and that only such a game is being released
  (`Releasing`), since a release between answer and GameSession would undo the allocation.
- **ObserverProofs**: what an observer's page and its embedding rest on.
  - The page: `NothingIsMissed` (`NothingMissed`), `RetriesAreSound` and the action
    property `StartsWithItsTiles` (`StartsWithTiles`). Of the facts the civserver has told,
    each is on the way in a socket the page still listens to, or kept for the map, or on it
    (`MapsKnown`, `TilesKept`); a flag that a retry waits for has a timer behind it (`Waits`).
  - The camera: `CameraIsSound` (`CameraSound`) and `ViewIsKept` (`ViewKept`). Search
    intervals are not always held by their variable; no two search at once (`SearchesAlone`),
    which is why stopping the variable's stops them all.
  - The message log: `AggTypeCorrect`, `AggDataHonest` (`DataHonest`) and `AggBatches`:
    every behaviour of the aggregator, timers overwritten and handlers that report again
    included, is one of `Batcher` (safety). Each step maps to handing over all that waits,
    to one more event, or to nothing.
  - The container: `StreamTypes` and `StopsClean` (`CleanStop`). The invariant says, for
    each phase of a run, which of browser, FFmpeg and upload can be there (`Early`,
    `Streams`, `Stopped`, `Late`), as `CleanStop` speaks only of the end.
- **PlayerProofs**: what a player does.
  - `RatesAlwaysLegal` (`RatesLegal`). Legality of what is sent needs that the sliders
    rest at tens even where they do not add up (`Rested`), since the last adjustment
    subtracts the others from 100.
  - `OrdersOfTheirGoto`, the action property `FinalOrderOfItsGoto`. Its invariant
    (`OwnGoto`) says that the units in focus are among those the player wants to detonate
    whenever a goto is active that ends in a detonation: `goto_last_order` alone is not
    enough, as it outlives gotos that are broken off. That nobody but a click sends such
    an order (`OnlyClicksDetonate`), and for one unit, is the rest.
  - `ListsAreSound` (`ListSound`). When nothing is under way the client shows what the city
    has, because whenever no info is under way what it shows is what the city has, or the
    last list that is on its way there, or lost (`Shows`); the last info under way says
    what the city has (`LastInfo`) and is followed by a redraw, which cuts the selection.
    Every button keeps the selection ascending: lemmas on filters, splices and folds.
    The action property `SelectionStays` (`SelectionFollows`) needs of a state only its
    types and that the selection ascends; what carries it is that no task of a fold over
    the selection is moved twice (`TasksMove`), and where a splice leaves the rest
    (`SpliceReads`).
  - `FocusStaysAlive` (`FocusAlive`) and the action property `FocusIsFair` (`FocusFair`).
    A unit that dies is taken from the focus, the urgent queue, the waiting units and the
    dialogs one after the other, and the focus moves on meanwhile; what must hold in
    between is that the list of units still has it until it is in none of them (`Good`).
  - `WhatIsAgreedIsShown` (`MeetingShown`). A client lags behind the treaty by the packets
    under way to it; so the invariant says that hearing them leads from what it shows to
    what the treaty says, through views of its own (`WillAgree`), for the treaty as it is
    now. Removal by giver and type alone takes the right line because no two clauses of a
    treaty could replace one another (`Alone`). An end of a turn shuts the dialog but keeps
    the clauses: `Agrees` asks for acceptances only where a dialog shows them.

- **MapProofs**: the map and what stands on it.
  - `TilesAreFound` (`TilesFound`). The client numbers the ways in which the edges cut a
    city off, and keeps a map per number; no two ways may share a number, and the maps
    of a larger radius serve cities with a smaller one. The invariant says that every
    map that is kept is the map of each place with its number (`BuiltFor`, `MapsRight`).
    That two places with one number are cut alike (`SamePlace`, `SameReach`), that a
    smaller city ranks its tiles as the larger does (`RanksKept`), and that a vector
    round the map is found again (`VectorOf`) is arithmetic. The hypothesis `Fits` is what this needs of the map: no
    city reaches round it (`2 r + 1` tiles in each direction), at least three columns,
    and it wraps east-west or not at all. The code grants the first two: a map has at
    least 16 tiles in each direction (`MAP_MIN_LINEAR_SIZE`,
    `freeciv/freeciv/common/map.h:639`) and a radius is at most 5
    (`CITY_MAP_MAX_RADIUS`, `common/fc_types.h:90`); the instance of `client_parts`
    satisfies it, with cities that just fit. With a north-south wrap the code is
    wrong (above).
  - `ViewIsFaithful` (`SceneFaithful`). Of the tables the invariant (`SceneInv`) adds
    that a ring is only there with the scene (`RingRight`); of the game, that a tile lists
    each of its units once and only units that are there (`Stacked`), since a unit is
    taken off one tile, and that the unit in focus is on the map (`Attentive`), since that is
    where the ring is put. When a unit moves or goes, the tiles it touches are wrong until each
    has been drawn, so the lemmas say that drawing a tile puts it right, whatever was on
    it, and leaves the others as right as they were (`UnitsPutRight`, `CityPutRight`). Folds over the tiles of a frame, a download or a new scene keep all this by
    induction on the size of the set (`OneByOne`, `FoldsWithin`). The attempt to prove it
    refuted an earlier version of the clause on the ring, which relied on a tile being
    redrawn as soon as the model of its unit is there: it is not (`model_loads`).

The library's induction theorems cannot be instantiated, as they take an operator. What
they say of a set can be: a set of numbers that has 0, and the next of each, has all (by
well-foundedness, `NaturalsInduction`). Recursive functions and folds are reasoned about
that way: see `Those`, `ForEach` and `Ordered` in `PlayerProofs`, `FoldsWithin` in
`MapProofs`.

Every safety invariant and every action property of the passing runs is a theorem.
Model-checked only are the liveness properties, which with ENABLED are beyond the prover
(`CallsEnd`, `EndedRemoved`, `PoolServes`, `PortReturns`, `HandshakeEnds`, `ParentHears`,
`StreamEnds`), and the fairness of `Batches`, whose safety part is `AggBatches`. The
induction over data that the proofs need is done on numbers, as above.

## What is left out

- **ConnectionManager**: message contents, broadcasts, statistics.
- **AgentHandshake**: admission and refusal (in `ConnectionManager`); `player_id`, the
  registration with registry, pool and stream after `auth_success` (one step); messages
  that are only passed on; the agent's own disconnection during an await of the handler,
  which the code notices at its next `receive`. A connection to the proxy sends at most
  one `auth_success`.
- **ProxyPool**: `stop()`, waiting for the lock (an operation is enabled when the lock is
  free), the listener that `_initialize_freeciv_game` starts; a call opens each own
  connection at most once.
- **GameSession**: the 60 s self-reset of `_port_releasing`, `max_players`, the session
  limit, resumption refused for a wrong token, admin endpoints, game settings, the
  `player_ready` message (`auto_ready` is assumed), the MySQL backend, observers, the
  civserver's own settings, a session that is resumed without a port because the
  allocation failed when it was made (`llm_handler.py:632`). The marks for nation and ready are one. `llm_connect` is sent
  once per WebSocket. `on_close` runs when `on_message` has returned. The mismatch of the
  suspension timeout (3600 in `game_session_manager.py:1250`, 86400 in
  `session_manager.py:977`) is covered by letting either pass first.
- **ServerPool**: one host and one proxy (the one on port 8002 that LLM games use), a
  request that timed out is not executed after its retry, the number of release attempts,
  rows locked by others (`SKIP LOCKED` refuses, as does a candidate that does not listen),
  the launcher giving up after ten errors, the expiry of rows, savegames, `server_limit`.
  `dropplrs` is never sent to a civserver with A.I. players. Running and Game Ended are one
  state of a civserver, as neither is Pregame.
- **ObserverClient, ObserverFollow**: pings, joining as a player, packets that neither
  allocate the map nor describe tiles, players or the game; where the camera goes.
- **EventAggregator**: `setTimeout` and `cancel`, which nobody calls; the text of messages.
- **UnitDecision, Goto**: auto attack, transports, foreign units, guards of cities and of
  nuclear units, a change of owner, paradrop and airlift.
- **Worklist, Diplomacy, CityTiles**: other tabs of the dialog; clauses of two kinds (one
  with a value, one without), no contacts through a third party; see Bounds for the wrap.
- **TileObjects**: positions, roads, borders, explosions, spaceships, terrain. A unit keeps
  its owner.
- **StreamCapture**: SIGINT to node, `browser.close()` rejecting, `statSync` throwing, the
  Xvfb and window manager of the entrypoint.
- **Not modelled**, and why: packet conversion, state extraction and validation are pure
  functions over large tables of data; authentication is a check of one message; the
  servlets beside the allocator are single SQL statements; rendering, help pages, forms and
  options of the web client show what packets set and keep nothing that another part relies
  on; the civserver is vendored. The web client's JavaScript files have 56 000 lines, of
  which nearly half are libraries it carries along (GLTFLoader, OrbitControls, tablesorter,
  spectrum, scrollbars, menus), tests, or geometry and HTML; the models translate the
  stateful part, some 7 000 lines, beside the services in Python and Java. More could be
  covered only by transliterating pages that have no behaviour in time.

## Plan

Done: the modules above, in the order of the table, and proofs of all their safety
invariants and action properties. What a further version would take up:

1. `ShownOnceLoaded` for a client that keeps a set of models per tile, as a repair to
   compare with.
2. `GameRegistry` with `Streams`: create, join and end of games, streams started and
   stopped meanwhile (a stream without a game).
3. `LlmSession`: sessions of several games, the capacity, two backends; an abstract
   `SessionLease` that it and the session cache of `ConnectionManager` implement.
4. An abstract `Rpc` (a call gets its own answer or an error, once) refined by
   `RequestManager`; an abstract pool of ports refined by `ServerPool` as far as it holds.
5. `RateLimiter` and `StateCache`: bounds and arithmetic against a reference.
6. The web client before a game (`pregame.js`) and its tables of research (`tech.js`).
