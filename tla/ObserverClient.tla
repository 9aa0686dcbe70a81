--------------------------- MODULE ObserverClient ---------------------------
(***************************************************************************)
(* The web client of an observer: how it gets from the page's start to a   *)
(* map on the screen, and how it tries again when it does not.             *)
(*                                                                         *)
(* JavaScript runs one callback at a time, so every action is one whole    *)
(* callback: an event of a WebSocket, a packet, a timer, an answer of the  *)
(* launcher servlet or an animation frame.  Nothing orders the callbacks   *)
(* of different sources: two timers of different lengths may run in either *)
(* order, because the first may have been started long before the second.  *)
(*                                                                         *)
(* The variables of the page are one record, `page`, and a callback is a   *)
(* composition of functions on that record, one for each function it       *)
(* calls.  The WebSockets with what the civserver knows of each of them    *)
(* are `sock`.                                                             *)
(***************************************************************************)
EXTENDS Naturals, FiniteSets

CONSTANTS Sock,         \* WebSockets that can exist at one time (a bound)
          None,         \* `ws` is null
          Tile,         \* tiles of the map
          MaxRetries,   \* OBSERVER_MAX_RETRIES
          MaxPending,   \* MAX_PENDING_TILE_PACKETS
          MaxTimers,    \* callbacks of one kind that can be pending (a bound)
          MaxTimeouts   \* timeouts of requests to observe pending (a bound)

ASSUME ObserverAssumption == /\ None \notin Sock
                             /\ MaxRetries \in Nat
                             /\ MaxPending \in Nat
                             /\ MaxTimers \in Nat \ {0}
                             /\ MaxTimeouts \in Nat \ {0}
                             /\ IsFiniteSet(Tile)

VARIABLES page,   \* the variables of the page
          sock,   \* the WebSockets
          got     \* tiles received for the present map (history)

vars == <<page, sock, got>>

States == {"INITIAL", "PREPARING", "RUNNING", "OVER"}

\* network_init_called, the launcher's answers under way, `ws`, the polls of
\* check_websocket_ready and of wait_for_text, and the text they wait for;
\* the retries; civclient_state and game_info; the map and its tiles; the
\* renderer and its callbacks; what the parent page and the user were told.
Pages == [called : BOOLEAN, ajax : 0..MaxTimers, ws : Sock \cup {None},
          polls : 0..MaxTimers, waits : 0..MaxTimers, loggedIn : BOOLEAN,
          count : 0..MaxRetries, inProgress : BOOLEAN,
          retries : 0..MaxTimers, timeouts : 0..MaxTimeouts,
          state : States, started : BOOLEAN, map : BOOLEAN,
          tilesInit : BOOLEAN, pending : SUBSET Tile, tiles : SUBSET Tile,
          populated : BOOLEAN, rendered : BOOLEAN,
          rendering : 0..MaxTimers, frames : 0..MaxTimers,
          mapFrames : 0..MaxTimers, terrainReady : BOOLEAN, told : BOOLEAN]

\* readyState of a WebSocket (closed ones are `free`), how far the civserver
\* is with its client, whether it observes, and whether it has the map.
Socks == [ready : {"free", "connecting", "open", "closing"},
          srv : {"login", "answer", "greet", "in", "refused"},
          observed : BOOLEAN, mapSent : BOOLEAN]

FreeSock == [ready |-> "free", srv |-> "login", observed |-> FALSE,
             mapSent |-> FALSE]

\* The page before the first call of network_init.
BlankPage ==
  [called |-> FALSE, ajax |-> 0, ws |-> None, polls |-> 0, waits |-> 0,
   loggedIn |-> FALSE, count |-> 0, inProgress |-> FALSE, retries |-> 0,
   timeouts |-> 0, state |-> "INITIAL", started |-> FALSE, map |-> FALSE,
   tilesInit |-> FALSE, pending |-> {}, tiles |-> {}, populated |-> FALSE,
   rendered |-> FALSE, rendering |-> 0, frames |-> 0, mapFrames |-> 0,
   terrainReady |-> FALSE, told |-> FALSE]

TypeOK == /\ page \in Pages
          /\ sock \in [Sock -> Socks]
          /\ got \subseteq Tile

-----------------------------------------------------------------------------
(***************************************************************************)
(* Functions of the page                                                   *)
(***************************************************************************)

\* The guard keeps the page from asking the launcher twice.
network_init(p) == IF p.called THEN p
                   ELSE [p EXCEPT !.called = TRUE, !.ajax = @ + 1]

\* Sprites, textures and models are loaded: webgl_preload_complete() asks
\* for a server.
Init == /\ page = network_init(BlankPage)
        /\ sock = [s \in Sock |-> FreeSock]
        /\ got = {}

\* renderer_init: the mapcanvas fades in after 300 ms.
renderer_init(p) == IF p.state \in {"RUNNING", "OVER"}
                    THEN [p EXCEPT !.rendering = @ + 1] ELSE p

\* Entering RUNNING clears the chat box and starts the renderer.
set_client_state(p, new) ==
  IF p.state = new THEN p
  ELSE IF new = "RUNNING"
       THEN renderer_init([p EXCEPT !.state = new, !.loggedIn = FALSE])
       ELSE [p EXCEPT !.state = new]

update_client_state(p, new) ==
  LET q == set_client_state(p, new)
  IN  IF new = "RUNNING"
      THEN [q EXCEPT !.count = 0, !.inProgress = FALSE, !.pending = {}]
      ELSE q

\* network_stop() closes the WebSocket, whose close event is still to come.
StopSock(s, w) ==
  IF w = None \/ s[w].ready = "free" THEN s ELSE [s EXCEPT ![w].ready = "closing"]

\* Mutant: the guard of network_init stays set.
ResetKeepsGuard(p) ==
  [p EXCEPT !.ws = None, !.inProgress = FALSE, !.map = FALSE, !.tilesInit = FALSE,
            !.pending = {}, !.terrainReady = FALSE, !.populated = FALSE,
            !.rendered = FALSE, !.told = FALSE]

\* What the reset forgets; game_info, the client's state, the chat box, and
\* every timer that runs are left as they are.
reset_observer_state_for_retry(p) ==
  [p EXCEPT !.ws = None, !.called = FALSE, !.inProgress = FALSE,
            !.map = FALSE, !.tilesInit = FALSE, !.pending = {},
            !.terrainReady = FALSE, !.populated = FALSE,
            !.rendered = FALSE, !.told = FALSE]

\* send_request throws while the WebSocket is still connecting.
CanSend == page.ws = None \/ sock[page.ws].ready # "connecting"

\* A message sent now arrives if there is a WebSocket and it is open.
Reaches(s) == page.ws = s /\ sock[s].ready = "open"

Overflows(p) == ~p.tilesInit /\ Cardinality(p.pending) >= MaxPending

\* A tile packet: stored in the map, or kept until there is one.  At the
\* limit all that was kept is dropped, and the packet with it.
handle_tile_info(p, t) ==
  IF p.tilesInit THEN [p EXCEPT !.tiles = @ \cup {t}]
  ELSE IF Overflows(p)
       THEN [p EXCEPT !.pending = {}]
       ELSE [p EXCEPT !.pending = @ \cup {t}]

\* map_allocate makes every tile anew; the images are made before the
\* packets kept so far are replayed.
replay_pending_tile_packets(p) ==
  [p EXCEPT !.tiles = @ \cup p.pending, !.pending = {}]

map_allocate(p) == [p EXCEPT !.map = TRUE, !.tiles = {}, !.tilesInit = TRUE]

\* Mutant: nobody looks whether the renderer was ready before the map.
TerrainPopulatedOnly(p) == [p EXCEPT !.populated = TRUE]

\* A map that arrives when the renderer is ready asks for a frame itself.
TerrainPopulated(p) ==
  LET late == p.rendered /\ ~p.terrainReady
  IN  [p EXCEPT !.populated = TRUE,
                !.mapFrames = IF late THEN @ + 1 ELSE @]

\* Mutant: the packets kept are replayed before the tiles are made anew.
MapInfoReplaysFirst(p) ==
  LET q == TerrainPopulated(map_allocate(replay_pending_tile_packets(p)))
  IN  IF q.started /\ q.state = "PREPARING"
      THEN update_client_state(q, "RUNNING") ELSE q

handle_map_info(p) ==
  LET q == TerrainPopulated(replay_pending_tile_packets(map_allocate(p)))
  IN  IF q.started /\ q.state = "PREPARING"
      THEN update_client_state(q, "RUNNING") ELSE q

\* Mutant: a game starts although the map has not come.
GameInfoIgnoresMap(p, turn) ==
  LET q == [p EXCEPT !.started = turn]
  IN  IF q.started /\ q.state = "PREPARING"
      THEN update_client_state(q, "RUNNING") ELSE q

handle_game_info(p, turn) ==
  LET q == [p EXCEPT !.started = turn]
  IN  IF q.started /\ q.state = "PREPARING" /\ q.map
      THEN update_client_state(q, "RUNNING") ELSE q

handle_ruleset_control(p) ==
  IF p.state = "RUNNING" THEN p ELSE update_client_state(p, "PREPARING")

\* A message sent now is lost unless there is a WebSocket and it is open.
\* With the first login the civserver has an answer to give.
check_websocket_ready(p, k) ==
  IF p.ws # None /\ k[p.ws].ready = "open"
  THEN /\ page' = p
       /\ sock' = [k EXCEPT ![p.ws].srv = IF @ = "login" THEN "answer" ELSE @]
  ELSE /\ page' = [p EXCEPT !.polls = @ + 1]
       /\ sock' = k

-----------------------------------------------------------------------------
(***************************************************************************)
(* The launcher and the WebSockets                                         *)
(***************************************************************************)

\* The launcher has a port, and connection_delay is over.  `ws` is
\* overwritten, whatever it holds.
websocket_init ==
  /\ page.ajax > 0
  /\ \E s \in Sock :
       /\ sock[s].ready = "free" /\ s # page.ws
       /\ sock' = [sock EXCEPT ![s].ready = "connecting"]
       /\ page' = [page EXCEPT !.ajax = @ - 1, !.ws = s]
  /\ UNCHANGED got

\* The launcher has no port or cannot be reached: a dialog, nothing else.
LaunchFails ==
  /\ page.ajax > 0
  /\ page' = [page EXCEPT !.ajax = @ - 1, !.told = TRUE]
  /\ UNCHANGED <<sock, got>>

\* The login goes to `ws`, whichever WebSocket has opened.
onopen(s) ==
  /\ sock[s].ready = "connecting" /\ page.polls < MaxTimers
  /\ check_websocket_ready(page, [sock EXCEPT ![s].ready = "open"])
  /\ UNCHANGED got

PollReady ==
  /\ page.polls > 0
  /\ check_websocket_ready([page EXCEPT !.polls = @ - 1], sock)
  /\ UNCHANGED got

\* The part shared by onclose and the timeout: count, forget, and start the
\* timer that connects anew.
Retry(p, k, busy) ==
  /\ p.retries < MaxTimers
  /\ page' = [reset_observer_state_for_retry(p)
                EXCEPT !.count = p.count + 1, !.inProgress = busy,
                       !.retries = p.retries + 1]
  /\ sock' = StopSock(k, p.ws)
  /\ got' = {}

\* A WebSocket is closed, by the page or from outside.  The event belongs to
\* s, the retry closes `ws`.
onclose(s) ==
  LET closed == [sock EXCEPT ![s] = FreeSock]
      retry  == /\ page.state # "RUNNING"
                /\ page.count < MaxRetries
                /\ ~page.inProgress
  IN  /\ sock[s].ready # "free"
      /\ IF retry THEN Retry(page, closed, TRUE)
         ELSE /\ page' = [page EXCEPT !.told = TRUE]
              /\ sock' = closed
              /\ UNCHANGED got

\* Mutant: the flag of the retry under way is left to update_client_state.
RetryTimerKeepsFlag ==
  /\ page.retries > 0 /\ page.ajax < MaxTimers
  /\ page' = [network_init(page) EXCEPT !.retries = @ - 1]
  /\ UNCHANGED <<sock, got>>

\* OBSERVER_RETRY_DELAY_MS after a retry.
RetryTimer ==
  /\ page.retries > 0 /\ page.ajax < MaxTimers
  /\ page' = [network_init(page) EXCEPT !.retries = @ - 1, !.inProgress = FALSE]
  /\ UNCHANGED <<sock, got>>

\* Mutant: one retry too many.
TimeoutRetriesOnceMore ==
  LET p == [page EXCEPT !.timeouts = @ - 1]
  IN  /\ page.timeouts > 0
      /\ IF p.state = "RUNNING" \/ p.inProgress
         THEN page' = p /\ UNCHANGED <<sock, got>>
         ELSE Retry(p, sock, FALSE)

\* OBSERVER_INIT_TIMEOUT_MS after a request to observe, of this attempt to
\* connect or of an earlier one.
handle_observer_timeout_with_retry ==
  LET p == [page EXCEPT !.timeouts = @ - 1]
  IN  /\ page.timeouts > 0
      /\ IF p.state = "RUNNING" \/ p.inProgress
         THEN page' = p /\ UNCHANGED <<sock, got>>
         ELSE IF p.count < MaxRetries
              THEN Retry(p, sock, FALSE)
              ELSE /\ page' = [p EXCEPT !.told = TRUE]
                   /\ UNCHANGED <<sock, got>>

-----------------------------------------------------------------------------
(***************************************************************************)
(* Packets of the civserver.  A WebSocket that is not open delivers none.  *)
(***************************************************************************)
Established(s) == sock[s].ready = "open" /\ sock[s].srv \in {"greet", "in"}
Observed(s) == Established(s) /\ sock[s].observed

handle_server_join_reply(s) ==
  /\ sock[s].ready = "open" /\ sock[s].srv = "answer"
  /\ page.waits < MaxTimers
  /\ \/ /\ sock' = [sock EXCEPT ![s].srv = "greet"]
        /\ page' = IF CanSend
                   THEN [set_client_state(page, "PREPARING") EXCEPT !.waits = @ + 1]
                   ELSE page
     \/ /\ sock' = [sock EXCEPT ![s].srv = "refused"]
        /\ page' = [page EXCEPT !.told = TRUE]
  /\ UNCHANGED got

\* The text the observer waits for, once the message log shows it.
handle_chat_msg(s) ==
  /\ sock[s].ready = "open" /\ sock[s].srv = "greet"
  /\ sock' = [sock EXCEPT ![s].srv = "in"]
  /\ page' = [page EXCEPT !.loggedIn = TRUE]
  /\ UNCHANGED got

\* wait_for_text finds the text, of this connection or an earlier one: the
\* page asks to observe and starts the timeout.
request_observe_game ==
  /\ page.waits > 0 /\ page.loggedIn /\ page.timeouts < MaxTimeouts
  /\ page' = [page EXCEPT !.waits = @ - 1,
                          !.timeouts = IF CanSend THEN @ + 1 ELSE @]
  /\ sock' = [s \in Sock |->
                IF Reaches(s) /\ Established(s)
                THEN [sock[s] EXCEPT !.observed = TRUE] ELSE sock[s]]
  /\ UNCHANGED got

RulesetControl(s) ==
  /\ Established(s)
  /\ page' = handle_ruleset_control(page)
  /\ UNCHANGED <<sock, got>>

GameInfo(s) ==
  /\ Established(s) /\ page.rendering < MaxTimers
  /\ \E turn \in BOOLEAN : /\ page.started => turn
                          /\ page' = handle_game_info(page, turn)
  /\ UNCHANGED <<sock, got>>

\* What is counted as received for this map: the packets kept, and those
\* still to come.
MapInfo(s) ==
  /\ Observed(s) /\ page.mapFrames < MaxTimers /\ page.rendering < MaxTimers
  /\ page' = handle_map_info(page)
  /\ sock' = [sock EXCEPT ![s].mapSent = TRUE]
  /\ got' = page.pending

TileInfo(s, t) ==
  /\ Observed(s)
  /\ page' = handle_tile_info(page, t)
  /\ got' = IF Overflows(page) THEN {} ELSE got \cup {t}
  /\ UNCHANGED sock

\* The civserver starts a phase for those who have the map.  A page that
\* forgot its map drops what it kept.
handle_start_phase(s) ==
  /\ Observed(s) /\ sock[s].mapSent /\ page.rendering < MaxTimers
  /\ page' = update_client_state(page, "RUNNING")
  /\ got' = IF page.tilesInit THEN got ELSE {}
  /\ UNCHANGED sock

handle_endgame_report(s) ==
  /\ Observed(s)
  /\ page' = update_client_state(page, "OVER")
  /\ UNCHANGED <<sock, got>>

-----------------------------------------------------------------------------
(***************************************************************************)
(* The renderer                                                            *)
(***************************************************************************)

\* 300 ms after renderer_init: renderer_ready, and a frame is asked for.
FadeIn ==
  /\ page.rendering > 0 /\ page.frames < MaxTimers
  /\ page' = [page EXCEPT !.rendering = @ - 1, !.rendered = TRUE,
                          !.frames = @ + 1]
  /\ UNCHANGED <<sock, got>>

\* The frame renderer_init asked for: terrain_ready, unless the map is late.
RendererFrame ==
  /\ page.frames > 0
  /\ page' = [page EXCEPT !.frames = @ - 1,
                          !.terrainReady = @ \/ (page.populated /\ page.map)]
  /\ UNCHANGED <<sock, got>>

\* The frame a late map asked for.
MapFrame ==
  /\ page.mapFrames > 0
  /\ page' = [page EXCEPT !.mapFrames = @ - 1, !.terrainReady = TRUE]
  /\ UNCHANGED <<sock, got>>

Launcher == websocket_init \/ LaunchFails
PageTimers == \/ PollReady \/ RetryTimer \/ handle_observer_timeout_with_retry
          \/ request_observe_game \/ FadeIn \/ RendererFrame \/ MapFrame
Packets(s) == \/ handle_server_join_reply(s) \/ handle_chat_msg(s)
              \/ RulesetControl(s) \/ GameInfo(s) \/ MapInfo(s)
              \/ (\E t \in Tile : TileInfo(s, t))
              \/ handle_start_phase(s) \/ handle_endgame_report(s)

Next == \/ Launcher \/ PageTimers
        \/ \E s \in Sock : onopen(s) \/ onclose(s) \/ Packets(s)

Spec == Init /\ [][Next]_vars

-----------------------------------------------------------------------------
(***************************************************************************)
(* Properties                                                              *)
(***************************************************************************)

\* The game starts only with the map of the present attempt to connect: what
\* an earlier attempt left behind (its game_info, its map) never starts it
\* before handle_map_info made the tiles (packhand.js 620-625, and the reset
\* of `map` in civclient.js 1922-1927).  Only a stray WebSocket, one that is
\* open without being `ws`, can start a game without a map.
Stray == \E s \in Sock : sock[s].ready = "open" /\ s # page.ws
Starts == page.state # "RUNNING" /\ page'.state = "RUNNING"
StartsWithTiles == [][Starts /\ ~Stray => page'.map /\ page'.tilesInit]_vars

\* No tile packet is lost between the buffer, the map and the replay: what
\* came for this map is in its tiles or waits for it, unless the buffer was
\* dropped for its length (handle_tile_info, replay_pending_tile_packets,
\* and update_client_state, which empties the buffer).
NoTileLost == got \subseteq page.tiles \cup page.pending

\* While a retry is said to be in progress, its timer runs: the flag that
\* holds off every further retry is never left behind (clinet.js 172-189,
\* civclient.js 1851-1865).
RetryHasTimer == page.inProgress => page.retries > 0

\* An observer without a game has something to wait for: the launcher, a
\* retry, or a WebSocket that is not closed; or somebody was told that it
\* failed.  This is what the guard of network_init, its reset and the two
\* ways to retry must achieve together.
NeverStuck ==
  page.state # "RUNNING" =>
    \/ page.ajax > 0 \/ page.retries > 0 \/ page.told
    \/ \E s \in Sock : sock[s].ready # "free"

\* A retry that was promised comes, there are no more of them than allowed
\* (TypeOK), and somebody is told when none will come.
RetriesSound == TypeOK /\ RetryHasTimer /\ NeverStuck

\* The parent page hides its overlay when it is told terrain_ready.  A page
\* that runs with its terrain in place has told it, or a callback that will
\* tell it is pending, in whatever order the map and the renderer's timer
\* and frame came (renderer_main.js 93-124, packhand.js 588-603).
TerrainTold ==
  page.state = "RUNNING" /\ page.populated /\ ~page.terrainReady =>
    page.rendering > 0 \/ page.frames > 0 \/ page.mapFrames > 0

\* What the packets, the frames and the timers bring arrives in the page.
NothingMissed == NoTileLost /\ TerrainTold
=============================================================================
