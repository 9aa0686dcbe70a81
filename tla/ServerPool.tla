----------------------------- MODULE ServerPool -----------------------------
(***************************************************************************)
(* The pool of civservers: the metaserver's tables `servers` and           *)
(* `game_allocations` with the servlets that write them (ServerAllocator,  *)
(* ServerRelease, Metaserver), the civservers that report to it, publite2  *)
(* that starts them again, and the proxy's GameSessionManager, which asks  *)
(* for a port per game and gives it back.                                  *)
(*                                                                         *)
(* Each request of the allocator is two transactions (the stale cleanup    *)
(* commits on its own); the rows they lock make each of them one step.  A  *)
(* civserver's report is built now and stored later, by a thread.          *)
(***************************************************************************)
EXTENDS Naturals, FiniteSets

CONSTANTS
    Port,        \* ports of the multiplayer civservers
    Game,        \* game_ids
    None,        \* stands for null and None
    MaxRetries   \* METASERVER_MAX_RETRIES

ASSUME PoolAssumption ==
    /\ None \notin Port \cup Game
    /\ MaxRetries \in Nat \ {0}

VARIABLES
    row,     \* servers: the row of each port
    alloc,   \* game_allocations: the row of each game
    civ,     \* state of the civserver process of each port
    users,   \* games whose agents are connected to it
    used,    \* civservers that had a connection since they started
    post,    \* the report that a civserver's thread is sending
    local,   \* GameSessionManager.sessions: the port of each game
    lock,    \* the game that holds _port_lock to ask for a port
    call,    \* how far its request is, and the attempt it is at
    reply,   \* the port in the response
    rel      \* the release_civserver_port under way for each game, if any

tables == <<row, alloc>>
civs   == <<civ, users, used, post>>
proxy  == <<local, lock, call, reply, rel>>
vars   == <<tables, civs, proxy>>

NoRow  == [there |-> FALSE, pregame |-> FALSE, available |-> FALSE]
NoCall == [at |-> "idle", try |-> 0]

\* What a servers row and a report say of a civserver.
Rows == [there : BOOLEAN, pregame : BOOLEAN, available : BOOLEAN]

TypeOK ==
    /\ row \in [Port -> Rows]
    /\ alloc \in [Game -> [status : {"none", "held", "released"}, port : Port \cup {None},
                           seen : {"null", "recent", "old"}, aged : BOOLEAN]]
    /\ civ \in [Port -> {"down", "Pregame", "started"}]
    /\ users \in [Port -> SUBSET Game]
    /\ used \subseteq Port
    /\ post \in [Port -> Rows \cup {None}]
    /\ local \in [Game -> Port \cup {None}]
    /\ lock \in Game \cup {None}
    /\ call \in [at : {"idle", "cleanup", "select", "answer"}, try : 0 .. MaxRetries]
    /\ reply \in Port \cup {None}
    /\ rel \in [Game -> {"none", "on_close", "sweep"}]

\* publite2 has started the civservers and they have reported.
Init ==
    /\ row = [p \in Port |-> [there |-> TRUE, pregame |-> TRUE, available |-> TRUE]]
    /\ alloc = [g \in Game |-> [status |-> "none", port |-> None,
                                seen |-> "null", aged |-> FALSE]]
    /\ civ = [p \in Port |-> "Pregame"]
    /\ users = [p \in Port |-> {}]
    /\ used = {}
    /\ post = [p \in Port |-> None]
    /\ local = [g \in Game |-> None]
    /\ lock = None
    /\ call = NoCall
    /\ reply = None
    /\ rel = [g \in Game |-> "none"]

-----------------------------------------------------------------------------
(* allocate_civserver_port and ServerAllocator.doPost.                     *)

\* A game that has no GameSession here asks the metaserver for a port, holding
\* _port_lock until it has one or gives up.
Ask(g) ==
    /\ local[g] = None /\ lock = None
    /\ lock' = g
    /\ call' = [at |-> "cleanup", try |-> 1]
    /\ UNCHANGED <<tables, civs, local, reply, rel>>

\* Allocations nobody has asked for again in ten minutes, of civservers that
\* are taken and in Pregame.  last_seen is null until the game asks again, and
\* a null last_seen is not older than anything.
Stale == {g \in Game : /\ alloc[g].status = "held" /\ alloc[g].seen = "old"
                       /\ row[alloc[g].port].there /\ row[alloc[g].port].pregame
                       /\ ~row[alloc[g].port].available}

\* An allocation with its released_at set: its times are not read again.
Freed(a) == [a EXCEPT !.status = "released", !.seen = "null", !.aged = FALSE]

\* cleanupStaleAllocations.
Cleanup ==
    /\ call.at = "cleanup"
    /\ row' = [p \in Port |-> IF \E g \in Stale : alloc[g].port = p
                              THEN [row[p] EXCEPT !.available = TRUE] ELSE row[p]]
    /\ alloc' = [g \in Game |-> IF g \in Stale
                                THEN Freed(alloc[g]) ELSE alloc[g]]
    /\ call' = [call EXCEPT !.at = "select"]
    /\ UNCHANGED <<civs, local, lock, reply, rel>>

\* The game has an allocation that is not released, less than a day old.
Reusable(g) == alloc[g].status = "held" /\ ~alloc[g].aged

\* "Return existing allocation (reconnection case)".
Reuse ==
    /\ call.at = "select" /\ Reusable(lock)
    /\ alloc' = [alloc EXCEPT ![lock].seen = "recent"]
    /\ reply' = alloc[lock].port
    /\ call' = [call EXCEPT !.at = "answer"]
    /\ UNCHANGED <<row, civs, local, lock, rel>>

\* INSERT INTO game_allocations ... ON DUPLICATE KEY UPDATE: only the update
\* sets last_seen.
Allots(g, p) ==
    alloc' = [alloc EXCEPT ![g] =
        [status |-> "held", port |-> p,
         seen   |-> IF alloc[g].status = "none" THEN "null" ELSE "recent",
         aged   |-> FALSE]]

\* Mutant of Assign: a game that has an allocation is given another port.
AssignAnew(p) ==
    /\ call.at = "select"
    /\ row[p].there /\ row[p].pregame /\ row[p].available
    /\ civ[p] # "down"
    /\ row' = [row EXCEPT ![p].available = FALSE]
    /\ Allots(lock, p)
    /\ reply' = p
    /\ call' = [call EXCEPT !.at = "answer"]
    /\ UNCHANGED <<civs, local, lock, rel>>

\* A row in Pregame, available and listening is marked unavailable.
Assign(p) ==
    /\ call.at = "select" /\ ~Reusable(lock)
    /\ row[p].there /\ row[p].pregame /\ row[p].available
    /\ civ[p] # "down"
    /\ row' = [row EXCEPT ![p].available = FALSE]
    /\ Allots(lock, p)
    /\ reply' = p
    /\ call' = [call EXCEPT !.at = "answer"]
    /\ UNCHANGED <<civs, local, lock, rel>>

\* 503: no candidate, none that answers in time, or all locked by another
\* transaction (SKIP LOCKED).
Refuse ==
    /\ call.at = "select" /\ ~Reusable(lock)
    /\ call' = [call EXCEPT !.at = "answer"]
    /\ UNCHANGED <<tables, civs, local, lock, reply, rel>>

\* The port is received and the placeholder GameSession made.
Answer ==
    /\ call.at = "answer" /\ reply # None
    /\ local' = [local EXCEPT ![lock] = reply]
    /\ lock' = None
    /\ call' = NoCall
    /\ reply' = None
    /\ UNCHANGED <<tables, civs, rel>>

\* Mutant of AskAgain: the last attempt is followed by one more.
AskOnceMore ==
    IF call.try <= MaxRetries
    THEN /\ call' = [at |-> "cleanup", try |-> call.try + 1]
         /\ UNCHANGED lock
    ELSE call' = NoCall /\ lock' = None

\* Another attempt, or "No multiplayer servers available".
AskAgain ==
    IF call.try < MaxRetries
    THEN /\ call' = [at |-> "cleanup", try |-> call.try + 1]
         /\ UNCHANGED lock
    ELSE call' = NoCall /\ lock' = None

\* The response is a 503, or it or the request is lost; any other error is
\* final.
NoAnswer ==
    /\ call.at \in {"cleanup", "answer"}
    /\ AskAgain \/ (call' = NoCall /\ lock' = None)
    /\ reply' = None
    /\ UNCHANGED <<tables, civs, local, rel>>

\* Ten minutes, and a day, after the allocation was last asked for and made.
GoesUnseen(g) ==
    /\ alloc[g].status = "held" /\ alloc[g].seen = "recent"
    /\ alloc' = [alloc EXCEPT ![g].seen = "old"]
    /\ UNCHANGED <<row, civs, proxy>>

Ages(g) ==
    /\ alloc[g].status = "held" /\ ~alloc[g].aged
    /\ alloc' = [alloc EXCEPT ![g].aged = TRUE]
    /\ UNCHANGED <<row, civs, proxy>>

-----------------------------------------------------------------------------
(* release_civserver_port and ServerRelease.doPost.                        *)

\* The last player has left, and on_close (which keeps the GameSession) or the
\* periodic sweep (which removes it) releases the port.
BeginRelease(g, by) ==
    /\ local[g] # None /\ rel[g] = "none"
    /\ \A p \in Port : g \notin users[p]
    /\ rel' = [rel EXCEPT ![g] = by]
    /\ UNCHANGED <<tables, civs, local, lock, call, reply>>

\* The port is available again, whoever has it, and the game's allocation is
\* released.
Release(g) ==
    /\ row' = [row EXCEPT ![local[g]] = [there |-> @.there, pregame |-> @.there,
                                         available |-> @.there]]
    /\ alloc' = [alloc EXCEPT ![g] = IF @.status = "held" THEN Freed(@) ELSE @]

\* The response is success, or 404 when there is no row.
Released(g) ==
    /\ rel[g] # "none"
    /\ Release(g)
    /\ rel' = [rel EXCEPT ![g] = "none"]
    /\ local' = IF rel[g] = "sweep" THEN [local EXCEPT ![g] = None] ELSE local
    /\ UNCHANGED <<civs, lock, call, reply>>

\* The request or its response is lost: another attempt, or none is left.
ReleaseUnanswered(g) ==
    /\ rel[g] # "none"
    /\ Release(g) \/ UNCHANGED <<row, alloc>>
    /\ rel' \in {rel, [rel EXCEPT ![g] = "none"]}
    /\ UNCHANGED <<civs, local, lock, call, reply>>

\* The proxy is restarted and the connections of its agents are gone.
ProxyRestarts ==
    /\ local' = [g \in Game |-> None]
    /\ lock' = None
    /\ call' = NoCall
    /\ reply' = None
    /\ rel' = [g \in Game |-> "none"]
    /\ users' = [p \in Port |-> {}]
    /\ UNCHANGED <<tables, civ, used, post>>

-----------------------------------------------------------------------------
(* The civserver, its reports, and publite2.                               *)

\* An agent of the game connects to the port of its GameSession.
Connect(g) ==
    LET p == local[g]
    IN  /\ p # None /\ civ[p] # "down"
        /\ g \notin users[p]
        /\ users' = [users EXCEPT ![p] = @ \cup {g}]
        /\ used' = used \cup {p}
        /\ UNCHANGED <<tables, civ, post, proxy>>

Disconnect(g, p) ==
    /\ g \in users[p]
    /\ users' = [users EXCEPT ![p] = @ \ {g}]
    /\ UNCHANGED <<tables, civ, used, post, proxy>>

\* The players are ready: the state is Running, and Game Ended later, which
\* makes no difference here.
Start(p) ==
    /\ civ[p] = "Pregame" /\ users[p] # {}
    /\ civ' = [civ EXCEPT ![p] = "started"]
    /\ UNCHANGED <<tables, users, used, post, proxy>>

\* A report is built and its thread started, every minute and on events.  Its
\* `available` counts the players that an agent could take: both A.I. players
\* until agents take them.
Report(p) ==
    /\ civ[p] # "down" /\ post[p] = None
    /\ \E free \in BOOLEAN :
          /\ users[p] = {} => free
          /\ post' = [post EXCEPT ![p] = [there |-> TRUE, pregame |-> civ[p] = "Pregame",
                                          available |-> free]]
    /\ UNCHANGED <<tables, civ, users, used, proxy>>

\* Mutant of Deliver: a report does not touch `available` of a row there is.
DeliverKeeping(p) ==
    /\ post[p] # None
    /\ row' = [row EXCEPT ![p] = IF @.there /\ post[p].there
                                 THEN [post[p] EXCEPT !.available = row[p].available]
                                 ELSE post[p]]
    /\ post' = [post EXCEPT ![p] = None]
    /\ UNCHANGED <<alloc, civ, users, used, proxy>>

\* Metaserver.doPost stores the report, or deletes the row.
Deliver(p) ==
    /\ post[p] # None
    /\ row' = [row EXCEPT ![p] = post[p]]
    /\ post' = [post EXCEPT ![p] = None]
    /\ UNCHANGED <<alloc, civ, users, used, proxy>>

\* The metaserver cannot be reached: the report is lost, and a later one is
\* tried (--keep).
PostFails(p) ==
    /\ post[p] # None
    /\ post' = [post EXCEPT ![p] = None]
    /\ UNCHANGED <<tables, civ, users, used, proxy>>

\* Everyone has left, for --quitidle seconds or after the end of the game: the
\* civserver waits for its thread, says goodbye and exits.
Quit(p) ==
    /\ civ[p] # "down" /\ users[p] = {} /\ p \in used
    /\ post[p] = None
    /\ civ' = [civ EXCEPT ![p] = "down"]
    /\ used' = used \ {p}
    /\ post' = [post EXCEPT ![p] = NoRow]
    /\ UNCHANGED <<tables, users, proxy>>

\* It crashes, and its row stays.
Crash(p) ==
    /\ civ[p] # "down"
    /\ civ' = [civ EXCEPT ![p] = "down"]
    /\ users' = [users EXCEPT ![p] = {}]
    /\ used' = used \ {p}
    /\ post' = [post EXCEPT ![p] = None]
    /\ UNCHANGED <<tables, proxy>>

\* Civlauncher.run starts it again.
Launch(p) ==
    /\ civ[p] = "down" /\ post[p] = None
    /\ civ' = [civ EXCEPT ![p] = "Pregame"]
    /\ UNCHANGED <<tables, users, used, post, proxy>>

Call == Cleanup \/ Reuse \/ (\E p \in Port : Assign(p)) \/ Refuse \/ Answer \/ NoAnswer

Civserver(p) ==
    \/ Start(p) \/ Quit(p) \/ Crash(p) \/ Launch(p)
    \/ Report(p) \/ Deliver(p) \/ PostFails(p)

Next ==
    \/ \E g \in Game : Ask(g) \/ GoesUnseen(g) \/ Ages(g)
    \/ Call
    \/ \E g \in Game : Released(g) \/ ReleaseUnanswered(g)
    \/ \E g \in Game, by \in {"on_close", "sweep"} : BeginRelease(g, by)
    \/ ProxyRestarts
    \/ \E g \in Game : Connect(g) \/ \E p \in Port : Disconnect(g, p)
    \/ \E p \in Port : Civserver(p)

Spec == Init /\ [][Next]_vars

\* The civserver's main loop reports and, waiting for its thread, exits; the
\* thread delivers; publite2 starts the civserver again.  Strong fairness: a
\* civserver does not crash every time before it reports, and the metaserver
\* is not out of reach every time.
Fairness == \A p \in Port :
    /\ SF_vars(Report(p)) /\ SF_vars(Deliver(p))
    /\ SF_vars(Quit(p)) /\ WF_vars(Launch(p))

FairSpec == Spec /\ Fairness

-----------------------------------------------------------------------------
(* Properties.                                                             *)

\* The port that the proxy plays a game on is the one that game_allocations
\* names.
LocalMatchesTable == \A g \in Game : local[g] # None => alloc[g].port = local[g]

\* Until its allocation is released, found stale or a day old, the port of a
\* game does not move, and a request for it is answered with that port; and a
\* GameSession is given no other port than the one held for its game.
PortKept(g) ==
    /\ Reusable(g) => alloc'[g].port = alloc[g].port
    /\ (lock = g /\ call.at = "select" /\ call'.at = "answer" /\ Reusable(g))
          => reply' = alloc[g].port
    /\ local'[g] \notin {local[g], None}
          => alloc[g].status = "held" /\ local'[g] = alloc[g].port

\* "Same port returned for same game_id on reconnection": when a request is
\* tried again because its response was lost, after a restart of the proxy,
\* whatever the civservers report meanwhile and whatever ports are free.
SamePort == [][\A g \in Game : PortKept(g)]_vars

\* A civserver nobody is connected to can be allocated in the end, whatever
\* became of the game that had it.
PortReturns == \A p \in Port :
    (users[p] = {}) ~> \/ row[p].there /\ row[p].pregame /\ row[p].available
                       \/ users[p] # {}

\* "Multiple concurrent LLM games can run without collision".
OneGamePerServer == \A p \in Port : Cardinality(users[p]) <= 1
=============================================================================
