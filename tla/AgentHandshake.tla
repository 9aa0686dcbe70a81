---------------------------- MODULE AgentHandshake ----------------------------
(***************************************************************************)
(* One agent's handler in the gateway, from the message loop to the end    *)
(* (AgentWebSocketHandler, llm-gateway/websocket_handlers.py): the task    *)
(* that serves the agent (main), a listener for each connection it opened  *)
(* to the proxy, and a watchdog for each llm_connect it forwarded.  They   *)
(* share the handler's fields and cancel one another; asyncio switches     *)
(* between them at an await only, and a cancelled task is told so when it  *)
(* runs next.                                                              *)
(***************************************************************************)
EXTENDS Naturals

CONSTANTS Link,    \* the connections to the proxy, one per llm_connect that gets one
          NoLink

ASSUME HandshakeAssumption == NoLink \notin Link

VARIABLES
    main,              \* where handle_connection is
    authenticated, proxy_connection,
    new_connection,    \* the local variable, until it is assigned
    listener_task,         \* _proxy_listener_task
    timeout_task,          \* _auth_timeout_task
    listener,          \* the listeners, by the connection they were started for
    watchdog,          \* the watchdogs, likewise
    link,              \* the connections
    confirmed,         \* those on which the proxy has sent auth_success
    heard              \* what the agent was told since its last llm_connect

ownFields == <<authenticated, proxy_connection>>
taskFields == <<listener_task, timeout_task, listener, watchdog>>
linkState == <<link, confirmed, heard>>
handshakeVars == <<main, authenticated, proxy_connection, new_connection, listener_task,
                   timeout_task, listener, watchdog, link, confirmed, heard>>

Listeners == [at : {"none", "receiving", "unguarding", "registering", "closing", "done"},
              on : Link \cup {NoLink}, awaits : Link \cup {NoLink}, cancelled : BOOLEAN]

\* A listener that is started for connection l, or for none.
Listener(at, l) == [at |-> at, on |-> l, awaits |-> NoLink, cancelled |-> FALSE]

HandshakeTypeOK ==
    /\ main \in {"receiving", "opening", "replacing", "greeting", "unguarding", "unlistening",
                 "closing", "done"}
    /\ authenticated \in BOOLEAN
    /\ {proxy_connection, new_connection, listener_task, timeout_task} \subseteq Link \cup {NoLink}
    /\ listener \in [Link -> Listeners]
    /\ watchdog \in [Link -> {"none", "asleep", "telling", "cancelled", "done"}]
    /\ link \in [Link -> {"new", "open", "closed"}]
    /\ confirmed \subseteq Link
    /\ heard \in {"idle", "nothing", "auth", "error"}

Init_handshake ==
    /\ main = "receiving"
    /\ authenticated = FALSE /\ proxy_connection = NoLink
    /\ new_connection = NoLink /\ listener_task = NoLink /\ timeout_task = NoLink
    /\ listener = [l \in Link |-> Listener("none", NoLink)]
    /\ watchdog = [w \in Link |-> "none"]
    /\ link = [l \in Link |-> "new"]
    /\ confirmed = {}
    /\ heard = "idle"

Alive(l)  == listener[l].at \notin {"none", "done"}
Awake(w)  == watchdog[w] \in {"asleep", "telling"}
Listened  == listener_task # NoLink /\ Alive(listener_task)
Guarded   == timeout_task # NoLink /\ (Awake(timeout_task) \/ watchdog[timeout_task] = "cancelled")

\* task.cancel(), if the task is not done.
CancelListener ==
    listener' = IF Listened THEN [listener EXCEPT ![listener_task].cancelled = TRUE] ELSE listener
CancelWatchdog ==
    watchdog' = IF Guarded THEN [watchdog EXCEPT ![timeout_task] = "cancelled"] ELSE watchdog

\* proxy_connection.close(), if there is one.
CloseLink ==
    link' = IF proxy_connection = NoLink THEN link
            ELSE [link EXCEPT ![proxy_connection] = "closed"]

-----------------------------------------------------------------------------
(* The task that serves the agent.                                         *)

\* An llm_connect: what _connect_to_proxy_and_forward does before it connects.
Connect ==
    /\ main = "receiving"
    /\ main' = "opening" /\ authenticated' = FALSE /\ heard' = "nothing"
    /\ UNCHANGED <<proxy_connection, new_connection, taskFields, link, confirmed>>

\* Connected, within the attempts: the listener there is has to go first.
Opened ==
    /\ main = "opening"
    /\ \E l \in Link : /\ link[l] = "new"
                       /\ link' = [link EXCEPT ![l] = "open"]
                       /\ new_connection' = l
    /\ CancelListener
    /\ main' = "replacing"
    /\ UNCHANGED <<ownFields, listener_task, timeout_task, watchdog, confirmed, heard>>

\* All attempts failed; whatever there was stays as it is.
OpenFails ==
    /\ main = "opening"
    /\ main' = "receiving" /\ heard' = "error"
    /\ UNCHANGED <<ownFields, new_connection, taskFields, link, confirmed>>

\* Mutant of Replaced: the cancelled listener is not awaited.
ReplacedAtOnce ==
    /\ main = "replacing"
    /\ proxy_connection' = new_connection
    /\ listener_task' = new_connection
    /\ listener' = [listener EXCEPT ![new_connection] = Listener("receiving", new_connection)]
    /\ main' = "greeting"
    /\ UNCHANGED <<authenticated, new_connection, timeout_task, watchdog, linkState>>

\* A cancelled listener has been awaited; the next one starts.
Replaced ==
    /\ main = "replacing"
    /\ ~Listened
    /\ proxy_connection' = new_connection
    /\ listener_task' = new_connection
    /\ listener' = [listener EXCEPT ![new_connection] = Listener("receiving", new_connection)]
    /\ main' = "greeting"
    /\ UNCHANGED <<authenticated, new_connection, timeout_task, watchdog, linkState>>

\* Mutant of Greeted: the attempt is not watched.
GreetedUnwatched ==
    /\ main = "greeting"
    /\ main' = "receiving" /\ new_connection' = NoLink
    /\ CancelWatchdog
    /\ UNCHANGED <<ownFields, listener_task, timeout_task, listener, linkState>>

\* The llm_connect has been sent: its watchdog takes over from the one before,
\* which is cancelled and not awaited.
Greeted ==
    /\ main = "greeting"
    /\ main' = "receiving" /\ new_connection' = NoLink
    /\ timeout_task' = new_connection
    /\ watchdog' = [w \in Link |-> IF w = new_connection      THEN "asleep"
                                   ELSE IF w = timeout_task /\ Guarded THEN "cancelled"
                                   ELSE watchdog[w]]
    /\ UNCHANGED <<ownFields, listener_task, listener, linkState>>

\* send() finds the connection closed: an error, and no watchdog.
GreetFails ==
    /\ main = "greeting"
    /\ link[new_connection] = "closed"
    /\ main' = "receiving" /\ new_connection' = NoLink /\ heard' = "error"
    /\ UNCHANGED <<ownFields, taskFields, link, confirmed>>

\* The agent is gone: the finally of handle_connection, up to its first await.
Leave ==
    /\ main = "receiving"
    /\ main' = "unguarding"
    /\ CancelWatchdog
    /\ UNCHANGED <<ownFields, new_connection, listener_task, timeout_task, listener, linkState>>

\* ... the watchdog has ended, the listener is next ...
Unguarded ==
    /\ main = "unguarding"
    /\ ~Guarded
    /\ main' = "unlistening"
    /\ CancelListener
    /\ UNCHANGED <<ownFields, new_connection, listener_task, timeout_task, watchdog, linkState>>

\* ... the listener has ended, the connection, if there is one, is closed ...
Unlistened ==
    /\ main = "unlistening"
    /\ ~Listened
    /\ main' = "closing"
    /\ CloseLink
    /\ UNCHANGED <<ownFields, new_connection, taskFields, confirmed, heard>>

\* ... and the rest is ConnectionManager's (Leave and Finish there).
Left ==
    /\ main = "closing"
    /\ main' = "done"
    /\ proxy_connection' = NoLink
    /\ UNCHANGED <<authenticated, new_connection, taskFields, linkState>>

Main == \/ Connect \/ Opened \/ OpenFails \/ Replaced \/ Greeted \/ GreetFails
        \/ Leave \/ Unguarded \/ Unlistened \/ Left

-----------------------------------------------------------------------------
(* _listen_to_proxy.                                                       *)

Receives(l) == listener[l].at = "receiving" /\ ~listener[l].cancelled

\* Where a listener goes: the next turn of its loop, and its finally, which
\* closes whatever connection the handler has.
Loops(l) ==
    /\ listener' = [listener EXCEPT ![l] =
          IF proxy_connection = NoLink THEN [@ EXCEPT !.at = "done", !.cancelled = FALSE]
          ELSE [@ EXCEPT !.at = "receiving", !.on = proxy_connection]]
    /\ UNCHANGED link
Finishes(l) ==
    /\ listener' = [listener EXCEPT
                       ![l].at = IF proxy_connection = NoLink THEN "done" ELSE "closing",
                       ![l].cancelled = FALSE]
    /\ CloseLink

\* auth_success, which stops the watchdog, if there is one, and waits for its end.
\* (Other messages are passed on, and change nothing here.)
GetsAuth(l) ==
    /\ Receives(l)
    /\ link[listener[l].on] = "open" /\ listener[l].on \notin confirmed
    /\ confirmed' = confirmed \cup {listener[l].on}
    /\ authenticated' = TRUE
    /\ CancelWatchdog
    /\ listener' = [listener EXCEPT ![l].at = IF Guarded THEN "unguarding" ELSE "registering",
                                    ![l].awaits = IF Guarded THEN timeout_task ELSE NoLink]
    /\ UNCHANGED <<main, proxy_connection, new_connection, listener_task, timeout_task,
                   link, heard>>

\* The watchdog has ended.  A cancellation of the listener meanwhile looks the
\* same to its `except CancelledError: pass`: it is lost, and the listener goes on.
WatchdogGone(l) ==
    /\ listener[l].at = "unguarding"
    /\ watchdog[listener[l].awaits] = "done"
    /\ listener' = [listener EXCEPT ![l].at = "registering", ![l].awaits = NoLink,
                                    ![l].cancelled = FALSE]
    /\ UNCHANGED <<main, ownFields, new_connection, listener_task, timeout_task,
                   watchdog, linkState>>

\* The registry, the pool and the game know, and the agent is told.
TellsAuth(l) ==
    /\ listener[l].at = "registering" /\ ~listener[l].cancelled
    /\ heard' = "auth"
    /\ Loops(l)
    /\ UNCHANGED <<main, ownFields, new_connection, listener_task, timeout_task,
                   watchdog, confirmed>>

\* A terminal error, passed on, ends the listener.
GetsError(l) ==
    /\ Receives(l)
    /\ link[listener[l].on] = "open"
    /\ heard' = "error"
    /\ Finishes(l)
    /\ UNCHANGED <<main, ownFields, new_connection, listener_task, timeout_task,
                   watchdog, confirmed>>

\* recv() finds the connection closed, or the listener learns that it is cancelled.
Quits(l) ==
    /\ \/ Receives(l) /\ link[listener[l].on] = "closed"
       \/ listener[l].cancelled /\ listener[l].at \in {"receiving", "registering"}
    /\ Finishes(l)
    /\ UNCHANGED <<main, ownFields, new_connection, listener_task, timeout_task, watchdog,
                   confirmed, heard>>

\* close() has returned, or was cancelled, and then the field keeps its value.
Closed(l) ==
    /\ listener[l].at = "closing"
    /\ listener' = [listener EXCEPT ![l].at = "done", ![l].cancelled = FALSE]
    /\ proxy_connection' = IF listener[l].cancelled THEN proxy_connection ELSE NoLink
    /\ UNCHANGED <<main, authenticated, new_connection, listener_task, timeout_task,
                   watchdog, linkState>>

\* What goes on by itself, and what the proxy says.
GoesOn(l) == WatchdogGone(l) \/ TellsAuth(l) \/ Quits(l) \/ Closed(l)
Listen(l) == GoesOn(l) \/ GetsAuth(l) \/ GetsError(l)

-----------------------------------------------------------------------------
(* _auth_timeout_watchdog, and the proxy.                                  *)

\* The time is over.
Fires(w) ==
    /\ watchdog[w] = "asleep"
    /\ watchdog' = [watchdog EXCEPT ![w] = IF authenticated THEN "done" ELSE "telling"]
    /\ UNCHANGED <<main, ownFields, new_connection, listener_task, timeout_task, listener, linkState>>

\* The agent has been told; the listener there is by now is cancelled.
Told(w) ==
    /\ watchdog[w] = "telling"
    /\ watchdog' = [watchdog EXCEPT ![w] = "done"]
    /\ heard' = "error"
    /\ CancelListener
    /\ UNCHANGED <<main, ownFields, new_connection, listener_task, timeout_task, link, confirmed>>

\* A cancelled watchdog ends.
Dismissed(w) ==
    /\ watchdog[w] = "cancelled"
    /\ watchdog' = [watchdog EXCEPT ![w] = "done"]
    /\ UNCHANGED <<main, ownFields, new_connection, listener_task, timeout_task, listener, linkState>>

Watch(w) == Fires(w) \/ Told(w) \/ Dismissed(w)

\* The proxy, or the network, ends a connection.
Drops(l) ==
    /\ link[l] = "open"
    /\ link' = [link EXCEPT ![l] = "closed"]
    /\ UNCHANGED <<main, ownFields, new_connection, taskFields, confirmed, heard>>

Next_handshake == \/ Main \/ \E l \in Link : Listen(l) \/ Watch(l) \/ Drops(l)

\* What was awaited comes to its end: connecting (attempts and their timeouts
\* are bounded), sending, closing; watchdogs wake up, and a cancelled task and
\* one whose connection is closed hear of it.  The agent and the proxy need
\* never say anything.
HandshakeFairness ==
    /\ WF_handshakeVars(Opened \/ OpenFails)
    /\ WF_handshakeVars(Greeted \/ GreetFails)
    /\ WF_handshakeVars(Replaced \/ Unguarded \/ Unlistened \/ Left)
    /\ \A l \in Link : /\ WF_handshakeVars(GoesOn(l)) /\ WF_handshakeVars(Watch(l))

HandshakeSpec == Init_handshake /\ [][Next_handshake]_handshakeVars

HandshakeFairSpec == HandshakeSpec /\ HandshakeFairness

-----------------------------------------------------------------------------
(* Properties.                                                             *)

\* "Prevent multiple recv() coroutines": no connection has two readers.
OneReader == \A l, m \in Link :
    Receives(l) /\ Receives(m) /\ listener[l].on = listener[m].on => l = m

\* An open connection is within reach of who will close it.
NoneForgotten == \A l \in Link : link[l] = "open" => l \in {proxy_connection, new_connection}

\* A handler that is through leaves no task and no connection behind.
NothingLeft == main = "done" => \A l \in Link : ~Alive(l) /\ ~Awake(l) /\ link[l] # "open"

\* An agent whose messages are passed on hears the answers.
Answered == main = "receiving" /\ authenticated /\ proxy_connection # NoLink => Listened

HandshakeSound == /\ HandshakeTypeOK
                  /\ OneReader /\ NoneForgotten /\ NothingLeft /\ Answered

\* A cancellation was lost: main awaits a listener that does not know of it.
Deaf == /\ main \in {"replacing", "unlistening"} /\ Listened
        /\ listener[listener_task].at \in {"receiving", "registering"}
        /\ ~listener[listener_task].cancelled
\* "Reset auth state for this (re)connection cycle ... so the watchdog provides
\* timeout protection on every auth attempt": an auth_success of the earlier
\* connection, late, has set it again.
Misled == authenticated /\ proxy_connection \notin confirmed

\* An attempt is answered, by the proxy or by the watchdog, unless the agent is
\* taken for authenticated; and the handler of an agent that left comes to its
\* end, unless it waits for a listener that does not know.
HandshakeEnds ==
    /\ heard = "nothing" ~> heard # "nothing" \/ main = "done" \/ Misled
    /\ main = "unguarding" ~> main = "done" \/ Deaf
=============================================================================
