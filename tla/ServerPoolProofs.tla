-------------------------- MODULE ServerPoolProofs --------------------------
(***************************************************************************)
(* A game keeps its port, and the proxy plays it on the port that          *)
(* game_allocations names, for every set of ports and games.  Alone this   *)
(* is not inductive: the port is in the table before it is in the proxy,   *)
(* so the invariant also says what the request under way has in hand, that *)
(* a game with a GameSession never asks, and that only a game that has one *)
(* is being released.                                                      *)
(***************************************************************************)
EXTENDS ServerPool, TLAPS

\* Who asks has no GameSession, and a request has an asker.
Asker == /\ call.at # "idle" => lock # None
         /\ lock # None => local[lock] = None

\* The port in the response is held for the game.
ReplyMatches == call.at = "answer" /\ reply # None
                  => alloc[lock].port = reply /\ alloc[lock].status = "held"

\* There is a port in hand only between a transaction and its response.
ReplyNew == reply # None => call.at = "answer"

\* What is released is the port of a GameSession.
Releasing == \A g \in Game : rel[g] # "none" => local[g] # None

\* The inductive invariant.
IInv == TypeOK /\ Asker /\ ReplyMatches /\ ReplyNew /\ Releasing /\ LocalMatchesTable

Allocs == [status : {"none", "held", "released"}, port : Port \cup {None},
           seen : {"null", "recent", "old"}, aged : BOOLEAN]
Calls == [at : {"idle", "cleanup", "select", "answer"}, try : 0 .. MaxRetries]

-----------------------------------------------------------------------------
\* Releasing an allocation keeps its port.
LEMMA FreedKeepsPort ==
  ASSUME NEW a \in Allocs
  PROVE  Freed(a) \in Allocs /\ Freed(a).port = a.port
BY DEF Freed, Allocs

\* A step of the tables that keeps every port of game_allocations, and leaves
\* the proxy alone or forgets GameSessions, keeps the agreement; it releases no
\* allocation of a game that has none.
LEMMA PortsKept ==
  ASSUME IInv, \A g \in Game : alloc'[g].port = alloc[g].port,
         \A g \in Game : local[g] = None => alloc'[g].status = alloc[g].status,
         UNCHANGED <<lock, call, reply>>,
         \A g \in Game : local'[g] \in {local[g], None},
         \A g \in Game : rel'[g] # "none" => local'[g] # None
  PROVE  (Asker /\ ReplyMatches /\ ReplyNew /\ Releasing /\ LocalMatchesTable)'
BY PoolAssumption
   DEF IInv, TypeOK, Asker, ReplyMatches, ReplyNew, Releasing, LocalMatchesTable

\* The initial state satisfies the invariant.
LEMMA InitInv == Init => IInv
BY PoolAssumption
   DEF Init, IInv, TypeOK, Rows, NoCall, Asker, ReplyMatches, ReplyNew, Releasing, LocalMatchesTable

\* Steps of a request for a port.
LEMMA CallStep == IInv /\ Call => IInv'
<1> SUFFICES ASSUME IInv, Call PROVE IInv'
  OBVIOUS
<1> USE PoolAssumption
<1>1. CASE Cleanup
  <2>1. \A g \in Game : alloc'[g] \in Allocs /\ alloc'[g].port = alloc[g].port
    BY <1>1, FreedKeepsPort DEF Cleanup, IInv, TypeOK, Allocs
  <2>2. alloc' \in [Game -> Allocs] /\ row' \in [Port -> Rows] /\ call' \in Calls
    <3>1. alloc' \in [Game -> Allocs]
      BY <1>1, <2>1 DEF Cleanup
    <3>2. row \in [Port -> Rows]
      BY DEF IInv, TypeOK
    <3>3. \A p \in Port : [row[p] EXCEPT !.available = TRUE] \in Rows
      BY <3>2 DEF Rows
    <3>4. row' \in [Port -> Rows]
      BY <1>1, <3>2, <3>3 DEF Cleanup
    <3>5. call \in Calls
      BY DEF IInv, TypeOK, Calls
    <3>6. call' \in Calls
      BY <1>1, <3>5 DEF Cleanup, Calls
    <3> QED
      BY <3>1, <3>4, <3>6
  <2>3. TypeOK'
    BY <1>1, <2>2 DEF Cleanup, IInv, TypeOK, civs, Allocs, Calls
  <2>4. UNCHANGED <<lock, reply, local, rel>> /\ call.at = "cleanup" /\ call'.at = "select"
    BY <1>1 DEF Cleanup, IInv, TypeOK
  <2> QED
    BY <2>1, <2>3, <2>4 DEF IInv, Asker, ReplyMatches, ReplyNew, Releasing, LocalMatchesTable
<1>2. CASE Reuse
  <2>1. lock \in Game /\ alloc[lock] \in Allocs /\ local[lock] = None
    BY <1>2 DEF Reuse, IInv, TypeOK, Asker, Allocs
  <2>2. alloc' \in [Game -> Allocs] /\ alloc'[lock].status = "held"
        /\ \A g \in Game : alloc'[g].port = alloc[g].port
    BY <1>2, <2>1 DEF Reuse, Reusable, IInv, TypeOK, Allocs
  <2>3. call' \in Calls /\ call'.at = "answer" /\ reply' = alloc[lock].port
    BY <1>2 DEF Reuse, IInv, TypeOK, Calls
  <2>4. TypeOK'
    BY <1>2, <2>1, <2>2, <2>3 DEF Reuse, IInv, TypeOK, civs, Allocs, Calls
  <2> QED
    BY <1>2, <2>1, <2>2, <2>3, <2>4
       DEF Reuse, IInv, Asker, ReplyMatches, ReplyNew, Releasing, LocalMatchesTable
<1>3. ASSUME NEW p \in Port, Assign(p) PROVE IInv'
  <2>1. lock \in Game /\ local[lock] = None
    BY <1>3 DEF Assign, IInv, TypeOK, Asker
  <2>2. /\ alloc' \in [Game -> Allocs] /\ alloc'[lock].port = p /\ alloc'[lock].status = "held"
        /\ \A g \in Game \ {lock} : alloc'[g] = alloc[g]
    BY <1>3, <2>1 DEF Assign, Allots, IInv, TypeOK, Allocs
  <2>3. call' \in Calls /\ call'.at = "answer"
    BY <1>3 DEF Assign, IInv, TypeOK, Calls
  <2>4. row' \in [Port -> Rows]
    <3>1. row[p] \in Rows
      BY DEF IInv, TypeOK
    <3>2. [row[p] EXCEPT !.available = FALSE] \in Rows
      BY <3>1 DEF Rows
    <3> QED
      BY <1>3, <3>2 DEF Assign, IInv, TypeOK
  <2>5. reply' = p /\ UNCHANGED <<civs, local, lock, rel>>
    BY <1>3 DEF Assign
  <2>6. TypeOK'
    BY <2>2, <2>3, <2>4, <2>5 DEF IInv, TypeOK, civs, Allocs, Calls
  <2> QED
    BY <2>1, <2>2, <2>3, <2>5, <2>6
       DEF IInv, Asker, ReplyMatches, ReplyNew, Releasing, LocalMatchesTable
<1>4. CASE Refuse
  <2>1. call' \in Calls /\ call'.at = "answer"
    BY <1>4 DEF Refuse, IInv, TypeOK, Calls
  <2> QED
    BY <1>4, <2>1 DEF Refuse, IInv, TypeOK, tables, civs, Calls,
                      Asker, ReplyMatches, ReplyNew, Releasing, LocalMatchesTable
<1>5. CASE Answer
  <2>1. lock \in Game /\ alloc[lock].port = reply /\ reply \in Port
    BY <1>5 DEF Answer, IInv, TypeOK, Asker, ReplyMatches
  <2>2. TypeOK'
    BY <1>5, <2>1 DEF Answer, NoCall, IInv, TypeOK, tables, civs
  <2> QED
    BY <1>5, <2>1, <2>2 DEF Answer, NoCall, tables, IInv, TypeOK,
                            Asker, ReplyMatches, ReplyNew, Releasing, LocalMatchesTable
<1>6. CASE NoAnswer
  <2>1. call' \in Calls /\ call'.at \in {"cleanup", "idle"}
        /\ (call'.at = "idle" => lock' = None) /\ lock' \in {lock, None}
        /\ (call'.at # "idle" => lock' = lock)
    BY <1>6 DEF NoAnswer, AskAgain, NoCall, IInv, TypeOK, Calls
  <2>2. TypeOK'
    BY <1>6, <2>1 DEF NoAnswer, IInv, TypeOK, tables, civs, Calls
  <2> QED
    BY <1>6, <2>1, <2>2 DEF NoAnswer, tables, IInv, TypeOK,
                            Asker, ReplyMatches, ReplyNew, Releasing, LocalMatchesTable
<1> QED
  BY <1>1, <1>2, <1>3, <1>4, <1>5, <1>6 DEF Call

\* Steps that start requests, let time pass, release ports, restart the proxy.
LEMMA ProxyStep ==
  ASSUME IInv, NEW g \in Game,
         \/ Ask(g) \/ GoesUnseen(g) \/ Ages(g) \/ Released(g) \/ ReleaseUnanswered(g)
         \/ (\E by \in {"on_close", "sweep"} : BeginRelease(g, by))
         \/ ProxyRestarts
  PROVE  IInv'
<1> USE PoolAssumption
<1>1. CASE Ask(g)
  <2>1. call' \in Calls /\ call'.at = "cleanup"
    BY <1>1 DEF Ask, Calls
  <2>2. call.at = "idle" /\ reply = None
    BY <1>1 DEF Ask, IInv, Asker, ReplyNew
  <2>3. TypeOK'
    BY <1>1, <2>1 DEF Ask, IInv, TypeOK, tables, civs, Calls
  <2> QED
    BY <1>1, <2>1, <2>2, <2>3 DEF Ask, tables, IInv, TypeOK,
                            Asker, ReplyMatches, ReplyNew, Releasing, LocalMatchesTable
<1>2. CASE GoesUnseen(g) \/ Ages(g)
  <2>1. alloc' \in [Game -> Allocs]
        /\ \A h \in Game : alloc'[h].port = alloc[h].port /\ alloc'[h].status = alloc[h].status
    <3>1. \A h \in Game : alloc[h] \in Allocs
      BY DEF IInv, TypeOK, Allocs
    <3>2. CASE GoesUnseen(g)
      BY <3>1, <3>2 DEF GoesUnseen, IInv, TypeOK, Allocs
    <3>3. CASE Ages(g)
      <4>1. alloc \in [Game -> Allocs]
        BY DEF IInv, TypeOK, Allocs
      <4>2. alloc' = [alloc EXCEPT ![g].aged = TRUE]
        BY <3>3 DEF Ages
      <4> QED
        BY <4>1, <4>2 DEF Allocs
    <3> QED
      BY <1>2, <3>2, <3>3
  <2>2. TypeOK'
    BY <1>2, <2>1 DEF GoesUnseen, Ages, IInv, TypeOK, civs, proxy, Allocs
  <2> QED
    BY <1>2, <2>1, <2>2, PortsKept DEF GoesUnseen, Ages, proxy, IInv, Releasing
<1>3. CASE Released(g) \/ ReleaseUnanswered(g)
  <2>1. /\ alloc' \in [Game -> Allocs]
        /\ \A h \in Game : alloc'[h].port = alloc[h].port
        /\ \A h \in Game : local[h] = None => alloc'[h].status = alloc[h].status
    <3>1. alloc \in [Game -> Allocs]
      BY DEF IInv, TypeOK, Allocs
    <3>2. CASE UNCHANGED alloc
      BY <3>1, <3>2
    <3>3. CASE Release(g)
      <4>1. alloc[g] \in Allocs /\ Freed(alloc[g]) \in Allocs
            /\ Freed(alloc[g]).port = alloc[g].port /\ local[g] # None
        BY <1>3, <3>1, FreedKeepsPort DEF Released, ReleaseUnanswered, IInv, Releasing
      <4> QED
        BY <3>1, <3>3, <4>1 DEF Release
    <3> QED
      BY <1>3, <3>2, <3>3 DEF Released, ReleaseUnanswered
  <2>2. row' \in [Port -> Rows]
    BY <1>3 DEF Released, ReleaseUnanswered, Release, IInv, TypeOK, Rows
  <2>3. /\ \A h \in Game : local'[h] \in {local[h], None}
        /\ local' \in [Game -> Port \cup {None}]
        /\ rel' \in [Game -> {"none", "on_close", "sweep"}]
        /\ \A h \in Game : rel'[h] # "none" => local'[h] # None
    <3>1. local \in [Game -> Port \cup {None}] /\ rel \in [Game -> {"none", "on_close", "sweep"}]
      BY DEF IInv, TypeOK
    <3>2. CASE Released(g)
      BY <3>1, <3>2 DEF Released, IInv, Releasing
    <3>3. CASE ReleaseUnanswered(g)
      BY <3>1, <3>3 DEF ReleaseUnanswered, IInv, Releasing
    <3> QED
      BY <1>3, <3>2, <3>3
  <2>4. UNCHANGED <<lock, call, reply, civs>>
    BY <1>3 DEF Released, ReleaseUnanswered
  <2>5. TypeOK'
    BY <2>1, <2>2, <2>3, <2>4 DEF IInv, TypeOK, civs, Allocs
  <2> QED
    BY <2>1, <2>3, <2>4, <2>5, PortsKept DEF IInv
<1>4. CASE \E by \in {"on_close", "sweep"} : BeginRelease(g, by)
  <2>1. /\ UNCHANGED <<tables, civs, local, lock, call, reply>> /\ local[g] # None
        /\ rel' \in [Game -> {"none", "on_close", "sweep"}]
        /\ \A h \in Game : h # g => rel'[h] = rel[h]
    BY <1>4 DEF BeginRelease, IInv, TypeOK
  <2>2. TypeOK'
    BY <2>1 DEF tables, civs, IInv, TypeOK
  <2>3. \A h \in Game : rel'[h] # "none" => local'[h] # None
    BY <2>1 DEF IInv, Releasing
  <2> QED
    BY <2>1, <2>2, <2>3, PortsKept DEF tables, IInv
<1>5. CASE ProxyRestarts
  <2>1. call' \in Calls
    BY <1>5 DEF ProxyRestarts, NoCall, Calls
  <2> QED
    BY <1>5, <2>1 DEF ProxyRestarts, NoCall, tables, IInv, TypeOK, Calls,
                      Asker, ReplyMatches, ReplyNew, Releasing, LocalMatchesTable
<1> QED
  BY <1>1, <1>2, <1>3, <1>4, <1>5

\* Steps of agents and civservers change neither game_allocations nor the
\* proxy; only a report that is stored changes the row of its port.
LEMMA ServerStep ==
  ASSUME IInv,
         \/ \E g \in Game : Connect(g)
         \/ \E g \in Game, p \in Port : Disconnect(g, p)
         \/ \E p \in Port : Civserver(p)
  PROVE  IInv'
<1>1. UNCHANGED <<alloc, proxy>>
  BY DEF Connect, Disconnect, Civserver, Start, Report, Deliver, PostFails, Quit,
         Crash, Launch, tables
<1>2. TypeOK'
  <2>1. ASSUME NEW g \in Game, Connect(g) PROVE TypeOK'
    BY <2>1, PoolAssumption DEF Connect, IInv, TypeOK, tables, proxy
  <2>2. ASSUME NEW g \in Game, NEW p \in Port, Disconnect(g, p) PROVE TypeOK'
    BY <2>2 DEF Disconnect, IInv, TypeOK, tables, proxy
  <2>3. ASSUME NEW p \in Port, Start(p) \/ Launch(p) PROVE TypeOK'
    BY <2>3 DEF Start, Launch, IInv, TypeOK, tables, proxy
  <2>4. ASSUME NEW p \in Port, Report(p) \/ Quit(p) PROVE TypeOK'
    <3>1. post' \in [Port -> Rows \cup {None}]
      <4>1. CASE Quit(p)
        BY <4>1 DEF Quit, NoRow, Rows, IInv, TypeOK
      <4>2. CASE Report(p)
        BY <4>2 DEF Report, Rows, IInv, TypeOK
      <4> QED
        BY <2>4, <4>1, <4>2
    <3> QED
      BY <2>4, <3>1 DEF Report, Quit, IInv, TypeOK, tables, proxy
  <2>5. ASSUME NEW p \in Port, Deliver(p) PROVE TypeOK'
    BY <2>5 DEF Deliver, IInv, TypeOK, proxy
  <2>6. ASSUME NEW p \in Port, Crash(p) PROVE TypeOK'
    BY <2>6 DEF Crash, IInv, TypeOK, tables, proxy
  <2>7. ASSUME NEW p \in Port, PostFails(p) PROVE TypeOK'
    BY <2>7 DEF PostFails, IInv, TypeOK, tables, proxy
  <2> QED
    BY <2>1, <2>2, <2>3, <2>4, <2>5, <2>6, <2>7 DEF Civserver
<1> QED
  BY <1>1, <1>2, PortsKept DEF proxy, IInv, Releasing

\* Every step preserves the invariant.
LEMMA NextInv == IInv /\ [Next]_vars => IInv'
<1> SUFFICES ASSUME IInv, [Next]_vars PROVE IInv'
  OBVIOUS
<1>1. CASE UNCHANGED vars
  BY <1>1 DEF vars, tables, civs, proxy, IInv, TypeOK,
              Asker, ReplyMatches, ReplyNew, Releasing, LocalMatchesTable
<1>2. CASE ProxyRestarts /\ Game = {}
  BY <1>2, PoolAssumption DEF ProxyRestarts, NoCall, tables, IInv, TypeOK,
              Asker, ReplyMatches, ReplyNew, Releasing, LocalMatchesTable
<1> QED
  BY <1>1, <1>2, CallStep, ProxyStep, ServerStep DEF Next

\* The invariant holds in every reachable state.
LEMMA Invariant == Spec => []IInv
BY InitInv, NextInv, PTL DEF Spec

\* Every variable keeps its type; a request is never at more than its last
\* attempt.
THEOREM TypeCorrect == Spec => []TypeOK
BY Invariant, PTL DEF IInv

\* The proxy's GameSession of a game and game_allocations name the same port.
THEOREM PortsAgree == Spec => []LocalMatchesTable
BY Invariant, PTL DEF IInv

-----------------------------------------------------------------------------
\* Of the steps, one of a request gives a port, and only to a game that asks;
\* a game that holds a port it can use again is given that one.
LEMMA PortSteps == IInv /\ [Next]_vars => [\A g \in Game : PortKept(g)]_vars
<1> SUFFICES ASSUME IInv, Next, NEW g \in Game PROVE PortKept(g)
  OBVIOUS
<1> USE PoolAssumption
<1>t. alloc \in [Game -> Allocs] /\ (lock \in Game => local[lock] = None)
  BY DEF IInv, TypeOK, Allocs, Asker
<1>1. ASSUME \A h \in Game : alloc'[h].port = alloc[h].port,
             call.at = "select" => call'.at # "answer",
             \A h \in Game : local'[h] \in {local[h], None}
      PROVE  PortKept(g)
  BY <1>1 DEF PortKept
<1>2. CASE Cleanup
  <2>1. \A h \in Game : alloc'[h].port = alloc[h].port
    BY <1>2, <1>t, FreedKeepsPort DEF Cleanup
  <2>2. call.at = "cleanup" /\ UNCHANGED local
    BY <1>2 DEF Cleanup
  <2> QED
    BY <1>1, <2>1, <2>2
<1>3. CASE Reuse
  <2>1. lock \in Game
    BY <1>3 DEF Reuse, IInv, TypeOK, Asker
  <2>2. \A h \in Game : alloc'[h].port = alloc[h].port
    BY <1>3, <1>t, <2>1 DEF Reuse, Allocs
  <2>3. reply' = alloc[lock].port /\ UNCHANGED local
    BY <1>3 DEF Reuse
  <2> QED
    BY <2>2, <2>3 DEF PortKept
<1>4. ASSUME NEW p \in Port, Assign(p) PROVE PortKept(g)
  <2>1. ~Reusable(lock) /\ UNCHANGED local
    BY <1>4 DEF Assign
  <2>2. g # lock => alloc'[g] = alloc[g]
    BY <1>4, <1>t DEF Assign, Allots
  <2> QED
    BY <2>1, <2>2 DEF PortKept
<1>5. CASE Refuse
  BY <1>5 DEF Refuse, tables, PortKept
<1>6. CASE Answer
  <2>1. /\ lock \in Game /\ alloc[lock].port = reply /\ alloc[lock].status = "held"
        /\ call.at = "answer" /\ UNCHANGED alloc
    BY <1>6 DEF Answer, tables, IInv, TypeOK, Asker, ReplyMatches
  <2>2. local' = [local EXCEPT ![lock] = reply] /\ local \in [Game -> Port \cup {None}]
    BY <1>6 DEF Answer, IInv, TypeOK
  <2>3. local'[g] # local[g] => g = lock /\ local'[g] = reply
    BY <2>1, <2>2
  <2> QED
    BY <2>1, <2>3 DEF PortKept
<1>7. CASE NoAnswer
  BY <1>1, <1>7 DEF NoAnswer, tables
<1>8. ASSUME NEW h \in Game, Ask(h) PROVE PortKept(g)
  <2>1. call.at = "idle" /\ UNCHANGED <<alloc, local>>
    BY <1>8 DEF Ask, tables, IInv, TypeOK, Asker
  <2> QED
    BY <1>1, <2>1
<1>9. ASSUME NEW h \in Game, GoesUnseen(h) \/ Ages(h) PROVE PortKept(g)
  <2>1. \A k \in Game : alloc'[k].port = alloc[k].port
    BY <1>9, <1>t DEF GoesUnseen, Ages, Allocs
  <2> QED
    BY <1>1, <1>9, <2>1 DEF GoesUnseen, Ages, proxy
<1>10. ASSUME NEW h \in Game, Released(h) \/ ReleaseUnanswered(h) PROVE PortKept(g)
  <2>1. \A k \in Game : alloc'[k].port = alloc[k].port
    <3>1. Freed(alloc[h]).port = alloc[h].port
      BY <1>t, FreedKeepsPort
    <3> QED
      BY <1>10, <1>t, <3>1 DEF Released, ReleaseUnanswered, Release
  <2>2. UNCHANGED call /\ \A k \in Game : local'[k] \in {local[k], None}
    BY <1>10 DEF Released, ReleaseUnanswered, IInv, TypeOK
  <2> QED
    BY <1>1, <2>1, <2>2
<1>11. ASSUME NEW h \in Game, NEW by \in {"on_close", "sweep"}, BeginRelease(h, by)
       PROVE  PortKept(g)
  BY <1>1, <1>11 DEF BeginRelease, tables
<1>12. CASE ProxyRestarts
  BY <1>1, <1>12 DEF ProxyRestarts, NoCall, tables
<1>13. CASE \/ \E h \in Game : Connect(h)
            \/ \E h \in Game, p \in Port : Disconnect(h, p)
            \/ \E p \in Port : Civserver(p)
  <2>1. UNCHANGED <<alloc, proxy>>
    BY <1>13 DEF Connect, Disconnect, Civserver, Start, Report, Deliver, PostFails, Quit,
                 Crash, Launch, tables
  <2> QED
    BY <1>1, <2>1 DEF proxy
<1> QED
  BY <1>2, <1>3, <1>4, <1>5, <1>6, <1>7, <1>8, <1>9, <1>10, <1>11, <1>12, <1>13
     DEF Next, Call

\* "Same port returned for same game_id on reconnection": whatever is lost,
\* retried or restarted, a game that holds a port is answered with it and
\* played on it, until the port is released, found stale or a day old.
THEOREM PortStays == Spec => SamePort
BY Invariant, PortSteps, PTL DEF Spec, SamePort
=============================================================================
