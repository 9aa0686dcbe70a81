-------------------------- MODULE GameSessionProofs --------------------------
(***************************************************************************)
(* Proofs about GameSession, for every set of agents and of WebSockets.    *)
(* The inductive invariant IInv adds two facts to the types and to the two *)
(* properties: a handler that is joining has a session, so that the        *)
(* exception that terminates it names one; and agent_to_session names a    *)
(* session of the agent, so that taking it over cannot orphan another's.   *)
(* The action properties need more: Trace says what is left of a handler   *)
(* that is closed, of one that is yet to come and of a game that is gone.  *)
(***************************************************************************)
EXTENDS GameSession, TLAPS

USE GameAssumption

Ref == Handler \cup {None}

\* A handler that is joining has a session.
SessionKnown == \A h \in Handler : stage[h] \in Joining => sid[h] # None

Inv == TypeOK /\ SessionKnown

\* A new GameSession is one.
LEMMA NewGameType == NewGame \in Games /\ [NewGame EXCEPT !.present = FALSE] \in Games
  BY DEF NewGame, Games

\* The flags of a GameSession are Booleans.
LEMMA GameFlags ==
  ASSUME NEW g \in Games
  PROVE  /\ g.paused \in BOOLEAN /\ g.over \in BOOLEAN /\ g.releasing \in BOOLEAN
         /\ g.present \in BOOLEAN /\ g.started \in BOOLEAN /\ g.starting \in BOOLEAN
  BY DEF Games

\* get_or_create_session returns a GameSession.
LEMMA TheGameType == ASSUME GameTypes PROVE TheGame \in Games
  BY NewGameType DEF GameTypes, TheGame

\* add_player leaves a map from agents to handlers.
LEMMA AddPlayerType ==
  ASSUME TypeOK, NEW h \in Handler
  PROVE  AddPlayer(h) \in [Agent -> Ref]
  BY DEF TypeOK, GameTypes, AddPlayer, Ref

\* Logging in keeps types, and the handler has a session afterwards.
LEMMA LoginTypes ==
  ASSUME TypeOK, NEW h \in Handler, NEW m, Login(h, m)
  PROVE  /\ ws' \in [Handler -> {"idle", "open", "closing", "closed"}]
         /\ kicked' \subseteq Handler
         /\ mode' \in [Handler -> {"new", "resumed", "known"}]
         /\ sid' \in [Handler -> Ref]
         /\ sid'[h] \in Handler
         /\ llm' \in [Agent -> Ref]
         /\ sess' \in [Handler -> {"none", "gone"} \cup Usable]
         /\ agentSess' \in [Agent -> Ref]
  BY DEF TypeOK, AgentTypes, SessTypes, Login, Takes, Resumable, Usable, Ref

\* allocate_civserver_port keeps types.
LEMMA AllocateTypes ==
  ASSUME TypeOK, NEW h \in Handler, Allocate(h)
  PROVE  game' \in Games /\ port' \in {"held", "free"}
  BY NewGameType DEF TypeOK, GameTypes, Allocate

\* _check_and_resume_game keeps types.
LEMMA ResumeTypes ==
  ASSUME NEW h \in Handler, NEW g \in Games, NEW p \in [Agent -> Ref], CheckAndResume(h, g, p)
  PROVE  game' \in Games /\ player' \in [Agent -> Ref]
  BY DEF CheckAndResume, Games, Ref

\* register_game keeps types.
LEMMA RegisterTypes ==
  ASSUME CivTypes, NEW c \in Handler, Register(c)
  PROVE  /\ conn' \in [Handler -> {"none", "alive", "stopped"}]
         /\ attached' \in [Handler -> Ref]
         /\ reg' \in [Agent -> Ref]
  BY DEF CivTypes, Register, Ref

\* Stopping CivComs keeps types.
LEMMA StopAllTypes ==
  ASSUME CivTypes, NEW D, NEW r \in [Agent -> Ref], StopAll(D, r)
  PROVE  /\ conn' \in [Handler -> {"none", "alive", "stopped"}]
         /\ attached' \in [Handler -> Ref]
         /\ reg' \in [Agent -> Ref]
  BY DEF CivTypes, StopAll, Ref

\* The E142 clause keeps types.
LEMMA FailJoinTypes ==
  ASSUME TypeOK, NEW h \in Handler, FailJoin(h)
  PROVE  /\ stage' \in [Handler -> {"none", "up", "failed", "portless"} \cup Joining]
         /\ conn' \in [Handler -> {"none", "alive", "stopped"}]
         /\ attached' \in [Handler -> Ref]
         /\ reg' \in [Agent -> Ref]
<1> DEFINE c == reg[Owner[h]]
           r == IF c = civ[h] THEN reg ELSE [reg EXCEPT ![Owner[h]] = None]
<1>1. r \in [Agent -> Ref]
  BY DEF TypeOK, CivTypes, Ref
<1>2. StopAll({civ[h], c} \ {None}, r)
  BY DEF FailJoin
<1> HIDE DEF r
<1>3. CivTypes
  BY DEF TypeOK
<1>4. /\ conn' \in [Handler -> {"none", "alive", "stopped"}]
      /\ attached' \in [Handler -> Ref]
      /\ reg' \in [Agent -> Ref]
  BY <1>1, <1>2, <1>3, StopAllTypes
<1>5. stage' \in [Handler -> {"none", "up", "failed", "portless"} \cup Joining]
  BY DEF FailJoin, TypeOK, AgentTypes
<1> QED
  BY <1>4, <1>5

\* StartGame keeps types.
LEMMA StartGameTypes ==
  ASSUME Inv, StartGame
  PROVE  TypeOK'
<1>1. AgentTypes'
  BY DEF StartGame, agentVars, Inv, TypeOK, AgentTypes
<1>2. SessTypes'
  BY DEF StartGame, sessVars, Inv, TypeOK, SessTypes
<1>3. CivTypes'
  BY DEF StartGame, civVars, Inv, TypeOK, CivTypes
<1>4. GameTypes'
  BY DEF StartGame, Games, Inv, TypeOK, GameTypes
<1> QED
  BY <1>1, <1>2, <1>3, <1>4 DEF TypeOK

\* StartAborts keeps types.
LEMMA StartAbortsTypes ==
  ASSUME Inv, StartAborts
  PROVE  TypeOK'
<1>1. AgentTypes'
  BY DEF StartAborts, agentVars, Inv, TypeOK, AgentTypes
<1>2. SessTypes'
  BY DEF StartAborts, sessVars, Inv, TypeOK, SessTypes
<1>3. CivTypes'
  BY DEF StartAborts, civVars, Inv, TypeOK, CivTypes
<1>4. GameTypes'
  BY DEF StartAborts, Games, Inv, TypeOK, GameTypes
<1> QED
  BY <1>1, <1>2, <1>3, <1>4 DEF TypeOK

\* Closes keeps types.
LEMMA ClosesTypes ==
  ASSUME Inv, NEW h \in Handler, Closes(h)
  PROVE  TypeOK'
<1>1. AgentTypes'
  BY DEF Closes, Inv, TypeOK, AgentTypes
<1>2. SessTypes'
  BY DEF Closes, sessVars, Inv, TypeOK, SessTypes
<1>3. CivTypes'
  BY DEF Closes, civVars, Inv, TypeOK, CivTypes
<1>4. GameTypes'
  BY DEF Closes, gameVars, Inv, TypeOK, GameTypes
<1> QED
  BY <1>1, <1>2, <1>3, <1>4 DEF TypeOK

\* DeadWrites keeps types.
LEMMA DeadWritesTypes ==
  ASSUME Inv, NEW h \in Handler, DeadWrites(h)
  PROVE  TypeOK'
<1>1. AgentTypes'
  BY DEF DeadWrites, agentVars, Inv, TypeOK, AgentTypes
<1>2. SessTypes'
  BY DEF DeadWrites, sessVars, Inv, TypeOK, SessTypes
<1>3. CivTypes'
  BY DEF DeadWrites, civVars, Inv, TypeOK, CivTypes
<1>4. GameTypes'
  BY DEF DeadWrites, Games, Inv, TypeOK, GameTypes
<1> QED
  BY <1>1, <1>2, <1>3, <1>4 DEF TypeOK

\* StaleAgentSwept keeps types.
LEMMA StaleAgentSweptTypes ==
  ASSUME Inv, NEW a \in Agent, StaleAgentSwept(a)
  PROVE  TypeOK'
<1>1. AgentTypes'
  BY DEF StaleAgentSwept, Inv, TypeOK, AgentTypes
<1>2. SessTypes'
  BY DEF StaleAgentSwept, sessVars, Inv, TypeOK, SessTypes
<1>3. CivTypes'
  BY DEF StaleAgentSwept, civVars, Inv, TypeOK, CivTypes
<1>4. GameTypes'
  BY DEF StaleAgentSwept, gameVars, Inv, TypeOK, GameTypes
<1> QED
  BY <1>1, <1>2, <1>3, <1>4 DEF TypeOK

\* DebounceEnds keeps types.
LEMMA DebounceEndsTypes ==
  ASSUME Inv, DebounceEnds
  PROVE  TypeOK'
<1>1. AgentTypes'
  BY DEF DebounceEnds, agentVars, Inv, TypeOK, AgentTypes
<1>2. SessTypes'
  BY DEF DebounceEnds, sessVars, Inv, TypeOK, SessTypes
<1>3. CivTypes'
  BY DEF DebounceEnds, civVars, Inv, TypeOK, CivTypes
<1>4. GameTypes'
  BY DEF DebounceEnds, Games, Inv, TypeOK, GameTypes
<1> QED
  BY <1>1, <1>2, <1>3, <1>4 DEF TypeOK

\* Released keeps types.
LEMMA ReleasedTypes ==
  ASSUME Inv, NEW ok, Released(ok)
  PROVE  TypeOK'
<1>1. AgentTypes'
  BY DEF Released, agentVars, Inv, TypeOK, AgentTypes
<1>2. SessTypes'
  BY DEF Released, sessVars, Inv, TypeOK, SessTypes
<1>3. CivTypes'
  BY DEF Released, civVars, Inv, TypeOK, CivTypes
<1>4. GameTypes'
  <2>1. game' \in Games
    BY NewGameType DEF Released, Inv, TypeOK, GameTypes, Games
  <2>2. /\ port' \in {"held", "free"}
        /\ player' \in [Agent -> Handler \cup {None}]
        /\ ready' \subseteq Agent
        /\ sweep' \in {"none", "over", "stale"}
    BY DEF Released, Inv, TypeOK, GameTypes
  <2>3. releases' \in Nat
    BY DEF Released, Inv, TypeOK, GameTypes
  <2> QED
    BY <2>1, <2>2, <2>3 DEF GameTypes
<1> QED
  BY <1>1, <1>2, <1>3, <1>4 DEF TypeOK

\* SweepBegins keeps types.
LEMMA SweepBeginsTypes ==
  ASSUME Inv, NEW why, SweepBegins(why)
  PROVE  TypeOK'
<1>1. AgentTypes'
  BY DEF SweepBegins, agentVars, Inv, TypeOK, AgentTypes
<1>2. SessTypes'
  BY DEF SweepBegins, sessVars, Inv, TypeOK, SessTypes
<1>3. CivTypes'
  BY DEF SweepBegins, civVars, Inv, TypeOK, CivTypes
<1>4. GameTypes'
  BY DEF SweepBegins, Games, Inv, TypeOK, GameTypes
<1> QED
  BY <1>1, <1>2, <1>3, <1>4 DEF TypeOK

\* SweepEnds keeps types.
LEMMA SweepEndsTypes ==
  ASSUME Inv, NEW ok, SweepEnds(ok)
  PROVE  TypeOK'
<1>1. AgentTypes'
  BY DEF SweepEnds, agentVars, Inv, TypeOK, AgentTypes
<1>2. SessTypes'
  BY DEF SweepEnds, sessVars, Inv, TypeOK, SessTypes
<1>3. CivTypes'
  BY DEF SweepEnds, civVars, Inv, TypeOK, CivTypes
<1>4. GameTypes'
  <2>1. game' \in Games
    BY NewGameType DEF SweepEnds, Inv, TypeOK, GameTypes, Games
  <2>2. /\ port' \in {"held", "free"}
        /\ player' \in [Agent -> Handler \cup {None}]
        /\ ready' \subseteq Agent
        /\ sweep' \in {"none", "over", "stale"}
    BY DEF SweepEnds, Inv, TypeOK, GameTypes
  <2>3. releases' \in Nat
    BY DEF SweepEnds, Inv, TypeOK, GameTypes
  <2> QED
    BY <2>1, <2>2, <2>3 DEF GameTypes
<1> QED
  BY <1>1, <1>2, <1>3, <1>4 DEF TypeOK

-----------------------------------------------------------------------------
(* Sessions and CivComs.                                                   *)

\* agent_to_session names a session of the agent.
SessionOwner == \A a \in Agent : agentSess[a] # None => Owner[agentSess[a]] = a

IInv == Inv /\ SessionOwner /\ OneSession /\ NoOrphanCivcom

\* Taking or creating a session leaves the agent with that one.
LEMMA LoginSessions ==
  ASSUME IInv, NEW h \in Handler, NEW m, Login(h, m)
  PROVE  SessionOwner' /\ OneSession'
<1> DEFINE s == IF Resumable(Owner[h]) THEN agentSess[Owner[h]] ELSE h
<1>1. Takes(Owner[h], s)
  BY DEF Login
<1>2. s \in Handler /\ Owner[s] = Owner[h] /\ Owner[h] \in Agent
  BY DEF IInv, Inv, SessionOwner, Resumable, TypeOK, SessTypes
<1> HIDE DEF s
<1> QED
  BY <1>1, <1>2 DEF IInv, Inv, SessionOwner, OneSession, Takes, TypeOK, SessTypes,
         Usable

\* A session that ends is named by nobody.
LEMMA EndsSessions ==
  ASSUME IInv, NEW s \in Handler, Ends(s)
  PROVE  SessionOwner' /\ OneSession'
  BY DEF IInv, Inv, SessionOwner, OneSession, Ends, TypeOK, SessTypes, Usable

\* A handler that logs in has a session when it waits.
LEMMA LoginKnown ==
  ASSUME Inv, NEW h \in Handler, NEW m, Login(h, m),
         \A g \in Handler \ {h} : stage'[g] = stage[g]
  PROVE  SessionKnown'
<1>1. sid'[h] # None
  BY LoginTypes DEF Inv
<1>2. \A g \in Handler \ {h} : sid'[g] = sid[g]
  BY DEF Login, Inv, TypeOK, AgentTypes
<1> QED
  BY <1>1, <1>2 DEF Inv, SessionKnown

\* Steps that leave the sessions alone keep what is said of them.
LEMMA SameSessions ==
  ASSUME IInv, UNCHANGED <<sess, agentSess>>
  PROVE  SessionOwner' /\ OneSession'
  BY DEF IInv, SessionOwner, OneSession

\* register_game leaves no CivCom behind that runs unregistered.
LEMMA RegisterCivcoms ==
  ASSUME IInv, NEW c \in Handler, Register(c)
  PROVE  NoOrphanCivcom'
  BY DEF IInv, Inv, TypeOK, CivTypes, NoOrphanCivcom, Register

\* Only agents whose registered CivCom is stopped may lose their entry.
LEMMA StopAllCivcoms ==
  ASSUME IInv, NEW D, NEW r, StopAll(D, r),
         \A a \in Agent : r[a] = reg[a] \/ reg[a] \in D \cup {None}
  PROVE  NoOrphanCivcom'
  BY DEF IInv, Inv, TypeOK, CivTypes, NoOrphanCivcom, StopAll

\* Steps that leave CivComs and registry alone keep what is said of them.
LEMMA SameCivcoms ==
  ASSUME IInv, UNCHANGED <<conn, reg>>
  PROVE  NoOrphanCivcom'
  BY DEF IInv, NoOrphanCivcom

\* The E142 clause unregisters a CivCom only when it stops it.
LEMMA FailJoinCivcoms ==
  ASSUME IInv, NEW h \in Handler, FailJoin(h)
  PROVE  NoOrphanCivcom'
<1> DEFINE c == reg[Owner[h]]
           r == IF c = civ[h] THEN reg ELSE [reg EXCEPT ![Owner[h]] = None]
           D == {civ[h], c} \ {None}
<1>1. StopAll(D, r)
  BY DEF FailJoin
<1>2. \A a \in Agent : r[a] = reg[a] \/ reg[a] \in D \cup {None}
  BY DEF IInv, Inv, TypeOK, CivTypes
<1> HIDE DEF r, D
<1> QED
  BY <1>1, <1>2, StopAllCivcoms

\* Reattach preserves the invariant.
LEMMA ReattachStep ==
  ASSUME IInv, NEW h \in Handler, Reattach(h)
  PROVE  IInv'
<1>1. TypeOK'
  <2>1. AgentTypes'
    BY LoginTypes DEF Reattach, Live, IInv, Inv, TypeOK, AgentTypes, SessTypes,
           CivTypes, GameTypes, Joining, Usable, Ref
  <2>2. SessTypes'
    BY LoginTypes DEF Reattach, IInv, Inv, TypeOK, SessTypes, Joining, Usable, Ref
  <2>3. CivTypes'
    BY DEF Reattach, IInv, Inv, TypeOK, CivTypes
  <2>4. GameTypes'
    BY TheGameType, AddPlayerType, ResumeTypes DEF Reattach, IInv, Inv, TypeOK,
           GameTypes, Joining, Usable, Ref
  <2> QED
    BY <2>1, <2>2, <2>3, <2>4 DEF TypeOK
<1>2. SessionKnown'
  BY LoginKnown DEF IInv, Inv, TypeOK, AgentTypes, Reattach
<1>3. SessionOwner' /\ OneSession'
  BY LoginSessions DEF Reattach
<1>4. NoOrphanCivcom'
  BY SameCivcoms DEF Reattach
<1> QED
  BY <1>1, <1>2, <1>3, <1>4 DEF IInv, Inv

\* Drift preserves the invariant.
LEMMA DriftStep ==
  ASSUME IInv, NEW h \in Handler, Drift(h)
  PROVE  IInv'
<1>1. TypeOK'
  <2>1. AgentTypes'
    BY LoginTypes DEF Drift, IInv, Inv, TypeOK, AgentTypes, Joining, Usable, Ref
  <2>2. SessTypes'
    BY LoginTypes DEF Drift, IInv, Inv, TypeOK, SessTypes, Joining, Usable, Ref
  <2>3. CivTypes'
    BY StopAllTypes DEF Drift, IInv, Inv, TypeOK, CivTypes, Joining, Usable, Ref
  <2>4. GameTypes'
    BY AllocateTypes DEF Drift, IInv, Inv, TypeOK, GameTypes
  <2> QED
    BY <2>1, <2>2, <2>3, <2>4 DEF TypeOK
<1>2. SessionKnown'
  BY LoginKnown DEF IInv, Inv, TypeOK, AgentTypes, Drift
<1>3. SessionOwner' /\ OneSession'
  BY LoginSessions DEF Drift
<1>4. NoOrphanCivcom'
  <2> DEFINE r == [reg EXCEPT ![Owner[h]] = None]
             D == {reg[Owner[h]]}
  <2>1. StopAll(D, r)
    BY DEF Drift
  <2>2. \A a \in Agent : r[a] = reg[a] \/ reg[a] \in D \cup {None}
    BY DEF IInv, Inv, TypeOK, CivTypes
  <2> HIDE DEF r, D
  <2> QED
    BY <2>1, <2>2, StopAllCivcoms
<1> QED
  BY <1>1, <1>2, <1>3, <1>4 DEF IInv, Inv

\* Dial preserves the invariant.
LEMMA DialStep ==
  ASSUME IInv, NEW h \in Handler, Dial(h)
  PROVE  IInv'
<1>1. TypeOK'
  <2>1. AgentTypes'
    <3>1. PICK m : Login(h, m)
      BY DEF Dial
    <3>2. /\ civ' \in [Handler -> Ref]
          /\ stage' \in [Handler -> {"none", "up", "failed", "portless"} \cup Joining]
      BY DEF Dial, Live, IInv, Inv, TypeOK, AgentTypes, CivTypes, Joining, Ref
    <3>3. TypeOK
      BY DEF IInv, Inv
    <3> QED
      BY <3>1, <3>2, <3>3, LoginTypes DEF AgentTypes, Ref
  <2>2. SessTypes'
    BY LoginTypes DEF Dial, IInv, Inv, TypeOK, SessTypes, Joining, Usable, Ref
  <2>3. CivTypes'
    BY RegisterTypes DEF Dial, IInv, Inv, TypeOK, CivTypes, Joining, Usable, Ref
  <2>4. GameTypes'
    BY AllocateTypes DEF Dial, IInv, Inv, TypeOK, GameTypes
  <2> QED
    BY <2>1, <2>2, <2>3, <2>4 DEF TypeOK
<1>2. SessionKnown'
  BY LoginKnown DEF IInv, Inv, TypeOK, AgentTypes, Dial
<1>3. SessionOwner' /\ OneSession'
  BY LoginSessions DEF Dial
<1>4. NoOrphanCivcom'
  BY SameCivcoms, RegisterCivcoms DEF Dial
<1> QED
  BY <1>1, <1>2, <1>3, <1>4 DEF IInv, Inv

\* DialFails preserves the invariant.
LEMMA DialFailsStep ==
  ASSUME IInv, NEW h \in Handler, DialFails(h)
  PROVE  IInv'
<1>1. TypeOK'
  <2>1. AgentTypes'
    BY DEF DialFails, IInv, Inv, TypeOK, AgentTypes
  <2>2. SessTypes'
    BY DEF DialFails, IInv, Inv, TypeOK, SessTypes
  <2>3. CivTypes'
    BY DEF DialFails, civVars, IInv, Inv, TypeOK, CivTypes
  <2>4. GameTypes'
    BY AllocateTypes DEF DialFails, IInv, Inv, TypeOK, GameTypes
  <2> QED
    BY <2>1, <2>2, <2>3, <2>4 DEF TypeOK
<1>2. SessionKnown'
  BY DEF IInv, Inv, SessionKnown, TypeOK, AgentTypes, Joining, DialFails
<1>3. SessionOwner' /\ OneSession'
  BY DEF DialFails, Resumable, IInv, Inv, SessionOwner, OneSession, TypeOK, SessTypes,
         Usable
<1>4. NoOrphanCivcom'
  BY SameCivcoms DEF DialFails, civVars
<1> QED
  BY <1>1, <1>2, <1>3, <1>4 DEF IInv, Inv

\* AllocateFails preserves the invariant.
LEMMA AllocateFailsStep ==
  ASSUME IInv, NEW h \in Handler, AllocateFails(h)
  PROVE  IInv'
<1>1. TypeOK'
  <2>1. AgentTypes'
    BY LoginTypes DEF AllocateFails, IInv, Inv, TypeOK, AgentTypes, Joining, Usable, Ref
  <2>2. SessTypes'
    BY LoginTypes DEF AllocateFails, IInv, Inv, TypeOK, SessTypes, Joining, Usable, Ref
  <2>3. CivTypes'
    <3>1. [reg EXCEPT ![Owner[h]] = None] \in [Agent -> Ref]
      BY DEF IInv, Inv, TypeOK, CivTypes, Ref
    <3>2. CivTypes
      BY DEF IInv, Inv, TypeOK
    <3>3. /\ StopAll({reg[Owner[h]]} \ {None}, [reg EXCEPT ![Owner[h]] = None])
          /\ ended' \subseteq Handler
      BY <3>2 DEF AllocateFails, CivTypes
    <3> QED
      BY <3>1, <3>2, <3>3, StopAllTypes DEF CivTypes, Ref
  <2>4. GameTypes'
    BY DEF AllocateFails, gameVars, IInv, Inv, TypeOK, GameTypes
  <2> QED
    BY <2>1, <2>2, <2>3, <2>4 DEF TypeOK
<1>2. SessionKnown'
  BY LoginKnown DEF IInv, Inv, TypeOK, AgentTypes, AllocateFails
<1>3. SessionOwner' /\ OneSession'
  BY LoginSessions DEF AllocateFails
<1>4. NoOrphanCivcom'
  <2> DEFINE r == [reg EXCEPT ![Owner[h]] = None]
             D == {reg[Owner[h]]} \ {None}
  <2>1. StopAll(D, r)
    BY DEF AllocateFails
  <2>2. \A a \in Agent : r[a] = reg[a] \/ reg[a] \in D \cup {None}
    BY DEF IInv, Inv, TypeOK, CivTypes
  <2> HIDE DEF r, D
  <2> QED
    BY <2>1, <2>2, StopAllCivcoms
<1> QED
  BY <1>1, <1>2, <1>3, <1>4 DEF IInv, Inv

\* Enter preserves the invariant.
LEMMA EnterStep ==
  ASSUME IInv, NEW h \in Handler, Enter(h)
  PROVE  IInv'
<1>1. TypeOK'
  <2>1. AgentTypes'
    BY FailJoinTypes DEF Enter, IInv, Inv, TypeOK, AgentTypes, Joining, Usable, Ref
  <2>2. SessTypes'
    BY DEF Enter, IInv, Inv, SessionKnown, TypeOK, AgentTypes, SessTypes, CivTypes,
           GameTypes, Joining, Usable, Ref
  <2>3. CivTypes'
    BY FailJoinTypes DEF Enter, IInv, Inv, TypeOK, CivTypes, Joining, Usable, Ref
  <2>4. GameTypes'
    BY TheGameType, AddPlayerType, ResumeTypes DEF Enter, IInv, Inv, TypeOK,
           GameTypes, Joining, Usable, Ref
  <2> QED
    BY <2>1, <2>2, <2>3, <2>4 DEF TypeOK
<1>2. SessionKnown'
  BY DEF IInv, Inv, SessionKnown, TypeOK, AgentTypes, Joining, Enter, FailJoin
<1>3. SessionOwner' /\ OneSession'
  BY SameSessions DEF Enter
<1>4. NoOrphanCivcom'
  BY SameCivcoms, FailJoinCivcoms DEF Enter
<1> QED
  BY <1>1, <1>2, <1>3, <1>4 DEF IInv, Inv

\* NoPlayerId preserves the invariant.
LEMMA NoPlayerIdStep ==
  ASSUME IInv, NEW h \in Handler, NoPlayerId(h)
  PROVE  IInv'
<1>1. TypeOK'
  <2>1. AgentTypes'
    BY FailJoinTypes DEF NoPlayerId, IInv, Inv, TypeOK, AgentTypes
  <2>2. SessTypes'
    BY DEF NoPlayerId, sessVars, IInv, Inv, TypeOK, SessTypes
  <2>3. CivTypes'
    BY FailJoinTypes DEF NoPlayerId, IInv, Inv, TypeOK, CivTypes, Joining, Usable, Ref
  <2>4. GameTypes'
    BY TheGameType DEF NoPlayerId, IInv, Inv, TypeOK, GameTypes
  <2> QED
    BY <2>1, <2>2, <2>3, <2>4 DEF TypeOK
<1>2. SessionKnown'
  BY DEF IInv, Inv, SessionKnown, TypeOK, AgentTypes, Joining, NoPlayerId, FailJoin
<1>3. SessionOwner' /\ OneSession'
  BY SameSessions DEF NoPlayerId, sessVars
<1>4. NoOrphanCivcom'
  BY FailJoinCivcoms DEF NoPlayerId
<1> QED
  BY <1>1, <1>2, <1>3, <1>4 DEF IInv, Inv

\* Redial preserves the invariant.
LEMMA RedialStep ==
  ASSUME IInv, NEW h \in Handler, Redial(h)
  PROVE  IInv'
<1>1. TypeOK'
  <2>1. AgentTypes'
    BY DEF Redial, IInv, Inv, TypeOK, AgentTypes
  <2>2. SessTypes'
    BY DEF Redial, sessVars, IInv, Inv, TypeOK, SessTypes
  <2>3. CivTypes'
    BY RegisterTypes DEF Redial, IInv, Inv, TypeOK, CivTypes, Joining, Usable, Ref
  <2>4. GameTypes'
    BY DEF Redial, gameVars, IInv, Inv, TypeOK, GameTypes
  <2> QED
    BY <2>1, <2>2, <2>3, <2>4 DEF TypeOK
<1>2. SessionKnown'
  BY DEF IInv, Inv, SessionKnown, TypeOK, AgentTypes, Joining, Redial
<1>3. SessionOwner' /\ OneSession'
  BY SameSessions DEF Redial, sessVars
<1>4. NoOrphanCivcom'
  BY RegisterCivcoms DEF Redial
<1> QED
  BY <1>1, <1>2, <1>3, <1>4 DEF IInv, Inv

\* StaleRejected preserves the invariant.
LEMMA StaleRejectedStep ==
  ASSUME IInv, NEW h \in Handler, StaleRejected(h)
  PROVE  IInv'
<1>1. TypeOK'
  <2>1. AgentTypes'
    BY DEF StaleRejected, Terminates, IInv, Inv, TypeOK, AgentTypes
  <2>2. SessTypes'
    BY DEF StaleRejected, Terminates, Ends, IInv, Inv, TypeOK, SessTypes
  <2>3. CivTypes'
    <3>1. [reg EXCEPT ![Owner[h]] = None] \in [Agent -> Ref]
      BY DEF IInv, Inv, TypeOK, CivTypes, Ref
    <3>2. CivTypes
      BY DEF IInv, Inv, TypeOK
    <3>3. /\ StopAll({h, reg[Owner[h]]} \ {None}, [reg EXCEPT ![Owner[h]] = None])
          /\ ended' \subseteq Handler
      BY <3>2 DEF StaleRejected, CivTypes
    <3> QED
      BY <3>1, <3>2, <3>3, StopAllTypes DEF CivTypes, Ref
  <2>4. GameTypes'
    BY DEF StaleRejected, gameVars, IInv, Inv, TypeOK, GameTypes
  <2> QED
    BY <2>1, <2>2, <2>3, <2>4 DEF TypeOK
<1>2. SessionKnown'
  BY DEF IInv, Inv, SessionKnown, TypeOK, AgentTypes, Joining, StaleRejected, Terminates
<1>3. SessionOwner' /\ OneSession'
  BY SameSessions, EndsSessions DEF IInv, Inv, SessionKnown, TypeOK, AgentTypes,
         Joining, StaleRejected, Terminates
<1>4. NoOrphanCivcom'
  <2> DEFINE r == [reg EXCEPT ![Owner[h]] = None]
             D == {h, reg[Owner[h]]} \ {None}
  <2>1. StopAll(D, r)
    BY DEF StaleRejected
  <2>2. \A a \in Agent : r[a] = reg[a] \/ reg[a] \in D \cup {None}
    BY DEF IInv, Inv, TypeOK, CivTypes
  <2> HIDE DEF r, D
  <2> QED
    BY <2>1, <2>2, StopAllCivcoms
<1> QED
  BY <1>1, <1>2, <1>3, <1>4 DEF IInv, Inv

\* DriftOnDial preserves the invariant.
LEMMA DriftOnDialStep ==
  ASSUME IInv, NEW h \in Handler, DriftOnDial(h)
  PROVE  IInv'
<1>1. TypeOK'
  <2>1. AgentTypes'
    BY DEF DriftOnDial, Terminates, IInv, Inv, TypeOK, AgentTypes
  <2>2. SessTypes'
    BY DEF DriftOnDial, Terminates, Ends, IInv, Inv, TypeOK, SessTypes
  <2>3. CivTypes'
    BY DEF DriftOnDial, civVars, IInv, Inv, TypeOK, CivTypes
  <2>4. GameTypes'
    BY DEF DriftOnDial, gameVars, IInv, Inv, TypeOK, GameTypes
  <2> QED
    BY <2>1, <2>2, <2>3, <2>4 DEF TypeOK
<1>2. SessionKnown'
  BY DEF IInv, Inv, SessionKnown, TypeOK, AgentTypes, Joining, DriftOnDial, Terminates
<1>3. SessionOwner' /\ OneSession'
  BY SameSessions, EndsSessions DEF IInv, Inv, SessionKnown, TypeOK, AgentTypes,
         Joining, DriftOnDial, Terminates
<1>4. NoOrphanCivcom'
  BY SameCivcoms DEF DriftOnDial, civVars
<1> QED
  BY <1>1, <1>2, <1>3, <1>4 DEF IInv, Inv

\* Ready preserves the invariant.
LEMMA ReadyStep ==
  ASSUME IInv, NEW h \in Handler, Ready(h)
  PROVE  IInv'
<1>1. TypeOK'
  <2>1. AgentTypes'
    BY FailJoinTypes DEF Ready, IInv, Inv, TypeOK, AgentTypes
  <2>2. SessTypes'
    BY DEF Ready, sessVars, IInv, Inv, TypeOK, SessTypes
  <2>3. CivTypes'
    BY FailJoinTypes DEF Ready, IInv, Inv, TypeOK, CivTypes, Joining, Usable, Ref
  <2>4. GameTypes'
    <3> DEFINE now == IF player[Owner[h]] # None THEN ready \cup {Owner[h]} ELSE ready
               start == /\ player[Owner[h]] # None /\ ~game.started
                        /\ Cardinality(Players) >= 2 /\ Players \subseteq now
               g == [game EXCEPT !.starting = @ \/ start]
    <3>a. CheckAndResume(h, g, player) \/ (game' = g /\ player' = player)
      BY Zenon DEF Ready
    <3>4. ready' = now /\ UNCHANGED <<port, releases, sweep>>
      BY DEF Ready
    <3>1. now \subseteq Agent
      BY DEF IInv, Inv, TypeOK, GameTypes
    <3>2. start \in BOOLEAN
      OBVIOUS
    <3> HIDE DEF start
    <3>3. g \in Games
      BY <3>2 DEF IInv, Inv, TypeOK, GameTypes, Games
    <3> HIDE DEF g, now
    <3>5. player \in [Agent -> Ref]
      BY DEF IInv, Inv, TypeOK, GameTypes, Ref
    <3>6. game' \in Games /\ player' \in [Agent -> Ref]
      BY <3>3, <3>a, <3>5, ResumeTypes
    <3> QED
      BY <3>1, <3>4, <3>6 DEF IInv, Inv, TypeOK, GameTypes, Ref
  <2> QED
    BY <2>1, <2>2, <2>3, <2>4 DEF TypeOK
<1>2. SessionKnown'
  BY DEF IInv, Inv, SessionKnown, TypeOK, AgentTypes, Joining, Ready, FailJoin
<1>3. SessionOwner' /\ OneSession'
  BY SameSessions DEF Ready, sessVars
<1>4. NoOrphanCivcom'
  BY SameCivcoms, FailJoinCivcoms DEF Ready
<1> QED
  BY <1>1, <1>2, <1>3, <1>4 DEF IInv, Inv

\* OnClose preserves the invariant.
LEMMA OnCloseStep ==
  ASSUME IInv, NEW h \in Handler, NEW code, OnClose(h, code)
  PROVE  IInv'
<1>1. TypeOK'
  <2>1. AgentTypes'
    BY DEF OnClose, Forgets, Players, IInv, Inv, TypeOK, AgentTypes, SessTypes,
           CivTypes, GameTypes, Joining, Usable, Ref
  <2>2. SessTypes'
    BY DEF OnClose, CanSuspend, IInv, Inv, TypeOK, SessTypes, Joining, Usable, Ref
  <2>3. CivTypes'
    <3> DEFINE a == Owner[h]
               c == civ[h]
               r == IF reg[a] = c THEN [reg EXCEPT ![a] = None] ELSE reg
    <3>1. r \in [Agent -> Ref]
      BY DEF IInv, Inv, TypeOK, CivTypes, Ref
    <3>2. CivTypes
      BY DEF IInv, Inv, TypeOK
    <3>3. /\ \/ StopAll({c} \ {None}, r)
             \/ attached' = [attached EXCEPT ![c] = None] /\ UNCHANGED <<conn, reg>>
          /\ ended' = ended
      BY DEF OnClose
    <3> HIDE DEF r
    <3>4. CASE StopAll({c} \ {None}, r)
      BY <3>1, <3>2, <3>3, <3>4, StopAllTypes DEF CivTypes, Ref
    <3>5. CASE attached' = [attached EXCEPT ![c] = None] /\ UNCHANGED <<conn, reg>>
      BY <3>2, <3>3, <3>5 DEF CivTypes
    <3> QED
      BY <3>3, <3>4, <3>5
  <2>4. GameTypes'
    <3> DEFINE c == civ[h]
               over == game.over \/ (game.present /\ c \in ended)
               drops == /\ code # 4001 /\ game.started
                        /\ ~over /\ c \notin ended
               kept == CanSuspend(sid[h]) /\ Live(c)
               left == IF kept \/ ~game.present \/ stage[h] = "portless"
                       THEN player ELSE [player EXCEPT ![Owner[h]] = None]
               pause == game.paused \/ (drops /\ \E g \in {h} \cup {player[b] : b \in Players \ {Owner[h]}} :
                                                   Live(civ[g]))
               frees == /\ game.present /\ ~kept /\ stage[h] # "portless"
                        /\ \A b \in Agent : left[b] = None
                        /\ ~pause \/ over
    <3>1. game' = [game EXCEPT !.paused = pause, !.over = over, !.releasing = @ \/ frees]
      BY DEF OnClose
    <3>a. pause \in BOOLEAN /\ over \in BOOLEAN /\ frees \in BOOLEAN
      BY GameFlags DEF IInv, Inv, TypeOK, GameTypes
    <3> HIDE DEF pause, over, frees
    <3>b. game \in Games /\ game.releasing \in BOOLEAN
      BY GameFlags DEF IInv, Inv, TypeOK, GameTypes
    <3>2. game' \in Games
      BY <3>1, <3>a, <3>b DEF Games
    <3>3. player' \in [Agent -> Handler \cup {None}]
      BY DEF OnClose, IInv, Inv, TypeOK, GameTypes
    <3>4. ready' \subseteq Agent
      BY DEF OnClose, IInv, Inv, TypeOK, GameTypes
    <3>5. releases' \in Nat
      BY DEF OnClose, IInv, Inv, TypeOK, GameTypes
    <3>6. UNCHANGED <<port, sweep>>
      BY DEF OnClose
    <3> QED
      BY <3>2, <3>3, <3>4, <3>5, <3>6 DEF IInv, Inv, TypeOK, GameTypes
  <2> QED
    BY <2>1, <2>2, <2>3, <2>4 DEF TypeOK
<1>2. SessionKnown'
  BY DEF IInv, Inv, SessionKnown, TypeOK, AgentTypes, Joining, OnClose
<1>3. SessionOwner' /\ OneSession'
  BY DEF OnClose, CanSuspend, IInv, Inv, SessionOwner, OneSession, TypeOK, SessTypes,
         Usable
<1>4. NoOrphanCivcom'
  <2> DEFINE a == Owner[h]
             c == civ[h]
             r == IF reg[a] = c THEN [reg EXCEPT ![a] = None] ELSE reg
             D == {c} \ {None}
  <2>1. StopAll(D, r) \/ UNCHANGED <<conn, reg>>
    BY DEF OnClose
  <2>2. \A b \in Agent : r[b] = reg[b] \/ reg[b] \in D \cup {None}
    BY DEF IInv, Inv, TypeOK, CivTypes
  <2> HIDE DEF r, D
  <2> QED
    BY <2>1, <2>2, StopAllCivcoms, SameCivcoms
<1> QED
  BY <1>1, <1>2, <1>3, <1>4 DEF IInv, Inv

\* CivcomStops preserves the invariant.
LEMMA CivcomStopsStep ==
  ASSUME IInv, NEW c \in Handler, CivcomStops(c)
  PROVE  IInv'
<1>1. TypeOK'
  <2>1. AgentTypes'
    BY DEF CivcomStops, agentVars, IInv, Inv, TypeOK, AgentTypes
  <2>2. SessTypes'
    BY DEF CivcomStops, sessVars, IInv, Inv, TypeOK, SessTypes
  <2>3. CivTypes'
    BY StopAllTypes DEF CivcomStops, IInv, Inv, TypeOK, CivTypes, Joining, Usable, Ref
  <2>4. GameTypes'
    BY DEF CivcomStops, gameVars, IInv, Inv, TypeOK, GameTypes
  <2> QED
    BY <2>1, <2>2, <2>3, <2>4 DEF TypeOK
<1>2. SessionKnown'
  BY DEF IInv, Inv, SessionKnown, TypeOK, AgentTypes, Joining, CivcomStops, agentVars
<1>3. SessionOwner' /\ OneSession'
  BY SameSessions DEF CivcomStops, sessVars
<1>4. NoOrphanCivcom'
  BY StopAllCivcoms DEF CivcomStops
<1> QED
  BY <1>1, <1>2, <1>3, <1>4 DEF IInv, Inv

\* Endgame preserves the invariant.
LEMMA EndgameStep ==
  ASSUME IInv, NEW c \in Handler, Endgame(c)
  PROVE  IInv'
<1>1. TypeOK'
  <2>1. AgentTypes'
    BY DEF Endgame, agentVars, IInv, Inv, TypeOK, AgentTypes
  <2>2. SessTypes'
    BY DEF Endgame, sessVars, IInv, Inv, TypeOK, SessTypes
  <2>3. CivTypes'
    BY DEF Endgame, IInv, Inv, TypeOK, CivTypes
  <2>4. GameTypes'
    BY DEF Endgame, Games, IInv, Inv, TypeOK, GameTypes
  <2> QED
    BY <2>1, <2>2, <2>3, <2>4 DEF TypeOK
<1>2. SessionKnown'
  BY DEF IInv, Inv, SessionKnown, TypeOK, AgentTypes, Joining, Endgame, agentVars
<1>3. SessionOwner' /\ OneSession'
  BY SameSessions DEF Endgame, sessVars
<1>4. NoOrphanCivcom'
  BY SameCivcoms DEF Endgame
<1> QED
  BY <1>1, <1>2, <1>3, <1>4 DEF IInv, Inv

\* SessionExpires preserves the invariant.
LEMMA SessionExpiresStep ==
  ASSUME IInv, NEW s \in Handler, SessionExpires(s)
  PROVE  IInv'
<1>1. TypeOK'
  <2>1. AgentTypes'
    BY DEF SessionExpires, agentVars, IInv, Inv, TypeOK, AgentTypes
  <2>2. SessTypes'
    BY DEF SessionExpires, Ends, IInv, Inv, TypeOK, SessTypes
  <2>3. CivTypes'
    BY DEF SessionExpires, civVars, IInv, Inv, TypeOK, CivTypes
  <2>4. GameTypes'
    BY DEF SessionExpires, gameVars, IInv, Inv, TypeOK, GameTypes
  <2> QED
    BY <2>1, <2>2, <2>3, <2>4 DEF TypeOK
<1>2. SessionKnown'
  BY DEF IInv, Inv, SessionKnown, TypeOK, AgentTypes, Joining, SessionExpires, agentVars
<1>3. SessionOwner' /\ OneSession'
  BY EndsSessions DEF SessionExpires
<1>4. NoOrphanCivcom'
  BY SameCivcoms DEF SessionExpires, civVars
<1> QED
  BY <1>1, <1>2, <1>3, <1>4 DEF IInv, Inv

\* CivcomExpires preserves the invariant.
LEMMA CivcomExpiresStep ==
  ASSUME IInv, NEW a \in Agent, CivcomExpires(a)
  PROVE  IInv'
<1>1. TypeOK'
  <2>1. AgentTypes'
    BY DEF CivcomExpires, agentVars, IInv, Inv, TypeOK, AgentTypes
  <2>2. SessTypes'
    BY DEF CivcomExpires, sessVars, IInv, Inv, TypeOK, SessTypes
  <2>3. CivTypes'
    BY StopAllTypes DEF CivcomExpires, IInv, Inv, TypeOK, CivTypes, Joining, Usable, Ref
  <2>4. GameTypes'
    BY DEF CivcomExpires, gameVars, IInv, Inv, TypeOK, GameTypes
  <2> QED
    BY <2>1, <2>2, <2>3, <2>4 DEF TypeOK
<1>2. SessionKnown'
  BY DEF IInv, Inv, SessionKnown, TypeOK, AgentTypes, Joining, CivcomExpires, agentVars
<1>3. SessionOwner' /\ OneSession'
  BY SameSessions DEF CivcomExpires, sessVars
<1>4. NoOrphanCivcom'
  <2> DEFINE r == [reg EXCEPT ![a] = None]
             D == {reg[a]}
  <2>1. StopAll(D, r)
    BY DEF CivcomExpires
  <2>2. \A b \in Agent : r[b] = reg[b] \/ reg[b] \in D \cup {None}
    BY DEF IInv, Inv, TypeOK, CivTypes
  <2> HIDE DEF r, D
  <2> QED
    BY <2>1, <2>2, StopAllCivcoms
<1> QED
  BY <1>1, <1>2, <1>3, <1>4 DEF IInv, Inv

\* A step that touches neither sessions nor CivComs nor who waits.
LEMMA SameStep ==
  ASSUME IInv, TypeOK', UNCHANGED <<stage, sid, sess, agentSess, conn, reg>>
  PROVE  IInv'
<1>1. SessionKnown'
  BY DEF IInv, Inv, SessionKnown
<1> QED
  BY <1>1, SameSessions, SameCivcoms DEF IInv, Inv

\* Every step preserves the invariant.
LEMMA NextStep ==
  ASSUME IInv, [Next]_vars
  PROVE  IInv'
<1> USE DEF IInv
<1>1. ASSUME NEW h \in Handler, Reattach(h)
      PROVE  IInv'
  BY <1>1, ReattachStep
<1>2. ASSUME NEW h \in Handler, Drift(h)
      PROVE  IInv'
  BY <1>2, DriftStep
<1>3. ASSUME NEW h \in Handler, Dial(h)
      PROVE  IInv'
  BY <1>3, DialStep
<1>4. ASSUME NEW h \in Handler, DialFails(h)
      PROVE  IInv'
  BY <1>4, DialFailsStep
<1>5. ASSUME NEW h \in Handler, AllocateFails(h)
      PROVE  IInv'
  BY <1>5, AllocateFailsStep
<1>6. ASSUME NEW h \in Handler, Enter(h)
      PROVE  IInv'
  BY <1>6, EnterStep
<1>7. ASSUME NEW h \in Handler, NoPlayerId(h)
      PROVE  IInv'
  BY <1>7, NoPlayerIdStep
<1>8. ASSUME NEW h \in Handler, Redial(h)
      PROVE  IInv'
  BY <1>8, RedialStep
<1>9. ASSUME NEW h \in Handler, StaleRejected(h)
      PROVE  IInv'
  BY <1>9, StaleRejectedStep
<1>10. ASSUME NEW h \in Handler, DriftOnDial(h)
      PROVE  IInv'
  BY <1>10, DriftOnDialStep
<1>11. ASSUME NEW h \in Handler, Ready(h)
      PROVE  IInv'
  BY <1>11, ReadyStep
<1>12. ASSUME NEW h \in Handler, NEW code \in {1000, 4001}, OnClose(h, code)
      PROVE  IInv'
  BY <1>12, OnCloseStep
<1>13. ASSUME NEW h \in Handler, Closes(h)
      PROVE  IInv'
  BY <1>13, ClosesTypes, SameStep DEF Closes, agentVars, sessVars, civVars
<1>14. ASSUME NEW h \in Handler, DeadWrites(h)
      PROVE  IInv'
  BY <1>14, DeadWritesTypes, SameStep DEF DeadWrites, agentVars, sessVars, civVars
<1>15. ASSUME NEW c \in Handler, CivcomStops(c)
      PROVE  IInv'
  BY <1>15, CivcomStopsStep
<1>16. ASSUME NEW c \in Handler, Endgame(c)
      PROVE  IInv'
  BY <1>16, EndgameStep
<1>17. ASSUME NEW s \in Handler, SessionExpires(s)
      PROVE  IInv'
  BY <1>17, SessionExpiresStep
<1>18. ASSUME NEW a \in Agent, CivcomExpires(a)
      PROVE  IInv'
  BY <1>18, CivcomExpiresStep
<1>19. ASSUME NEW a \in Agent, StaleAgentSwept(a)
      PROVE  IInv'
  BY <1>19, StaleAgentSweptTypes, SameStep DEF StaleAgentSwept, agentVars, sessVars,
         civVars
<1>20. ASSUME StartGame
      PROVE  IInv'
  BY <1>20, StartGameTypes, SameStep DEF StartGame, agentVars, sessVars, civVars
<1>21. ASSUME StartAborts
      PROVE  IInv'
  BY <1>21, StartAbortsTypes, SameStep DEF StartAborts, agentVars, sessVars, civVars
<1>22. ASSUME DebounceEnds
      PROVE  IInv'
  BY <1>22, DebounceEndsTypes, SameStep DEF DebounceEnds, agentVars, sessVars, civVars
<1>23. ASSUME NEW ok \in BOOLEAN, Released(ok)
      PROVE  IInv'
  BY <1>23, ReleasedTypes, SameStep DEF Released, agentVars, sessVars, civVars
<1>24. ASSUME NEW ok \in BOOLEAN, SweepEnds(ok)
      PROVE  IInv'
  BY <1>24, SweepEndsTypes, SameStep DEF SweepEnds, agentVars, sessVars, civVars
<1>25. ASSUME NEW why \in {"over", "stale"}, SweepBegins(why)
      PROVE  IInv'
  BY <1>25, SweepBeginsTypes, SameStep DEF SweepBegins, agentVars, sessVars, civVars
<1>26. CASE UNCHANGED vars
  BY <1>26 DEF vars, agentVars, sessVars, civVars, gameVars, Inv, TypeOK, AgentTypes,
         SessTypes, CivTypes, GameTypes, SessionKnown, SessionOwner, OneSession,
         NoOrphanCivcom, Resumable
<1> QED
  BY <1>1, <1>2, <1>3, <1>4, <1>5, <1>6, <1>7, <1>8, <1>9, <1>10, <1>11, <1>12, <1>13,
     <1>14, <1>15, <1>16, <1>17, <1>18, <1>19, <1>20, <1>21, <1>22, <1>23, <1>24,
     <1>25, <1>26 DEF Next, AgentStep, Timeouts, Release

\* The invariant holds in every reachable state.
LEMMA Invariant == Spec => []IInv
<1>1. Init => IInv
  BY NewGameType DEF Init, IInv, Inv, TypeOK, AgentTypes, SessTypes, CivTypes,
         GameTypes, SessionKnown, SessionOwner, OneSession, NoOrphanCivcom, Joining,
         Usable
<1> QED
  BY <1>1, NextStep, PTL DEF Spec

\* Every variable keeps its type: the count of scheduled releases, the maps of
\* agents to handlers, sessions and CivComs, the flags of the GameSession.
THEOREM TypeCorrect == Spec => []TypeOK
  BY Invariant, PTL DEF IInv, Inv

\* An agent has at most one session that can be used or resumed, the one that
\* agent_to_session names, through every join, drop, failure and expiry.
THEOREM SessionsAgree == Spec => []OneSession
  BY Invariant, PTL DEF IInv

\* A CivCom thread that runs is registered for its agent, so no agent is logged
\* in twice and every thread is found by a reconnection or by the cleanup.
THEOREM CivcomsRegistered == Spec => []NoOrphanCivcom
  BY Invariant, PTL DEF IInv

\* Every CivCom thread and every usable session can be found again by the agent
\* it belongs to (AgentsFound).
THEOREM FoundAgain == Spec => []AgentsFound
  BY CivcomsRegistered, SessionsAgree, PTL DEF AgentsFound

-----------------------------------------------------------------------------
(* What is left of a handler, of a CivCom and of a game that are gone.     *)

\* A handler whose WebSocket is closed has no CivCom.
ClosedForgot == \A h \in Handler : ws[h] = "closed" => civ[h] = None

\* A CivCom that a handler has, or that is registered, was connected once.
Ran(c) == c # None => conn[c] # "none"
CivRan == \A h \in Handler : Ran(civ[h])
RegRan == \A a \in Agent : Ran(reg[a])

\* A handler that is yet to come has connected nothing.
IdleFresh == \A h \in Handler : ws[h] = "idle" => conn[h] = "none" /\ stage[h] = "none"

\* Without a GameSession nothing is started or paused, and nobody plays.
GameGone ==
  ~game.present => ~game.paused /\ ~game.started /\ \A a \in Agent : player[a] = None

Trace == ClosedForgot /\ CivRan /\ RegRan /\ IdleFresh /\ GameGone

\* What the lemmas below need to know of the types.
LEMMA Maps ==
  ASSUME TypeOK
  PROVE  /\ ws \in [Handler -> {"idle", "open", "closing", "closed"}]
         /\ stage \in [Handler -> {"none", "up", "failed", "portless"} \cup Joining]
         /\ sid \in [Handler -> Ref]
         /\ civ \in [Handler -> Ref]
         /\ conn \in [Handler -> {"none", "alive", "stopped"}]
         /\ attached \in [Handler -> Ref]
         /\ reg \in [Agent -> Ref]
         /\ game \in Games
         /\ player \in [Agent -> Ref]
         /\ Owner \in [Handler -> Agent]
         /\ None \notin Handler
  BY DEF TypeOK, AgentTypes, CivTypes, GameTypes, Ref

\* The types after a step.
LEMMA MapsNext ==
  ASSUME TypeOK'
  PROVE  /\ ws' \in [Handler -> {"idle", "open", "closing", "closed"}]
         /\ stage' \in [Handler -> {"none", "up", "failed", "portless"} \cup Joining]
         /\ civ' \in [Handler -> Ref]
         /\ conn' \in [Handler -> {"none", "alive", "stopped"}]
         /\ reg' \in [Agent -> Ref]
         /\ game' \in Games
         /\ player' \in [Agent -> Ref]
  BY DEF TypeOK, AgentTypes, CivTypes, GameTypes, Ref

\* A handler that logs in has a CivCom that was connected, or none.
LEMMA LoggedIn ==
  ASSUME TypeOK, Trace, NEW h \in Handler,
         ws[h] = "idle", ws' = [ws EXCEPT ![h] = "open"],
         \A g \in Handler \ {h} : stage'[g] = stage[g] /\ civ'[g] = civ[g],
         \A g \in Handler \ {h} : conn'[g] = "none" <=> conn[g] = "none",
         civ'[h] # None => civ'[h] \in Handler /\ conn'[civ'[h]] # "none"
  PROVE  ClosedForgot' /\ CivRan' /\ IdleFresh'
  BY Maps DEF Trace, ClosedForgot, CivRan, Ran, IdleFresh, Ref

\* Other steps bring back no handler and connect nothing for one that is yet to
\* come; a handler keeps its CivCom or forgets it.
LEMMA GoneOn ==
  ASSUME TypeOK, Trace,
         \A g \in Handler : ws'[g] = "idle" => ws[g] = "idle" /\ stage'[g] = stage[g],
         \A g \in Handler : ws'[g] = "closed" => ws[g] = "closed" \/ civ'[g] = None,
         \A g \in Handler : conn'[g] = "none" <=> conn[g] = "none",
         \A g \in Handler : civ'[g] \in {civ[g], None}
  PROVE  ClosedForgot' /\ CivRan' /\ IdleFresh'
  BY Maps DEF Trace, ClosedForgot, CivRan, Ran, IdleFresh, Ref

\* Stopping CivComs that were connected connects none.
LEMMA StopAllRan ==
  ASSUME TypeOK, Trace, NEW D \in SUBSET Handler, NEW r, StopAll(D, r),
         \A c \in D : conn[c] # "none",
         \A a \in Agent : r[a] \in {reg[a], None}
  PROVE  /\ \A c \in Handler : conn'[c] = "none" <=> conn[c] = "none"
         /\ RegRan'
  BY Maps DEF StopAll, Trace, RegRan, Ran, Ref

\* The E142 clause stops CivComs that were connected.
LEMMA FailJoinRan ==
  ASSUME TypeOK, Trace, NEW h \in Handler, FailJoin(h)
  PROVE  /\ \A c \in Handler : conn'[c] = "none" <=> conn[c] = "none"
         /\ RegRan'
<1> DEFINE c == reg[Owner[h]]
           r == IF c = civ[h] THEN reg ELSE [reg EXCEPT ![Owner[h]] = None]
           D == {civ[h], c} \ {None}
<1>1. StopAll(D, r)
  BY DEF FailJoin
<1>2. \A a \in Agent : r[a] \in {reg[a], None}
  BY Maps
<1>3. D \in SUBSET Handler
  BY Maps DEF Ref
<1>4. \A d \in D : conn[d] # "none"
  BY Maps DEF Trace, CivRan, RegRan, Ran
<1> HIDE DEF r, D
<1> QED
  BY <1>1, <1>2, <1>3, <1>4, StopAllRan

\* A CivCom that starts was connected; the one it replaces was before.
LEMMA RegisterRan ==
  ASSUME TypeOK, Trace, NEW h \in Handler, Register(h)
  PROVE  /\ \A c \in Handler \ {h} : conn'[c] = "none" <=> conn[c] = "none"
         /\ conn'[h] = "alive"
         /\ RegRan'
  BY Maps DEF Register, Trace, RegRan, Ran, Ref

\* A step that touches neither GameSession nor players keeps what holds of a
\* game that is gone; so does one that leaves a GameSession.
LEMMA StillGone ==
  ASSUME Trace, UNCHANGED <<game, player>> \/ game'.present
  PROVE  GameGone'
  BY DEF Trace, GameGone

\* allocate_civserver_port leaves a GameSession, or the game as it is.
LEMMA AllocateGone ==
  ASSUME Trace, NEW h \in Handler, Allocate(h), UNCHANGED player
  PROVE  GameGone'
  BY StillGone DEF Allocate, NewGame

\* _check_and_resume_game keeps the GameSession, and resumes only for players
\* whose handler has a CivCom that runs.
LEMMA Resumes ==
  ASSUME NEW h \in Handler, NEW g \in Games, NEW p, CheckAndResume(h, g, p)
  PROVE  /\ game'.present = g.present
         /\ game'.paused => g.paused
         /\ g.paused /\ ~game'.paused => \A a \in Agent :
              player'[a] # None => civ'[player'[a]] # None /\ conn'[civ'[player'[a]]] = "alive"
         /\ g.paused /\ ~g.recent /\ game'.paused => \E a \in Agent :
              player'[a] # None /\ ~(civ'[player'[a]] # None /\ conn'[civ'[player'[a]]] = "alive")
  BY DEF CheckAndResume, Games

\* get_or_create_session finds the game or makes one.
LEMMA TheGamePresent ==
  ASSUME TypeOK
  PROVE  /\ TheGame \in Games /\ TheGame.present
         /\ game.present => TheGame = game
  BY TheGameType DEF TypeOK, TheGame, NewGame


\* Reattach keeps the trace: the CivCom that is reused was connected.
LEMMA ReattachTrace ==
  ASSUME IInv, Trace, NEW h \in Handler, Reattach(h)
  PROVE  Trace'
<1> DEFINE c == reg[Owner[h]]
<1>1. TypeOK
  BY DEF IInv, Inv
<1>2. ws[h] = "idle" /\ ws' = [ws EXCEPT ![h] = "open"]
  BY DEF Reattach, Login
<1>3. /\ stage' = [stage EXCEPT ![h] = "up"] /\ civ' = [civ EXCEPT ![h] = c]
      /\ UNCHANGED <<conn, reg>>
  BY DEF Reattach
<1>4. c \in Handler /\ conn[c] # "none"
  BY <1>1, Maps DEF Reattach, Live, Ref
<1>5. ClosedForgot' /\ CivRan' /\ IdleFresh'
  BY <1>1, <1>2, <1>3, <1>4, LoggedIn, Maps
<1>6. RegRan'
  BY <1>3 DEF Trace, RegRan, Ran
<1>7. CheckAndResume(h, TheGame, AddPlayer(h))
  BY DEF Reattach
<1>8. GameGone'
  BY <1>1, <1>7, Resumes, TheGamePresent, StillGone
<1> QED
  BY <1>5, <1>6, <1>8 DEF Trace

\* Drift keeps the trace.
LEMMA DriftTrace ==
  ASSUME IInv, Trace, NEW h \in Handler, Drift(h)
  PROVE  Trace'
<1> DEFINE r == [reg EXCEPT ![Owner[h]] = None]
           D == {reg[Owner[h]]}
<1>1. TypeOK
  BY DEF IInv, Inv
<1>2. ws[h] = "idle" /\ ws' = [ws EXCEPT ![h] = "open"]
  BY DEF Drift, Login
<1>3. stage' = [stage EXCEPT ![h] = "failed"] /\ civ' = civ
  BY DEF Drift
<1>4. StopAll(D, r)
  BY DEF Drift
<1>5. D \in SUBSET Handler /\ \A d \in D : conn[d] # "none"
  BY <1>1, Maps DEF Drift, Live, Ref
<1>6. \A a \in Agent : r[a] \in {reg[a], None}
  BY <1>1, Maps
<1> HIDE DEF D, r
<1>7. (\A d \in Handler : conn'[d] = "none" <=> conn[d] = "none") /\ RegRan'
  BY <1>1, <1>4, <1>5, <1>6, StopAllRan
<1>8. ClosedForgot' /\ CivRan' /\ IdleFresh'
  BY <1>1, <1>2, <1>3, <1>7, LoggedIn, Maps DEF Trace, CivRan, Ran, Ref
<1>9. GameGone'
  BY AllocateGone DEF Drift
<1> QED
  BY <1>7, <1>8, <1>9 DEF Trace

\* Dial keeps the trace: the CivCom is new, or it is reused.
LEMMA DialTrace ==
  ASSUME IInv, Trace, NEW h \in Handler, Dial(h)
  PROVE  Trace'
<1> DEFINE c == reg[Owner[h]]
<1>1. TypeOK
  BY DEF IInv, Inv
<1>2. ws[h] = "idle" /\ ws' = [ws EXCEPT ![h] = "open"]
  BY DEF Dial, Login
<1>3. stage' = [stage EXCEPT ![h] = "dialing"]
  BY DEF Dial
<1>4. GameGone'
  BY AllocateGone DEF Dial
<1>5. CASE civ' = [civ EXCEPT ![h] = h] /\ Register(h)
  <2>1. /\ \A d \in Handler \ {h} : conn'[d] = "none" <=> conn[d] = "none"
        /\ conn'[h] = "alive"
        /\ RegRan'
    BY <1>1, <1>5, RegisterRan
  <2>2. ClosedForgot' /\ CivRan' /\ IdleFresh'
    BY <1>1, <1>2, <1>3, <1>5, <2>1, LoggedIn, Maps
  <2> QED
    BY <1>4, <2>1, <2>2 DEF Trace
<1>6. CASE Live(c) /\ civ' = [civ EXCEPT ![h] = c] /\ UNCHANGED <<conn, reg>>
  <2>1. c \in Handler /\ conn[c] # "none"
    BY <1>1, <1>6, Maps DEF Live, Ref
  <2>2. ClosedForgot' /\ CivRan' /\ IdleFresh'
    BY <1>1, <1>2, <1>3, <1>6, <2>1, LoggedIn, Maps
  <2>3. RegRan'
    BY <1>6 DEF Trace, RegRan, Ran
  <2> QED
    BY <1>4, <2>2, <2>3 DEF Trace
<1> QED
  BY <1>5, <1>6 DEF Dial

\* DialFails keeps the trace.
LEMMA DialFailsTrace ==
  ASSUME IInv, Trace, NEW h \in Handler, DialFails(h)
  PROVE  Trace'
<1>1. TypeOK
  BY DEF IInv, Inv
<1>2. /\ ws[h] = "idle" /\ ws' = [ws EXCEPT ![h] = "open"]
      /\ stage' = [stage EXCEPT ![h] = "failed"]
      /\ UNCHANGED <<civ, conn, reg>>
  BY DEF DialFails, civVars
<1>3. ClosedForgot' /\ CivRan' /\ IdleFresh'
  BY <1>1, <1>2, LoggedIn, Maps DEF Trace, CivRan, Ran, Ref
<1>4. RegRan'
  BY <1>2 DEF Trace, RegRan, Ran
<1>5. GameGone'
  BY AllocateGone DEF DialFails
<1> QED
  BY <1>3, <1>4, <1>5 DEF Trace

\* AllocateFails keeps the trace.
LEMMA AllocateFailsTrace ==
  ASSUME IInv, Trace, NEW h \in Handler, AllocateFails(h)
  PROVE  Trace'
<1> DEFINE r == [reg EXCEPT ![Owner[h]] = None]
           D == {reg[Owner[h]]} \ {None}
<1>1. TypeOK
  BY DEF IInv, Inv
<1>2. ws[h] = "idle" /\ ws' = [ws EXCEPT ![h] = "open"]
  BY DEF AllocateFails, Login
<1>3. stage' = [stage EXCEPT ![h] = "portless"] /\ civ' = civ
  BY DEF AllocateFails
<1>4. StopAll(D, r)
  BY DEF AllocateFails
<1>5. D \in SUBSET Handler /\ \A d \in D : conn[d] # "none"
  BY <1>1, Maps DEF Trace, RegRan, Ran, Ref
<1>6. \A a \in Agent : r[a] \in {reg[a], None}
  BY <1>1, Maps
<1> HIDE DEF D, r
<1>7. (\A d \in Handler : conn'[d] = "none" <=> conn[d] = "none") /\ RegRan'
  BY <1>1, <1>4, <1>5, <1>6, StopAllRan
<1>8. ClosedForgot' /\ CivRan' /\ IdleFresh'
  BY <1>1, <1>2, <1>3, <1>7, LoggedIn, Maps DEF Trace, CivRan, Ran, Ref
<1>9. GameGone'
  BY StillGone DEF AllocateFails, gameVars
<1> QED
  BY <1>7, <1>8, <1>9 DEF Trace

\* Enter keeps the trace: it leaves a GameSession.
LEMMA EnterTrace ==
  ASSUME IInv, Trace, NEW h \in Handler, Enter(h)
  PROVE  Trace'
<1>1. TypeOK
  BY DEF IInv, Inv
<1>2. UNCHANGED <<ws, civ>> /\ stage[h] = "dialing"
  BY DEF Enter
<1>3. \A g \in Handler : ws'[g] = "idle" => ws[g] = "idle" /\ stage'[g] = stage[g]
  BY <1>1, <1>2, Maps DEF Enter, FailJoin, Trace, IdleFresh
<1>4. /\ \A c \in Handler : conn'[c] = "none" <=> conn[c] = "none"
      /\ RegRan'
  BY <1>1, FailJoinRan DEF Enter, Trace, RegRan, Ran
<1>5. ClosedForgot' /\ CivRan' /\ IdleFresh'
  BY <1>1, <1>2, <1>3, <1>4, GoneOn
<1>6. game' = TheGame \/ CheckAndResume(h, TheGame, AddPlayer(h))
  BY DEF Enter
<1>7. GameGone'
  BY <1>1, <1>6, Resumes, TheGamePresent, StillGone
<1> QED
  BY <1>4, <1>5, <1>7 DEF Trace

\* NoPlayerId keeps the trace.
LEMMA NoPlayerIdTrace ==
  ASSUME IInv, Trace, NEW h \in Handler, NoPlayerId(h)
  PROVE  Trace'
<1>1. TypeOK
  BY DEF IInv, Inv
<1>2. UNCHANGED <<ws, civ>> /\ stage[h] = "dialing" /\ FailJoin(h) /\ game' = TheGame
  BY DEF NoPlayerId
<1>3. \A g \in Handler : ws'[g] = "idle" => ws[g] = "idle" /\ stage'[g] = stage[g]
  BY <1>1, <1>2, Maps DEF FailJoin, Trace, IdleFresh
<1>4. /\ \A c \in Handler : conn'[c] = "none" <=> conn[c] = "none"
      /\ RegRan'
  BY <1>1, <1>2, FailJoinRan
<1>5. ClosedForgot' /\ CivRan' /\ IdleFresh'
  BY <1>1, <1>2, <1>3, <1>4, GoneOn
<1>6. GameGone'
  BY <1>1, <1>2, TheGamePresent, StillGone
<1> QED
  BY <1>4, <1>5, <1>6 DEF Trace

\* Redial keeps the trace: the handler has connected before.
LEMMA RedialTrace ==
  ASSUME IInv, Trace, NEW h \in Handler, Redial(h)
  PROVE  Trace'
<1>1. TypeOK
  BY DEF IInv, Inv
<1>2. /\ UNCHANGED <<ws, stage>> /\ civ[h] = h /\ Register(h)
      /\ civ' = [g \in Handler |-> IF g # h /\ civ[g] = h THEN None ELSE civ[g]]
  BY DEF Redial
<1>3. /\ \A c \in Handler \ {h} : conn'[c] = "none" <=> conn[c] = "none"
      /\ conn'[h] = "alive"
      /\ RegRan'
  BY <1>1, <1>2, RegisterRan
<1>4. conn[h] # "none"
  BY <1>1, <1>2, Maps DEF Trace, CivRan, Ran
<1>5. \A c \in Handler : conn'[c] = "none" <=> conn[c] = "none"
  BY <1>3, <1>4
<1>6. \A g \in Handler : civ'[g] \in {civ[g], None}
  BY <1>2
<1>7. ClosedForgot' /\ CivRan' /\ IdleFresh'
  BY <1>1, <1>2, <1>5, <1>6, GoneOn
<1>8. GameGone'
  BY StillGone DEF Redial, gameVars
<1> QED
  BY <1>3, <1>7, <1>8 DEF Trace

\* StaleRejected keeps the trace.
LEMMA StaleRejectedTrace ==
  ASSUME IInv, Trace, NEW h \in Handler, StaleRejected(h)
  PROVE  Trace'
<1> DEFINE r == [reg EXCEPT ![Owner[h]] = None]
           D == {h, reg[Owner[h]]} \ {None}
<1>1. TypeOK
  BY DEF IInv, Inv
<1>2. /\ stage[h] = "dialing" /\ stage' = [stage EXCEPT ![h] = "failed"]
      /\ civ[h] = h /\ UNCHANGED civ
      /\ ws' = ws \/ ws' = [ws EXCEPT ![h] = "closing"]
  BY DEF StaleRejected, Terminates
<1>3. StopAll(D, r)
  BY DEF StaleRejected
<1>4. D \in SUBSET Handler
  BY <1>1, Maps DEF Ref
<1>5. \A d \in D : conn[d] # "none"
  BY <1>1, <1>2, Maps DEF Trace, CivRan, RegRan, Ran
<1>6. \A a \in Agent : r[a] \in {reg[a], None}
  BY <1>1, Maps
<1> HIDE DEF D, r
<1>7. (\A d \in Handler : conn'[d] = "none" <=> conn[d] = "none") /\ RegRan'
  BY <1>1, <1>3, <1>4, <1>5, <1>6, StopAllRan
<1>8. /\ \A g \in Handler : ws'[g] = "idle" => ws[g] = "idle" /\ stage'[g] = stage[g]
      /\ \A g \in Handler : ws'[g] = "closed" => ws[g] = "closed"
  BY <1>1, <1>2, Maps DEF Trace, IdleFresh
<1>9. ClosedForgot' /\ CivRan' /\ IdleFresh'
  BY <1>1, <1>2, <1>7, <1>8, GoneOn
<1>10. GameGone'
  BY StillGone DEF StaleRejected, gameVars
<1> QED
  BY <1>7, <1>9, <1>10 DEF Trace

\* A step that leaves CivComs and registry alone and logs nobody in keeps the
\* trace if the game does.
LEMMA SameTrace ==
  ASSUME TypeOK, Trace, GameGone', UNCHANGED <<civ, conn, reg>>,
         \A g \in Handler : ws'[g] = "idle" => ws[g] = "idle" /\ stage'[g] = stage[g],
         \A g \in Handler : ws'[g] = "closed" => ws[g] = "closed"
  PROVE  Trace'
<1>1. ClosedForgot' /\ CivRan' /\ IdleFresh'
  BY GoneOn
<1>2. RegRan'
  BY DEF Trace, RegRan, Ran
<1> QED
  BY <1>1, <1>2 DEF Trace

\* DriftOnDial keeps the trace.
LEMMA DriftOnDialTrace ==
  ASSUME IInv, Trace, NEW h \in Handler, DriftOnDial(h)
  PROVE  Trace'
<1>1. TypeOK
  BY DEF IInv, Inv
<1>2. /\ stage[h] = "dialing" /\ stage' = [stage EXCEPT ![h] = "failed"]
      /\ UNCHANGED <<ws, civ, conn, reg, game, player>>
  BY DEF DriftOnDial, Terminates, civVars, gameVars
<1> QED
  BY <1>1, <1>2, Maps, SameTrace, StillGone DEF Trace, IdleFresh

\* Ready keeps the trace.
LEMMA ReadyTrace ==
  ASSUME IInv, Trace, NEW h \in Handler, Ready(h)
  PROVE  Trace'
<1>1. TypeOK
  BY DEF IInv, Inv
<1>2. UNCHANGED <<ws, civ>> /\ stage[h] = "entering"
  BY DEF Ready
<1>3. \A g \in Handler : ws'[g] = "idle" => ws[g] = "idle" /\ stage'[g] = stage[g]
  BY <1>1, <1>2, Maps DEF Ready, FailJoin, Trace, IdleFresh
<1>4. /\ \A c \in Handler : conn'[c] = "none" <=> conn[c] = "none"
      /\ RegRan'
  BY <1>1, FailJoinRan DEF Ready, Trace, RegRan, Ran
<1>5. ClosedForgot' /\ CivRan' /\ IdleFresh'
  BY <1>1, <1>2, <1>3, <1>4, GoneOn
<1>6. GameGone'
  <2>1. CASE game.present
    <3>1. game'.present
      BY <1>1, <2>1, Maps DEF Ready, CheckAndResume, Games
    <3> QED
      BY <3>1, StillGone
  <2>2. CASE ~game.present
    <3>1. ~game.paused /\ ~game.started /\ \A a \in Agent : player[a] = None
      BY <2>2 DEF Trace, GameGone
    <3>2. ~game'.paused /\ ~game'.started /\ player' = player
      BY <1>1, <3>1, Maps DEF Ready, CheckAndResume, Games
    <3> QED
      BY <3>1, <3>2 DEF GameGone
  <2> QED
    BY <2>1, <2>2
<1> QED
  BY <1>4, <1>5, <1>6 DEF Trace

\* OnClose keeps the trace: self.civcom is reset, only CivComs that were
\* connected stop, and nothing is paused without a game.
LEMMA OnCloseTrace ==
  ASSUME IInv, Trace, NEW h \in Handler, NEW code, OnClose(h, code)
  PROVE  Trace'
<1> DEFINE a == Owner[h]
           c == civ[h]
           r == IF reg[a] = c THEN [reg EXCEPT ![a] = None] ELSE reg
           D == {c} \ {None}
<1>1. TypeOK
  BY DEF IInv, Inv
<1>2. /\ UNCHANGED stage /\ civ' = [civ EXCEPT ![h] = None] /\ ws[h] = "closing"
  BY DEF OnClose, Forgets
<1>3. ws'[h] = "closed"
  BY DEF OnClose
<1>4. \A g \in Handler \ {h} : ws'[g] \in {ws[g], "closing"}
  BY DEF OnClose
<1>5. StopAll(D, r) \/ UNCHANGED <<conn, reg>>
  BY DEF OnClose
<1>6. D \in SUBSET Handler /\ \A d \in D : conn[d] # "none"
  BY <1>1, Maps DEF Trace, CivRan, Ran, Ref
<1>7. \A b \in Agent : r[b] \in {reg[b], None}
  BY <1>1, Maps
<1> HIDE DEF D, r
<1>8. (\A d \in Handler : conn'[d] = "none" <=> conn[d] = "none") /\ RegRan'
  BY <1>1, <1>5, <1>6, <1>7, StopAllRan DEF Trace, RegRan, Ran
<1>9. ClosedForgot' /\ CivRan' /\ IdleFresh'
  BY <1>1, <1>2, <1>3, <1>4, <1>8, GoneOn, Maps
<1>10. GameGone'
  <2>1. game'.present = game.present /\ game'.started = game.started
    BY <1>1, Maps DEF OnClose, Games
  <2>2. game'.paused => game.paused \/ game.started
    BY <1>1, Maps DEF OnClose, Games
  <2>3. \A b \in Agent : player[b] = None => player'[b] = None
    BY <1>1, Maps DEF OnClose
  <2> QED
    BY <2>1, <2>2, <2>3 DEF Trace, GameGone
<1> QED
  BY <1>8, <1>9, <1>10 DEF Trace


\* A step that leaves handlers, CivComs and registry alone keeps the trace if
\* the game does.
LEMMA SameHandlers ==
  ASSUME TypeOK, Trace, GameGone', UNCHANGED <<ws, stage, civ, conn, reg>>
  PROVE  Trace'
  BY SameTrace

\* The end of a CivCom that runs keeps the trace.
LEMMA CivcomStopsTrace ==
  ASSUME IInv, Trace, NEW c \in Handler, CivcomStops(c)
  PROVE  Trace'
<1>1. TypeOK
  BY DEF IInv, Inv
<1>2. StopAll({c}, reg) /\ UNCHANGED <<ws, stage, civ, game, player>> /\ conn[c] = "alive"
  BY DEF CivcomStops, agentVars, gameVars
<1>3. (\A d \in Handler : conn'[d] = "none" <=> conn[d] = "none") /\ RegRan'
  BY <1>1, <1>2, StopAllRan
<1>4. ClosedForgot' /\ CivRan' /\ IdleFresh'
  BY <1>1, <1>2, <1>3, GoneOn
<1> QED
  BY <1>2, <1>3, <1>4, StillGone DEF Trace

\* So does the cleanup of a CivCom.
LEMMA CivcomExpiresTrace ==
  ASSUME IInv, Trace, NEW a \in Agent, CivcomExpires(a)
  PROVE  Trace'
<1> DEFINE r == [reg EXCEPT ![a] = None]
           D == {reg[a]}
<1>1. TypeOK
  BY DEF IInv, Inv
<1>2. StopAll(D, r) /\ UNCHANGED <<ws, stage, civ, game, player>>
  BY DEF CivcomExpires, agentVars, gameVars
<1>3. D \in SUBSET Handler /\ \A d \in D : conn[d] # "none"
  BY <1>1, Maps DEF CivcomExpires, Trace, RegRan, Ran, Ref
<1>4. \A b \in Agent : r[b] \in {reg[b], None}
  BY <1>1, Maps
<1> HIDE DEF D, r
<1>5. (\A d \in Handler : conn'[d] = "none" <=> conn[d] = "none") /\ RegRan'
  BY <1>1, <1>2, <1>3, <1>4, StopAllRan
<1>6. ClosedForgot' /\ CivRan' /\ IdleFresh'
  BY <1>1, <1>2, <1>5, GoneOn
<1> QED
  BY <1>2, <1>5, <1>6, StillGone DEF Trace

\* What happens to the GameSession alone keeps the trace: it starts only with
\* players, and goes with all that is said of it.
LEMMA GameTrace ==
  ASSUME IInv, Trace, NEW ok \in BOOLEAN, NEW why,
         \/ StartGame \/ StartAborts \/ DebounceEnds
         \/ Released(ok) \/ SweepEnds(ok) \/ SweepBegins(why)
  PROVE  Trace'
<1>1. TypeOK
  BY DEF IInv, Inv
<1>2. UNCHANGED <<ws, stage, civ, conn, reg>>
  BY DEF StartGame, StartAborts, DebounceEnds, Released, SweepEnds, SweepBegins,
         agentVars, civVars
<1>3. CASE SweepEnds(ok) /\ ok
  <2>1. /\ game' = [NewGame EXCEPT !.present = FALSE]
        /\ player' = [a \in Agent |-> None]
    BY <1>3 DEF SweepEnds
  <2>2. GameGone'
    BY <2>1 DEF GameGone, NewGame
  <2> QED
    BY <1>1, <1>2, <2>2, SameHandlers
<1>4. CASE StartGame
  <2>1. \E a \in Agent : player[a] # None
    BY <1>4 DEF StartGame, Players
  <2>2. game'.present = game.present
    BY <1>1, <1>4, Maps DEF StartGame, Games
  <2>3. GameGone'
    BY <2>1, <2>2, StillGone DEF Trace, GameGone
  <2> QED
    BY <1>1, <1>2, <2>3, SameHandlers
<1>5. CASE \/ StartAborts \/ DebounceEnds \/ Released(ok) \/ SweepBegins(why)
           \/ SweepEnds(ok) /\ ~ok
  <2>1. /\ game'.present = game.present /\ game'.started = game.started
        /\ game'.paused = game.paused
    BY <1>1, <1>5, Maps DEF StartAborts, DebounceEnds, Released, SweepBegins, SweepEnds,
           Games
  <2>2. UNCHANGED player
    BY <1>5 DEF StartAborts, DebounceEnds, Released, SweepBegins, SweepEnds
  <2>3. GameGone'
    BY <2>1, <2>2 DEF Trace, GameGone
  <2> QED
    BY <1>1, <1>2, <2>3, SameHandlers
<1> QED
  BY <1>3, <1>4, <1>5

\* Closes, DeadWrites and Endgame keep the trace; so do the ends of sessions
\* and entries.
LEMMA ClosesTrace ==
  ASSUME IInv, Trace, NEW h \in Handler, Closes(h)
  PROVE  Trace'
<1>1. TypeOK
  BY DEF IInv, Inv
<1>2. /\ ws' = [ws EXCEPT ![h] = "closing"] /\ UNCHANGED <<stage, civ, conn, reg>>
      /\ UNCHANGED <<game, player>>
  BY DEF Closes, civVars, gameVars
<1>3. GameGone'
  BY <1>2, StillGone
<1> QED
  BY <1>1, <1>2, <1>3, SameTrace, Maps

\* Failed writes pause a game that is there.
LEMMA DeadWritesTrace ==
  ASSUME IInv, Trace, NEW h \in Handler, DeadWrites(h)
  PROVE  Trace'
<1>1. TypeOK
  BY DEF IInv, Inv
<1>2. game'.present
  BY <1>1, Maps DEF DeadWrites, Games
<1>3. UNCHANGED <<ws, stage, civ, conn, reg>>
  BY DEF DeadWrites, agentVars, civVars
<1> QED
  BY <1>1, <1>2, <1>3, StillGone, SameHandlers

\* The report of the end changes neither players nor what is started or paused.
LEMMA EndgameTrace ==
  ASSUME IInv, Trace, NEW c \in Handler, Endgame(c)
  PROVE  Trace'
<1>1. TypeOK
  BY DEF IInv, Inv
<1>2. /\ game'.present = game.present /\ game'.started = game.started
      /\ game'.paused = game.paused
  BY <1>1, Maps DEF Endgame, Games
<1>3. UNCHANGED <<ws, stage, civ, conn, reg, player>>
  BY DEF Endgame, agentVars
<1>4. GameGone'
  BY <1>2, <1>3 DEF Trace, GameGone
<1> QED
  BY <1>1, <1>3, <1>4, SameHandlers

\* The end of a session, and of an entry of llm_agents, is none of these.
LEMMA OtherTrace ==
  ASSUME IInv, Trace, NEW s, NEW a,
         SessionExpires(s) \/ StaleAgentSwept(a) \/ UNCHANGED vars
  PROVE  Trace'
<1>1. TypeOK
  BY DEF IInv, Inv
<1>2. UNCHANGED <<ws, stage, civ, conn, reg, game, player>>
  BY DEF SessionExpires, StaleAgentSwept, vars, agentVars, civVars, gameVars
<1> QED
  BY <1>1, <1>2, StillGone, SameHandlers

\* Every step keeps the trace.
LEMMA TraceStep ==
  ASSUME IInv, Trace, [Next]_vars
  PROVE  Trace'
<1>1. ASSUME NEW h \in Handler, AgentStep(h)
      PROVE  Trace'
  BY <1>1, ReattachTrace, DriftTrace, DialTrace, DialFailsTrace, AllocateFailsTrace,
     EnterTrace, NoPlayerIdTrace, ReadyTrace, RedialTrace, StaleRejectedTrace,
     DriftOnDialTrace, ClosesTrace, DeadWritesTrace, OnCloseTrace DEF AgentStep
<1>2. CASE Timeouts
  BY <1>2, CivcomStopsTrace, EndgameTrace, CivcomExpiresTrace, OtherTrace, GameTrace
     DEF Timeouts
<1>3. CASE Release
  BY <1>3, GameTrace DEF Release
<1>4. CASE StartGame \/ StartAborts
  BY <1>4, GameTrace
<1>5. CASE UNCHANGED vars
  BY <1>5, OtherTrace
<1> QED
  BY <1>1, <1>2, <1>3, <1>4, <1>5 DEF Next

\* The trace holds in every reachable state.
LEMMA TraceHolds == Spec => []Trace
<1>1. Init => Trace
  BY DEF Init, Trace, ClosedForgot, CivRan, RegRan, Ran, IdleFresh, GameGone, NewGame
<1> QED
  BY <1>1, Invariant, TraceStep, PTL DEF Spec


-----------------------------------------------------------------------------
(* Resuming.                                                               *)

\* _check_and_resume_game, for a handler that is there now: a paused game that
\* stays paused has a player who is not back, or was resumed just now; and it
\* is resumed only for players whose handler has a CivCom.
Checked ==
  /\ ~game'.paused => \A a \in Agent : player'[a] # None => civ'[player'[a]] # None
  /\ game'.paused => ~AllBack' \/ game.recent

\* A game that is not resumed stays paused or goes, and nobody comes back.
Away == (game'.present => game'.paused) /\ (AllBack' => AllBack)

\* The check finds everyone who is back.
LEMMA CheckResumes ==
  ASSUME TypeOK, game.paused, NEW h \in Handler, NEW g \in Games, NEW p,
         CheckAndResume(h, g, p), g.paused, g.recent = game.recent
  PROVE  Checked
<1>1. ~game'.paused => \A a \in Agent :
        player'[a] # None => civ'[player'[a]] # None /\ conn'[civ'[player'[a]]] = "alive"
  BY Resumes
<1>2. ~g.recent /\ game'.paused => \E a \in Agent :
        player'[a] # None /\ ~(civ'[player'[a]] # None /\ conn'[civ'[player'[a]]] = "alive")
  BY Resumes
<1>3. game'.paused /\ ~g.recent => ~AllBack'
  BY <1>2 DEF AllBack, Live
<1>4. game'.paused => ~AllBack' \/ game.recent
  BY <1>3
<1> QED
  BY <1>1, <1>4 DEF Checked

\* Nobody comes back in a step that lets no handler be up, opens no WebSocket
\* of one that is, and gives none a CivCom that runs.
LEMMA NobodyBack ==
  ASSUME TypeOK, TypeOK', AllBack',
         \A a \in Agent : \/ player'[a] \in {player[a], None}
                          \/ stage'[player'[a]] # "up",
         \A g \in Handler : stage'[g] = "up" =>
             /\ stage[g] = "up"
             /\ ws'[g] = "open" => ws[g] = "open"
             /\ civ'[g] \in {civ[g], None}
             /\ civ'[g] # None /\ conn'[civ'[g]] = "alive" => conn[civ'[g]] = "alive"
  PROVE  AllBack
<1> SUFFICES ASSUME NEW a \in Agent
             PROVE  /\ player[a] # None /\ stage[player[a]] = "up" /\ ws[player[a]] = "open"
                    /\ Live(civ[player[a]])
  BY DEF AllBack
<1>1. /\ player'[a] # None /\ stage'[player'[a]] = "up" /\ ws'[player'[a]] = "open"
      /\ civ'[player'[a]] # None /\ conn'[civ'[player'[a]]] = "alive"
  BY DEF AllBack, Live
<1>2. player'[a] \in Handler /\ player'[a] = player[a]
  BY <1>1, MapsNext DEF Ref
<1> QED
  BY <1>1, <1>2 DEF Live

\* A handler that logs in and is not up is nobody's return.
LEMMA JoiningAway ==
  ASSUME IInv, Trace, TypeOK', game.paused, NEW h \in Handler,
         Drift(h) \/ Dial(h) \/ DialFails(h) \/ AllocateFails(h)
  PROVE  Away
<1>1. TypeOK /\ game.present
  BY DEF IInv, Inv, Trace, GameGone
<1>2. game' = game /\ player' = player
  BY <1>1 DEF Drift, Dial, DialFails, AllocateFails, Allocate, gameVars
<1>3. /\ ws[h] = "idle"
      /\ ws' = [ws EXCEPT ![h] = "open"]
      /\ stage'[h] \in {"failed", "dialing", "portless"}
      /\ \A g \in Handler \ {h} : stage'[g] = stage[g] /\ civ'[g] = civ[g]
  BY <1>1, Maps DEF Drift, Dial, DialFails, AllocateFails, Login
<1>4. conn[h] = "none"
  BY <1>3 DEF Trace, IdleFresh
<1>5. \A c \in Handler \ {h} : conn'[c] = "alive" => conn[c] = "alive"
  BY <1>1, Maps DEF Drift, Dial, DialFails, AllocateFails, StopAll, Register, civVars
<1>6. \A g \in Handler : civ[g] \in Handler => civ[g] # h
  BY <1>4 DEF Trace, CivRan, Ran
<1>7. ASSUME NEW g \in Handler, stage'[g] = "up"
      PROVE  /\ stage[g] = "up"
             /\ ws'[g] = "open" => ws[g] = "open"
             /\ civ'[g] \in {civ[g], None}
             /\ civ'[g] # None /\ conn'[civ'[g]] = "alive" => conn[civ'[g]] = "alive"
  <2>1. g # h
    BY <1>3, <1>7
  <2> QED
    BY <1>1, <1>3, <1>5, <1>6, <1>7, <2>1, Maps DEF Ref
<1>8. AllBack' => AllBack
  BY <1>1, <1>2, <1>7, NobodyBack
<1> QED
  BY <1>2, <1>8 DEF Away

\* The E142 clause brings nobody back.
LEMMA FailJoinAway ==
  ASSUME TypeOK, TypeOK', NEW h \in Handler, FailJoin(h), UNCHANGED <<ws, civ>>,
         \A a \in Agent : player'[a] \in {player[a], None, h}
  PROVE  AllBack' => AllBack
<1>1. stage' = [stage EXCEPT ![h] = "failed"]
  BY DEF FailJoin
<1>2. \A c \in Handler : conn'[c] = "alive" => conn[c] = "alive"
  BY Maps DEF FailJoin, StopAll
<1>3. \A g \in Handler : stage'[g] = "up" => g # h /\ stage[g] = "up"
  BY <1>1, Maps
<1>4. \A a \in Agent : player'[a] \in {player[a], None} \/ stage'[player'[a]] # "up"
  BY <1>1, Maps
<1> QED
  BY <1>2, <1>3, <1>4, NobodyBack, Maps DEF Ref

\* Reattach checks.
LEMMA ReattachChecked ==
  ASSUME IInv, Trace, game.paused, NEW h \in Handler, Reattach(h)
  PROVE  Checked
<1>1. TypeOK /\ game.present
  BY DEF IInv, Inv, Trace, GameGone
<1>2. TheGame = game /\ game \in Games
  BY <1>1, TheGamePresent
<1> QED
  BY <1>1, <1>2, CheckResumes DEF Reattach

\* Enter checks, or lets nobody be up.
LEMMA EnterChecked ==
  ASSUME IInv, Trace, TypeOK', game.paused, NEW h \in Handler, Enter(h)
  PROVE  Checked \/ Away
<1>1. TypeOK /\ game.present
  BY DEF IInv, Inv, Trace, GameGone
<1>2. TheGame = game /\ game \in Games
  BY <1>1, TheGamePresent
<1>3. UNCHANGED <<ws, civ>> /\ stage[h] = "dialing"
  BY DEF Enter
<1>4. \A a \in Agent : AddPlayer(h)[a] \in {player[a], h}
  BY <1>1, Maps DEF AddPlayer
<1>5. CASE CheckAndResume(h, TheGame, AddPlayer(h))
  BY <1>1, <1>2, <1>5, CheckResumes
<1>6. CASE FailJoin(h) /\ player' = AddPlayer(h) /\ game' = TheGame
  BY <1>1, <1>2, <1>3, <1>4, <1>6, FailJoinAway DEF Away
<1>7. CASE /\ stage' = [stage EXCEPT ![h] = "entering"]
           /\ player' = AddPlayer(h) /\ game' = TheGame
           /\ UNCHANGED conn
  <2>1. \A g \in Handler : stage'[g] = "up" => stage[g] = "up"
    BY <1>1, <1>7, Maps
  <2>2. \A a \in Agent : player'[a] \in {player[a], None} \/ stage'[player'[a]] # "up"
    BY <1>1, <1>4, <1>7, Maps
  <2>3. AllBack' => AllBack
    BY <1>1, <1>3, <1>7, <2>1, <2>2, NobodyBack
  <2> QED
    BY <1>2, <1>7, <2>3 DEF Away
<1> QED
  BY <1>5, <1>6, <1>7 DEF Enter

\* Ready checks, or fails.
LEMMA ReadyChecked ==
  ASSUME IInv, Trace, TypeOK', game.paused, NEW h \in Handler, Ready(h)
  PROVE  Checked \/ Away
<1> DEFINE now == IF player[Owner[h]] # None THEN ready \cup {Owner[h]} ELSE ready
           start == /\ player[Owner[h]] # None /\ ~game.started
                    /\ Cardinality(Players) >= 2 /\ Players \subseteq now
           g == [game EXCEPT !.starting = @ \/ start]
<1>1. TypeOK
  BY DEF IInv, Inv
<1>2. UNCHANGED <<ws, civ>>
  BY DEF Ready
<1>3. \/ CheckAndResume(h, g, player)
      \/ FailJoin(h) /\ game' = g /\ player' = player
  BY Zenon DEF Ready
<1>4. start \in BOOLEAN
  OBVIOUS
<1> HIDE DEF start
<1>5. g \in Games /\ g.paused = game.paused /\ g.recent = game.recent
  BY <1>1, <1>4, Maps DEF Games
<1> HIDE DEF g
<1>6. CASE CheckAndResume(h, g, player)
  BY <1>1, <1>5, <1>6, CheckResumes
<1>7. CASE FailJoin(h) /\ game' = g /\ player' = player
  BY <1>1, <1>2, <1>5, <1>7, FailJoinAway DEF Away
<1> QED
  BY <1>3, <1>6, <1>7

\* NoPlayerId fails.
LEMMA NoPlayerIdAway ==
  ASSUME IInv, Trace, TypeOK', game.paused, NEW h \in Handler, NoPlayerId(h)
  PROVE  Away
<1>1. TypeOK /\ game.present
  BY DEF IInv, Inv, Trace, GameGone
<1>2. game' = game
  BY <1>1, TheGamePresent DEF NoPlayerId
<1> QED
  BY <1>1, <1>2, FailJoinAway DEF NoPlayerId, Away

\* Redial gives a CivCom that runs to the handler that is joining, not to one
\* that had the refused one.
LEMMA RedialAway ==
  ASSUME IInv, Trace, TypeOK', game.paused, NEW h \in Handler, Redial(h)
  PROVE  Away
<1>1. TypeOK
  BY DEF IInv, Inv
<1>2. /\ UNCHANGED <<ws, stage, game, player>> /\ stage[h] = "dialing"
      /\ civ' = [g \in Handler |-> IF g # h /\ civ[g] = h THEN None ELSE civ[g]]
  BY DEF Redial, gameVars
<1>3. \A c \in Handler \ {h} : conn'[c] = "alive" => conn[c] = "alive"
  BY <1>1, Maps DEF Redial, Register
<1>4. ASSUME NEW g \in Handler, stage'[g] = "up"
      PROVE  /\ stage[g] = "up"
             /\ ws'[g] = "open" => ws[g] = "open"
             /\ civ'[g] \in {civ[g], None}
             /\ civ'[g] # None /\ conn'[civ'[g]] = "alive" => conn[civ'[g]] = "alive"
  <2>1. g # h
    BY <1>2, <1>4
  <2>2. civ'[g] # h
    BY <1>2, <2>1
  <2> QED
    BY <1>1, <1>2, <1>3, <1>4, <2>1, <2>2, Maps DEF Ref
<1>5. AllBack' => AllBack
  BY <1>1, <1>2, <1>4, NobodyBack
<1> QED
  BY <1>2, <1>5 DEF Away

\* Other steps of handlers and CivComs stop CivComs, close WebSockets or take
\* players away.
LEMMA LeavingAway ==
  ASSUME IInv, TypeOK', game.paused, NEW h, NEW a, NEW code, NEW s,
         \/ StaleRejected(h) \/ DriftOnDial(h) \/ Closes(h) \/ DeadWrites(h)
         \/ OnClose(h, code)
         \/ CivcomStops(h) \/ Endgame(h) \/ CivcomExpires(a)
         \/ SessionExpires(s) \/ StaleAgentSwept(a)
  PROVE  Away
<1>1. TypeOK
  BY DEF IInv, Inv
<1>a. game \in Games
  BY <1>1 DEF TypeOK, GameTypes
<1>2. game'.paused
  <2>1. CASE StaleRejected(h) \/ DriftOnDial(h) \/ Closes(h) \/ CivcomStops(h)
             \/ CivcomExpires(a) \/ SessionExpires(s) \/ StaleAgentSwept(a)
    <3>1. game' = game
      BY <2>1 DEF StaleRejected, DriftOnDial, Closes, CivcomStops, CivcomExpires, SessionExpires,
             StaleAgentSwept, gameVars
    <3> QED BY <3>1
  <2>2. CASE DeadWrites(h)
    BY <1>a, <2>2 DEF DeadWrites, Games
  <2>3. CASE Endgame(h)
    BY <1>a, <2>3 DEF Endgame, Games
  <2>4. CASE OnClose(h, code)
    BY <1>a, <2>4 DEF OnClose, Games
  <2> QED BY <2>1, <2>2, <2>3, <2>4
<1>3. \A b \in Agent : player'[b] \in {player[b], None}
  BY <1>1, Maps DEF StaleRejected, DriftOnDial, Closes, DeadWrites, OnClose, CivcomStops,
         Endgame, CivcomExpires, SessionExpires, StaleAgentSwept, gameVars
<1>4. \A g \in Handler : stage'[g] = "up" => stage[g] = "up"
  BY <1>1, Maps DEF StaleRejected, DriftOnDial, Closes, DeadWrites, OnClose, CivcomStops,
         Endgame, CivcomExpires, SessionExpires, StaleAgentSwept, agentVars
<1>5. \A g \in Handler : ws'[g] = "open" => ws[g] = "open"
  BY <1>1, Maps DEF StaleRejected, Terminates, DriftOnDial, Closes, DeadWrites, OnClose,
         CivcomStops, Endgame, CivcomExpires, SessionExpires, StaleAgentSwept, agentVars
<1>6. \A g \in Handler : civ'[g] \in {civ[g], None}
  BY <1>1, Maps DEF StaleRejected, DriftOnDial, Closes, DeadWrites, OnClose, Forgets,
         CivcomStops, Endgame, CivcomExpires, SessionExpires, StaleAgentSwept, agentVars
<1>7. \A c \in Handler : conn'[c] = "alive" => conn[c] = "alive"
  BY <1>1, Maps DEF StaleRejected, DriftOnDial, Closes, DeadWrites, OnClose, CivcomStops,
         Endgame, CivcomExpires, SessionExpires, StaleAgentSwept, StopAll, civVars
<1>8. AllBack' => AllBack
  BY <1>1, <1>3, <1>4, <1>5, <1>6, <1>7, NobodyBack, Maps DEF Ref
<1> QED
  BY <1>2, <1>8 DEF Away

\* Steps of the GameSession alone leave everyone where they are.
LEMMA GameAway ==
  ASSUME IInv, TypeOK', game.paused, NEW ok \in BOOLEAN, NEW why,
         \/ StartGame \/ StartAborts \/ DebounceEnds \/ Released(ok) \/ SweepEnds(ok)
         \/ SweepBegins(why) \/ UNCHANGED vars
  PROVE  Away
<1>1. TypeOK
  BY DEF IInv, Inv
<1>2. game'.present => game'.paused
  BY <1>1, Maps DEF StartGame, StartAborts, DebounceEnds, Released, SweepEnds, SweepBegins,
         vars, gameVars, Games, NewGame
<1>3. \A b \in Agent : player'[b] \in {player[b], None}
  BY <1>1, Maps DEF StartGame, StartAborts, DebounceEnds, Released, SweepEnds, SweepBegins,
         vars, gameVars
<1>4. UNCHANGED <<ws, stage, civ, conn>>
  BY DEF StartGame, StartAborts, DebounceEnds, Released, SweepEnds, SweepBegins,
         vars, agentVars, civVars
<1>5. AllBack' => AllBack
  BY <1>1, <1>3, <1>4, NobodyBack
<1> QED
  BY <1>2, <1>5 DEF Away

\* A step of a paused game checks, or leaves it paused or gone with nobody back.
LEMMA PausedStep ==
  ASSUME IInv, Trace, TypeOK', game.paused, [Next]_vars
  PROVE  Checked \/ Away
<1>1. ASSUME NEW h \in Handler, AgentStep(h)
      PROVE  Checked \/ Away
  BY <1>1, ReattachChecked, EnterChecked, ReadyChecked, JoiningAway, NoPlayerIdAway,
     RedialAway, LeavingAway DEF AgentStep
<1>2. CASE Timeouts
  BY <1>2, LeavingAway, GameAway DEF Timeouts
<1>3. CASE Release
  BY <1>3, GameAway DEF Release
<1>4. CASE StartGame \/ StartAborts \/ UNCHANGED vars
  BY <1>4, GameAway
<1> QED
  BY <1>1, <1>2, <1>3, <1>4 DEF Next

\* A WebSocket is closed by its own on_close.
LEMMA ClosedByOnClose ==
  ASSUME TypeOK, [Next]_vars, NEW h \in Handler, ws[h] = "closing", ws'[h] = "closed"
  PROVE  \E code \in {1000, 4001} : OnClose(h, code)
<1>1. ASSUME NEW g \in Handler, NEW code \in {1000, 4001}, OnClose(g, code)
      PROVE  \E x \in {1000, 4001} : OnClose(h, x)
  <2>1. g # h => ws'[h] \in {ws[h], "closing"}
    BY <1>1 DEF OnClose
  <2> QED
    BY <1>1, <2>1
<1>2. ASSUME NEW g \in Handler, AgentStep(g)
      PROVE  \E code \in {1000, 4001} : OnClose(g, code)
  BY <1>2, Maps DEF AgentStep, Reattach, Drift, Dial, DialFails, AllocateFails, Login,
         Enter, NoPlayerId, Ready, Redial, StaleRejected, Terminates, DriftOnDial, Closes,
         DeadWrites, agentVars
<1>3. ws' = ws \/ \E g \in Handler : AgentStep(g)
  BY DEF Next, StartGame, StartAborts, Timeouts, CivcomStops, Endgame, SessionExpires,
         CivcomExpires, StaleAgentSwept, DebounceEnds, Release, Released, SweepEnds,
         SweepBegins, vars, agentVars
<1> QED
  BY <1>1, <1>2, <1>3

\* Closing the WebSocket of a session that can be resumed stops no CivCom: it
\* is kept, or has stopped before.
LEMMA ClosingKeeps ==
  ASSUME IInv, Trace, [Next]_vars, NEW h \in Handler, ws[h] = "closing", ws'[h] = "closed",
         sid[h] # None, sess[sid[h]] \in Usable
  PROVE  conn' = conn
<1>1. TypeOK
  BY DEF IInv, Inv
<1>2. PICK code \in {1000, 4001} : OnClose(h, code)
  BY <1>1, ClosedByOnClose
<1>3. CanSuspend(sid[h])
  BY DEF CanSuspend
<1>4. CASE Live(civ[h])
  BY <1>2, <1>3, <1>4 DEF OnClose
<1>5. CASE ~Live(civ[h])
  <2>1. conn' = [x \in Handler |-> IF x \in {civ[h]} \ {None} THEN "stopped" ELSE conn[x]]
    BY <1>2, <1>3, <1>5 DEF OnClose, StopAll
  <2>2. civ[h] # None => conn[civ[h]] = "stopped"
    BY <1>1, <1>5, Maps DEF Live, Trace, CivRan, Ran, Ref
  <2> QED
    BY <1>1, <2>1, <2>2, Maps
<1> QED
  BY <1>4, <1>5

\* The agent who comes back last resumes the game (_check_and_resume_game), but
\* within two seconds of the last resume.
THEOREM LastResumes == Spec => LastBackResumes
<1>1. IInv /\ IInv' /\ Trace /\ [Next]_vars =>
        [game.paused /\ ~AllBack /\ AllBack' => ~game'.paused \/ game.recent]_vars
  BY PausedStep DEF Checked, Away, AllBack, IInv, Inv
<1> QED
  BY <1>1, Invariant, TraceHolds, PTL DEF Spec, LastBackResumes

\* A game is not resumed for an agent whose WebSocket has been closed, and the
\* CivCom of a suspended session outlives the closing (on_close).
THEOREM ClosesCleanly == Spec => CloseIsClean
<1>1. IInv /\ IInv' /\ Trace /\ Trace' /\ [Next]_vars =>
        [(game.paused /\ ~game'.paused /\ game'.present)
          => \A a \in Agent : player'[a] # None => ws'[player'[a]] # "closed"]_vars
  <2> SUFFICES ASSUME IInv, IInv', Trace, Trace', [Next]_vars,
                      game.paused, ~game'.paused, game'.present,
                      NEW a \in Agent, player'[a] # None
               PROVE  ws'[player'[a]] # "closed"
    OBVIOUS
  <2>1. TypeOK'
    BY DEF IInv, Inv
  <2>2. Checked
    BY <2>1, PausedStep DEF Away
  <2>3. player'[a] \in Handler /\ civ'[player'[a]] # None
    BY <2>1, <2>2, MapsNext DEF Checked, Ref
  <2> QED
    BY <2>3 DEF Trace, ClosedForgot
<1>2. IInv /\ Trace /\ [Next]_vars =>
        [\A h \in kicked :
          (/\ ws[h] = "closing" /\ ws'[h] = "closed"
           /\ sid[h] # None /\ sess[sid[h]] \in Usable) => conn' = conn]_vars
  BY ClosingKeeps DEF IInv, Inv, TypeOK, AgentTypes
<1> QED
  BY <1>1, <1>2, Invariant, TraceHolds, PTL DEF Spec, CloseIsClean, NoResumeForClosed,
     SuspendedKeepsCivcom
=============================================================================
