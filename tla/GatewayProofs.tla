---------------------------- MODULE GatewayProofs ----------------------------
(***************************************************************************)
(* Proofs about the gateway: RequestManager, for every finite set of       *)
(* calls, and AgentHandshake, for every set of connections to the proxy.   *)
(***************************************************************************)
EXTENDS RequestManager, AgentHandshake, FiniteSetTheorems, TLAPS

(***************************************************************************)
(* RequestManager                                                          *)
(*                                                                         *)
(* The properties are about four parties that complete one future, so each *)
(* proof goes by what a step does to the future of one call r.             *)
(***************************************************************************)
\* An entry of pending_requests has a future that is not answered: whoever
\* gives it a result or an exception drops the entry.
EntryOpen == \A r \in pending : future[r] \in {"pending", "cancelled"}

\* A call gets one reply: before it has been written there is none, and one
\* that is under way has neither been resolved nor forwarded.
OneReply == \A r \in Req :
    /\ caller[r] \in {"idle", "sending"} => r \notin wire
    /\ r \in wire \/ caller[r] \in {"idle", "sending"}
          => r \notin forwarded /\ future[r] # "result"
    /\ r \in forwarded => future[r] # "result"

\* The inductive invariant.
RequestIInv == TypeOK /\ FutureReachable /\ EntryOpen /\ NoOrphanEntry /\ OneReply /\ AnswerIsReply

-----------------------------------------------------------------------------
\* The initial state is well typed.
LEMMA InitType == Init => TypeOK
BY DEF Init, TypeOK

\* The steps of the cleanup loop and of stop keep the types.
LEMMA CleanupType == TypeOK /\ Cleanup => TypeOK'
<1> SUFFICES ASSUME TypeOK, Cleanup PROVE TypeOK'
  OBVIOUS
<1> DEFINE failing == {r \in Expired : future[r] = "pending"}
<1>1. IsFiniteSet(Expired) /\ IsFiniteSet(failing)
  BY ReqAssumption, FS_Subset DEF Expired, TypeOK
<1>2. Cardinality(Expired) \in Nat /\ Cardinality(failing) \in Nat
  BY <1>1, FS_CardinalityType
<1>3. stats' = [stats EXCEPT !.timed_out = @ + Cardinality(failing),
                             !.cleaned_up = @ + Cardinality(Expired)]
  BY DEF Cleanup
<1>4. /\ future' \in [Req -> {"none", "pending"} \cup Done]
      /\ \A r \in Req : future'[r] = "none" <=> future[r] = "none"
  BY DEF Cleanup, TypeOK, Done
<1> HIDE DEF failing
<1>5. stats \in [total : Nat, completed : Nat, timed_out : Nat, cleaned_up : Nat]
  BY DEF TypeOK
<1>6. stats' \in [total : Nat, completed : Nat, timed_out : Nat, cleaned_up : Nat]
  <2> DEFINE failed == [stats EXCEPT !.timed_out = @ + Cardinality(failing)]
  <2>1. failed \in [total : Nat, completed : Nat, timed_out : Nat, cleaned_up : Nat]
    BY <1>2, <1>5
  <2>2. failed.cleaned_up = stats.cleaned_up
    BY <1>5
  <2>3. stats' = [failed EXCEPT !.cleaned_up = @ + Cardinality(Expired)]
    BY <1>3, <2>2
  <2> HIDE DEF failed
  <2> QED
    BY <1>2, <2>1, <2>3
<1> QED
  BY <1>4, <1>6 DEF Cleanup, TypeOK

LEMMA StopType == TypeOK /\ Stop => TypeOK'
<1> SUFFICES ASSUME TypeOK, Stop PROVE TypeOK'
  OBVIOUS
<1>1. /\ future' \in [Req -> {"none", "pending"} \cup Done]
      /\ \A r \in Req : future'[r] = "none" <=> future[r] = "none"
  BY DEF Stop, TypeOK, Done
<1> QED
  BY <1>1 DEF Stop, TypeOK

\* So do the steps of one call and of its reply.
LEMMA RequestType ==
  ASSUME TypeOK, NEW r \in Req, CallStep(r) \/ ReplyStep(r) \/ Ages(r)
  PROVE  TypeOK'
<1>1. CASE Create(r)
  BY <1>1 DEF Create, TypeOK, Done, Ended
<1>2. CASE Write(r)
  BY <1>2 DEF Write, TypeOK, Done, Ended
<1>3. CASE BeginWait(r)
  BY <1>3 DEF BeginWait, TypeOK, Done, Ended
<1>4. CASE Wake(r)
  BY <1>4 DEF Wake, TypeOK, Done, Ended
<1>5. CASE TimerFires(r)
  BY <1>5 DEF TimerFires, TypeOK, Done, Ended
<1>6. CASE CallerCancelled(r)
  BY <1>6 DEF CallerCancelled, TypeOK, Done, Ended
<1>7. ASSUME NEW side, NEW reply, Reply(r, side, reply) PROVE TypeOK'
  <2>1. CASE Resolve(r)
    BY <1>7, <2>1 DEF Reply, Resolve, NotResolved, TypeOK, Done, Ended
  <2>2. CASE UNCHANGED <<future, stats>>
    BY <1>7, <2>2 DEF Reply, TypeOK
  <2> QED
    BY <1>7, <2>1, <2>2 DEF Reply, NotResolved
<1>8. CASE LoseReply(r)
  BY <1>8 DEF LoseReply, TypeOK
<1>9. CASE Ages(r)
  BY <1>9 DEF Ages, TypeOK
<1> QED
  BY <1>1, <1>2, <1>3, <1>4, <1>5, <1>6, <1>7, <1>8, <1>9 DEF CallStep, ReplyStep

LEMMA NextType == TypeOK /\ [Next]_vars => TypeOK'
<1> SUFFICES ASSUME TypeOK, [Next]_vars PROVE TypeOK'
  OBVIOUS
<1>1. CASE UNCHANGED vars
  BY <1>1 DEF vars, TypeOK
<1> QED
  BY <1>1, CleanupType, StopType, RequestType DEF Next

\* Every variable keeps its type; a call that has not begun has no future, and
\* nothing is pending, sent or forwarded for it.
THEOREM TypeCorrect == Spec => []TypeOK
BY InitType, NextType, PTL DEF Spec

-----------------------------------------------------------------------------
\* The invariant holds initially.
LEMMA InitIInv == Init => RequestIInv
<1> SUFFICES ASSUME Init PROVE RequestIInv
  OBVIOUS
<1>1. TypeOK
  BY InitType
<1> QED
  BY <1>1 DEF Init, RequestIInv, FutureReachable, EntryOpen, NoOrphanEntry, OneReply, AnswerIsReply,
              Ended

\* The steps of a call keep it.
LEMMA CallKeeps ==
  ASSUME RequestIInv, NEW r \in Req, CallStep(r)
  PROVE  RequestIInv'
<1> USE DEF RequestIInv
<1>0. TypeOK'
  BY RequestType
<1>1. CASE Create(r)
  BY <1>0, <1>1 DEF Create, TypeOK, FutureReachable, EntryOpen, NoOrphanEntry, OneReply,
                    AnswerIsReply, Ended
<1>2. CASE Write(r)
  BY <1>0, <1>2 DEF Write, TypeOK, FutureReachable, EntryOpen, NoOrphanEntry, OneReply,
                    AnswerIsReply, Ended
<1>3. CASE BeginWait(r)
  BY <1>0, <1>3 DEF BeginWait, TypeOK, FutureReachable, EntryOpen, NoOrphanEntry, OneReply,
                    AnswerIsReply, Ended
<1>4. CASE Wake(r)
  BY <1>0, <1>4 DEF Wake, TypeOK, FutureReachable, EntryOpen, NoOrphanEntry, OneReply,
                    AnswerIsReply, Ended
<1>5. CASE TimerFires(r)
  BY <1>0, <1>5 DEF TimerFires, TypeOK, FutureReachable, EntryOpen, NoOrphanEntry, OneReply,
                    AnswerIsReply, Ended
<1>6. CASE CallerCancelled(r)
  BY <1>0, <1>6 DEF CallerCancelled, TypeOK, FutureReachable, EntryOpen, NoOrphanEntry,
                    OneReply, AnswerIsReply, Ended
<1> QED
  BY <1>1, <1>2, <1>3, <1>4, <1>5, <1>6 DEF CallStep

\* A reply has left the wire before it is resolved or forwarded; one that finds
\* no open future leaves none behind without its entry.
LEMMA ReplyKeeps ==
  ASSUME RequestIInv, NEW r \in Req, ReplyStep(r)
  PROVE  RequestIInv'
<1> USE DEF RequestIInv
<1>0. TypeOK'
  BY RequestType
<1>1. ASSUME NEW side, NEW reply, Reply(r, side, reply) PROVE RequestIInv'
  <2>1. CASE Resolve(r) /\ pending' = pending \ {r} /\ UNCHANGED forwarded
    BY <1>0, <1>1, <2>1 DEF Reply, Resolve, TypeOK, FutureReachable, EntryOpen, NoOrphanEntry,
                            OneReply, AnswerIsReply
  <2>2. CASE /\ NotResolved(r)
             /\ pending' = pending \ {r}
             /\ forwarded' = IF side = "agent" THEN forwarded \cup {r} ELSE forwarded
    BY <1>0, <1>1, <2>2 DEF Reply, NotResolved, TypeOK, FutureReachable, EntryOpen,
                            NoOrphanEntry, OneReply, AnswerIsReply, Ended
  <2>3. CASE /\ UNCHANGED <<pending, future, stats>>
             /\ forwarded' = IF side = "agent" THEN forwarded \cup {r} ELSE forwarded
    BY <1>0, <1>1, <2>3 DEF Reply, TypeOK, FutureReachable, EntryOpen, NoOrphanEntry,
                            OneReply, AnswerIsReply, Ended
  <2> QED
    BY <1>1, <2>1, <2>2, <2>3 DEF Reply
<1>2. CASE LoseReply(r)
  BY <1>0, <1>2 DEF LoseReply, TypeOK, FutureReachable, EntryOpen, NoOrphanEntry, OneReply,
                    AnswerIsReply
<1> QED
  BY <1>1, <1>2 DEF ReplyStep

\* The cleanup loop and stop complete the futures whose entries they drop.
LEMMA LoopKeeps == RequestIInv /\ (Cleanup \/ Stop) => RequestIInv'
<1> USE DEF RequestIInv
<1>1. ASSUME RequestIInv, Cleanup PROVE RequestIInv'
  <2>1. TypeOK'
    BY <1>1, CleanupType
  <2> QED
    BY <1>1, <2>1 DEF Cleanup, Expired, TypeOK, FutureReachable, EntryOpen, NoOrphanEntry,
                      OneReply, AnswerIsReply
<1>2. ASSUME RequestIInv, Stop PROVE RequestIInv'
  <2>1. TypeOK'
    BY <1>2, StopType
  <2> QED
    BY <1>2, <2>1 DEF Stop, TypeOK, FutureReachable, EntryOpen, NoOrphanEntry, OneReply,
                      AnswerIsReply
<1> QED
  BY <1>1, <1>2

\* The invariant is inductive.
LEMMA NextIInv == RequestIInv /\ [Next]_vars => RequestIInv'
<1> SUFFICES ASSUME RequestIInv, [Next]_vars PROVE RequestIInv'
  OBVIOUS
<1>1. CASE UNCHANGED vars
  BY <1>1 DEF vars, RequestIInv, TypeOK, FutureReachable, EntryOpen, NoOrphanEntry, OneReply,
              AnswerIsReply
<1>2. ASSUME NEW r \in Req, Ages(r) PROVE RequestIInv'
  <2>1. TypeOK'
    BY <1>2, RequestType DEF RequestIInv
  <2> QED
    BY <1>2, <2>1 DEF Ages, RequestIInv, FutureReachable, EntryOpen, NoOrphanEntry, OneReply,
                      AnswerIsReply
<1> QED
  BY <1>1, <1>2, CallKeeps, ReplyKeeps, LoopKeeps DEF Next

\* It holds in every reachable state.
LEMMA Invariance == Spec => []RequestIInv
BY InitIInv, NextIInv, PTL DEF Spec

\* A future that is not done is in pending_requests, where a reply, the cleanup
\* loop or stop() finds it.
THEOREM Reachable == Spec => []FutureReachable
BY Invariance, PTL DEF RequestIInv

\* An entry belongs to a call that still runs, or whose task was cancelled.
THEOREM NoLeak == Spec => []NoOrphanEntry
BY Invariance, PTL DEF RequestIInv

\* A call that is answered returns the reply that resolve_request stored, and
\* the agent's listener did not forward that reply.
THEOREM AnswersAreReplies == Spec => []AnswerIsReply
BY Invariance, PTL DEF RequestIInv

-----------------------------------------------------------------------------
\* No step changes a future that is done.
LEMMA StepOnce ==
  TypeOK /\ [Next]_vars => \A r \in Req : future[r] \in Done => future'[r] = future[r]
<1> SUFFICES ASSUME TypeOK, [Next]_vars, NEW r \in Req, future[r] \in Done
             PROVE  future'[r] = future[r]
  OBVIOUS
<1>1. CASE UNCHANGED vars
  BY <1>1 DEF vars
<1>2. ASSUME NEW q \in Req, CallStep(q) PROVE future'[r] = future[r]
  BY <1>2 DEF CallStep, Create, Write, BeginWait, Wake, TimerFires, CallerCancelled, TypeOK,
              Done
<1>3. ASSUME NEW q \in Req, ReplyStep(q) PROVE future'[r] = future[r]
  BY <1>3 DEF ReplyStep, Reply, Resolve, NotResolved, LoseReply, TypeOK, Done
<1>4. CASE Cleanup \/ Stop
  BY <1>4 DEF Cleanup, Stop, TypeOK, Done
<1> QED
  BY <1>1, <1>2, <1>3, <1>4 DEF Next, Ages

\* "Double-resolution is harmless": whichever of the reply, the timer, the
\* cleanup loop and stop() completes a future, none of the others changes it.
THEOREM ResolvedOnce == Spec => FutureOnce
<1>1. TypeOK /\ [Next]_vars
        => [\A r \in Req : future[r] \in Done => future'[r] = future[r]]_vars
  BY StepOnce
<1> QED
  BY <1>1, TypeCorrect, PTL DEF Spec, FutureOnce

-----------------------------------------------------------------------------
\* The calls whose future is in a given state, and those that have a future.
In(f) == {r \in Req : future[r] = f}
Begun == {r \in Req : future[r] # "none"}

\* These sets are finite, so that their cardinalities can be computed with.
LEMMA Finite ==
  /\ IsFiniteSet(Begun) /\ Cardinality(Begun) \in Nat
  /\ \A f : IsFiniteSet(In(f)) /\ Cardinality(In(f)) \in Nat
<1>1. IsFiniteSet(Begun) /\ \A f : IsFiniteSet(In(f))
  BY ReqAssumption, FS_Subset DEF In, Begun
<1> QED
  BY <1>1, FS_CardinalityType

\* A step that completes no future but by cancelling it, and counts nothing.
LEMMA UncountedStep ==
  ASSUME StatsHonest, stats' = stats,
         In("result")' = In("result"), In("exception")' = In("exception"), Begun' = Begun
  PROVE  StatsHonest'
BY DEF StatsHonest, In, Begun

LEMMA CallHonest ==
  ASSUME TypeOK, StatsHonest, NEW r \in Req, CallStep(r)
  PROVE  StatsHonest'
<1>1. CASE Create(r)
  <2>1. /\ In("result")' = In("result") /\ In("exception")' = In("exception")
        /\ Begun' = Begun \cup {r} /\ r \notin Begun
    BY <1>1 DEF Create, TypeOK, In, Begun
  <2>2. Cardinality(Begun') = Cardinality(Begun) + 1
    BY <2>1, Finite, FS_AddElement
  <2>3. /\ stats'.total = stats.total + 1 /\ stats'.completed = stats.completed
        /\ stats'.timed_out = stats.timed_out /\ stats'.cleaned_up = stats.cleaned_up
    BY <1>1 DEF Create, TypeOK
  <2> QED
    BY <2>1, <2>2, <2>3 DEF StatsHonest, In, Begun
<1>2. CASE Write(r) \/ BeginWait(r) \/ Wake(r)
  BY <1>2, UncountedStep DEF Write, BeginWait, Wake, In, Begun
<1>3. CASE TimerFires(r) \/ CallerCancelled(r)
  <2>1. /\ In("result")' = In("result") /\ In("exception")' = In("exception")
        /\ Begun' = Begun /\ stats' = stats
    BY <1>3 DEF TimerFires, CallerCancelled, TypeOK, In, Begun
  <2> QED
    BY <2>1, UncountedStep
<1> QED
  BY <1>1, <1>2, <1>3 DEF CallStep

LEMMA ReplyHonest ==
  ASSUME TypeOK, StatsHonest, NEW r \in Req, ReplyStep(r)
  PROVE  StatsHonest'
<1>1. CASE Resolve(r)
  <2>1. /\ In("result")' = In("result") \cup {r} /\ r \notin In("result")
        /\ In("exception")' = In("exception") /\ Begun' = Begun
    BY <1>1 DEF Resolve, TypeOK, In, Begun
  <2>2. Cardinality(In("result")') = Cardinality(In("result")) + 1
    BY <2>1, Finite, FS_AddElement
  <2>3. /\ stats'.total = stats.total /\ stats'.completed = stats.completed + 1
        /\ stats'.timed_out = stats.timed_out /\ stats'.cleaned_up = stats.cleaned_up
    BY <1>1 DEF Resolve, TypeOK
  <2> QED
    BY <2>1, <2>2, <2>3 DEF StatsHonest, In, Begun
<1>2. CASE UNCHANGED <<future, stats>>
  BY <1>2, UncountedStep DEF In, Begun
<1> QED
  BY <1>1, <1>2 DEF ReplyStep, Reply, NotResolved, LoseReply

\* The loop counts the futures it fails, which no reply or timer completed.
LEMMA CleanupHonest ==
  ASSUME TypeOK, StatsHonest, Cleanup
  PROVE  StatsHonest'
<1> DEFINE failing == {r \in Expired : future[r] = "pending"}
<1>1. /\ IsFiniteSet(failing) /\ Cardinality(failing) \in Nat /\ Cardinality(Expired) \in Nat
      /\ Cardinality(failing) <= Cardinality(Expired)
  <2>1. IsFiniteSet(Expired)
    BY ReqAssumption, FS_Subset DEF Expired, TypeOK
  <2> QED
    BY <2>1, FS_Subset, FS_CardinalityType
<1>2. /\ In("result")' = In("result") /\ Begun' = Begun
      /\ In("exception")' = In("exception") \cup failing
      /\ In("exception") \cap failing = {}
  BY DEF Cleanup, Expired, TypeOK, In, Begun
<1>3. /\ stats'.total = stats.total /\ stats'.completed = stats.completed
      /\ stats'.timed_out = stats.timed_out + Cardinality(failing)
      /\ stats'.cleaned_up = stats.cleaned_up + Cardinality(Expired)
  BY DEF Cleanup, TypeOK
<1> HIDE DEF failing
<1>4. Cardinality(In("exception")') = Cardinality(In("exception")) + Cardinality(failing)
  <2>1. IsFiniteSet(In("exception")) /\ Cardinality(In("exception")) \in Nat
    BY Finite
  <2>2. Cardinality(In("exception") \cup failing)
          = Cardinality(In("exception")) + Cardinality(failing)
              - Cardinality(In("exception") \cap failing)
    BY <1>1, <2>1, FS_Union
  <2>3. Cardinality(In("exception") \cap failing) = 0
    BY <1>2, FS_EmptySet
  <2>4. Cardinality(In("exception") \cup failing)
          = Cardinality(In("exception")) + Cardinality(failing)
    BY <1>1, <2>1, <2>2, <2>3
  <2> QED
    BY <1>2, <2>4
<1>5. stats.timed_out \in Nat /\ stats.cleaned_up \in Nat
  BY DEF TypeOK
<1> QED
  BY <1>1, <1>2, <1>3, <1>4, <1>5 DEF StatsHonest, In, Begun

LEMMA NextHonest == TypeOK /\ StatsHonest /\ [Next]_vars => StatsHonest'
<1> SUFFICES ASSUME TypeOK, StatsHonest, [Next]_vars PROVE StatsHonest'
  OBVIOUS
<1>1. CASE UNCHANGED vars \/ \E r \in Req : Ages(r)
  BY <1>1, UncountedStep DEF vars, Ages, In, Begun
<1>2. CASE Stop
  <2>1. /\ In("result")' = In("result") /\ In("exception")' = In("exception")
        /\ Begun' = Begun /\ stats' = stats
    BY <1>2 DEF Stop, TypeOK, In, Begun
  <2> QED
    BY <2>1, UncountedStep
<1> QED
  BY <1>1, <1>2, CallHonest, ReplyHonest, CleanupHonest DEF Next

LEMMA InitHonest == Init => StatsHonest
<1> SUFFICES ASSUME Init PROVE StatsHonest
  OBVIOUS
<1>1. In("result") = {} /\ In("exception") = {} /\ Begun = {}
  BY DEF Init, In, Begun
<1> QED
  BY <1>1, FS_EmptySet DEF Init, StatsHonest, In, Begun

\* The counters say how every future ended: no request is counted twice or
\* left out, whoever completed its future first.
THEOREM CountersHonest == Spec => []StatsHonest
BY InitType, NextType, InitHonest, NextHonest, PTL DEF Spec

\* No future is out of reach, left over, miscounted or answered twice, whoever
\* completes it first (FuturesSound).
THEOREM FuturesAgree == Spec => []FuturesSound
  BY Reachable, NoLeak, CountersHonest, AnswersAreReplies, PTL DEF FuturesSound

-----------------------------------------------------------------------------
(***************************************************************************)
(* AgentHandshake                                                          *)
(*                                                                         *)
(* Whatever order attempts, cancellations, timeouts and the proxy's        *)
(* messages come in, one listener at most reads, no open connection is     *)
(* forgotten, and a handler that is through has left nothing behind.       *)
(*                                                                         *)
(* HandshakeSound is not inductive.  That two listeners never read one     *)
(* connection is so because two never live: the one that is replaced is    *)
(* awaited first (OneListener).  That no open connection is forgotten      *)
(* depends on who closes what: a listener that has ended, or is ending,    *)
(* has closed the connection the handler had (Abandoned).  And an agent    *)
(* taken for authenticated keeps its listener because the watchdog that    *)
(* cancels it is never past its test of `authenticated` at that time       *)
(* (NotTelling, Served).                                                   *)
(***************************************************************************)

USE HandshakeAssumption

\* The listener that lives is the handler's, and reads a connection.
OneListener == \A l \in Link : Alive(l) => l = listener_task /\ listener[l].on \in Link

\* The watchdog that is not cancelled is the handler's.
OneWatchdog == \A w \in Link : Awake(w) => w = timeout_task

\* A watchdog past its test tells an agent that is not authenticated.
NotTelling == \A w \in Link : watchdog[w] = "telling" => ~authenticated

\* The local variable is set while main takes a connection over.
Takeover == /\ main \in {"replacing", "greeting"} <=> new_connection # NoLink
            /\ main = "greeting" =>
                 proxy_connection = new_connection \/ link[new_connection] # "open"

\* Without a listener, or with one that closes it, the connection is closed.
Abandoned ==
    ~Listened \/ listener[listener_task].at = "closing" =>
        proxy_connection = NoLink \/ link[proxy_connection] = "closed"

\* Who is taken for authenticated, and has a connection, has a listener that
\* nobody has cancelled.
Serving == main \in {"receiving", "opening", "greeting"}
Served == Serving /\ authenticated /\ proxy_connection # NoLink =>
              Listened /\ ~listener[listener_task].cancelled

\* What the finally of the handler has awaited or closed stays so.
Ending ==
    /\ main \in {"unlistening", "closing", "done"} => \A w \in Link : ~Awake(w)
    /\ main \in {"closing", "done"} => ~Listened /\ \A l \in Link : link[l] # "open"

HandshakeIInv == /\ HandshakeTypeOK
        /\ OneListener /\ OneWatchdog /\ NotTelling
        /\ Takeover /\ NoneForgotten /\ Abandoned /\ Served /\ Ending

-----------------------------------------------------------------------------
(***************************************************************************)
(* What the operators that several tasks call leave                        *)
(***************************************************************************)

LEMMA InitInv == Init_handshake => HandshakeIInv
<1> SUFFICES ASSUME Init_handshake PROVE HandshakeIInv
  OBVIOUS
<1>1. /\ main = "receiving" /\ authenticated = FALSE /\ heard = "idle" /\ confirmed = {}
      /\ proxy_connection = NoLink /\ new_connection = NoLink
      /\ listener_task = NoLink /\ timeout_task = NoLink
      /\ \A l \in Link : /\ listener[l].at = "none" /\ watchdog[l] = "none" /\ link[l] = "new"
  BY DEF Init_handshake, Listener
<1>2. HandshakeTypeOK
  BY DEF Init_handshake, HandshakeTypeOK, Listeners, Listener
<1>3. OneListener /\ OneWatchdog /\ NotTelling /\ NoneForgotten
  BY <1>1 DEF OneListener, OneWatchdog, NotTelling, NoneForgotten, Alive, Awake
<1>4. Takeover /\ Abandoned /\ Served /\ Ending
  BY <1>1 DEF Takeover, Abandoned, Served, Ending
<1> QED BY <1>2, <1>3, <1>4 DEF HandshakeIInv

\* A listener that goes elsewhere, and may await something or be cancelled,
\* is still one; the others stay.
LEMMA ListenerGoes ==
  ASSUME NEW f \in [Link -> Listeners], NEW l \in Link, NEW q \in Listeners,
         NEW g, g = [f EXCEPT ![l] = q]
  PROVE  g \in [Link -> Listeners] /\ g[l] = q /\ \A k \in Link : k # l => g[k] = f[k]
  OBVIOUS

\* A cancellation changes the flag of the handler's listener only.
LEMMA CancelListenerChanges ==
  ASSUME HandshakeTypeOK, CancelListener
  PROVE  /\ listener' \in [Link -> Listeners]
         /\ \A l \in Link : /\ listener'[l].at = listener[l].at
                            /\ listener'[l].on = listener[l].on
                            /\ ~(Listened /\ l = listener_task) => listener'[l] = listener[l]
<1>1. CASE Listened
  <2> DEFINE q == [listener[listener_task] EXCEPT !.cancelled = TRUE]
  <2>1. listener_task \in Link
    BY <1>1 DEF HandshakeTypeOK, Listened
  <2>2. listener[listener_task] \in Listeners
    BY <2>1 DEF HandshakeTypeOK
  <2>3. /\ q \in Listeners
        /\ q.at = listener[listener_task].at /\ q.on = listener[listener_task].on
    BY <2>2 DEF Listeners
  <2>4. listener' = [listener EXCEPT ![listener_task] = q]
    BY <1>1 DEF CancelListener
  <2> HIDE DEF q
  <2> QED BY <1>1, <2>1, <2>3, <2>4, ListenerGoes DEF HandshakeTypeOK
<1>2. CASE ~Listened
  <2>1. listener' = listener
    BY <1>2 DEF CancelListener
  <2> QED BY <1>2, <2>1 DEF HandshakeTypeOK, Listeners
<1> QED BY <1>1, <1>2

\* ... and that of the handler's watchdog ends its waiting or its telling.
LEMMA CancelWatchdogChanges ==
  ASSUME HandshakeTypeOK, OneWatchdog, CancelWatchdog
  PROVE  /\ watchdog' \in [Link -> {"none", "asleep", "telling", "cancelled", "done"}]
         /\ \A w \in Link : watchdog'[w] \notin {"asleep", "telling"}
<1>1. CASE Guarded
  BY <1>1 DEF CancelWatchdog, HandshakeTypeOK, OneWatchdog, Awake, Guarded
<1>2. CASE ~Guarded
  <2>1. watchdog' = watchdog
    BY <1>2 DEF CancelWatchdog
  <2> QED BY <1>2, <2>1 DEF HandshakeTypeOK, OneWatchdog, Awake, Guarded
<1> QED BY <1>1, <1>2

\* Nobody opens a connection in closing one, and the handler's is closed.
LEMMA CloseLinkChanges ==
  ASSUME HandshakeTypeOK, CloseLink
  PROVE  /\ link' \in [Link -> {"new", "open", "closed"}]
         /\ proxy_connection # NoLink => link'[proxy_connection] = "closed"
         /\ \A l \in Link : link'[l] = link[l] \/ l = proxy_connection
<1>1. CASE proxy_connection = NoLink
  BY <1>1 DEF CloseLink, HandshakeTypeOK
<1>2. CASE proxy_connection # NoLink
  BY <1>2 DEF CloseLink, HandshakeTypeOK
<1> QED BY <1>1, <1>2

-----------------------------------------------------------------------------
(***************************************************************************)
(* The task that serves the agent                                          *)
(***************************************************************************)

LEMMA ConnectInv == ASSUME HandshakeIInv, Connect PROVE HandshakeIInv'
<1>1. HandshakeTypeOK'
  BY DEF HandshakeIInv, HandshakeTypeOK, Connect, taskFields
<1>2. OneListener' /\ OneWatchdog' /\ NotTelling' /\ Abandoned'
  BY DEF HandshakeIInv, Connect, taskFields, OneListener, OneWatchdog, NotTelling, Abandoned, Alive, Awake,
         Listened
<1>3. Takeover' /\ NoneForgotten' /\ Served' /\ Ending'
  BY DEF HandshakeIInv, Connect, taskFields, Takeover, NoneForgotten, Served, Ending
<1> QED BY <1>1, <1>2, <1>3 DEF HandshakeIInv

\* The new connection is in the local variable, and no other than it opens.
LEMMA OpenedInv == ASSUME HandshakeIInv, Opened PROVE HandshakeIInv'
<1>0. HandshakeTypeOK
  BY DEF HandshakeIInv
<1>1. PICK k \in Link : /\ link[k] = "new" /\ link' = [link EXCEPT ![k] = "open"]
                        /\ new_connection' = k
  BY DEF Opened
<1>2. /\ main = "opening" /\ main' = "replacing"
      /\ UNCHANGED <<authenticated, proxy_connection, listener_task, timeout_task, watchdog,
                     confirmed, heard>>
  BY DEF Opened, ownFields
<1>3. /\ listener' \in [Link -> Listeners]
      /\ \A l \in Link : listener'[l].at = listener[l].at /\ listener'[l].on = listener[l].on
  BY <1>0, CancelListenerChanges DEF Opened
<1>4. /\ \A l \in Link : Alive(l)' <=> Alive(l)
      /\ Listened' <=> Listened
  BY <1>0, <1>2, <1>3 DEF Alive, Listened, HandshakeTypeOK
<1>5. HandshakeTypeOK'
  BY <1>0, <1>1, <1>2, <1>3 DEF HandshakeTypeOK
<1>6. OneListener' /\ OneWatchdog' /\ NotTelling'
  BY <1>2, <1>3, <1>4 DEF HandshakeIInv, OneListener, OneWatchdog, NotTelling, Awake
<1>7. new_connection = NoLink
  BY <1>0, <1>2 DEF HandshakeIInv, Takeover
<1>8. Takeover' /\ NoneForgotten'
  BY <1>0, <1>1, <1>2, <1>7 DEF HandshakeIInv, Takeover, NoneForgotten, HandshakeTypeOK
<1>9. Abandoned'
  BY <1>0, <1>1, <1>2, <1>3, <1>4 DEF HandshakeIInv, Abandoned, HandshakeTypeOK, Listened
<1>10. Served' /\ Ending'
  BY <1>2 DEF Served, Serving, Ending
<1> QED BY <1>5, <1>6, <1>8, <1>9, <1>10 DEF HandshakeIInv

LEMMA OpenFailsInv == ASSUME HandshakeIInv, OpenFails PROVE HandshakeIInv'
<1>1. HandshakeTypeOK'
  BY DEF HandshakeIInv, HandshakeTypeOK, OpenFails, ownFields, taskFields
<1>2. OneListener' /\ OneWatchdog' /\ NotTelling' /\ Abandoned'
  BY DEF HandshakeIInv, OpenFails, ownFields, taskFields, OneListener, OneWatchdog, NotTelling, Abandoned,
         Alive, Awake, Listened
<1>3. Takeover' /\ NoneForgotten' /\ Served' /\ Ending'
  BY DEF HandshakeIInv, OpenFails, ownFields, taskFields, Takeover, NoneForgotten, Served, Serving, Ending,
         Listened, Alive
<1> QED BY <1>1, <1>2, <1>3 DEF HandshakeIInv

\* The old listener has ended, and its connection was closed with it.
LEMMA ReplacedInv == ASSUME HandshakeIInv, Replaced PROVE HandshakeIInv'
<1>0. HandshakeTypeOK
  BY DEF HandshakeIInv
<1>1. /\ main = "replacing" /\ main' = "greeting" /\ ~Listened
      /\ proxy_connection' = new_connection /\ listener_task' = new_connection
      /\ listener' = [listener EXCEPT ![new_connection] = Listener("receiving", new_connection)]
      /\ UNCHANGED <<authenticated, new_connection, timeout_task, watchdog, link, confirmed, heard>>
  BY DEF Replaced, linkState
<1>2. new_connection \in Link
  BY <1>0, <1>1 DEF HandshakeIInv, Takeover, HandshakeTypeOK
<1>3. /\ listener' \in [Link -> Listeners]
      /\ listener'[new_connection] = Listener("receiving", new_connection)
      /\ \A l \in Link : l # new_connection => listener'[l] = listener[l]
  BY <1>0, <1>1, <1>2 DEF HandshakeTypeOK, Listeners, Listener
<1>4. HandshakeTypeOK'
  BY <1>0, <1>1, <1>2, <1>3 DEF HandshakeTypeOK
<1>5. \A l \in Link : ~Alive(l)
  BY <1>1 DEF HandshakeIInv, OneListener, Listened
<1>6. OneListener' /\ OneWatchdog' /\ NotTelling'
  BY <1>1, <1>2, <1>3, <1>5 DEF HandshakeIInv, OneListener, OneWatchdog, NotTelling, Alive, Awake, Listener
<1>7. Listened' /\ listener'[listener_task'].at = "receiving"
                /\ ~listener'[listener_task'].cancelled
  BY <1>1, <1>2, <1>3 DEF Listened, Alive, Listener
<1>8. Takeover' /\ NoneForgotten'
  BY <1>0, <1>1, <1>2 DEF HandshakeIInv, Takeover, NoneForgotten, Abandoned, HandshakeTypeOK
<1>9. Abandoned' /\ Served' /\ Ending'
  BY <1>1, <1>7 DEF Abandoned, Served, Ending
<1> QED BY <1>4, <1>6, <1>8, <1>9 DEF HandshakeIInv

LEMMA GreetedInv == ASSUME HandshakeIInv, Greeted PROVE HandshakeIInv'
<1>0. HandshakeTypeOK
  BY DEF HandshakeIInv
<1>1. /\ main = "greeting" /\ main' = "receiving" /\ new_connection' = NoLink
      /\ timeout_task' = new_connection
      /\ watchdog' = [w \in Link |-> IF w = new_connection      THEN "asleep"
                                     ELSE IF w = timeout_task /\ Guarded THEN "cancelled"
                                     ELSE watchdog[w]]
      /\ UNCHANGED <<authenticated, proxy_connection, listener_task, listener, link, confirmed,
                     heard>>
  BY DEF Greeted, ownFields, linkState
<1>2. HandshakeTypeOK'
  BY <1>0, <1>1 DEF HandshakeTypeOK
<1>3. OneListener' /\ Abandoned'
  BY <1>1 DEF HandshakeIInv, OneListener, Abandoned, Alive, Listened
<1>4. OneWatchdog' /\ NotTelling'
  BY <1>0, <1>1 DEF HandshakeIInv, OneWatchdog, NotTelling, Awake, Guarded, HandshakeTypeOK
<1>5. Takeover' /\ NoneForgotten' /\ Served' /\ Ending'
  BY <1>0, <1>1 DEF HandshakeIInv, Takeover, NoneForgotten, Served, Serving, Ending, Alive, Listened
<1> QED BY <1>2, <1>3, <1>4, <1>5 DEF HandshakeIInv

LEMMA GreetFailsInv == ASSUME HandshakeIInv, GreetFails PROVE HandshakeIInv'
<1>1. HandshakeTypeOK'
  BY DEF HandshakeIInv, HandshakeTypeOK, GreetFails, ownFields, taskFields
<1>2. OneListener' /\ OneWatchdog' /\ NotTelling' /\ Abandoned'
  BY DEF HandshakeIInv, GreetFails, ownFields, taskFields, OneListener, OneWatchdog, NotTelling, Abandoned,
         Alive, Awake, Listened
<1>3. Takeover' /\ NoneForgotten' /\ Served' /\ Ending'
  BY DEF HandshakeIInv, GreetFails, ownFields, taskFields, HandshakeTypeOK, Takeover, NoneForgotten, Served,
         Serving, Ending, Listened, Alive
<1> QED BY <1>1, <1>2, <1>3 DEF HandshakeIInv

LEMMA LeaveInv == ASSUME HandshakeIInv, Leave PROVE HandshakeIInv'
<1>0. HandshakeTypeOK /\ OneWatchdog
  BY DEF HandshakeIInv
<1>1. /\ main = "receiving" /\ main' = "unguarding"
      /\ UNCHANGED <<authenticated, proxy_connection, new_connection, listener_task, timeout_task,
                     listener, link, confirmed, heard>>
  BY DEF Leave, ownFields, linkState
<1>2. /\ watchdog' \in [Link -> {"none", "asleep", "telling", "cancelled", "done"}]
      /\ \A w \in Link : watchdog'[w] \notin {"asleep", "telling"}
  BY <1>0, CancelWatchdogChanges DEF Leave
<1>3. HandshakeTypeOK'
  BY <1>0, <1>1, <1>2 DEF HandshakeTypeOK
<1>4. OneListener' /\ OneWatchdog' /\ NotTelling' /\ Abandoned'
  BY <1>1, <1>2 DEF HandshakeIInv, OneListener, OneWatchdog, NotTelling, Abandoned, Alive, Awake, Listened
<1>5. Takeover' /\ NoneForgotten' /\ Served' /\ Ending'
  BY <1>1 DEF HandshakeIInv, Takeover, NoneForgotten, Served, Serving, Ending
<1> QED BY <1>3, <1>4, <1>5 DEF HandshakeIInv

LEMMA UnguardedInv == ASSUME HandshakeIInv, Unguarded PROVE HandshakeIInv'
<1>0. HandshakeTypeOK
  BY DEF HandshakeIInv
<1>1. /\ main = "unguarding" /\ main' = "unlistening" /\ ~Guarded
      /\ UNCHANGED <<authenticated, proxy_connection, new_connection, listener_task, timeout_task,
                     watchdog, link, confirmed, heard>>
  BY DEF Unguarded, ownFields, linkState
<1>2. /\ listener' \in [Link -> Listeners]
      /\ \A l \in Link : listener'[l].at = listener[l].at /\ listener'[l].on = listener[l].on
  BY <1>0, CancelListenerChanges DEF Unguarded
<1>3. /\ \A l \in Link : Alive(l)' <=> Alive(l)
      /\ Listened' <=> Listened
  BY <1>0, <1>1, <1>2 DEF Alive, Listened, HandshakeTypeOK
<1>4. HandshakeTypeOK'
  BY <1>0, <1>1, <1>2 DEF HandshakeTypeOK
<1>5. OneListener' /\ OneWatchdog' /\ NotTelling'
  BY <1>1, <1>2, <1>3 DEF HandshakeIInv, OneListener, OneWatchdog, NotTelling, Awake
<1>6. Abandoned'
  BY <1>0, <1>1, <1>2, <1>3 DEF HandshakeIInv, Abandoned, HandshakeTypeOK, Listened
<1>7. Takeover' /\ NoneForgotten' /\ Served'
  BY <1>1 DEF HandshakeIInv, Takeover, NoneForgotten, Served, Serving
<1>8. Ending'
  BY <1>0, <1>1 DEF HandshakeIInv, Ending, OneWatchdog, Awake, Guarded
<1> QED BY <1>4, <1>5, <1>6, <1>7, <1>8 DEF HandshakeIInv

LEMMA UnlistenedInv == ASSUME HandshakeIInv, Unlistened PROVE HandshakeIInv'
<1>0. HandshakeTypeOK
  BY DEF HandshakeIInv
<1>1. /\ main = "unlistening" /\ main' = "closing" /\ ~Listened
      /\ UNCHANGED <<authenticated, proxy_connection, new_connection, listener_task, timeout_task,
                     listener, watchdog, confirmed, heard>>
  BY DEF Unlistened, ownFields, taskFields
<1>2. /\ link' \in [Link -> {"new", "open", "closed"}]
      /\ proxy_connection # NoLink => link'[proxy_connection] = "closed"
      /\ \A l \in Link : link'[l] = link[l] \/ l = proxy_connection
  BY <1>0, CloseLinkChanges DEF Unlistened
<1>3. HandshakeTypeOK'
  BY <1>0, <1>1, <1>2 DEF HandshakeTypeOK
<1>4. OneListener' /\ OneWatchdog' /\ NotTelling' /\ Abandoned'
  BY <1>0, <1>1, <1>2 DEF HandshakeIInv, OneListener, OneWatchdog, NotTelling, Abandoned, Alive, Awake,
                          HandshakeTypeOK
<1>5. new_connection = NoLink
  BY <1>1 DEF HandshakeIInv, Takeover
<1>6. \A l \in Link : link'[l] # "open"
  BY <1>1, <1>2, <1>5 DEF HandshakeIInv, NoneForgotten
<1>7. Takeover' /\ NoneForgotten' /\ Served' /\ Ending'
  BY <1>1, <1>5, <1>6 DEF HandshakeIInv, Takeover, NoneForgotten, Served, Serving, Ending, Awake, Listened,
                          Alive
<1> QED BY <1>3, <1>4, <1>7 DEF HandshakeIInv

LEMMA LeftInv == ASSUME HandshakeIInv, Left PROVE HandshakeIInv'
<1>1. HandshakeTypeOK'
  BY DEF HandshakeIInv, HandshakeTypeOK, Left, taskFields, linkState
<1>2. OneListener' /\ OneWatchdog' /\ NotTelling' /\ Abandoned'
  BY DEF HandshakeIInv, Left, taskFields, linkState, OneListener, OneWatchdog, NotTelling, Abandoned,
         Alive, Awake, Listened
<1>3. Takeover' /\ NoneForgotten' /\ Served' /\ Ending'
  BY DEF HandshakeIInv, Left, taskFields, linkState, Takeover, NoneForgotten, Served, Serving, Ending,
         Listened, Alive, Awake
<1> QED BY <1>1, <1>2, <1>3 DEF HandshakeIInv

-----------------------------------------------------------------------------
(***************************************************************************)
(* The listener                                                            *)
(***************************************************************************)

\* A listener that does something is the handler's, and reads a connection.
LEMMA ItIsTheListener ==
  ASSUME HandshakeIInv, NEW l \in Link, listener[l].at \notin {"none", "done"}
  PROVE  /\ l = listener_task /\ Listened /\ listener[l].on \in Link
         /\ main \notin {"closing", "done"}
  BY DEF HandshakeIInv, OneListener, Alive, Listened, Ending

\* A step of the listener l that closes nothing.
LEMMA ListenerStep ==
  ASSUME HandshakeIInv, NEW l \in Link, listener[l].at \notin {"none", "done"},
         listener'[l].at \notin {"none", "done", "closing"}, listener'[l].on \in Link,
         \A k \in Link : k # l => listener'[k] = listener[k],
         UNCHANGED <<main, proxy_connection, new_connection, listener_task, timeout_task, link>>,
         main \in {"receiving", "opening", "greeting"} /\ authenticated'
            /\ proxy_connection # NoLink => ~listener'[l].cancelled
  PROVE  /\ OneListener' /\ Takeover' /\ NoneForgotten' /\ Abandoned' /\ Served'
         /\ main \in {"closing", "done"} => ~Listened' /\ \A k \in Link : link'[k] # "open"
<1>1. l = listener_task /\ Listened /\ main \notin {"closing", "done"}
  BY ItIsTheListener
<1>2. Alive(l)' /\ Listened'
  BY <1>1 DEF Alive, Listened
<1>3. OneListener'
  BY <1>1 DEF HandshakeIInv, OneListener, Alive
<1>4. Takeover' /\ NoneForgotten'
  BY DEF HandshakeIInv, Takeover, NoneForgotten
<1>5. Abandoned' /\ Served'
  BY <1>1, <1>2 DEF Abandoned, Served, Serving
<1> QED BY <1>1, <1>3, <1>4, <1>5

\* A listener that ends, or goes on to close: either way the connection of
\* the handler is closed.
LEMMA ListenerCloses ==
  ASSUME HandshakeIInv, NEW l \in Link, listener[l].at \notin {"none", "done"},
         Finishes(l),
         UNCHANGED <<main, authenticated, proxy_connection, new_connection, listener_task,
                     timeout_task, watchdog, confirmed>>,
         heard' \in {"idle", "nothing", "auth", "error"}
  PROVE  HandshakeIInv'
<1>0. HandshakeTypeOK
  BY DEF HandshakeIInv
<1>1. /\ l = listener_task /\ Listened /\ listener[l].on \in Link
      /\ main \notin {"closing", "done"}
  BY ItIsTheListener
<1>2. /\ link' \in [Link -> {"new", "open", "closed"}]
      /\ proxy_connection # NoLink => link'[proxy_connection] = "closed"
      /\ \A k \in Link : link'[k] = link[k] \/ k = proxy_connection
  BY <1>0, CloseLinkChanges DEF Finishes
<1>3. /\ listener' \in [Link -> Listeners]
      /\ \A k \in Link : k # l => listener'[k] = listener[k]
      /\ listener'[l].on = listener[l].on /\ ~listener'[l].cancelled
      /\ listener'[l].at = IF proxy_connection = NoLink THEN "done" ELSE "closing"
  <2> DEFINE where == IF proxy_connection = NoLink THEN "done" ELSE "closing"
             q == [listener[l] EXCEPT !.at = where, !.cancelled = FALSE]
  <2>1. listener[l] \in Listeners /\ where \in {"done", "closing"}
    BY <1>0 DEF HandshakeTypeOK
  <2>2. listener' = [listener EXCEPT ![l] = q]
    BY <1>0 DEF Finishes, HandshakeTypeOK, Listeners
  <2>3. q \in Listeners
    <3> HIDE DEF where
    <3> QED BY <2>1 DEF Listeners
  <2>4. q.on = listener[l].on /\ ~q.cancelled /\ q.at = where
    BY <2>1 DEF Listeners
  <2> HIDE DEF q
  <2> QED BY <1>0, <2>2, <2>3, <2>4, ListenerGoes DEF HandshakeTypeOK
<1>4. HandshakeTypeOK'
  BY <1>0, <1>2, <1>3 DEF HandshakeTypeOK
<1>5. OneListener' /\ OneWatchdog' /\ NotTelling'
  BY <1>1, <1>3 DEF HandshakeIInv, OneListener, OneWatchdog, NotTelling, Alive, Awake
<1>6. Takeover' /\ NoneForgotten' /\ Abandoned'
  BY <1>0, <1>2 DEF HandshakeIInv, Takeover, NoneForgotten, Abandoned, HandshakeTypeOK
<1>7. Served'
  BY <1>1, <1>3 DEF Served, Listened, Alive
<1>8. Ending'
  BY <1>1 DEF HandshakeIInv, Ending, Awake
<1> QED BY <1>4, <1>5, <1>6, <1>7, <1>8 DEF HandshakeIInv

\* auth_success stops the watchdog: nobody tells who is authenticated now.
LEMMA GetsAuthInv == ASSUME HandshakeIInv, NEW l \in Link, GetsAuth(l) PROVE HandshakeIInv'
<1>0. HandshakeTypeOK /\ OneWatchdog
  BY DEF HandshakeIInv
<1>1. /\ listener[l].at = "receiving" /\ ~listener[l].cancelled
      /\ authenticated' = TRUE
      /\ confirmed' = confirmed \cup {listener[l].on}
      /\ UNCHANGED <<main, proxy_connection, new_connection, listener_task, timeout_task,
                     link, heard>>
      /\ listener' = [listener EXCEPT ![l].at = IF Guarded THEN "unguarding" ELSE "registering",
                                      ![l].awaits = IF Guarded THEN timeout_task ELSE NoLink]
  BY DEF GetsAuth, Receives
<1>2. listener[l].on \in Link
  BY <1>1, ItIsTheListener
<1>3. /\ watchdog' \in [Link -> {"none", "asleep", "telling", "cancelled", "done"}]
      /\ \A w \in Link : watchdog'[w] \notin {"asleep", "telling"}
  BY <1>0, CancelWatchdogChanges DEF GetsAuth
<1>4. /\ listener' \in [Link -> Listeners]
      /\ \A k \in Link : k # l => listener'[k] = listener[k]
      /\ listener'[l].at \in {"unguarding", "registering"}
      /\ listener'[l].on = listener[l].on /\ listener'[l].cancelled = listener[l].cancelled
  <2> DEFINE where == IF Guarded THEN "unguarding" ELSE "registering"
             whose == IF Guarded THEN timeout_task ELSE NoLink
             q == [listener[l] EXCEPT !.at = where, !.awaits = whose]
  <2>1. /\ listener[l] \in Listeners
        /\ where \in {"unguarding", "registering"} /\ whose \in Link \cup {NoLink}
    BY <1>0 DEF HandshakeTypeOK
  <2>2. listener' = [listener EXCEPT ![l] = q]
    BY <1>0, <1>1 DEF HandshakeTypeOK, Listeners
  <2>3. q \in Listeners
    <3> HIDE DEF where, whose
    <3> QED BY <2>1 DEF Listeners
  <2>4. q.on = listener[l].on /\ q.cancelled = listener[l].cancelled /\ q.at = where
    BY <2>1 DEF Listeners
  <2> HIDE DEF q
  <2> QED BY <1>0, <2>1, <2>2, <2>3, <2>4, ListenerGoes DEF HandshakeTypeOK
<1>5. HandshakeTypeOK'
  BY <1>0, <1>1, <1>2, <1>3, <1>4 DEF HandshakeTypeOK
<1>6. /\ OneListener' /\ Takeover' /\ NoneForgotten' /\ Abandoned' /\ Served'
      /\ main \in {"closing", "done"} => ~Listened' /\ \A k \in Link : link'[k] # "open"
  BY <1>1, <1>2, <1>4, ListenerStep
<1>7. OneWatchdog' /\ NotTelling' /\ Ending'
  BY <1>1, <1>3, <1>6 DEF OneWatchdog, NotTelling, Ending, Awake
<1> QED BY <1>5, <1>6, <1>7 DEF HandshakeIInv

LEMMA WatchdogGoneInv == ASSUME HandshakeIInv, NEW l \in Link, WatchdogGone(l) PROVE HandshakeIInv'
<1>0. HandshakeTypeOK
  BY DEF HandshakeIInv
<1>1. /\ listener[l].at = "unguarding"
      /\ listener' = [listener EXCEPT ![l].at = "registering", ![l].awaits = NoLink,
                                      ![l].cancelled = FALSE]
      /\ UNCHANGED <<main, authenticated, proxy_connection, new_connection, listener_task,
                     timeout_task, watchdog, link, confirmed, heard>>
  BY DEF WatchdogGone, ownFields, linkState
<1>2. listener[l].on \in Link
  BY <1>1, ItIsTheListener
<1>3. /\ listener' \in [Link -> Listeners]
      /\ \A k \in Link : k # l => listener'[k] = listener[k]
      /\ listener'[l].at = "registering" /\ listener'[l].on = listener[l].on
      /\ ~listener'[l].cancelled
  <2> DEFINE q == [listener[l] EXCEPT !.at = "registering", !.awaits = NoLink, !.cancelled = FALSE]
  <2>1. listener[l] \in Listeners
    BY <1>0 DEF HandshakeTypeOK
  <2>2. listener' = [listener EXCEPT ![l] = q]
    BY <1>0, <1>1 DEF HandshakeTypeOK, Listeners
  <2>3. q \in Listeners
    BY <2>1 DEF Listeners
  <2>4. q.on = listener[l].on /\ ~q.cancelled /\ q.at = "registering"
    BY <2>1 DEF Listeners
  <2> HIDE DEF q
  <2> QED BY <1>0, <2>2, <2>3, <2>4, ListenerGoes DEF HandshakeTypeOK
<1>4. HandshakeTypeOK'
  BY <1>0, <1>1, <1>3 DEF HandshakeTypeOK
<1>5. /\ OneListener' /\ Takeover' /\ NoneForgotten' /\ Abandoned' /\ Served'
      /\ main \in {"closing", "done"} => ~Listened' /\ \A k \in Link : link'[k] # "open"
  BY <1>1, <1>2, <1>3, ListenerStep
<1>6. OneWatchdog' /\ NotTelling' /\ Ending'
  BY <1>1, <1>5 DEF HandshakeIInv, OneWatchdog, NotTelling, Ending, Awake
<1> QED BY <1>4, <1>5, <1>6 DEF HandshakeIInv

\* The listener goes on with the connection there is, or ends without one.
LEMMA TellsAuthInv == ASSUME HandshakeIInv, NEW l \in Link, TellsAuth(l) PROVE HandshakeIInv'
<1>0. HandshakeTypeOK
  BY DEF HandshakeIInv
<1>1. /\ listener[l].at = "registering" /\ ~listener[l].cancelled /\ heard' = "auth"
      /\ UNCHANGED <<main, authenticated, proxy_connection, new_connection, listener_task,
                     timeout_task, watchdog, link, confirmed>>
      /\ Loops(l)
  BY DEF TellsAuth, Loops, ownFields
<1>2. l = listener_task /\ Listened /\ main \notin {"closing", "done"}
  BY <1>1, ItIsTheListener
<1>3. CASE proxy_connection = NoLink
  <2>1. listener' = [listener EXCEPT ![l] = [@ EXCEPT !.at = "done", !.cancelled = FALSE]]
    BY <1>1, <1>3 DEF Loops
  <2>2. /\ listener' \in [Link -> Listeners]
        /\ \A k \in Link : k # l => listener'[k] = listener[k]
        /\ listener'[l].at = "done"
    BY <1>0, <2>1, ZenonT(60) DEF HandshakeTypeOK, Listeners
  <2>3. HandshakeTypeOK'
    BY <1>0, <1>1, <2>2 DEF HandshakeTypeOK
  <2>4. OneListener' /\ OneWatchdog' /\ NotTelling'
    BY <1>1, <2>2 DEF HandshakeIInv, OneListener, OneWatchdog, NotTelling, Alive, Awake
  <2>5. Takeover' /\ NoneForgotten' /\ Abandoned' /\ Served' /\ Ending'
    BY <1>1, <1>2, <1>3 DEF HandshakeIInv, Takeover, NoneForgotten, Abandoned, Served, Ending, Awake
  <2> QED BY <2>3, <2>4, <2>5 DEF HandshakeIInv
<1>4. CASE proxy_connection # NoLink
  <2>1. listener' = [listener EXCEPT ![l] = [@ EXCEPT !.at = "receiving", !.on = proxy_connection]]
    BY <1>1, <1>4 DEF Loops
  <2>2. /\ listener' \in [Link -> Listeners]
        /\ \A k \in Link : k # l => listener'[k] = listener[k]
        /\ listener'[l].at = "receiving" /\ listener'[l].on \in Link
        /\ ~listener'[l].cancelled
    BY <1>0, <1>1, <1>4, <2>1, ZenonT(60) DEF HandshakeTypeOK, Listeners
  <2>3. HandshakeTypeOK'
    BY <1>0, <1>1, <2>2 DEF HandshakeTypeOK
  <2>4. /\ OneListener' /\ Takeover' /\ NoneForgotten' /\ Abandoned' /\ Served'
        /\ main \in {"closing", "done"} => ~Listened' /\ \A k \in Link : link'[k] # "open"
    BY <1>1, <2>2, ListenerStep
  <2>5. OneWatchdog' /\ NotTelling' /\ Ending'
    BY <1>1, <2>4 DEF HandshakeIInv, OneWatchdog, NotTelling, Ending, Awake
  <2> QED BY <2>3, <2>4, <2>5 DEF HandshakeIInv
<1> QED BY <1>3, <1>4

LEMMA GetsErrorInv == ASSUME HandshakeIInv, NEW l \in Link, GetsError(l) PROVE HandshakeIInv'
<1>1. /\ listener[l].at = "receiving" /\ heard' = "error" /\ Finishes(l)
      /\ UNCHANGED <<main, authenticated, proxy_connection, new_connection, listener_task,
                     timeout_task, watchdog, confirmed>>
  BY DEF GetsError, Receives, ownFields
<1> QED BY <1>1, ListenerCloses

LEMMA QuitsInv == ASSUME HandshakeIInv, NEW l \in Link, Quits(l) PROVE HandshakeIInv'
<1>1. /\ listener[l].at \in {"receiving", "registering"} /\ Finishes(l)
      /\ UNCHANGED <<main, authenticated, proxy_connection, new_connection, listener_task,
                     timeout_task, watchdog, confirmed, heard>>
  BY DEF Quits, Receives, ownFields
<1> QED BY <1>1, ListenerCloses DEF HandshakeIInv, HandshakeTypeOK

\* Who is served has not been cancelled, so that the field is reset.
LEMMA ClosedInv == ASSUME HandshakeIInv, NEW l \in Link, Closed(l) PROVE HandshakeIInv'
<1>0. HandshakeTypeOK
  BY DEF HandshakeIInv
<1>1. /\ listener[l].at = "closing"
      /\ listener' = [listener EXCEPT ![l].at = "done", ![l].cancelled = FALSE]
      /\ proxy_connection' = IF listener[l].cancelled THEN proxy_connection ELSE NoLink
      /\ UNCHANGED <<main, authenticated, new_connection, listener_task, timeout_task,
                     watchdog, link, confirmed, heard>>
  BY DEF Closed, linkState
<1>2. l = listener_task /\ Listened /\ main \notin {"closing", "done"}
  BY <1>1, ItIsTheListener
<1>3. proxy_connection = NoLink \/ link[proxy_connection] = "closed"
  BY <1>1, <1>2 DEF HandshakeIInv, Abandoned
<1>4. /\ listener' \in [Link -> Listeners]
      /\ \A k \in Link : k # l => listener'[k] = listener[k]
      /\ listener'[l].at = "done"
  BY <1>0, <1>1, ZenonT(60) DEF HandshakeTypeOK, Listeners
<1>5. HandshakeTypeOK'
  BY <1>0, <1>1, <1>4 DEF HandshakeTypeOK
<1>6. OneListener' /\ OneWatchdog' /\ NotTelling'
  BY <1>1, <1>4 DEF HandshakeIInv, OneListener, OneWatchdog, NotTelling, Alive, Awake
<1>7. Takeover' /\ NoneForgotten' /\ Abandoned'
  BY <1>0, <1>1, <1>3 DEF HandshakeIInv, Takeover, NoneForgotten, Abandoned, HandshakeTypeOK
<1>8. Served' /\ Ending'
  BY <1>1, <1>2 DEF HandshakeIInv, Served, Serving, Ending, Awake
<1> QED BY <1>5, <1>6, <1>7, <1>8 DEF HandshakeIInv

-----------------------------------------------------------------------------
(***************************************************************************)
(* The watchdog, the proxy, and all steps                                  *)
(***************************************************************************)

\* A watchdog that ends, or that tells an agent that is not authenticated.
LEMMA WatchdogStep ==
  ASSUME HandshakeIInv, NEW w \in Link, Fires(w) \/ Dismissed(w)
  PROVE  HandshakeIInv'
<1>0. HandshakeTypeOK
  BY DEF HandshakeIInv
<1>1. UNCHANGED <<main, authenticated, proxy_connection, new_connection, listener_task,
                  timeout_task, listener, link, confirmed, heard>>
  BY DEF Fires, Dismissed, ownFields, linkState
<1>2. /\ watchdog' \in [Link -> {"none", "asleep", "telling", "cancelled", "done"}]
      /\ \A v \in Link : v # w => watchdog'[v] = watchdog[v]
      /\ watchdog'[w] = "done" \/ (watchdog'[w] = "telling" /\ watchdog[w] = "asleep"
                                                           /\ ~authenticated)
  BY <1>0 DEF Fires, Dismissed, HandshakeTypeOK
<1>3. HandshakeTypeOK'
  BY <1>0, <1>1, <1>2 DEF HandshakeTypeOK
<1>4. OneWatchdog' /\ NotTelling'
  BY <1>1, <1>2 DEF HandshakeIInv, OneWatchdog, NotTelling, Awake
<1>5. OneListener' /\ Abandoned' /\ Served'
  BY <1>1 DEF HandshakeIInv, OneListener, Abandoned, Served, Serving, Alive, Listened
<1>6. Takeover' /\ NoneForgotten' /\ Ending'
  BY <1>1, <1>2 DEF HandshakeIInv, Takeover, NoneForgotten, Ending, Awake, Listened, Alive
<1> QED BY <1>3, <1>4, <1>5, <1>6 DEF HandshakeIInv

\* The listener is cancelled of an agent that is not authenticated.
LEMMA ToldInv == ASSUME HandshakeIInv, NEW w \in Link, Told(w) PROVE HandshakeIInv'
<1>0. HandshakeTypeOK
  BY DEF HandshakeIInv
<1>1. /\ watchdog[w] = "telling" /\ watchdog' = [watchdog EXCEPT ![w] = "done"]
      /\ heard' = "error"
      /\ UNCHANGED <<main, authenticated, proxy_connection, new_connection, listener_task,
                     timeout_task, link, confirmed>>
  BY DEF Told, ownFields
<1>2. ~authenticated
  BY <1>1 DEF HandshakeIInv, NotTelling
<1>3. /\ listener' \in [Link -> Listeners]
      /\ \A l \in Link : listener'[l].at = listener[l].at /\ listener'[l].on = listener[l].on
  BY <1>0, CancelListenerChanges DEF Told
<1>4. /\ \A l \in Link : Alive(l)' <=> Alive(l)
      /\ Listened' <=> Listened
  BY <1>0, <1>1, <1>3 DEF Alive, Listened, HandshakeTypeOK
<1>5. HandshakeTypeOK'
  BY <1>0, <1>1, <1>3 DEF HandshakeTypeOK
<1>6. OneListener' /\ OneWatchdog' /\ NotTelling'
  BY <1>0, <1>1, <1>3, <1>4 DEF HandshakeIInv, OneListener, OneWatchdog, NotTelling, Awake, HandshakeTypeOK
<1>7. Abandoned'
  BY <1>0, <1>1, <1>3, <1>4 DEF HandshakeIInv, Abandoned, HandshakeTypeOK, Listened
<1>8. Takeover' /\ NoneForgotten' /\ Served'
  BY <1>1, <1>2 DEF HandshakeIInv, Takeover, NoneForgotten, Served
<1>9. Ending'
  BY <1>0, <1>1, <1>4 DEF HandshakeIInv, Ending, Awake, HandshakeTypeOK
<1> QED BY <1>5, <1>6, <1>7, <1>8, <1>9 DEF HandshakeIInv

LEMMA DropsInv == ASSUME HandshakeIInv, NEW l \in Link, Drops(l) PROVE HandshakeIInv'
<1>0. HandshakeTypeOK
  BY DEF HandshakeIInv
<1>1. /\ link' = [link EXCEPT ![l] = "closed"]
      /\ UNCHANGED <<main, authenticated, proxy_connection, new_connection, listener_task,
                     timeout_task, listener, watchdog, confirmed, heard>>
  BY DEF Drops, ownFields, taskFields
<1>2. HandshakeTypeOK'
  BY <1>0, <1>1 DEF HandshakeTypeOK
<1>3. OneListener' /\ OneWatchdog' /\ NotTelling' /\ Served'
  BY <1>1 DEF HandshakeIInv, OneListener, OneWatchdog, NotTelling, Served, Serving, Alive, Awake, Listened
<1>4. Takeover' /\ NoneForgotten' /\ Abandoned' /\ Ending'
  BY <1>0, <1>1 DEF HandshakeIInv, Takeover, NoneForgotten, Abandoned, Ending, HandshakeTypeOK, Listened,
                    Alive, Awake
<1> QED BY <1>2, <1>3, <1>4 DEF HandshakeIInv

LEMMA SameInv == ASSUME HandshakeIInv, UNCHANGED handshakeVars PROVE HandshakeIInv'
  BY DEF handshakeVars, HandshakeIInv, HandshakeTypeOK, OneListener, OneWatchdog, NotTelling, Takeover,
         NoneForgotten, Abandoned, Served, Serving, Ending, Alive, Awake, Listened

LEMMA NextInv == HandshakeIInv /\ [Next_handshake]_handshakeVars => HandshakeIInv'
<1> SUFFICES ASSUME HandshakeIInv, [Next_handshake]_handshakeVars PROVE HandshakeIInv'
  OBVIOUS
<1>1. CASE Main
  BY <1>1, ConnectInv, OpenedInv, OpenFailsInv, ReplacedInv, GreetedInv, GreetFailsInv, LeaveInv,
     UnguardedInv, UnlistenedInv, LeftInv DEF Main
<1>2. ASSUME NEW l \in Link, Listen(l) PROVE HandshakeIInv'
  BY <1>2, GetsAuthInv, WatchdogGoneInv, TellsAuthInv, GetsErrorInv, QuitsInv, ClosedInv
     DEF Listen, GoesOn
<1>3. ASSUME NEW w \in Link, Watch(w) PROVE HandshakeIInv'
  BY <1>3, WatchdogStep, ToldInv DEF Watch
<1>4. ASSUME NEW l \in Link, Drops(l) PROVE HandshakeIInv'
  BY <1>4, DropsInv
<1> QED BY <1>1, <1>2, <1>3, <1>4, SameInv DEF Next_handshake

\* The invariant implies what the runs check.
LEMMA InvSound == HandshakeIInv => HandshakeSound
<1> SUFFICES ASSUME HandshakeIInv PROVE HandshakeSound
  OBVIOUS
<1>1. OneReader
  BY DEF HandshakeIInv, OneListener, OneReader, Receives, Alive
<1>2. NothingLeft
  BY DEF HandshakeIInv, OneListener, Ending, NothingLeft, Listened
<1>3. Answered
  BY DEF HandshakeIInv, Served, Serving, Answered
<1> QED BY <1>1, <1>2, <1>3 DEF HandshakeIInv, HandshakeSound

LEMMA Invariant == HandshakeSpec => []HandshakeIInv
  BY InitInv, NextInv, PTL DEF HandshakeSpec

\* The fields of a handler and the states of its tasks keep their types.
THEOREM HandshakeTypes == HandshakeSpec => []HandshakeTypeOK
<1>1. HandshakeIInv => HandshakeTypeOK
  BY DEF HandshakeIInv
<1> QED BY Invariant, <1>1, PTL

\* "Prevent multiple recv() coroutines", and what the finally of
\* handle_connection is for: whatever attempts, cancellations, timeouts and
\* messages of the proxy come in between, no connection has two readers, an
\* open one is within reach of who will close it, an agent taken for
\* authenticated is listened to, and a handler that is through has left no
\* task and no connection.
THEOREM HandshakeIsSound == HandshakeSpec => []HandshakeSound
  BY Invariant, InvSound, PTL
=============================================================================
