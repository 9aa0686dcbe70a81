--------------------------- MODULE RequestManager ---------------------------
(***************************************************************************)
(* Request/response correlation in the LLM gateway: RequestManager         *)
(* (llm-gateway/request_manager.py), the REST operations that use it       *)
(* through LLMGateway._send_request_and_wait (main.py) and the two         *)
(* listeners that hand it the proxy's replies: the one of the agent whose  *)
(* proxy connection serves the game (websocket_handlers.py) and the        *)
(* gateway's own (main.py).                                                *)
(*                                                                         *)
(* Everything runs on one asyncio loop.  The manager's lock is never held  *)
(* across an await that suspends, so its methods are single steps; a call  *)
(* suspends while its message is being sent and while it awaits its        *)
(* future.  A member of Req is one call and its correlation_id.            *)
(***************************************************************************)
EXTENDS Naturals, FiniteSets

CONSTANTS
    Req,      \* the calls of send_request_and_wait
    KindOf    \* what each asks for: "state", "global" or "action"

ASSUME ReqAssumption ==
    /\ IsFiniteSet(Req)
    /\ KindOf \in [Req -> {"state", "global", "action"}]

VARIABLES
    caller,    \* where send_request_and_wait stands, and how it ended
    future,    \* the asyncio.Future of the call
    pending,   \* keys of pending_requests
    aged,      \* calls older than their timeout
    wire,      \* requests the proxy has and has not answered
    forwarded, \* replies that were sent on to the agent
    stats,     \* the counters of _stats
    running    \* between start() and stop()

vars == <<caller, future, pending, aged, wire, forwarded, stats, running>>

Ended == {"answered", "timedout", "notfound", "cancelled"}
Done  == {"result", "exception", "cancelled"}

TypeOK ==
    /\ caller \in [Req -> {"idle", "sending", "draining", "waiting"} \cup Ended]
    /\ future \in [Req -> {"none", "pending"} \cup Done]
    /\ pending \subseteq Req
    /\ aged \subseteq Req
    /\ wire \subseteq Req
    /\ forwarded \subseteq Req
    /\ stats \in [total : Nat, completed : Nat, timed_out : Nat, cleaned_up : Nat]
    /\ running \in BOOLEAN
    /\ \A r \in Req : future[r] = "none" <=> caller[r] = "idle"
    /\ pending \cup aged \cup wire \cup forwarded \subseteq {r \in Req : future[r] # "none"}

Init ==
    /\ caller = [r \in Req |-> "idle"]
    /\ future = [r \in Req |-> "none"]
    /\ pending = {}
    /\ aged = {}
    /\ wire = {}
    /\ forwarded = {}
    /\ stats = [total |-> 0, completed |-> 0, timed_out |-> 0, cleaned_up |-> 0]
    /\ running = TRUE

-----------------------------------------------------------------------------
(* The call.                                                               *)

\* Mutant of Create: the future is only made when somebody waits for it.
CreateLazily(r) ==
    /\ caller[r] = "idle"
    /\ caller' = [caller EXCEPT ![r] = "sending"]
    /\ pending' = pending \cup {r}
    /\ stats' = [stats EXCEPT !.total = @ + 1]
    /\ UNCHANGED <<future, aged, wire, forwarded, running>>

\* create_request, and the send_callback begins; a manager that was stopped
\* takes calls all the same.
Create(r) ==
    /\ caller[r] = "idle"
    /\ caller' = [caller EXCEPT ![r] = "sending"]
    /\ future' = [future EXCEPT ![r] = "pending"]
    /\ pending' = pending \cup {r}
    /\ stats' = [stats EXCEPT !.total = @ + 1]
    /\ UNCHANGED <<aged, wire, forwarded, running>>

\* forward_to_proxy wrote the message; send() may still have to drain.
Write(r) ==
    /\ caller[r] = "sending"
    /\ caller' = [caller EXCEPT ![r] = "draining"]
    /\ wire' = wire \cup {r}
    /\ UNCHANGED <<future, pending, aged, forwarded, stats, running>>

\* Mutant of BeginWait: a missing entry sends the message again, for ever.
BeginWaitRetries(r) ==
    /\ caller[r] \in {"sending", "draining"}
    /\ caller' = [caller EXCEPT ![r] = IF r \in pending THEN "waiting" ELSE "sending"]
    /\ UNCHANGED <<future, pending, aged, wire, forwarded, stats, running>>

\* forward_to_proxy returned, whatever it returned: True after a send, False
\* after an error or when no connection can be had.  Then wait_for_response
\* begins, which raises KeyError when the entry is gone by now.
BeginWait(r) ==
    /\ caller[r] \in {"sending", "draining"}
    /\ caller' = [caller EXCEPT ![r] = IF r \in pending THEN "waiting" ELSE "notfound"]
    /\ UNCHANGED <<future, pending, aged, wire, forwarded, stats, running>>

\* The future is done and the caller wakes up in wait_for.  A TimeoutError
\* leads to cancel_request, which finds nothing left to do.
Wake(r) ==
    /\ caller[r] = "waiting"
    /\ \/ /\ future[r] = "result"
          /\ caller' = [caller EXCEPT ![r] = "answered"]
       \/ /\ future[r] = "exception"
          /\ caller' = [caller EXCEPT ![r] = "timedout"]
       \/ /\ future[r] = "cancelled"
          /\ caller' = [caller EXCEPT ![r] = "cancelled"]
    /\ UNCHANGED <<future, pending, aged, wire, forwarded, stats, running>>

\* Mutant of TimerFires: no cancel_request after the TimeoutError.
TimerForgets(r) ==
    /\ caller[r] = "waiting"
    /\ r \in aged
    /\ caller' = [caller EXCEPT ![r] = "timedout"]
    /\ future' = [future EXCEPT ![r] = IF @ = "pending" THEN "cancelled" ELSE @]
    /\ UNCHANGED <<pending, aged, wire, forwarded, stats, running>>

\* The timer of wait_for fires.  It cancels the future unless it is done, and
\* the caller gets a TimeoutError even when the future was done and it had
\* not woken up yet; cancel_request drops the entry.
TimerFires(r) ==
    /\ caller[r] = "waiting"
    /\ r \in aged
    /\ caller' = [caller EXCEPT ![r] = "timedout"]
    /\ future' = [future EXCEPT ![r] = IF @ = "pending" THEN "cancelled" ELSE @]
    /\ pending' = pending \ {r}
    /\ UNCHANGED <<aged, wire, forwarded, stats, running>>

\* The caller's task is cancelled.  CancelledError is no Exception, so neither
\* except clause runs: the entry stays for the cleanup loop.
CallerCancelled(r) ==
    /\ caller[r] \in {"sending", "draining", "waiting"}
    /\ future' = [future EXCEPT ![r] = IF caller[r] = "waiting" /\ @ = "pending"
                                       THEN "cancelled" ELSE @]
    /\ caller' = [caller EXCEPT ![r] = "cancelled"]
    /\ UNCHANGED <<pending, aged, wire, forwarded, stats, running>>

-----------------------------------------------------------------------------
(* The reply.                                                              *)

\* Which replies a listener hands to resolve_request: the agent's listener
\* and the gateway's (_handle_freeciv_message) differ.
Resolves(listener, reply) ==
    \/ reply = "global"
    \/ listener = "agent" /\ reply = "error"
    \/ listener = "gateway" /\ reply = "state"

\* resolve_request finds an entry whose future is not done: True.
Resolve(r) ==
    /\ r \in pending
    /\ future[r] = "pending"
    /\ future' = [future EXCEPT ![r] = "result"]
    /\ stats' = [stats EXCEPT !.completed = @ + 1]

\* resolve_request finds no entry, or one whose future is done: False.
NotResolved(r) ==
    /\ ~(r \in pending /\ future[r] = "pending")
    /\ UNCHANGED <<future, stats>>

\* Mutant of Reply: no `continue` after a resolved reply.
ReplyForwardsAll(r, listener, reply) ==
    /\ r \in wire
    /\ reply \in {KindOf[r], "error"}
    /\ wire' = wire \ {r}
    /\ forwarded' = IF listener = "agent" THEN forwarded \cup {r} ELSE forwarded
    /\ \/ /\ Resolves(listener, reply)
          /\ pending' = pending \ {r}
          /\ Resolve(r) \/ NotResolved(r)
       \/ /\ ~Resolves(listener, reply)
          /\ UNCHANGED <<pending, future, stats>>
    /\ UNCHANGED <<caller, aged, running>>

\* A reply reaches a listener.  The agent's listener forwards to its agent
\* every reply that resolve_request did not take.
Reply(r, listener, reply) ==
    /\ r \in wire
    /\ reply \in {KindOf[r], "error"}
    /\ wire' = wire \ {r}
    /\ \/ /\ Resolves(listener, reply)
          /\ pending' = pending \ {r}
          /\ \/ Resolve(r) /\ UNCHANGED forwarded
             \/ /\ NotResolved(r)
                /\ forwarded' = IF listener = "agent" THEN forwarded \cup {r} ELSE forwarded
       \/ /\ ~Resolves(listener, reply)
          /\ forwarded' = IF listener = "agent" THEN forwarded \cup {r} ELSE forwarded
          /\ UNCHANGED <<pending, future, stats>>
    /\ UNCHANGED <<caller, aged, running>>

\* The connection closes, or its listener is cancelled, before the reply.
LoseReply(r) ==
    /\ r \in wire
    /\ wire' = wire \ {r}
    /\ UNCHANGED <<caller, future, pending, aged, forwarded, stats, running>>

-----------------------------------------------------------------------------
(* The cleanup loop, the clock and shutdown.                               *)

Expired == pending \cap aged

\* Mutants of Cleanup: done futures are counted as timed out; the futures are
\* not tested; entries whose future is done are skipped.
CleanupCountsAll ==
    /\ running
    /\ Expired # {}
    /\ pending' = pending \ Expired
    /\ future' = [r \in Req |-> IF r \in Expired /\ future[r] = "pending"
                                THEN "exception" ELSE future[r]]
    /\ stats' = [stats EXCEPT !.timed_out = @ + Cardinality(Expired),
                              !.cleaned_up = @ + Cardinality(Expired)]
    /\ UNCHANGED <<caller, aged, wire, forwarded, running>>

CleanupBlindly ==
    /\ running
    /\ Expired # {}
    /\ pending' = pending \ Expired
    /\ future' = [r \in Req |-> IF r \in Expired THEN "exception" ELSE future[r]]
    /\ stats' = [stats EXCEPT !.timed_out = @ + Cardinality(Expired),
                              !.cleaned_up = @ + Cardinality(Expired)]
    /\ UNCHANGED <<caller, aged, wire, forwarded, running>>

CleanupSkipsDone ==
    /\ running
    /\ LET failing == {r \in Expired : future[r] = "pending"}
       IN  /\ failing # {}
           /\ pending' = pending \ failing
           /\ future' = [r \in Req |-> IF r \in failing THEN "exception" ELSE future[r]]
           /\ stats' = [stats EXCEPT !.timed_out = @ + Cardinality(failing),
                                     !.cleaned_up = @ + Cardinality(failing)]
    /\ UNCHANGED <<caller, aged, wire, forwarded, running>>

\* _cleanup_expired_requests.
Cleanup ==
    /\ running
    /\ Expired # {}
    /\ pending' = pending \ Expired
    /\ LET failing == {r \in Expired : future[r] = "pending"}
       IN  /\ future' = [r \in Req |-> IF r \in failing THEN "exception" ELSE future[r]]
           /\ stats' = [stats EXCEPT !.timed_out = @ + Cardinality(failing),
                                     !.cleaned_up = @ + Cardinality(Expired)]
    /\ UNCHANGED <<caller, aged, wire, forwarded, running>>

Ages(r) ==
    /\ future[r] # "none"
    /\ r \notin aged
    /\ aged' = aged \cup {r}
    /\ UNCHANGED <<caller, future, pending, wire, forwarded, stats, running>>

\* Mutant of Stop: the entries are dropped without cancelling their futures.
StopForgets ==
    /\ running
    /\ running' = FALSE
    /\ pending' = {}
    /\ UNCHANGED <<caller, future, aged, wire, forwarded, stats>>

\* stop: the loop ends, every pending future is cancelled.
Stop ==
    /\ running
    /\ running' = FALSE
    /\ future' = [r \in Req |-> IF r \in pending /\ future[r] = "pending"
                                THEN "cancelled" ELSE future[r]]
    /\ pending' = {}
    /\ UNCHANGED <<caller, aged, wire, forwarded, stats>>

CallStep(r) ==
    \/ Create(r) \/ Write(r) \/ BeginWait(r) \/ Wake(r) \/ TimerFires(r)
    \/ CallerCancelled(r)

ReplyStep(r) ==
    \/ \E listener \in {"agent", "gateway"}, reply \in {"state", "global", "action", "error"} :
          Reply(r, listener, reply)
    \/ LoseReply(r)

Next ==
    \/ \E r \in Req : CallStep(r) \/ ReplyStep(r) \/ Ages(r)
    \/ Cleanup
    \/ Stop

Spec == Init /\ [][Next]_vars

\* forward_to_proxy returns (its connection attempts, sends and back-offs are
\* all bounded), a caller whose future is done wakes up, the timer of wait_for
\* fires, time passes, and the cleanup loop runs while the manager does.
\* Nothing is assumed of the proxy.
Fairness ==
    /\ \A r \in Req :
         /\ WF_vars(BeginWait(r))
         /\ WF_vars(Wake(r))
         /\ WF_vars(TimerFires(r))
         /\ WF_vars(Ages(r))
    /\ WF_vars(Cleanup)

FairSpec == Spec /\ Fairness

-----------------------------------------------------------------------------
(* Properties.                                                             *)

\* A future that is not done is still in pending_requests, where a reply, the
\* cleanup loop or stop() will find it: nobody awaits a future that nothing
\* can complete.
FutureReachable == \A r \in Req : future[r] = "pending" => r \in pending

\* "Prevents memory leaks": an entry belongs to a call that still runs; the
\* only entries left behind are those of cancelled callers.
NoOrphanEntry == \A r \in pending : caller[r] \notin Ended \/ caller[r] = "cancelled"

\* Every request is counted once for how its future ended, whichever of the
\* reply, the timers, the cleanup loop and stop() came first.
StatsHonest ==
    LET Ending(f) == Cardinality({r \in Req : future[r] = f})
    IN  /\ stats.completed = Ending("result")
        /\ stats.timed_out = Ending("exception")
        /\ stats.total = Cardinality({r \in Req : future[r] # "none"})
        /\ stats.timed_out <= stats.cleaned_up

\* An answer is what resolve_request stored, and the agent was not sent it too.
AnswerIsReply == \A r \in Req :
    caller[r] = "answered" => future[r] = "result" /\ r \notin forwarded

\* "Double-resolution is harmless": a future that is done stays as it is.
FutureOnce == [][\A r \in Req : future[r] \in Done => future'[r] = future[r]]_vars

\* Every call returns or raises, whatever the proxy does.
CallEnds == \A r \in Req :
    caller[r] \in {"sending", "draining", "waiting"} ~> caller[r] \in Ended

\* "automatic TTL cleanup": every entry leaves pending_requests, also that of
\* a caller that was cancelled, unless it came after stop().
EntryReclaimed == \A r \in Req : r \in pending ~> r \notin pending \/ ~running

\* Futures, entries, answers and counters agree, whoever completed a future.
FuturesSound == FutureReachable /\ NoOrphanEntry /\ StatsHonest /\ AnswerIsReply

\* Calls and entries both come to an end.
CallsEnd == CallEnds /\ EntryReclaimed
=============================================================================
