--------------------------- MODULE EventAggregator ---------------------------
(***************************************************************************)
(* The EventAggregator of the web client (libs/EventAggregator.js), which  *)
(* calls a handler at a reduced rate, and the handler of the message log   *)
(* (update_chatbox in messages.js), which reports the messages again when  *)
(* the page has no list to show them in.                                   *)
(*                                                                         *)
(* An aggregator holds its timer in the property `timer`.  A timer that is *)
(* overwritten there runs on: it is a stray, and calls fired() all the     *)
(* same.                                                                   *)
(***************************************************************************)
EXTENDS Integers, Sequences

CONSTANTS Event,      \* what is reported: a message, a city that changed
          MaxDelays,  \* maxDelays
          Latency,    \* latency > 0
          MaxEvents,  \* events reported (a bound)
          MaxStrays   \* timers that run without being in `timer` (a bound)

\* What `new EventAggregator` may be given (its defaults fill in the rest).
ASSUME AggAssumption == /\ MaxDelays \in Nat /\ MaxEvents \in Nat /\ MaxStrays \in Nat
                        /\ Latency \in BOOLEAN

VARIABLES policy,    \* dataPolicy
          agg,       \* the object's timer, burst, delays, count and data
          strays,    \* timers that run and are not in `timer`
          attached,  \* the handler can do its work
          since,     \* events reported since the last call (history)
          handled    \* events the handler was called for (history)

aggVars == <<policy, agg, strays, attached, since, handled>>

Policies == {"none", "first", "last", "count", "all"}

Aggregators == [timer : BOOLEAN, burst : BOOLEAN, delays : 0..MaxDelays,
                count : Nat, data : Seq(Event)]

AggTypeOK == /\ policy \in Policies
             /\ agg \in Aggregators
             /\ strays \in 0..MaxStrays
             /\ attached \in BOOLEAN
             /\ since \in Seq(Event) /\ handled \in Seq(Event)

-----------------------------------------------------------------------------
(***************************************************************************)
(* The object                                                              *)
(***************************************************************************)

\* clear(): timer is left alone.
clear(a) == [a EXCEPT !.burst = FALSE, !.delays = 0, !.count = 0, !.data = <<>>]

\* Mutant: the last event is kept where the first is asked for.
KeepsLatest(a, e) == CASE policy \in {"first", "last"} -> <<e>>
                       [] policy = "all" -> Append(a.data, e)
                       [] OTHER -> a.data

\* What update() keeps of the events, by the policy.
Keeps(a, e) == CASE policy = "first" /\ a.count = 0 -> <<e>>
                 [] policy = "last" -> <<e>>
                 [] policy = "all" -> Append(a.data, e)
                 [] OTHER -> a.data

update(a, e) ==
  [a EXCEPT !.data = Keeps(a, e), !.count = @ + 1, !.timer = TRUE,
            !.burst = @ \/ (a.timer /\ a.count > 0)]

\* The object after an update for each of the events, when it was cleared
\* and had no timer: what the handler without a list does.
Requeued(events) == [timer |-> TRUE, burst |-> Len(events) > 1, delays |-> 0,
                     count |-> Len(events), data |-> events]

\* Mutant: the data is cleared when the handler is through with it.
HandleThenClear(lost) ==
  /\ agg' = [clear(agg) EXCEPT !.timer = TRUE]
  /\ strays' = lost
  /\ IF attached THEN handled' = handled \o since /\ since' = <<>>
                 ELSE UNCHANGED <<since, handled>>

\* The rest of fireNow() once `timer` is null: clear, call the handler, and
\* start the timer of the latency, whatever the handler has started.
CallHandler(lost) ==
  IF attached
  THEN /\ handled' = handled \o since /\ since' = <<>>
       /\ agg' = [clear(agg) EXCEPT !.timer = Latency]
       /\ strays' = lost
  ELSE /\ agg' = Requeued(agg.data)
       /\ strays' = IF Latency THEN lost + 1 ELSE lost
       /\ UNCHANGED <<since, handled>>

Init_aggregator ==
  /\ policy \in Policies
  /\ attached \in (IF policy = "all" THEN BOOLEAN ELSE {TRUE})
  /\ agg = [timer |-> FALSE, burst |-> FALSE, delays |-> 0, count |-> 0, data |-> <<>>]
  /\ strays = 0
  /\ since = <<>> /\ handled = <<>>

Update == /\ Len(since) + Len(handled) < MaxEvents
          /\ \E e \in Event : agg' = update(agg, e) /\ since' = Append(since, e)
          /\ UNCHANGED <<policy, strays, attached, handled>>

\* fireNow(), by the buttons of the city dialog and by chatbox_clip_messages.
fireNow == /\ agg.count > 0
           /\ attached \/ strays < MaxStrays
           /\ CallHandler(strays)
           /\ UNCHANGED <<policy, attached>>

\* A timer ends: the one in `timer`, or a stray, which leaves the one that
\* `timer` holds to run on.
Fired(lost) ==
  /\ lost <= MaxStrays
  /\ IF agg.burst /\ agg.delays < MaxDelays
     THEN /\ agg' = [agg EXCEPT !.burst = FALSE, !.delays = @ + 1, !.timer = TRUE]
          /\ strays' = lost
          /\ UNCHANGED <<since, handled>>
     ELSE IF agg.count > 0
          THEN (attached \/ lost < MaxStrays) /\ CallHandler(lost)
          ELSE /\ agg' = [agg EXCEPT !.timer = FALSE]
               /\ strays' = lost
               /\ UNCHANGED <<since, handled>>
  /\ UNCHANGED <<policy, attached>>

fired == agg.timer /\ Fired(strays)

StrayFired == strays > 0 /\ Fired(IF agg.timer THEN strays ELSE strays - 1)

\* clear_chatbox()
Clear == /\ agg' = clear(agg) /\ since' = <<>>
         /\ UNCHANGED <<policy, strays, attached, handled>>

\* The page of the pregame or of the game, with its list of messages, comes
\* or goes.
Attach == /\ policy = "all"
          /\ attached' = ~attached
          /\ UNCHANGED <<policy, agg, strays, since, handled>>

Next_aggregator == Update \/ fireNow \/ fired \/ StrayFired \/ Clear \/ Attach

AggSpec == Init_aggregator /\ [][Next_aggregator]_aggVars

\* The browser ends its timers.
AggFairness == WF_aggVars(fired) /\ WF_aggVars(StrayFired)

-----------------------------------------------------------------------------
(***************************************************************************)
(* Properties                                                              *)
(***************************************************************************)

\* What the handler will be called with stands for exactly the events since
\* its last call, and nothing of them waits without a timer that runs
\* (update, fired and fireNow together, also with strays and when the
\* handler reports the messages again).
DataHonest ==
  /\ agg.count = Len(since)
  /\ agg.data = CASE policy = "first" /\ since # <<>> -> <<since[1]>>
                  [] policy = "last" /\ since # <<>> -> <<since[Len(since)]>>
                  [] policy = "all" -> since
                  [] OTHER -> <<>>
  /\ since # <<>> => agg.timer \/ strays > 0

\* The promise: every event is handed over once, in order, in the end.
Promise == INSTANCE Batcher WITH waiting <- since, ready <- attached
Batches == Promise!FairSpec
=============================================================================
