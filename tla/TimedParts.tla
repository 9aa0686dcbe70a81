----------------------------- MODULE TimedParts -----------------------------
(***************************************************************************)
(* Four parts that live on timers and tasks, and share nothing: an agent's *)
(* handler in the gateway, the camera of an observer's page, an            *)
(* EventAggregator, and the container that streams an observer's page.  A  *)
(* behaviour is one of a single part, with the others as they began.       *)
(***************************************************************************)
EXTENDS AgentHandshake, ObserverFollow, EventAggregator, StreamCapture

VARIABLE part

timedVars == <<part, handshakeVars, followVars, aggVars, streamVars>>

Init_timed ==
  /\ part \in {"handler", "camera", "aggregator", "stream"}
  /\ Init_handshake
  /\ Init_follow /\ (part # "camera" => mode = "static")
  /\ Init_aggregator /\ (part # "aggregator" => policy = "none")
  /\ Init_stream

Next_timed ==
  \/ part = "handler" /\ Next_handshake /\ UNCHANGED <<part, followVars, aggVars, streamVars>>
  \/ part = "camera" /\ Next_follow /\ UNCHANGED <<part, handshakeVars, aggVars, streamVars>>
  \/ part = "aggregator" /\ Next_aggregator /\ UNCHANGED <<part, handshakeVars, followVars, streamVars>>
  \/ part = "stream" /\ Next_stream /\ UNCHANGED <<part, handshakeVars, followVars, aggVars>>

\* Each part has the fairness of its own steps.  Where a part has not begun, the
\* steps that are fair are not enabled, but those of the container, which starts
\* by itself.
FairParts == /\ HandshakeFairness /\ FollowFairness /\ AggFairness
             /\ part = "stream" => StreamFairness

TimedSpec == Init_timed /\ [][Next_timed]_timedVars /\ FairParts

\* The types of the parts at an observer's end (the bounded polls of the camera
\* among them).
TimersTypeOK == FollowTypeOK /\ AggTypeOK /\ StreamTypeOK

\* A run of the container comes to the stream or to its end (RunsEnd), where
\* there is one.
StreamEnds == part = "stream" => RunsEnd
=============================================================================
