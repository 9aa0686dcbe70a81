------------------------------- MODULE Batcher -------------------------------
(***************************************************************************)
(* What an EventAggregator promises to those who report events to it: the  *)
(* events are handed over in batches, each exactly once and in the order   *)
(* they came, and none waits for ever once somebody can take them.  When a *)
(* batch is handed over, how long events are held back and what is kept of *)
(* them is left open.                                                      *)
(***************************************************************************)
EXTENDS Sequences

CONSTANT Event     \* what can be reported

VARIABLES waiting,   \* events reported since the last batch
          handled,   \* events handed over
          ready      \* somebody can take them

vars == <<waiting, handled, ready>>

Init == /\ waiting = <<>>
        /\ handled = <<>>
        /\ ready \in BOOLEAN

Report == /\ \E e \in Event : waiting' = Append(waiting, e)
          /\ UNCHANGED <<handled, ready>>

HandOver == /\ ready /\ waiting # <<>>
            /\ handled' = handled \o waiting
            /\ waiting' = <<>>
            /\ UNCHANGED ready

Discard == waiting' = <<>> /\ UNCHANGED <<handled, ready>>

Turn == ready' \in BOOLEAN /\ UNCHANGED <<waiting, handled>>

Next == Report \/ HandOver \/ Discard \/ Turn

Spec == Init /\ [][Next]_vars

FairSpec == Spec /\ WF_vars(HandOver)
=============================================================================
