---------------------------- MODULE MCTimedParts ----------------------------
(***************************************************************************)
(* A small instance of the parts that live on timers and tasks.            *)
(***************************************************************************)
EXTENDS TimedParts

CONSTANTS l1, l2, l3, t1, t2, t3, event1, event2
=============================================================================
