---------------------------- MODULE MCClientParts ----------------------------
(***************************************************************************)
(* The parts of the web client through which a player gives orders and     *)
(* sees the world: units that ask for a decision, gotos, worklists, tax    *)
(* rates, treaties, the tiles of a city, and the objects of the 3D view.   *)
(* Each shares nothing with the others but the connection; a behaviour is  *)
(* one of a single part, with the others as they began.                    *)
(***************************************************************************)
EXTENDS UnitDecision, Goto, Worklist, Rates, Diplomacy, CityTiles, TileObjects

CONSTANTS u1, u2, place1, place2, item1, item2, left, right, site1, site2

Sym == Permutations({u1, u2})

AllWraps == SUBSET {"X"}

VARIABLE part

\* At rest: the part is at one of its initial states, and stays there.
AtRest(name) == part # name

Init ==
  /\ part \in {"decision", "goto", "worklist", "rates", "diplomacy", "tiles", "scene"}
  /\ Init_decision
  /\ Init_diplomacy /\ (AtRest("diplomacy") => treaty = NoTreaty)
  /\ Init_goto /\ (AtRest("goto") => at[u1] = place1)
  /\ Init_worklist /\ (AtRest("worklist") => tab.prod = item1)
  /\ Init_rates
  /\ AtRest("rates") => /\ \A m \in MaxRates : maxrate <= m
                        /\ slider = [tax |-> 50, lux |-> 0, sci |-> 50]
  /\ Init_tiles /\ (AtRest("tiles") => wrap = {} /\ ~hex)
  /\ Init_tileobjects

Next ==
  \/ /\ part = "decision" /\ Next_decision
     /\ UNCHANGED <<part, gotoVars, listVars, ratesVars, meetVars, cityVars, tileVars>>
  \/ /\ part = "goto" /\ Next_goto
     /\ UNCHANGED <<part, decisionVars, listVars, ratesVars, meetVars, cityVars, tileVars>>
  \/ /\ part = "worklist" /\ Next_worklist
     /\ UNCHANGED <<part, decisionVars, gotoVars, ratesVars, meetVars, cityVars, tileVars>>
  \/ /\ part = "rates" /\ Next_rates
     /\ UNCHANGED <<part, decisionVars, gotoVars, listVars, meetVars, cityVars, tileVars>>
  \/ /\ part = "diplomacy" /\ Next_diplomacy
     /\ UNCHANGED <<part, decisionVars, gotoVars, listVars, ratesVars, cityVars, tileVars>>
  \/ /\ part = "tiles" /\ Next_tiles
     /\ UNCHANGED <<part, decisionVars, gotoVars, listVars, ratesVars, meetVars, tileVars>>
  \/ /\ part = "scene" /\ Next_tileobjects
     /\ UNCHANGED <<part, decisionVars, gotoVars, listVars, ratesVars, meetVars, cityVars>>

Spec == Init /\ [][Next]_<<part, decisionVars, gotoVars, listVars, ratesVars, meetVars,
                           cityVars, tileVars>>
=============================================================================
