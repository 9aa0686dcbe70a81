-------------------------------- MODULE Goto --------------------------------
(***************************************************************************)
(* Ordering units to a tile in the web client: the player starts a goto,   *)
(* hovers over tiles, for which the client asks the civserver for paths,   *)
(* and clicks one; the client sends each unit in focus the path it has     *)
(* been answered, and with it the order to carry out there, if there is    *)
(* one.  Answers come late, units move meanwhile, and what an earlier goto *)
(* has left is not always cleared.                                         *)
(***************************************************************************)
EXTENDS Arrays

CONSTANTS Ship,      \* units of the player
          Place,     \* tiles
          Unknown,   \* no entry in goto_request_map
          Asked,     \* `true` there: a path that was asked for
          MaxOrders, \* gotos the player starts (a bound)
          MaxMoves,  \* moves of units (a bound)
          MaxPackets \* packets under way (a bound)

ASSUME GotoAssumption == Unknown # Asked /\ {Unknown, Asked} \cap Place = {}

VARIABLES goto,    \* goto_active, goto_last_order, goto_request_map, current_focus
          at,      \* the units' tiles as the client knows them
          pos,     \* the units' tiles at the civserver
          toServer, toPage,   \* packets under way
          gotos, moves,       \* counters of the bounds
          meant               \* history: whom the player wants to detonate

gotoVars == <<goto, at, pos, toServer, toPage, gotos, moves, meant>>

\* A path is told apart by the tile it starts at.
Paths == [Ship \X Place -> {Unknown, Asked} \cup Place]
NoPaths == [k \in Ship \X Place |-> Unknown]

Orders == [ask : {"orders"}, ship : Ship, src : Place, path : Place, dest : Place,
           final : BOOLEAN]

GotoTypeOK ==
  /\ goto \in [active : BOOLEAN, last : BOOLEAN, paths : Paths, focus : Seq(Ship)]
  /\ at \in [Ship -> Place] /\ pos \in [Ship -> Place]
  /\ toServer \in Seq([ask : {"path"}, ship : Ship, dest : Place] \cup Orders)
  /\ toPage \in Seq([told : {"path"}, ship : Ship, dest : Place, from : Place]
                      \cup [told : {"unit"}, ship : Ship, place : Place])
  /\ meant \subseteq Ship

Init_goto ==
  /\ goto = [active |-> FALSE, last |-> FALSE, paths |-> NoPaths, focus |-> <<>>]
  /\ \E p \in Place : at = [u \in Ship |-> p] /\ pos = at
  /\ toServer = <<>> /\ toPage = <<>>
  /\ gotos = 0 /\ moves = 0
  /\ meant = {}

Groups == {<<>>} \cup {<<u>> : u \in Ship}
            \cup {s \in Ship \X Ship : s[1] # s[2]}

UnitsIn(s) == {s[i] : i \in DOMAIN s}

-----------------------------------------------------------------------------
(***************************************************************************)
(* The player                                                              *)
(***************************************************************************)
UnderWay == Len(toServer) + Len(toPage)

Page(g) == goto' = g /\ UNCHANGED <<at, pos, toPage, moves>>

deactivate_goto(g) == [g EXCEPT !.active = FALSE, !.last = FALSE, !.paths = NoPaths]

\* Mutant: the order on arrival of the goto before stays.
ActivateKeepsLast(nuke) ==
  /\ gotos < MaxOrders /\ gotos' = gotos + 1
  /\ Page(IF goto.focus = <<>> THEN deactivate_goto(goto)
          ELSE [goto EXCEPT !.active = TRUE, !.last = @ \/ nuke])
  /\ meant' = IF nuke THEN UnitsIn(goto.focus) ELSE {}
  /\ UNCHANGED toServer

\* A goto, or one that ends in a nuclear detonation; what was asked for
\* before is not cleared.
activate_goto_last(nuke) ==
  /\ gotos < MaxOrders /\ gotos' = gotos + 1
  /\ Page(IF goto.focus = <<>> THEN deactivate_goto(goto)
          ELSE [goto EXCEPT !.active = TRUE, !.last = nuke])
  /\ meant' = IF nuke THEN UnitsIn(goto.focus) ELSE {}
  /\ UNCHANGED toServer

activate_goto == activate_goto_last(FALSE)
key_unit_nuke == activate_goto_last(TRUE)

Focus(s, g) == Page([g EXCEPT !.focus = s]) /\ UNCHANGED <<toServer, gotos>>

\* Units are selected by a rectangle, in the unit panel, as cargo, with the
\* right button, or are left when others die.  A goto under way goes on for
\* them, with its order on arrival: then the player means them too.
SelectUnits ==
  \E s \in Groups :
    /\ Focus(s, goto)
    /\ meant' = IF goto.active /\ meant # {} THEN meant \cup UnitsIn(s) ELSE meant

\* The next unit gets the focus, which ends a goto and clears nothing; the
\* space bar clears the focus.
FocusMovesOn ==
  /\ \E s \in Groups : Len(s) <= 1 /\ Focus(s, [goto EXCEPT !.active = FALSE])
  /\ meant' = {}

ClearFocus ==
  /\ Focus(<<>>, [goto EXCEPT !.active = FALSE, !.paths = NoPaths])
  /\ meant' = {}

Escape == Page(deactivate_goto(goto)) /\ meant' = {} /\ UNCHANGED <<toServer, gotos>>

\* The mouse rests over a tile: paths that were neither asked for nor told are
\* asked for, for each unit in focus.
check_request_goto_path ==
  \E d \in Place :
    LET new == Those(goto.focus, {u \in Ship : goto.paths[<<u, d>>] = Unknown})
    IN  /\ goto.active /\ UnderWay + Len(new) <= MaxPackets
        /\ Page([goto EXCEPT !.paths = [k \in DOMAIN @ |->
                   IF k[2] = d /\ \E i \in DOMAIN new : new[i] = k[1] THEN Asked ELSE @[k]]])
        /\ toServer' = toServer \o [i \in DOMAIN new |-> [ask |-> "path", ship |-> new[i],
                                                          dest |-> d]]
        /\ UNCHANGED <<gotos, meant>>

\* The units in focus that have an entry for the tile, and those of them that
\* come before the first one whose path has not been told: the loop leaves the
\* function there, and goto stays active.
Listed(d) == Those(goto.focus, {u \in Ship : goto.paths[<<u, d>>] # Unknown})
Stopped(d) == \E i \in DOMAIN Listed(d) : goto.paths[<<Listed(d)[i], d>>] = Asked
Told(d) == LET asked == {i \in DOMAIN Listed(d) : goto.paths[<<Listed(d)[i], d>>] = Asked}
           IN  IF asked = {} THEN Listed(d)
               ELSE SubSeq(Listed(d), 1, (CHOOSE i \in asked : \A j \in asked : i <= j) - 1)

\* The last order is cleared in the loop, after the first unit.
OrdersOf(d) == [i \in DOMAIN Told(d) |->
                  [ask |-> "orders", ship |-> Told(d)[i], src |-> at[Told(d)[i]],
                   path |-> goto.paths[<<Told(d)[i], d>>], dest |-> d,
                   final |-> goto.last /\ i = 1]]

\* A click on the unit's own tile ends the goto.  What the player wanted is
\* done with the first order, or given up with the goto.
do_map_click ==
  \E d \in Place :
    /\ goto.active /\ UnderWay + Len(goto.focus) <= MaxPackets
    /\ IF goto.focus # <<>> /\ at[goto.focus[1]] = d
       THEN Page(deactivate_goto(goto)) /\ meant' = {} /\ UNCHANGED toServer
       ELSE /\ toServer' = toServer \o OrdersOf(d)
            /\ Page(IF Stopped(d) THEN [goto EXCEPT !.last = FALSE]
                    ELSE deactivate_goto(goto))
            /\ meant' = IF Stopped(d) /\ Told(d) = <<>> THEN meant ELSE {}
    /\ UNCHANGED gotos

\* A key moves the first unit in focus one step.
key_unit_move ==
  /\ UnderWay < MaxPackets
  /\ \E d \in Place :
       toServer' = IF goto.focus = <<>> THEN toServer
                   ELSE Append(toServer, [ask |-> "orders", ship |-> goto.focus[1],
                                          src |-> at[goto.focus[1]],
                                          path |-> at[goto.focus[1]], dest |-> d,
                                          final |-> FALSE])
  /\ Page(deactivate_goto(goto)) /\ meant' = {}
  /\ UNCHANGED gotos

-----------------------------------------------------------------------------
(***************************************************************************)
(* The civserver, and its answers                                          *)
(***************************************************************************)
Serves(ask) == /\ toServer # <<>> /\ Head(toServer).ask = ask
               /\ toServer' = Tail(toServer)
               /\ UNCHANGED <<goto, at, gotos, meant>>

\* Without a path there is no answer.
handle_web_goto_path_req ==
  /\ Serves("path")
  /\ LET r == Head(toServer)
     IN  \/ toPage' = toPage
         \/ toPage' = Append(toPage, [told |-> "path", ship |-> r.ship, dest |-> r.dest,
                                      from |-> pos[r.ship]])
  /\ UNCHANGED <<pos, moves>>

Moves(u, p) == /\ pos' = [pos EXCEPT ![u] = p]
               /\ toPage' = Append(toPage, [told |-> "unit", ship |-> u, place |-> p])

\* Orders from another tile are dropped, and a unit may have no moves left;
\* those along a path from another tile are followed all the same, and lead
\* somewhere.
handle_unit_orders ==
  /\ Serves("orders")
  /\ LET r == Head(toServer)
     IN  \/ UNCHANGED <<pos, toPage, moves>>
         \/ /\ r.src = pos[r.ship] /\ moves < MaxMoves /\ moves' = moves + 1
            /\ \E p \in Place : (r.path = r.src => p = r.dest) /\ Moves(r.ship, p)

\* Old orders go on at turn change.
UnitMoves == /\ moves < MaxMoves /\ moves' = moves + 1
             /\ \E u \in Ship, p \in Place : p # pos[u] /\ Moves(u, p)
             /\ UNCHANGED <<goto, at, toServer, gotos, meant>>

HearsOf(told_) == /\ toPage # <<>> /\ Head(toPage).told = told_
                  /\ toPage' = Tail(toPage)
                  /\ UNCHANGED <<pos, toServer, gotos, moves, meant>>

handle_web_goto_path ==
  /\ HearsOf("path")
  /\ LET r == Head(toPage)
     IN  goto' = IF goto.active THEN [goto EXCEPT !.paths[<<r.ship, r.dest>>] = r.from]
                 ELSE goto
  /\ UNCHANGED at

handle_unit_info == /\ HearsOf("unit")
                    /\ at' = [at EXCEPT ![Head(toPage).ship] = Head(toPage).place]
                    /\ UNCHANGED goto

Next_goto == \/ activate_goto \/ key_unit_nuke \/ SelectUnits \/ FocusMovesOn
             \/ ClearFocus \/ Escape \/ check_request_goto_path \/ do_map_click
             \/ key_unit_move \/ handle_web_goto_path_req \/ handle_unit_orders \/ UnitMoves
             \/ handle_web_goto_path \/ handle_unit_info

GotoSpec == Init_goto /\ [][Next_goto]_gotoVars

-----------------------------------------------------------------------------
(***************************************************************************)
(* Properties                                                              *)
(***************************************************************************)
\* The orders of this step that end in a detonation.
Detonations == {i \in DOMAIN toServer' : /\ i > Len(toServer)
                                         /\ toServer'[i].ask = "orders" /\ toServer'[i].final}

DetonatesMeant == \A i \in Detonations : toServer'[i].ship \in meant /\ Detonations = {i}

\* A unit is sent to detonate only by a nuclear goto that was started with it
\* in focus or in which the player has selected it since; a goto sends one
\* unit at most, and none once it has been broken off, used for another order
\* or replaced, though goto_last_order may keep the detonation until then.
FinalOrderOfItsGoto == []GotoTypeOK /\ [][DetonatesMeant]_gotoVars
=============================================================================
