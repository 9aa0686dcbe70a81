----------------------------- MODULE TileObjects -----------------------------
(***************************************************************************)
(* What the 3D view of the web client shows on the tiles of the map, and   *)
(* how it follows the packets of the civserver.                            *)
(*                                                                         *)
(* The client keeps, for each tile, tables of the objects it has put into  *)
(* the scene: the mesh of one visible unit with its flag, its label and    *)
(* its bar of health, a city with its name, walls, lights and disorder, a  *)
(* city building, an extra, trees.  A packet changes the tables of the     *)
(* game and then redraws the tiles it touches (object_position_handler.js).*)
(* Models are downloaded when they are first needed; a tile that lacked    *)
(* one is redrawn by the callback of the download (preload.js).  Where     *)
(* exactly an object stands is left out.                                   *)
(***************************************************************************)
EXTENDS Integers, FiniteSets, Sequences, FiniteSetsExt, SequencesExt

CONSTANTS Piece,     \* units, each of a type of its own
          Site,      \* tiles, with room for a city and its buildings
          Nobody,    \* no unit, no tile, no model
          MaxFacts   \* packets, clicks and frames that change something (a bound)

ASSUME SceneAssumption == /\ IsFiniteSet(Piece) /\ IsFiniteSet(Site)
                          /\ Nobody \notin Piece \cup Site \cup {"village", "town"}
                          /\ MaxFacts \in Nat

VARIABLES game,   \* units, tiles, cities and current_focus
          scenery,   \* the tables of objects, the scene, the models
          facts   \* what has happened so far (the bound)

tileVars == <<game, scenery, facts>>

UnitKinds == {"mesh", "flag", "label", "bar"}
CityKinds == {"city", "name", "walls", "light", "disorder"}
ObjectKinds == UnitKinds \cup CityKinds \cup {"building", "extra", "trees"}

\* Models: of a unit of its type, of a small and of a large city, of walls, of
\* a building, of an extra, of trees (which are there from the start).
Model == Piece \cup {"village", "town", "walls", "library", "mine", "pollution"}

Terrains == {"Forest", "Jungle", "Desert"}

\* What a unit looks like: idle with all its health, or with an activity to
\* show in the label and less health.
Looks == {"idle", "busy"}

NoCity == [there |-> FALSE, large |-> FALSE, walls |-> FALSE, unhappy |-> FALSE,
           library |-> FALSE, drawn |-> Nobody, added |-> FALSE]
NewCity == [NoCity EXCEPT !.there = TRUE]

Games == [at : [Piece -> Site \cup {Nobody}], anim : [Piece -> Seq(Site)],
          look : [Piece -> Looks], riding : SUBSET Piece,
          stack : [Site -> Seq(Piece)], focus : Piece \cup {Nobody},
          city : [Site -> [there : BOOLEAN, large : BOOLEAN, walls : BOOLEAN,
                           unhappy : BOOLEAN, library : BOOLEAN, added : BOOLEAN,
                           drawn : {"village", "town", Nobody}]],
          extras : [Site -> SUBSET {"mine", "pollution"}],
          terrain : [Site -> Terrains]]

\* The tables hold `has`; what is in the scene and in no table is in `stray`.
\* `labelOf` and `barOf` are unit_activities_positions and
\* unit_healthpercentage_positions, null as <<>>.
Views == [scene : BOOLEAN, has : [Site -> SUBSET ObjectKinds], stray : [Site -> SUBSET ObjectKinds],
          labelOf : [Site -> {<<>>} \cup (Looks \X (1..Cardinality(Piece)))],
          barOf : [Site -> {<<>>} \cup {<<l>> : l \in Looks}],
          ring : Site \cup {Nobody}, moving : SUBSET Piece,
          loaded : SUBSET Model, asked : SUBSET Model, fetching : SUBSET Model,
          wanted : [Site -> Model \cup {Nobody}]]

TilesTypeOK == game \in Games /\ scenery \in Views /\ facts \in 0..MaxFacts

-----------------------------------------------------------------------------
(***************************************************************************)
(* The scene and the models                                                *)
(***************************************************************************)

NoObjects == [t \in Site |-> {}]
NoKeys == [t \in Site |-> <<>>]

\* An object is added and stored in its table; one that was there is lost.
Puts(v, k, t) == [v EXCEPT !.has[t] = @ \cup {k},
                           !.stray[t] = IF k \in v.has[t] /\ v.scene THEN @ \cup {k} ELSE @]

\* The objects of the tables are removed from the scene and the tables.
Cleared(v, kinds, t) == [v EXCEPT !.has[t] = @ \ kinds]

\* No model yet: the tile is noted for a redraw, and the model downloaded
\* unless that is under way.
webgl_get_model(v, m, t) ==
  [v EXCEPT !.wanted[t] = m, !.asked = @ \cup {m},
            !.fetching = IF m \in v.asked THEN @ ELSE @ \cup {m}]

-----------------------------------------------------------------------------
(***************************************************************************)
(* Units                                                                   *)
(***************************************************************************)
get_focus_unit_on_tile(g, t) ==
  IF g.focus # Nobody /\ g.at[g.focus] = t THEN g.focus ELSE Nobody

find_visible_unit(g, t) ==
  LET here == g.stack[t]
      moving == SelectInSeq(here, LAMBDA u : g.anim[u] # <<>>)
      standing == SelectInSeq(here, LAMBDA u : u \notin g.riding)
  IN  IF here = <<>> THEN Nobody
      ELSE IF get_focus_unit_on_tile(g, t) # Nobody THEN g.focus
      ELSE IF g.city[t].there THEN Nobody
      ELSE here[IF moving # 0 THEN moving ELSE IF standing # 0 THEN standing ELSE 1]

\* The ring round the unit in focus, which a unit that moves has not.
FocusRing(v, g, t, u) ==
  IF v.scene /\ g.focus = u
  THEN [v EXCEPT !.ring = IF g.anim[u] = <<>> THEN t ELSE Nobody] ELSE v

WithMesh(v, t, u) ==
  LET meshed == [Puts(v, "mesh", t) EXCEPT !.moving = @ \cup {u}]
  IN  IF v.scene /\ "flag" \notin v.has[t] THEN Puts(meshed, "flag", t) ELSE meshed

\* A label for an activity and for several units, when either has changed.
Relabelled(v, g, t, u) ==
  LET now == <<g.look[u], Len(g.stack[t])>>
      off == [Cleared(v, {"label"}, t) EXCEPT !.labelOf[t] = now]
  IN  IF v.labelOf[t] = now \/ g.anim[u] # <<>> THEN v
      ELSE IF v.scene /\ (g.look[u] = "busy" \/ Len(g.stack[t]) > 1)
      THEN Puts(off, "label", t) ELSE off

Rebarred(v, g, t, u) ==
  IF v.barOf[t] = <<g.look[u]>> \/ g.anim[u] # <<>> THEN v
  ELSE [Puts(Cleared(v, {"bar"}, t), "bar", t) EXCEPT !.barOf[t] = <<g.look[u]>>]

NoUnitShown(v, t) == [Cleared(v, UnitKinds, t) EXCEPT !.labelOf[t] = <<>>, !.barOf[t] = <<>>]

UnitAppears(v, g, t, u) ==
  IF u \notin v.loaded THEN webgl_get_model(v, u, t)
  ELSE FocusRing(WithMesh(v, t, u), g, t, u)

UnitRedrawn(v, g, t, u) ==
  LET bare == Cleared(v, {"mesh", "flag"}, t)
      told == FocusRing(Rebarred(Relabelled(bare, g, t, u), g, t, u), g, t, u)
  IN  IF u \notin v.loaded THEN webgl_get_model(told, u, t) ELSE WithMesh(told, t, u)

update_unit_position(v, g, t) ==
  LET u == find_visible_unit(g, t)
      drawn == "mesh" \in v.has[t]
  IN  IF u = Nobody THEN IF drawn THEN NoUnitShown(v, t) ELSE v
      ELSE IF drawn THEN UnitRedrawn(v, g, t, u) ELSE UnitAppears(v, g, t, u)

-----------------------------------------------------------------------------
(***************************************************************************)
(* Cities, extras, trees                                                   *)
(***************************************************************************)
ModelOf(city) == IF city.large THEN "town" ELSE "village"

\* A result is a pair of tables: those of the view and those of the game.
Built(v, g) == [scenery |-> v, game |-> g]

\* The library is put on some tile near by without a city or a building, or,
\* after thirty tries at random, on none.
add_city_building(v, g, t) ==
  LET c == g.city[t]
      free == {s \in Site : ~g.city[s].there /\ {"city", "building"} \cap v.has[s] = {}}
  IN  IF ~c.library \/ c.added THEN {Built(v, g)}
      ELSE IF "library" \notin v.loaded THEN {Built(webgl_get_model(v, "library", t), g)}
      ELSE {Built(v, g)}
             \cup {Built(Puts(v, "building", s), [g EXCEPT !.city[t].added = TRUE]) : s \in free}

WithWalls(v, g, t) ==
  IF ~v.scene \/ ~g.city[t].walls \/ "walls" \in v.has[t] THEN v
  ELSE IF "walls" \notin v.loaded THEN webgl_get_model(v, "walls", t)
  ELSE Puts(v, "walls", t)

WithLight(v, t) == IF v.scene /\ "light" \notin v.has[t] THEN Puts(v, "light", t) ELSE v

WithDisorder(v, g, t) ==
  IF ~v.scene \/ ~g.city[t].there THEN v
  ELSE IF "disorder" \notin v.has[t]
  THEN IF g.city[t].unhappy THEN Puts(v, "disorder", t) ELSE v
  ELSE IF g.city[t].unhappy THEN v ELSE Cleared(v, {"disorder"}, t)

\* Mutant: the walls stay.
NoCityKeepsWalls(v, t) == Cleared(v, CityKinds \ {"walls"}, t)

NoCityShown(v, t) == Cleared(v, CityKinds, t)

CityAppears(v, g, t) ==
  LET m == ModelOf(g.city[t])
      named == [g EXCEPT !.city[t].drawn = m]
      walled == WithWalls(Puts(v, "city", t), g, t)
  IN  IF m \notin v.loaded THEN {Built(webgl_get_model(v, m, t), named)}
      ELSE {Built(WithLight(b.scenery, t), b.game)
              : b \in add_city_building(Puts(walled, "name", t), named, t)}

CityRedrawn(v, g, t) ==
  LET m == ModelOf(g.city[t])
      grows == m # g.city[t].drawn
      razed == IF v.scene /\ g.city[t].walls THEN Cleared(v, {"walls"}, t) ELSE v
      resized == Puts(Cleared(razed, {"city"}, t), "city", t)
      renamed == [g EXCEPT !.city[t].drawn = m]
      walled == WithWalls(IF grows THEN resized ELSE v, g, t)
  IN  IF grows /\ m \notin v.loaded THEN {Built(webgl_get_model(v, m, t), g)}
      ELSE {Built(WithDisorder(WithLight(b.scenery, t), b.game, t), b.game)
              : b \in add_city_building(walled, renamed, t)}

update_city_position(v, g, t) ==
  LET drawn == "city" \in v.has[t]
  IN  IF g.city[t].there
      THEN IF drawn THEN CityRedrawn(v, g, t) ELSE CityAppears(v, g, t)
      ELSE {Built(IF drawn THEN NoCityShown(v, t) ELSE v, g)}

\* Mine, or the model of pollution under the name of the mine, which is
\* removed again as soon as it is seen that there is no mine.
update_tile_extra_update_model(v, g, t) ==
  LET m == IF "pollution" \in g.extras[t] THEN "pollution" ELSE "mine"
  IN  IF "extra" \in v.has[t]
      THEN IF v.scene /\ "mine" \notin g.extras[t] THEN Cleared(v, {"extra"}, t) ELSE v
      ELSE IF g.extras[t] = {} THEN v
      ELSE IF m \notin v.loaded THEN webgl_get_model(v, m, t) ELSE Puts(v, "extra", t)

Wooded(g, t) == g.terrain[t] \in {"Forest", "Jungle"}

update_tile_forest(v, g, t) ==
  IF v.scene /\ "trees" \notin v.has[t] /\ Wooded(g, t) THEN Puts(v, "trees", t)
  ELSE IF v.scene /\ ~Wooded(g, t) THEN Cleared(v, {"trees"}, t) ELSE v

\* One time in twelve, where nothing grows.
update_tile_cactus(v, g, t) ==
  {v} \cup (IF v.scene /\ "trees" \notin v.has[t] /\ g.terrain[t] = "Desert"
            THEN {Puts(v, "trees", t)} ELSE {})

update_tile_extras(v, g, t) ==
  update_tile_cactus(update_tile_forest(update_tile_extra_update_model(v, g, t), g, t), g, t)

-----------------------------------------------------------------------------
(***************************************************************************)
(* Packets and clicks                                                      *)
(***************************************************************************)
Init_tileobjects ==
  /\ game = [at |-> [u \in Piece |-> Nobody], anim |-> [u \in Piece |-> <<>>],
             look |-> [u \in Piece |-> "idle"], riding |-> {},
             stack |-> [t \in Site |-> <<>>], focus |-> Nobody,
             city |-> [t \in Site |-> NoCity], extras |-> [t \in Site |-> {}],
             terrain |-> [t \in Site |-> "Forest"]]
  /\ scenery = [scene |-> FALSE, has |-> NoObjects, stray |-> NoObjects,
             labelOf |-> NoKeys, barOf |-> NoKeys,
             ring |-> Nobody, moving |-> {},
             loaded |-> {"village"}, asked |-> {}, fetching |-> {},
             wanted |-> [t \in Site |-> Nobody]]
  /\ facts = 0

Fact == facts < MaxFacts /\ facts' = facts + 1

Without(g, u) == IF g.at[u] = Nobody THEN g.stack
                 ELSE [g.stack EXCEPT ![g.at[u]] = RemoveFirst(@, u)]

\* The tiles that a move passes, unless the unit is carried.
update_unit_anim_list(g, u, t, carried) ==
  LET old == g.anim[u]
      seen(s) == s \in ToSet(old)
      more(s) == IF seen(s) THEN <<>> ELSE <<s>>
  IN  IF t = g.at[u] THEN old
      ELSE IF carried THEN <<>>
      ELSE old \o more(g.at[u]) \o more(t)

\* A new unit, or one that has moved or changed its look.
UnitPacket ==
  \E u \in Piece, t \in Site, look \in Looks, carried \in BOOLEAN :
    LET new == game.at[u] = Nobody
        g == [game EXCEPT !.anim[u] = IF new THEN <<>>
                                      ELSE update_unit_anim_list(game, u, t, carried),
                          !.at[u] = t, !.look[u] = look,
                          !.riding = IF carried THEN @ \cup {u} ELSE @ \ {u},
                          !.stack = [Without(game, u) EXCEPT ![t] = Append(@, u)]]
        behind == IF new THEN scenery ELSE update_unit_position(scenery, g, game.at[u])
    IN  /\ Fact /\ (look = game.look[u] \/ t = game.at[u])
        /\ game' = g
        /\ scenery' = update_unit_position(behind, g, t)

webgl_clear_unit_focus(v) == [v EXCEPT !.ring = Nobody]

\* The unit in focus is drawn, and drawn again when the view is centered on it.
Focused(v, g, u) ==
  LET once == update_unit_position(v, g, g.at[u])
  IN  {once, update_unit_position(once, g, g.at[u])}

\* The unit is off its tile before the focus moves on, and its tile is drawn
\* once more at the end.
UnitRemoved ==
  \E u \in Piece, next \in Piece \cup {Nobody} :
    LET t == game.at[u]
        off == [game EXCEPT !.stack = Without(game, u)]
        moved == [off EXCEPT !.focus = IF game.focus = u THEN next ELSE @]
        refocused == IF game.focus # u THEN {scenery}
                     ELSE IF next = Nobody THEN {webgl_clear_unit_focus(scenery)}
                     ELSE Focused(scenery, moved, next)
        gone == [moved EXCEPT !.at[u] = Nobody, !.anim[u] = <<>>, !.look[u] = "idle",
                              !.riding = @ \ {u}]
    IN  /\ Fact /\ t # Nobody
        /\ (next # Nobody => game.focus = u /\ next # u /\ game.at[next] # Nobody)
        /\ game' = gone
        /\ scenery' \in {update_unit_position(v, gone, t) : v \in refocused}

UnitFocused ==
  \E u \in Piece :
    LET g == [game EXCEPT !.focus = u]
    IN  /\ Fact /\ game.at[u] # Nobody /\ game.focus # u
        /\ game' = g /\ scenery' \in Focused(scenery, g, u)

\* The space key.
ClearSelection == /\ Fact /\ game.focus # Nobody
                  /\ game' = [game EXCEPT !.focus = Nobody]
                  /\ scenery' = webgl_clear_unit_focus(scenery)

\* A city that has changed in one respect: what a packet may say of it.
CityChanges(c) == {c, [c EXCEPT !.large = ~@], [c EXCEPT !.walls = ~@],
               [c EXCEPT !.unhappy = ~@], [c EXCEPT !.library = TRUE]}

\* A new city, or one that has changed; the tables that the drawing keeps in
\* the city object last as long as the city.  Buildings come when there is a
\* map view (without one, placing them is an error).
CityPacket ==
  \E t \in Site :
    \E c \in (IF game.city[t].there THEN CityChanges(game.city[t]) ELSE {NewCity}) :
      /\ Fact /\ (c.library => scenery.scene)
      /\ \E b \in update_city_position(scenery, [game EXCEPT !.city[t] = c], t) :
           game' = b.game /\ scenery' = b.scenery

\* A destroyed city.  The client of an observer of everybody plays nobody,
\* and keeps it.
remove_city ==
  \E t \in Site :
    /\ Fact /\ game.city[t].there
    /\ \E b \in update_city_position(scenery, [game EXCEPT !.city[t] = NoCity], t) :
         game' = b.game /\ scenery' = b.scenery

\* Extras or terrain of a tile.
handle_tile_info_objects ==
  \E t \in Site, extras \in SUBSET {"mine", "pollution"}, terrain \in Terrains :
    LET g == [game EXCEPT !.extras[t] = extras, !.terrain[t] = terrain]
    IN  /\ Fact /\ (extras = game.extras[t] \/ terrain = game.terrain[t])
        /\ game' = g /\ scenery' \in update_tile_extras(scenery, g, t)

reset_unit_anim_list == /\ Fact /\ \E u \in Piece : game.anim[u] # <<>>
                        /\ game' = [game EXCEPT !.anim = [u \in Piece |-> <<>>]]
                        /\ UNCHANGED scenery

-----------------------------------------------------------------------------
(***************************************************************************)
(* Frames and downloads                                                    *)
(***************************************************************************)
Redraw(v, g, sites) == FoldSet(LAMBDA t, w : update_unit_position(w, g, t), v, sites)

\* A frame in which the units of `arrive` end a step of their way.  A list of
\* two tiles is over then, and the tile where it ends is drawn again.
update_animated_objects ==
  \E arrive \in SUBSET scenery.moving :
    LET runs == {u \in scenery.moving : Len(game.anim[u]) > 1}
        over == {u \in arrive : Len(game.anim[u]) = 2}
        g == [game EXCEPT !.anim = [u \in Piece |-> IF u \in over THEN <<>>
                                                    ELSE IF u \in arrive THEN Tail(@[u])
                                                    ELSE @[u]]]
        v == [scenery EXCEPT !.moving = runs \ over]
    IN  /\ arrive \subseteq runs
        /\ game' = g
        /\ scenery' = Redraw(v, g, {game.anim[u][2] : u \in over})
        /\ scenery' # scenery \/ game' # game
        /\ UNCHANGED facts

\* Draws with each of the sites in turn, for all that the drawing may do.
Each(Draw(_, _, _), drawn, sites) ==
  FoldSet(LAMBDA t, bs : UNION {Draw(b.scenery, b.game, t) : b \in bs}, drawn, sites)

DrawCity(v, g, t) == update_city_position(v, g, t)
DrawExtras(v, g, t) == {Built(w, g) : w \in update_tile_extras(v, g, t)}

\* The callback of load_model(): the tile is redrawn, and then noted no more,
\* whatever the redraw has noted for it.
LoadedTile(m, v, g, t) ==
  {Built([d.scenery EXCEPT !.wanted[t] = Nobody, !.asked = @ \ {m}], d.game)
     : d \in UNION {DrawExtras(b.scenery, b.game, t)
                      : b \in DrawCity(update_unit_position(v, g, t), g, t)}}

LoadedTiles(m, drawn, sites) == Each(LAMBDA v, g, t : LoadedTile(m, v, g, t), drawn, sites)

load_model ==
  \E m \in scenery.fetching :
    LET got == [scenery EXCEPT !.loaded = @ \cup {m}, !.fetching = @ \ {m}]
        waiting == {t \in Site : scenery.wanted[t] = m}
    IN  /\ \E b \in LoadedTiles(m, {Built(got, game)}, waiting) :
             game' = b.game /\ scenery' = b.scenery
        /\ UNCHANGED facts

\* There is no callback for an error.
LoadFails == \E m \in scenery.fetching : /\ scenery' = [scenery EXCEPT !.fetching = @ \ {m}]
                                      /\ Fact /\ UNCHANGED game

\* The map view is made: the tables are emptied, and everything is drawn.  A
\* tile is drawn once for each of its units.
add_all_objects_to_scene ==
  LET empty == [scenery EXCEPT !.scene = TRUE, !.has = NoObjects,
                            !.labelOf = NoKeys, !.barOf = NoKeys]
      twice == {t \in Site : Len(game.stack[t]) > 1}
      manned == {t \in Site : game.stack[t] # <<>>}
      units == Redraw(Redraw(empty, game, manned), game, twice)
      settled == {t \in Site : game.city[t].there}
  IN  /\ ~scenery.scene
      /\ \E b \in Each(DrawExtras, Each(DrawCity, {Built(units, game)}, settled), Site) :
           game' = b.game /\ scenery' = b.scenery
      /\ UNCHANGED facts

Next_tileobjects ==
  \/ UnitPacket
  \/ UnitRemoved
  \/ UnitFocused
  \/ ClearSelection
  \/ CityPacket
  \/ remove_city
  \/ handle_tile_info_objects
  \/ reset_unit_anim_list
  \/ update_animated_objects
  \/ load_model
  \/ LoadFails
  \/ add_all_objects_to_scene

SceneSpec == Init_tileobjects /\ [][Next_tileobjects]_tileVars

-----------------------------------------------------------------------------
(***************************************************************************)
(* Properties                                                              *)
(***************************************************************************)

\* Whatever the order of packets, downloads, frames and clicks, an object of
\* the scene is one the client can still remove (update_unit_position,
\* update_city_position): none is lost from its table, no unit is shown on a
\* tile without units, nothing of a city without the city, no ring away from
\* the unit in focus where that is shown.  (TilesTypeOK is the type invariant
\* that this rests on.)
SceneFaithful ==
  /\ TilesTypeOK
  /\ \A t \in Site :
       /\ scenery.stray[t] = {}
       /\ {"mesh", "flag"} \cap scenery.has[t] # {}
            => "mesh" \in scenery.has[t] /\ game.stack[t] # <<>>
       /\ CityKinds \cap scenery.has[t] # {} => "city" \in scenery.has[t] /\ game.city[t].there
       /\ scenery.ring = t
            => /\ game.focus # Nobody
               /\ game.at[game.focus] = t \/ "mesh" \notin scenery.has[game.at[game.focus]]

\* "Download model and redraw the tile when loaded" (webgl_get_model): a unit
\* whose model is there is shown.  It is not: a tile is noted for one model, and
\* the next one that it lacks takes the place of the first.
ShownOnceLoaded ==
  \A t \in Site : find_visible_unit(game, t) \in scenery.loaded => "mesh" \in scenery.has[t]
=============================================================================
