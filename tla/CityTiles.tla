------------------------------ MODULE CityTiles ------------------------------
(***************************************************************************)
(* Where the web client looks up what a tile yields to the city that is    *)
(* shown (city.js, map.js, webgl/city.js).  The civserver sends the yields *)
(* as an array without positions: one entry for each tile of the city that *)
(* is on the map, the nearest first.  The client finds the entry of a tile *)
(* by its vector from the city, in a table that it builds once for each    *)
(* way the borders of the map cut the city off, and keeps for the next     *)
(* city: which may have another radius.                                    *)
(***************************************************************************)
EXTENDS Integers, FiniteSets

CONSTANTS Wraps,       \* values of map.wrap_id, sets of "X" and "Y"
          Hexes,       \* values of topo_has_flag(TF_HEX)
          XSize, YSize,
          RadiusSq,    \* squared radii of cities
          MaxLooks     \* cities shown one after the other (a bound)

ASSUME MapAssumption == /\ Wraps \subseteq SUBSET {"X", "Y"} /\ Hexes \subseteq BOOLEAN
                        /\ XSize \in Nat \ {0} /\ YSize \in Nat \ {0}
                        /\ RadiusSq \subseteq Nat

VARIABLES wrap, hex,   \* wrap_id, topology_id
          shown,       \* active_city: its tile and city_radius_sq
          ctm,         \* city_tile_map
          spot,        \* a tile on a path that is drawn, <<>> when none is
          looks        \* counter of the bound

cityVars == <<wrap, hex, shown, ctm, spot, looks>>

Tile == (0..(XSize - 1)) \X (0..(YSize - 1))

FC_WRAP(value, range) == value % range

-----------------------------------------------------------------------------
(***************************************************************************)
(* Vectors                                                                 *)
(***************************************************************************)
Abs(n) == IF n < 0 THEN -n ELSE n

map_vector_to_distance(v) ==
  LET far == IF Abs(v[1]) > Abs(v[2]) THEN Abs(v[1]) ELSE Abs(v[2])
  IN  IF hex /\ v[1] * v[2] > 0 THEN Abs(v[1]) + Abs(v[2]) ELSE far

map_vector_to_sq_distance(v) ==
  IF hex THEN map_vector_to_distance(v) * map_vector_to_distance(v)
  ELSE v[1] * v[1] + v[2] * v[2]

\* Wrapping in the direction of y is put into dx.
map_distance_vector(t0, t1) ==
  LET Near(d, size) == FC_WRAP(d + size \div 2, size) - size \div 2
      dx == IF "X" \in wrap THEN Near(t1[1] - t0[1], XSize) ELSE t1[1] - t0[1]
      dy == t1[2] - t0[2]
  IN  <<IF "Y" \in wrap THEN Near(dy, YSize) ELSE dx, dy>>

-----------------------------------------------------------------------------
(***************************************************************************)
(* The table of a city's tiles                                             *)
(***************************************************************************)
Disc(r, radius_sq) == {v \in (-r..r) \X (-r..r) : map_vector_to_sq_distance(v) <= radius_sq}

\* The order of the civserver's tiles, and of the client's.
Before(v, w) ==
  LET dv == map_vector_to_sq_distance(v)
      dw == map_vector_to_sq_distance(w)
  IN  \/ dv < dw
      \/ dv = dw /\ v[1] < w[1]
      \/ dv = dw /\ v[1] = w[1] /\ v[2] < w[2]

Rank(v, S) == Cardinality({w \in S : Before(w, v)})

dxy_to_center_index(v, r) == (v[1] + r) * (2 * r + 1) + v[2] + r

\* The entries of an array by the vectors they belong to, ranked.
TileMap(S, r) ==
  [i \in {dxy_to_center_index(v, r) : v \in S} |->
     Rank(CHOOSE v \in S : dxy_to_center_index(v, r) = i, S)]

Root(n) == CHOOSE r \in 0..n : r * r <= n /\ n < (r + 1) * (r + 1)

NoMap == [radius_sq |-> -1, radius |-> 0, sorted |-> {}, maps |-> <<>>]

\* Mutant: the maps of the smaller radius stay.
BuildKeepsMaps(c, radius_sq) ==
  IF c.radius_sq >= radius_sq THEN c
  ELSE LET r == Root(radius_sq)
           V == Disc(r, radius_sq)
       IN  [radius_sq |-> radius_sq, radius |-> r, sorted |-> V,
            maps |-> [k \in DOMAIN c.maps \cup {0} |->
                        IF k = 0 THEN TileMap(V, r) ELSE c.maps[k]]]

\* Built anew only for a larger radius, then without the maps of before.
build_city_tile_map(c, radius_sq) ==
  IF c.radius_sq >= radius_sq THEN c
  ELSE LET r == Root(radius_sq)
           V == Disc(r, radius_sq)
       IN  [radius_sq |-> radius_sq, radius |-> r, sorted |-> V,
            maps |-> [k \in {0} |-> TileMap(V, r)]]

\* How the border cuts the city off in one direction; 0 when it does not.
delta_tile_helper(pos, r, size) ==
  LET low == -pos
      high == size - 1 - pos
  IN  [min |-> low, max |-> high,
       i |-> IF low > -r THEN r + low ELSE IF high < r THEN 2 * r - high ELSE 0]

build_city_tile_map_with_limits(c, dx, dy) ==
  TileMap({v \in c.sorted : /\ dx.min <= v[1] /\ v[1] <= dx.max
                            /\ dy.min <= v[2] /\ v[2] <= dy.max}, c.radius)

Uncut(r) == [min |-> -r, max |-> r, i |-> 0]

\* The table with the map for a city at a position, and the map's place.
get_city_tile_map_for_pos(c, x, y) ==
  LET r == c.radius
      dx == IF "X" \in wrap THEN Uncut(r) ELSE delta_tile_helper(x, r, XSize)
      dy == IF "Y" \in wrap THEN Uncut(r) ELSE delta_tile_helper(y, r, YSize)
      at == IF wrap = {} THEN (2 * r + 1) * dx.i + dy.i ELSE dx.i + dy.i
  IN  [at |-> at,
       c |-> IF at \in DOMAIN c.maps THEN c
             ELSE [c EXCEPT !.maps = [k \in DOMAIN @ \cup {at} |->
                     IF k = at THEN build_city_tile_map_with_limits(c, dx, dy) ELSE @[k]]]]

-----------------------------------------------------------------------------
(***************************************************************************)
(* Steps                                                                   *)
(***************************************************************************)
Dirs == 0..7
DIR_DX == [d \in Dirs |-> <<-1, 0, 1, -1, 1, -1, 0, 1>>[d + 1]]
DIR_DY == [d \in Dirs |-> <<-1, -1, -1, 0, 0, 1, 1, 1>>[d + 1]]

is_valid_dir(d) == hex => d \notin {0, 7}

\* Mutant: the row is always adjusted the same way.
PosOfRowBefore(x, y) ==
  LET row == IF x >= XSize \/ x < 0 THEN y - 1 ELSE y
      index == x + row * XSize
  IN  IF index \in 0..(XSize * YSize - 1) THEN <<index % XSize, index \div XSize>> ELSE <<>>

\* Positions west and east of the map are tiles of the next row, or of the one
\* before, whether the map wraps or not; `<<>>` when there is no tile.
map_pos_to_tile(x, y) ==
  LET row == IF x >= XSize THEN y - 1 ELSE IF x < 0 THEN y + 1 ELSE y
      index == x + row * XSize
  IN  IF index \in 0..(XSize * YSize - 1) THEN <<index % XSize, index \div XSize>> ELSE <<>>

mapstep(t, d) == IF is_valid_dir(d) THEN map_pos_to_tile(DIR_DX[d] + t[1], DIR_DY[d] + t[2])
                 ELSE <<>>

get_direction_for_step(t, u) ==
  LET ds == {d \in Dirs : mapstep(t, d) = u}
  IN  IF ds = {} THEN -1 ELSE CHOOSE d \in ds : \A e \in ds : d <= e

-----------------------------------------------------------------------------
Init_tiles == /\ wrap \in Wraps /\ hex \in Hexes
              /\ shown = [x |-> 0, y |-> 0, radius_sq |-> 0]
              /\ ctm = NoMap
              /\ spot = <<>> /\ looks = 0

\* A city is shown: the table is built, and the map for the city fetched.
\* (Cities are shown or a path is drawn: neither knows of the other.)
show_city_worked_tiles ==
  /\ spot = <<>> /\ looks < MaxLooks /\ looks' = looks + 1
  /\ \E t \in Tile, q \in RadiusSq :
       /\ shown' = [x |-> t[1], y |-> t[2], radius_sq |-> q]
       /\ ctm' = get_city_tile_map_for_pos(build_city_tile_map(ctm, q), t[1], t[2]).c
  /\ UNCHANGED <<wrap, hex, spot>>

\* A goto line begins at the tile of a unit, and is drawn a step further.
webgl_render_goto_line ==
  /\ looks = 0
  /\ \/ spot = <<>> /\ spot' \in Tile
     \/ spot # <<>> /\ \E d \in Dirs : mapstep(spot, d) # <<>> /\ spot' = mapstep(spot, d)
  /\ UNCHANGED <<wrap, hex, shown, ctm, looks>>

Next_tiles == show_city_worked_tiles \/ webgl_render_goto_line

TilesSpec == Init_tiles /\ [][Next_tiles]_cityVars

-----------------------------------------------------------------------------
(***************************************************************************)
(* Properties                                                              *)
(***************************************************************************)

\* The entry the client reads for a tile of the city that is shown.
get_city_dxy_to_index(v) ==
  LET m == get_city_tile_map_for_pos(ctm, shown.x, shown.y)
      i == dxy_to_center_index(v, ctm.radius)
  IN  IF i \in DOMAIN m.c.maps[m.at] THEN m.c.maps[m.at][i] ELSE -1

\* The city's tiles on the map, by their vectors, as the civserver lists them.
OnTheMap(v) == /\ "X" \notin wrap => shown.x + v[1] \in 0..(XSize - 1)
               /\ "Y" \notin wrap => shown.y + v[2] \in 0..(YSize - 1)
CityVectors == {v \in Disc(Root(shown.radius_sq), shown.radius_sq) : OnTheMap(v)}
TileAt(v) == <<FC_WRAP(shown.x + v[1], XSize), FC_WRAP(shown.y + v[2], YSize)>>

\* Each tile of the city that is shown is looked up where the civserver put
\* its yields: wherever the borders cut the city, and whatever cities with
\* other radii were shown before.
TileIndexRight ==
  looks > 0 => \A v \in CityVectors :
    get_city_dxy_to_index(map_distance_vector(<<shown.x, shown.y>>, TileAt(v)))
      = Rank(v, CityVectors)

\* A step and the opposite step lead back, and a step is found again by its
\* direction, at the borders of the map too.
StepsBack ==
  spot # <<>> => \A d \in Dirs : mapstep(spot, d) # <<>> =>
    /\ mapstep(mapstep(spot, d), 7 - d) = spot
    /\ get_direction_for_step(spot, mapstep(spot, d)) = d

\* A tile of the map is found again: in what the civserver has sent of the city,
\* by its vector, and at the other end of a step.
TilesFound == TileIndexRight /\ StepsBack
=============================================================================
