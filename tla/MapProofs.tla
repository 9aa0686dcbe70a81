------------------------------ MODULE MapProofs ------------------------------
(***************************************************************************)
(* Proofs about the map of the web client: the tables of CityTiles find    *)
(* every tile of a city, on every map wide enough for the largest radius,  *)
(* and the 3D view of TileObjects shows the game as it is, for every       *)
(* finite set of units and of tiles and however much happens.              *)
(***************************************************************************)
EXTENDS CityTiles, TileObjects, FiniteSetTheorems, WellFoundedInduction, TLAPS

-----------------------------------------------------------------------------
(***************************************************************************)
(* Induction                                                               *)
(***************************************************************************)

LEMMA LeastNat == ASSUME NEW T \in SUBSET Nat, T # {} PROVE \E m \in T : \A k \in T : m <= k
<1> DEFINE R == OpToRel(<, Nat)
<1>1. IsWellFoundedOn(R, Nat)
  BY NatLessThanWellFounded
<1>2. \A x, y \in Nat : x < y => <<x, y>> \in R
  BY DEF OpToRel
<1> HIDE DEF R
<1>3. PICK m \in T : \A k \in T : ~ (<<k, m>> \in R)
  BY <1>1, WFMin
<1>4. ASSUME NEW k \in T PROVE m <= k
  <2>1. ~(k < m)
    BY <1>2, <1>3
  <2> QED BY <2>1
<1> QED BY <1>4

LEMMA Induct ==
  ASSUME NEW T, 0 \in T, \A n \in Nat : n \in T => n + 1 \in T
  PROVE  Nat \subseteq T
<1> SUFFICES ASSUME Nat \ T # {} PROVE FALSE
  OBVIOUS
<1>1. PICK m \in Nat \ T : \A k \in Nat \ T : m <= k
  BY LeastNat
<1>2. m # 0 /\ m - 1 \in Nat /\ m - 1 \in T
  BY <1>1
<1> QED BY <1>1, <1>2

-----------------------------------------------------------------------------
(***************************************************************************)
(* CityTiles: numbers of tiles, vectors between them and the tables that   *)
(* the client builds for each radius                                       *)
(***************************************************************************)

LEMMA Times ==
  ASSUME NEW n \in Nat \ {0}, NEW a \in Int, NEW b \in Int
  PROVE  /\ n * a \in Int
         /\ a < b => n * a + n <= n * b
         /\ n * (a - 1) = n * a - n
         /\ n * (a + 1) = n * a + n
         /\ n * 0 = 0
OBVIOUS

\* A number between the multiples of n is a multiple and a rest, in one way.
LEMMA OneRest ==
  ASSUME NEW n \in Nat \ {0}, NEW a \in Int, NEW b \in Int,
         NEW c \in 0..(n - 1), NEW e \in 0..(n - 1), n * a + c = n * b + e
  PROVE  a = b /\ c = e
<1>1. n * a \in Int /\ n * b \in Int
  OBVIOUS
<1>2. ~(a < b)
  <2>1. a < b => n * a + n <= n * b
    BY Times
  <2> QED BY <1>1, <2>1
<1>3. ~(b < a)
  <2>1. b < a => n * b + n <= n * a
    BY Times
  <2> QED BY <1>1, <2>1
<1> QED BY <1>1, <1>2, <1>3

LEMMA DivMod ==
  ASSUME NEW n \in Nat \ {0}, NEW a \in Int, NEW c \in 0..(n - 1)
  PROVE  (n * a + c) % n = c /\ (n * a + c) \div n = a
<1> DEFINE k == n * a + c
           q == k \div n
           r == k % n
<1>1. k \in Int
  OBVIOUS
<1> HIDE DEF k
<1>2. q \in Int /\ r \in 0..(n - 1) /\ k = n * q + r
  BY <1>1
<1> HIDE DEF q, r
<1>3. n * a + c = n * q + r
  BY <1>2 DEF k
<1>4. a = q /\ c = r
  BY <1>2, <1>3, OneRest
<1> QED BY <1>4 DEF k, q, r

LEMMA Rows ==
  ASSUME NEW n \in Nat \ {0}, NEW m \in Nat \ {0}, NEW a \in Int, NEW c \in 0..(n - 1)
  PROVE  n * a + c \in 0..(n * m - 1) <=> a \in 0..(m - 1)
<1>1. n * a \in Int /\ n * m \in Int
  OBVIOUS
<1>2. CASE a < 0
  <2>1. n * a + n <= n * 0 /\ n * 0 = 0
    BY <1>2, Times
  <2> QED BY <1>1, <1>2, <2>1
<1>3. CASE a >= m
  <2>1. n * m <= n * a
    <3>1. CASE a = m
      BY <3>1
    <3>2. CASE m < a
      <4>1. n * m + n <= n * a
        BY <3>2, Times
      <4> QED BY <1>1, <4>1
    <3> QED BY <1>3, <3>1, <3>2
  <2> QED BY <1>1, <1>3, <2>1
<1>4. CASE 0 <= a /\ a < m
  <2>1. n * a + n <= n * m
    BY <1>4, Times
  <2>2. 0 <= n * a
    <3>1. CASE a = 0
      BY <3>1
    <3>2. CASE 0 < a
      <4>1. n * 0 + n <= n * a /\ n * 0 = 0
        BY <3>2, Times
      <4> QED BY <1>1, <4>1
    <3> QED BY <1>4, <3>1, <3>2
  <2> QED BY <1>1, <1>4, <2>1, <2>2
<1> QED BY <1>2, <1>3, <1>4

-----------------------------------------------------------------------------
(***************************************************************************)
(* Steps                                                                   *)
(***************************************************************************)

\* The column a step leads to, round the map.
Column(x) == IF x >= XSize THEN x - XSize ELSE IF x < 0 THEN x + XSize ELSE x

LEMMA PosOfTile ==
  ASSUME NEW x \in -1..XSize, NEW y \in Int
  PROVE  map_pos_to_tile(x, y) = IF y \in 0..(YSize - 1) THEN <<Column(x), y>> ELSE <<>>
<1> DEFINE c == Column(x)
           row == IF x >= XSize THEN y - 1 ELSE IF x < 0 THEN y + 1 ELSE y
           index == x + row * XSize
<1>0. XSize \in Nat \ {0} /\ YSize \in Nat \ {0}
  BY MapAssumption
<1>1. c \in 0..(XSize - 1) /\ index = XSize * y + c
  <2>1. /\ XSize * (y - 1) = XSize * y - XSize /\ XSize * (y + 1) = XSize * y + XSize
        /\ XSize * y \in Int
    BY <1>0, Times
  <2>2. CASE x >= XSize
    <3>1. index = x + XSize * (y - 1) /\ c = x - XSize
      BY <1>0, <2>2 DEF Column
    <3> QED BY <1>0, <2>1, <2>2, <3>1
  <2>3. CASE x < 0
    <3>1. index = x + XSize * (y + 1) /\ c = x + XSize
      BY <1>0, <2>3 DEF Column
    <3> QED BY <1>0, <2>1, <2>3, <3>1
  <2>4. CASE 0 <= x /\ x < XSize
    <3>1. index = x + XSize * y /\ c = x
      BY <1>0, <2>4 DEF Column
    <3> QED BY <1>0, <2>1, <2>4, <3>1
  <2> QED BY <1>0, <2>2, <2>3, <2>4
<1> HIDE DEF c
<1>2. map_pos_to_tile(x, y) = IF index \in 0..(XSize * YSize - 1)
                              THEN <<index % XSize, index \div XSize>> ELSE <<>>
  BY DEF map_pos_to_tile
<1> HIDE DEF index
<1>3. index \in 0..(XSize * YSize - 1) <=> y \in 0..(YSize - 1)
  BY <1>0, <1>1, Rows
<1>4. index % XSize = c /\ index \div XSize = y
  BY <1>0, <1>1, DivMod
<1> QED BY <1>2, <1>3, <1>4 DEF c

LEMMA DirSteps ==
  ASSUME NEW d \in Dirs
  PROVE  /\ DIR_DX[d] \in -1..1 /\ DIR_DY[d] \in -1..1 /\ 7 - d \in Dirs
         /\ DIR_DX[7 - d] = -DIR_DX[d] /\ DIR_DY[7 - d] = -DIR_DY[d]
         /\ is_valid_dir(d) => is_valid_dir(7 - d)
         /\ \A e \in Dirs : DIR_DX[e] = DIR_DX[d] /\ DIR_DY[e] = DIR_DY[d] => e = d
<1>1. d \in {0, 1, 2, 3, 4, 5, 6, 7}
  BY DEF Dirs
<1>2. \A e \in Dirs : e \in {0, 1, 2, 3, 4, 5, 6, 7}
  BY DEF Dirs
<1>3. /\ DIR_DX[0] = -1 /\ DIR_DX[1] = 0 /\ DIR_DX[2] = 1 /\ DIR_DX[3] = -1
      /\ DIR_DX[4] = 1 /\ DIR_DX[5] = -1 /\ DIR_DX[6] = 0 /\ DIR_DX[7] = 1
  BY DEF DIR_DX, Dirs
<1>4. /\ DIR_DY[0] = -1 /\ DIR_DY[1] = -1 /\ DIR_DY[2] = -1 /\ DIR_DY[3] = 0
      /\ DIR_DY[4] = 0 /\ DIR_DY[5] = 1 /\ DIR_DY[6] = 1 /\ DIR_DY[7] = 1
  BY DEF DIR_DY, Dirs
<1>5. /\ DIR_DX[d] \in -1..1 /\ DIR_DY[d] \in -1..1 /\ 7 - d \in Dirs
      /\ DIR_DX[7 - d] = -DIR_DX[d] /\ DIR_DY[7 - d] = -DIR_DY[d]
  BY <1>1, <1>3, <1>4 DEF Dirs
<1>6. is_valid_dir(d) => is_valid_dir(7 - d)
  BY <1>1 DEF is_valid_dir
<1>7. \A e \in Dirs : DIR_DX[e] = DIR_DX[d] /\ DIR_DY[e] = DIR_DY[d] => e = d
  BY <1>1, <1>2, <1>3, <1>4
<1> QED BY <1>5, <1>6, <1>7

LEMMA Columns ==
  ASSUME NEW x \in 0..(XSize - 1), NEW a \in -1..1
  PROVE  /\ Column(x + a) \in 0..(XSize - 1) /\ Column(Column(x + a) - a) = x
         /\ XSize >= 3 => \A b \in -1..1 : Column(x + a) = Column(x + b) => a = b
<1>0. XSize \in Nat \ {0}
  BY MapAssumption
<1>1. a \in {-1, 0, 1} /\ \A b \in -1..1 : b \in {-1, 0, 1}
  OBVIOUS
<1>2. Column(x + a) \in 0..(XSize - 1)
  BY <1>0, <1>1 DEF Column
<1>3. Column(Column(x + a) - a) = x
  <2>1. CASE x + a < 0 \/ x + a >= XSize
    BY <1>0, <1>1, <2>1 DEF Column
  <2>2. CASE x + a \in 0..(XSize - 1)
    BY <1>0, <2>2 DEF Column
  <2> QED BY <1>0, <2>1, <2>2
<1>4. ASSUME XSize >= 3, NEW b \in -1..1, Column(x + a) = Column(x + b) PROVE a = b
  BY <1>0, <1>4 DEF Column
<1> QED BY <1>2, <1>3, <1>4

LEMMA StepOf ==
  ASSUME NEW t \in Tile, NEW d \in Dirs
  PROVE  mapstep(t, d) = IF is_valid_dir(d) /\ t[2] + DIR_DY[d] \in 0..(YSize - 1)
                         THEN <<Column(t[1] + DIR_DX[d]), t[2] + DIR_DY[d]>> ELSE <<>>
<1>1. t[1] \in 0..(XSize - 1) /\ t[2] \in 0..(YSize - 1) /\ XSize \in Nat /\ YSize \in Nat
  BY MapAssumption DEF Tile
<1>2. DIR_DX[d] \in -1..1 /\ DIR_DY[d] \in -1..1
  BY DirSteps
<1>3. DIR_DX[d] + t[1] \in -1..XSize /\ DIR_DY[d] + t[2] \in Int
  BY <1>1, <1>2
<1>4. DIR_DX[d] + t[1] = t[1] + DIR_DX[d] /\ DIR_DY[d] + t[2] = t[2] + DIR_DY[d]
  BY <1>1, <1>2
<1>5. map_pos_to_tile(DIR_DX[d] + t[1], DIR_DY[d] + t[2])
        = IF DIR_DY[d] + t[2] \in 0..(YSize - 1)
          THEN <<Column(DIR_DX[d] + t[1]), DIR_DY[d] + t[2]>> ELSE <<>>
  BY <1>3, PosOfTile
<1> QED BY <1>4, <1>5 DEF mapstep

\* A pair is not the empty sequence.
LEMMA PairNotEmpty == ASSUME NEW a, NEW b PROVE <<a, b>> # <<>>
<1>1. Len(<<a, b>>) = 2 /\ Len(<<>>) = 0
  OBVIOUS
<1> QED BY <1>1

LEMMA StepLeads ==
  ASSUME NEW t \in Tile, NEW d \in Dirs, mapstep(t, d) # <<>>
  PROVE  /\ is_valid_dir(d) /\ mapstep(t, d) = <<Column(t[1] + DIR_DX[d]), t[2] + DIR_DY[d]>>
         /\ mapstep(t, d) \in Tile
<1>1. /\ is_valid_dir(d) /\ t[2] + DIR_DY[d] \in 0..(YSize - 1)
      /\ mapstep(t, d) = <<Column(t[1] + DIR_DX[d]), t[2] + DIR_DY[d]>>
  BY StepOf
<1>2. t[1] \in 0..(XSize - 1) /\ DIR_DX[d] \in -1..1
  BY DirSteps DEF Tile
<1>3. Column(t[1] + DIR_DX[d]) \in 0..(XSize - 1)
  BY <1>2, Columns
<1> QED BY <1>1, <1>3 DEF Tile

LEMMA StepBack ==
  ASSUME NEW t \in Tile, NEW d \in Dirs, mapstep(t, d) # <<>>
  PROVE  mapstep(mapstep(t, d), 7 - d) = t
<1> DEFINE u == mapstep(t, d)
<1>1. /\ is_valid_dir(d) /\ u = <<Column(t[1] + DIR_DX[d]), t[2] + DIR_DY[d]>> /\ u \in Tile
  BY StepLeads
<1> HIDE DEF u
<1>2. /\ t = <<t[1], t[2]>> /\ t[1] \in 0..(XSize - 1) /\ t[2] \in 0..(YSize - 1)
      /\ XSize \in Nat /\ YSize \in Nat
  BY MapAssumption DEF Tile
<1>3. /\ DIR_DX[d] \in -1..1 /\ DIR_DY[d] \in -1..1 /\ 7 - d \in Dirs /\ is_valid_dir(7 - d)
      /\ DIR_DX[7 - d] = -DIR_DX[d] /\ DIR_DY[7 - d] = -DIR_DY[d]
  BY <1>1, DirSteps
<1>4. u[1] = Column(t[1] + DIR_DX[d]) /\ u[2] = t[2] + DIR_DY[d]
  BY <1>1
<1>5. Column(u[1] + DIR_DX[7 - d]) = t[1]
  <2>a. u[1] \in Int
    BY <1>1 DEF Tile
  <2>b. Column(Column(t[1] + DIR_DX[d]) - DIR_DX[d]) = t[1]
    BY <1>2, <1>3, Columns
  <2>1. Column(Column(t[1] + DIR_DX[d]) - DIR_DX[d]) = t[1] /\ u[1] \in Int
    BY <2>a, <2>b
  <2>2. u[1] + DIR_DX[7 - d] = u[1] - DIR_DX[d]
    BY <1>3, <2>1
  <2> QED BY <1>4, <2>1, <2>2
<1>6. u[2] + DIR_DY[7 - d] = t[2]
  BY <1>2, <1>3, <1>4
<1>7. mapstep(u, 7 - d) = <<t[1], t[2]>>
  BY <1>1, <1>2, <1>3, <1>5, <1>6, StepOf
<1> QED BY <1>2, <1>7 DEF u

LEMMA DirectionFound ==
  ASSUME XSize >= 3, NEW t \in Tile, NEW d \in Dirs, mapstep(t, d) # <<>>
  PROVE  get_direction_for_step(t, mapstep(t, d)) = d
<1> DEFINE u == mapstep(t, d)
           ds == {e \in Dirs : mapstep(t, e) = u}
<1>1. u = <<Column(t[1] + DIR_DX[d]), t[2] + DIR_DY[d]>>
  BY StepLeads
<1>2. ASSUME NEW e \in Dirs, mapstep(t, e) = u PROVE e = d
  <2>1. u = <<Column(t[1] + DIR_DX[e]), t[2] + DIR_DY[e]>>
    BY <1>2, StepLeads
  <2>2. Column(t[1] + DIR_DX[d]) = Column(t[1] + DIR_DX[e]) /\ t[2] + DIR_DY[d] = t[2] + DIR_DY[e]
    BY <1>1, <2>1
  <2>3. /\ DIR_DX[d] \in -1..1 /\ DIR_DX[e] \in -1..1 /\ DIR_DY[d] \in -1..1 /\ DIR_DY[e] \in -1..1
        /\ t[1] \in 0..(XSize - 1) /\ t[2] \in 0..(YSize - 1)
    BY DirSteps DEF Tile
  <2>4. DIR_DX[e] = DIR_DX[d]
    BY <2>2, <2>3, Columns
  <2>5. DIR_DY[e] = DIR_DY[d]
    BY <2>2, <2>3, MapAssumption
  <2> QED BY <2>4, <2>5, DirSteps
<1>3. ds = {d}
  BY <1>2
<1> HIDE DEF ds
<1>4. d \in Int
  BY DEF Dirs
<1>5. (CHOOSE f \in ds : \A e \in ds : f <= e) = d
  BY <1>3, <1>4
<1>6. get_direction_for_step(t, u) = IF ds = {} THEN -1 ELSE CHOOSE f \in ds : \A e \in ds : f <= e
  BY DEF get_direction_for_step, ds
<1> QED BY <1>3, <1>5, <1>6 DEF u

-----------------------------------------------------------------------------
(***************************************************************************)
(* Vectors                                                                 *)
(***************************************************************************)

LEMMA Squares ==
  ASSUME NEW a \in Nat, NEW b \in Nat
  PROVE  a * a \in Nat /\ (a <= b => a * a <= b * b)
<1>1. a * a \in Nat /\ b * b \in Nat
  OBVIOUS
<1>2. ASSUME a <= b PROVE a * a <= b * b
  <2>1. b - a \in Nat /\ b = a + (b - a)
    BY <1>2
  <2>2. (b - a) * a \in Nat /\ (b - a) * b \in Nat
    BY <2>1
  <2>3. b * b = a * a + (b - a) * a + (b - a) * b
    OBVIOUS
  <2> QED BY <1>1, <2>2, <2>3
<1> QED BY <1>1, <1>2

IsRoot(r, n) == r * r <= n /\ n < (r + 1) * (r + 1)

\* Root is the square root, rounded down.
LEMMA Roots ==
  ASSUME NEW n \in Nat
  PROVE  Root(n) \in Nat /\ Root(n) * Root(n) <= n /\ n < (Root(n) + 1) * (Root(n) + 1)
<1> DEFINE T == {m \in Nat : \E r \in 0..m : IsRoot(r, m)}
<1>1. 0 \in T
  <2>1. 0 \in 0..0 /\ IsRoot(0, 0)
    BY DEF IsRoot
  <2> QED BY <2>1
<1>2. ASSUME NEW m \in Nat, m \in T PROVE m + 1 \in T
  <2>1. PICK r \in 0..m : r * r <= m /\ m < (r + 1) * (r + 1)
    BY <1>2 DEF IsRoot
  <2>2. r * r \in Nat /\ (r + 1) * (r + 1) \in Nat /\ ((r + 1) + 1) * ((r + 1) + 1) \in Nat
    OBVIOUS
  <2>3. CASE m + 1 < (r + 1) * (r + 1)
    <3>1. r \in 0..(m + 1) /\ r * r <= m + 1
      BY <2>1, <2>2
    <3> QED BY <2>3, <3>1 DEF IsRoot
  <2>4. CASE ~(m + 1 < (r + 1) * (r + 1))
    <3>1. (r + 1) * (r + 1) = m + 1
      BY <2>1, <2>2, <2>4
    <3>2. ((r + 1) + 1) * ((r + 1) + 1) = (r + 1) * (r + 1) + 2 * r + 3
      OBVIOUS
    <3>3. r + 1 \in 0..(m + 1) /\ (r + 1) * (r + 1) <= m + 1
      BY <2>1, <2>2, <3>1
    <3>4. m + 1 < ((r + 1) + 1) * ((r + 1) + 1)
      BY <2>2, <3>1, <3>2
    <3>5. IsRoot(r + 1, m + 1)
      BY <3>3, <3>4 DEF IsRoot
    <3> QED BY <3>3, <3>5
  <2> QED BY <2>3, <2>4
<1>3. n \in T
  <2> HIDE DEF T
  <2> QED BY <1>1, <1>2, Induct
<1>4. \E r \in 0..n : IsRoot(r, n)
  BY <1>3
<1>5. Root(n) = CHOOSE r \in 0..n : IsRoot(r, n)
  BY DEF Root, IsRoot
<1>6. Root(n) \in 0..n /\ IsRoot(Root(n), n)
  BY <1>4, <1>5
<1> QED BY <1>6 DEF IsRoot

LEMMA Absolutes ==
  ASSUME NEW a \in Int
  PROVE  /\ Abs(a) \in Nat /\ Abs(a) * Abs(a) = a * a
         /\ \A r \in Nat : Abs(a) <= r <=> a \in -r..r
<1>1. CASE a < 0
  <2>1. Abs(a) = -a /\ (-a) * (-a) = a * a
    BY <1>1 DEF Abs
  <2> QED BY <1>1, <2>1
<1>2. CASE a >= 0
  BY <1>2 DEF Abs
<1> QED BY <1>1, <1>2

LEMMA Distances ==
  ASSUME NEW v \in Int \X Int
  PROVE  /\ map_vector_to_sq_distance(v) \in Nat
         /\ Abs(v[1]) * Abs(v[1]) <= map_vector_to_sq_distance(v)
         /\ Abs(v[2]) * Abs(v[2]) <= map_vector_to_sq_distance(v)
<1> DEFINE a == Abs(v[1])
           b == Abs(v[2])
           m == map_vector_to_distance(v)
           q == map_vector_to_sq_distance(v)
<1>1. a \in Nat /\ b \in Nat /\ a * a = v[1] * v[1] /\ b * b = v[2] * v[2]
  BY Absolutes
<1>2. m = IF hex /\ v[1] * v[2] > 0 THEN a + b ELSE IF a > b THEN a ELSE b
  BY DEF map_vector_to_distance
<1>3. q = IF hex THEN m * m ELSE v[1] * v[1] + v[2] * v[2]
  BY DEF map_vector_to_sq_distance
<1> HIDE DEF a, b, m, q
<1>4. m \in Nat /\ a <= m /\ b <= m
  BY <1>1, <1>2
<1>5. a * a \in Nat /\ b * b \in Nat
  BY <1>1, Squares
<1>6. CASE hex
  <2>1. m * m \in Nat /\ a * a <= m * m /\ b * b <= m * m
    BY <1>1, <1>4, Squares
  <2> QED BY <1>3, <1>6, <2>1 DEF a, b, q
<1>7. CASE ~hex
  <2>1. q = a * a + b * b
    BY <1>1, <1>3, <1>7
  <2>2. q \in Nat /\ a * a <= q /\ b * b <= q
    BY <1>5, <2>1
  <2> QED BY <2>2 DEF a, b, q
<1> QED BY <1>6, <1>7

\* No vector of a city's tiles is longer than the radius.
LEMMA Discs ==
  ASSUME NEW q \in Nat
  PROVE  Disc(Root(q), q) = {v \in Int \X Int : map_vector_to_sq_distance(v) <= q}
<1> DEFINE r == Root(q)
<1>1. r \in Nat /\ q < (r + 1) * (r + 1)
  BY Roots
<1> HIDE DEF r
<1>2. (-r..r) \X (-r..r) \subseteq Int \X Int
  BY <1>1
<1>3. ASSUME NEW v \in Int \X Int, map_vector_to_sq_distance(v) <= q
      PROVE  v \in (-r..r) \X (-r..r)
  <2> DEFINE s == map_vector_to_sq_distance(v)
  <2>1. s \in Nat /\ Abs(v[1]) * Abs(v[1]) <= s /\ Abs(v[2]) * Abs(v[2]) <= s
    BY Distances
  <2>2. s <= q
    BY <1>3
  <2> HIDE DEF s
  <2>3. ASSUME NEW a \in Int, Abs(a) * Abs(a) <= s PROVE a \in -r..r
    <3>1. Abs(a) \in Nat /\ (Abs(a) <= r <=> a \in -r..r)
      BY <1>1, Absolutes
    <3>2. r + 1 <= Abs(a) => (r + 1) * (r + 1) <= Abs(a) * Abs(a)
      BY <1>1, <3>1, Squares
    <3>3. Abs(a) * Abs(a) \in Nat /\ (r + 1) * (r + 1) \in Nat
      BY <1>1, <3>1, Squares
    <3>4. ~(r + 1 <= Abs(a))
      BY <1>1, <2>1, <2>2, <2>3, <3>2, <3>3
    <3> QED BY <1>1, <3>1, <3>4
  <2>4. v[1] \in -r..r /\ v[2] \in -r..r
    BY <2>1, <2>3
  <2>5. v = <<v[1], v[2]>>
    OBVIOUS
  <2> QED BY <2>4, <2>5
<1>4. Disc(r, q) = {v \in Int \X Int : map_vector_to_sq_distance(v) <= q}
  BY <1>2, <1>3 DEF Disc
<1> QED BY <1>4 DEF r

-----------------------------------------------------------------------------
(***************************************************************************)
(* The table of a city's tiles                                             *)
(***************************************************************************)
Square(r) == (-r..r) \X (-r..r)

LEMMA IndexTellsVectors ==
  ASSUME NEW r \in Nat, NEW v \in Square(r), NEW w \in Square(r),
         dxy_to_center_index(v, r) = dxy_to_center_index(w, r)
  PROVE  v = w
<1> DEFINE n == 2 * r + 1
           a == v[1] + r
           b == w[1] + r
           c == v[2] + r
           e == w[2] + r
<1>1. /\ n \in Nat \ {0} /\ a \in Int /\ b \in Int /\ c \in 0..(n - 1) /\ e \in 0..(n - 1)
      /\ v = <<v[1], v[2]>> /\ w = <<w[1], w[2]>>
  BY DEF Square
<1>2. a * n + v[2] + r = b * n + w[2] + r
  BY DEF dxy_to_center_index
<1>3. a * n = n * a /\ b * n = n * b /\ n * a \in Int /\ n * b \in Int
  BY <1>1
<1>4. n * a + c = n * b + e
  <2>1. v[2] \in Int /\ w[2] \in Int /\ c = v[2] + r /\ e = w[2] + r
    BY DEF Square
  <2> HIDE DEF n, a, b, c, e
  <2> QED BY <1>2, <1>3, <2>1
<1> HIDE DEF n, a, b, c, e
<1>5. a = b /\ c = e
  BY <1>1, <1>4, OneRest
<1>6. v[1] = w[1] /\ v[2] = w[2]
  BY <1>5 DEF a, b, c, e, Square
<1> QED BY <1>1, <1>6

\* The map of a set of vectors holds each of them at its rank.
LEMMA MapReads ==
  ASSUME NEW r \in Nat, NEW S \in SUBSET Square(r), NEW v \in S
  PROVE  /\ dxy_to_center_index(v, r) \in DOMAIN TileMap(S, r)
         /\ TileMap(S, r)[dxy_to_center_index(v, r)] = Rank(v, S)
<1> DEFINE i == dxy_to_center_index(v, r)
           w == CHOOSE u \in S : dxy_to_center_index(u, r) = i
<1>1. w \in S /\ dxy_to_center_index(w, r) = i
  OBVIOUS
<1> HIDE DEF w
<1>2. w = v
  BY <1>1, IndexTellsVectors
<1>3. i \in {dxy_to_center_index(u, r) : u \in S}
  OBVIOUS
<1>4. TileMap(S, r)[i] = Rank(w, S) /\ i \in DOMAIN TileMap(S, r)
  BY <1>3 DEF TileMap, w
<1> QED BY <1>2, <1>4

\* How the borders cut a city off, the place of its map, and its vectors.
Across(r, x) == IF "X" \in wrap THEN Uncut(r) ELSE delta_tile_helper(x, r, XSize)
Along(r, y) == IF "Y" \in wrap THEN Uncut(r) ELSE delta_tile_helper(y, r, YSize)
Place(r, x, y) == IF wrap = {} THEN (2 * r + 1) * Across(r, x).i + Along(r, y).i
                  ELSE Across(r, x).i + Along(r, y).i
Within(v, r, x, y) == /\ Across(r, x).min <= v[1] /\ v[1] <= Across(r, x).max
                      /\ Along(r, y).min <= v[2] /\ v[2] <= Along(r, y).max
Reached(S, r, x, y) == {v \in S : Within(v, r, x, y)}

\* The map wraps in the direction of x at most, and no city goes round it.
Fits == /\ Wraps \subseteq SUBSET {"X"} /\ XSize >= 3
        /\ \A q \in RadiusSq : 2 * Root(q) + 1 <= XSize /\ 2 * Root(q) + 1 <= YSize

LEMMA CutByOne ==
  ASSUME NEW size \in Nat, NEW r \in Nat, 2 * r + 1 <= size, NEW x \in 0..(size - 1)
  PROVE  LET c == delta_tile_helper(x, r, size)
         IN  /\ c.i \in 0..(2 * r) /\ c.min = -x /\ c.max = (size - 1) - x
             /\ c.i = 0 => \A p \in -r..r : c.min <= p /\ p <= c.max
             /\ \A y \in 0..(size - 1) : delta_tile_helper(y, r, size).i = c.i /\ c.i # 0 => y = x
<1>0. \A y \in 0..(size - 1) :
        LET c == delta_tile_helper(y, r, size)
        IN  /\ c.min = -y /\ c.max = (size - 1) - y
            /\ c.i = IF y < r THEN r - y ELSE IF (size - 1) - y < r THEN 2 * r - ((size - 1) - y) ELSE 0
  BY DEF delta_tile_helper
<1> DEFINE c == delta_tile_helper(x, r, size)
<1>1. /\ c.min = -x /\ c.max = (size - 1) - x
      /\ c.i = IF x < r THEN r - x ELSE IF (size - 1) - x < r THEN 2 * r - ((size - 1) - x) ELSE 0
  BY <1>0
<1>2. \A y \in 0..(size - 1) : delta_tile_helper(y, r, size).i
        = IF y < r THEN r - y ELSE IF (size - 1) - y < r THEN 2 * r - ((size - 1) - y) ELSE 0
  BY <1>0
<1> HIDE DEF c
<1>3. c.i \in 0..(2 * r)
  BY <1>1
<1>4. c.i = 0 => \A p \in -r..r : c.min <= p /\ p <= c.max
  BY <1>1
<1>5. ASSUME NEW y \in 0..(size - 1), delta_tile_helper(y, r, size).i = c.i, c.i # 0 PROVE y = x
  BY <1>1, <1>2, <1>5
<1> QED BY <1>1, <1>3, <1>4, <1>5 DEF c

\* In one direction: the number tells all of the cut that matters.
LEMMA SameCut ==
  ASSUME NEW size \in Nat, NEW r \in Nat, 2 * r + 1 <= size,
         NEW x \in 0..(size - 1), NEW y \in 0..(size - 1), NEW p \in -r..r,
         delta_tile_helper(x, r, size).i = delta_tile_helper(y, r, size).i
  PROVE  LET c == delta_tile_helper(x, r, size)
             e == delta_tile_helper(y, r, size)
         IN  (c.min <= p /\ p <= c.max) <=> (e.min <= p /\ p <= e.max)
<1>1. CASE delta_tile_helper(x, r, size).i = 0
  BY <1>1, CutByOne
<1>2. CASE delta_tile_helper(x, r, size).i # 0
  <2>1. x = y
    BY <1>2, CutByOne
  <2> QED BY <2>1
<1> QED BY <1>1, <1>2

\* The direction of y does not wrap; that of x may.
LEMMA Ways ==
  ASSUME Fits, wrap \in Wraps
  PROVE  /\ "Y" \notin wrap /\ (wrap = {} <=> "X" \notin wrap)
         /\ \A r, y : Along(r, y) = delta_tile_helper(y, r, YSize)
<1>1. "Y" \notin wrap /\ (wrap = {} <=> "X" \notin wrap)
  BY DEF Fits
<1> QED BY <1>1 DEF Along

Sized(r) == r \in Nat /\ 2 * r + 1 <= XSize /\ 2 * r + 1 <= YSize

LEMMA Cuts ==
  ASSUME Fits, wrap \in Wraps, NEW r, Sized(r), NEW t \in Tile
  PROVE  /\ Across(r, t[1]).i \in 0..(2 * r) /\ Along(r, t[2]).i \in 0..(2 * r)
         /\ "X" \in wrap => Across(r, t[1]).i = 0
         /\ Across(r, t[1]).i = 0 => \A p \in -r..r : Across(r, t[1]).min <= p /\ p <= Across(r, t[1]).max
         /\ Along(r, t[2]).i = 0 => \A p \in -r..r : Along(r, t[2]).min <= p /\ p <= Along(r, t[2]).max
<1>0. /\ r \in Nat /\ 2 * r + 1 <= XSize /\ 2 * r + 1 <= YSize /\ XSize \in Nat /\ YSize \in Nat
      /\ t[1] \in 0..(XSize - 1) /\ t[2] \in 0..(YSize - 1)
  BY MapAssumption DEF Sized, Tile
<1>1. /\ Along(r, t[2]).i \in 0..(2 * r)
      /\ Along(r, t[2]).i = 0 => \A p \in -r..r : Along(r, t[2]).min <= p /\ p <= Along(r, t[2]).max
  <2>1. Along(r, t[2]) = delta_tile_helper(t[2], r, YSize)
    BY Ways
  <2> QED BY <1>0, <2>1, CutByOne
<1>2. CASE "X" \in wrap
  <2>1. Across(r, t[1]) = [min |-> -r, max |-> r, i |-> 0]
    BY <1>2 DEF Across, Uncut
  <2>2. Across(r, t[1]).i = 0 /\ Across(r, t[1]).min = -r /\ Across(r, t[1]).max = r
    BY <2>1
  <2> QED BY <1>0, <1>1, <2>2
<1>3. CASE "X" \notin wrap
  <2>1. Across(r, t[1]) = delta_tile_helper(t[1], r, XSize)
    BY <1>3 DEF Across
  <2>2. /\ Across(r, t[1]).i \in 0..(2 * r)
        /\ Across(r, t[1]).i = 0 => \A p \in -r..r : Across(r, t[1]).min <= p /\ p <= Across(r, t[1]).max
    BY <1>0, <2>1, CutByOne
  <2> QED BY <1>1, <1>3, <2>2
<1> QED BY <1>2, <1>3

\* Cities whose maps have one place are cut off alike.
LEMMA SamePlace ==
  ASSUME Fits, wrap \in Wraps, NEW r, Sized(r), NEW t \in Tile, NEW u \in Tile,
         Place(r, t[1], t[2]) = Place(r, u[1], u[2])
  PROVE  Across(r, t[1]).i = Across(r, u[1]).i /\ Along(r, t[2]).i = Along(r, u[2]).i
<1> DEFINE a == Across(r, t[1]).i
           b == Across(r, u[1]).i
           c == Along(r, t[2]).i
           e == Along(r, u[2]).i
<1>0. /\ r \in Nat /\ a \in 0..(2 * r) /\ b \in 0..(2 * r) /\ c \in 0..(2 * r) /\ e \in 0..(2 * r)
      /\ "X" \in wrap => a = 0 /\ b = 0
  BY Cuts DEF Sized
<1>1. /\ Place(r, t[1], t[2]) = IF wrap = {} THEN (2 * r + 1) * a + c ELSE a + c
      /\ Place(r, u[1], u[2]) = IF wrap = {} THEN (2 * r + 1) * b + e ELSE b + e
  BY DEF Place
<1> HIDE DEF a, b, c, e
<1>2. CASE wrap = {}
  <2> DEFINE n == 2 * r + 1
  <2>1. n \in Nat \ {0} /\ c \in 0..(n - 1) /\ e \in 0..(n - 1) /\ a \in Int /\ b \in Int
    BY <1>0
  <2>2. n * a + c = n * b + e
    BY <1>1, <1>2
  <2> HIDE DEF n
  <2>3. a = b /\ c = e
    BY <2>1, <2>2, OneRest
  <2> QED BY <2>3 DEF a, b, c, e
<1>3. CASE wrap # {}
  <2>1. a = 0 /\ b = 0
    BY <1>0, <1>3, Ways
  <2>a. a + c = b + e
    BY <1>1, <1>3
  <2>b. c \in Nat /\ e \in Nat
    BY <1>0
  <2>2. c = e
    BY <2>1, <2>a, <2>b
  <2> QED BY <2>1, <2>2 DEF a, b, c, e
<1> QED BY <1>2, <1>3

LEMMA SameReach ==
  ASSUME Fits, wrap \in Wraps, NEW r, Sized(r), NEW t \in Tile, NEW u \in Tile,
         Place(r, t[1], t[2]) = Place(r, u[1], u[2]), NEW S \in SUBSET Square(r)
  PROVE  Reached(S, r, t[1], t[2]) = Reached(S, r, u[1], u[2])
<1>0. /\ r \in Nat /\ 2 * r + 1 <= XSize /\ 2 * r + 1 <= YSize /\ XSize \in Nat /\ YSize \in Nat
      /\ t[1] \in 0..(XSize - 1) /\ t[2] \in 0..(YSize - 1)
      /\ u[1] \in 0..(XSize - 1) /\ u[2] \in 0..(YSize - 1)
  BY MapAssumption DEF Sized, Tile
<1>1. Across(r, t[1]).i = Across(r, u[1]).i /\ Along(r, t[2]).i = Along(r, u[2]).i
  BY SamePlace
<1>2. ASSUME NEW p \in -r..r
      PROVE  (Across(r, t[1]).min <= p /\ p <= Across(r, t[1]).max)
               <=> (Across(r, u[1]).min <= p /\ p <= Across(r, u[1]).max)
  <2>1. CASE "X" \in wrap
    BY <2>1 DEF Across
  <2>2. CASE "X" \notin wrap
    <3>1. \A x : Across(r, x) = delta_tile_helper(x, r, XSize)
      BY <2>2 DEF Across
    <3> QED BY <1>0, <1>1, <3>1, SameCut
  <2> QED BY <2>1, <2>2
<1>3. ASSUME NEW p \in -r..r
      PROVE  (Along(r, t[2]).min <= p /\ p <= Along(r, t[2]).max)
               <=> (Along(r, u[2]).min <= p /\ p <= Along(r, u[2]).max)
  BY <1>0, <1>1, SameCut, Ways
<1>4. \A v \in S : v[1] \in -r..r /\ v[2] \in -r..r
  BY DEF Square
<1>5. \A v \in S : Within(v, r, t[1], t[2]) <=> Within(v, r, u[1], u[2])
  BY <1>2, <1>3, <1>4 DEF Within
<1> QED BY <1>5 DEF Reached

LEMMA AllReached ==
  ASSUME Fits, wrap \in Wraps, NEW r, Sized(r), NEW t \in Tile, Place(r, t[1], t[2]) = 0,
         NEW S \in SUBSET Square(r)
  PROVE  Reached(S, r, t[1], t[2]) = S
<1> DEFINE a == Across(r, t[1]).i
           c == Along(r, t[2]).i
<1>0. /\ r \in Nat /\ a \in 0..(2 * r) /\ c \in 0..(2 * r) /\ ("X" \in wrap => a = 0)
  BY Cuts DEF Sized
<1>1. Place(r, t[1], t[2]) = IF wrap = {} THEN (2 * r + 1) * a + c ELSE a + c
  BY DEF Place
<1> HIDE DEF a, c
<1>2. a = 0 /\ c = 0
  <2>1. CASE wrap = {}
    <3> DEFINE n == 2 * r + 1
    <3>1. n \in Nat \ {0} /\ c \in 0..(n - 1) /\ 0 \in 0..(n - 1) /\ a \in Int
      BY <1>0
    <3>2. n * a + c = n * 0 + 0
      BY <1>1, <2>1, <3>1
    <3> HIDE DEF n
    <3> QED BY <3>1, <3>2, OneRest
  <2>2. CASE wrap # {}
    BY <1>0, <1>1, <2>2, Ways
  <2> QED BY <2>1, <2>2
<1>3. ASSUME NEW p \in -r..r
      PROVE  /\ Across(r, t[1]).min <= p /\ p <= Across(r, t[1]).max
             /\ Along(r, t[2]).min <= p /\ p <= Along(r, t[2]).max
  BY <1>2, Cuts DEF a, c
<1>4. \A v \in S : v[1] \in -r..r /\ v[2] \in -r..r
  BY DEF Square
<1>5. \A v \in S : Within(v, r, t[1], t[2])
  BY <1>3, <1>4 DEF Within
<1> QED BY <1>5 DEF Reached

-----------------------------------------------------------------------------
(***************************************************************************)
(* The tables that are kept                                                *)
(***************************************************************************)

\* A table that was built: each of its maps is that of every city of its place.
IsTable(c) == c = [radius_sq |-> c.radius_sq, radius |-> c.radius, sorted |-> c.sorted,
                   maps |-> c.maps]
MapsRight(c) ==
  \A t \in Tile : Place(c.radius, t[1], t[2]) \in DOMAIN c.maps =>
    c.maps[Place(c.radius, t[1], t[2])] = TileMap(Reached(c.sorted, c.radius, t[1], t[2]), c.radius)
BuiltFor(c) == /\ IsTable(c) /\ c.radius_sq \in RadiusSq
               /\ c.radius = Root(c.radius_sq) /\ c.sorted = Disc(c.radius, c.radius_sq)
               /\ MapsRight(c)

LEMMA Radii ==
  ASSUME Fits, NEW q \in RadiusSq
  PROVE  /\ q \in Nat /\ Sized(Root(q)) /\ Root(q) \in Nat
         /\ Disc(Root(q), q) \in SUBSET Square(Root(q))
<1>1. q \in Nat
  BY MapAssumption
<1>2. Root(q) \in Nat
  BY <1>1, Roots
<1>3. Disc(Root(q), q) \in SUBSET Square(Root(q))
  BY DEF Disc, Square
<1> QED BY <1>1, <1>2, <1>3 DEF Fits, Sized

LEMMA TableBuilt ==
  ASSUME Fits, wrap \in Wraps, NEW c, c = NoMap \/ BuiltFor(c), NEW q \in RadiusSq
  PROVE  BuiltFor(build_city_tile_map(c, q)) /\ q <= build_city_tile_map(c, q).radius_sq
<1> DEFINE b == build_city_tile_map(c, q)
<1>1. q \in Nat
  BY Radii
<1>2. CASE c.radius_sq >= q
  <2>1. b = c
    BY <1>2 DEF build_city_tile_map
  <2>2. NoMap.radius_sq = -1
    BY DEF NoMap
  <2>3. BuiltFor(c)
    BY <1>1, <1>2, <2>2
  <2>4. c.radius_sq \in Nat
    BY <2>3, Radii DEF BuiltFor
  <2> QED BY <1>1, <1>2, <2>1, <2>3, <2>4
<1>3. CASE ~(c.radius_sq >= q)
  <2> DEFINE r == Root(q)
             V == Disc(r, q)
             m == [k \in {0} |-> TileMap(V, r)]
  <2>1. b = [radius_sq |-> q, radius |-> r, sorted |-> V, maps |-> m]
    BY <1>3 DEF build_city_tile_map
  <2>2. Sized(r) /\ r \in Nat /\ V \in SUBSET Square(r)
    BY Radii
  <2>3. DOMAIN m = {0} /\ m[0] = TileMap(V, r)
    OBVIOUS
  <2> HIDE DEF b, m
  <2>4. b.radius_sq = q /\ b.radius = r /\ b.sorted = V /\ b.maps = m
    BY <2>1
  <2>5. IsTable(b)
    BY <2>1, <2>4 DEF IsTable
  <2>6. ASSUME NEW t \in Tile, Place(r, t[1], t[2]) \in DOMAIN m
        PROVE  m[Place(r, t[1], t[2])] = TileMap(Reached(V, r, t[1], t[2]), r)
    <3>1. Place(r, t[1], t[2]) = 0
      BY <2>3, <2>6
    <3>2. Reached(V, r, t[1], t[2]) = V
      BY <2>2, <3>1, AllReached
    <3> QED BY <2>3, <3>1, <3>2
  <2>7. MapsRight(b)
    BY <2>4, <2>6 DEF MapsRight
  <2>8. BuiltFor(b)
    BY <2>4, <2>5, <2>7 DEF BuiltFor
  <2> QED BY <1>1, <2>4, <2>8 DEF b
<1> QED BY <1>2, <1>3

\* What is fetched for a position, in a word.
LEMMA Fetches ==
  ASSUME NEW c, NEW x, NEW y
  PROVE  get_city_tile_map_for_pos(c, x, y) =
           [at |-> Place(c.radius, x, y),
            c |-> IF Place(c.radius, x, y) \in DOMAIN c.maps THEN c
                  ELSE [c EXCEPT !.maps = [k \in DOMAIN c.maps \cup {Place(c.radius, x, y)} |->
                          IF k = Place(c.radius, x, y)
                          THEN TileMap(Reached(c.sorted, c.radius, x, y), c.radius)
                          ELSE c.maps[k]]]]
<1>1. Place(c.radius, x, y) =
        IF wrap = {} THEN (2 * c.radius + 1) * Across(c.radius, x).i + Along(c.radius, y).i
        ELSE Across(c.radius, x).i + Along(c.radius, y).i
  BY DEF Place
<1>2. build_city_tile_map_with_limits(c, Across(c.radius, x), Along(c.radius, y))
        = TileMap(Reached(c.sorted, c.radius, x, y), c.radius)
  BY DEF build_city_tile_map_with_limits, Reached, Within
<1> QED BY <1>1, <1>2 DEF get_city_tile_map_for_pos, Across, Along

LEMMA TableFetched ==
  ASSUME Fits, wrap \in Wraps, NEW c, BuiltFor(c), NEW t \in Tile
  PROVE  LET g == get_city_tile_map_for_pos(c, t[1], t[2]).c
         IN  /\ BuiltFor(g) /\ g.radius_sq = c.radius_sq
             /\ Place(g.radius, t[1], t[2]) \in DOMAIN g.maps
<1> DEFINE g == get_city_tile_map_for_pos(c, t[1], t[2]).c
           p == Place(c.radius, t[1], t[2])
           m == [k \in DOMAIN c.maps \cup {p} |->
                   IF k = p THEN TileMap(Reached(c.sorted, c.radius, t[1], t[2]), c.radius)
                   ELSE c.maps[k]]
<1>1. g = IF p \in DOMAIN c.maps THEN c ELSE [c EXCEPT !.maps = m]
  BY Fetches
<1>2. CASE p \in DOMAIN c.maps
  BY <1>1, <1>2
<1>3. CASE p \notin DOMAIN c.maps
  <2>1. IsTable(c) /\ c.radius_sq \in RadiusSq /\ c.radius = Root(c.radius_sq)
        /\ c.sorted = Disc(c.radius, c.radius_sq) /\ MapsRight(c)
    BY DEF BuiltFor
  <2>2. Sized(c.radius) /\ c.sorted \in SUBSET Square(c.radius)
    BY <2>1, Radii
  <2>3. /\ DOMAIN m = DOMAIN c.maps \cup {p}
        /\ m[p] = TileMap(Reached(c.sorted, c.radius, t[1], t[2]), c.radius)
        /\ \A k \in DOMAIN c.maps : m[k] = c.maps[k]
    BY <1>3
  <2> HIDE DEF g, m
  <2>4. g = [radius_sq |-> c.radius_sq, radius |-> c.radius, sorted |-> c.sorted, maps |-> m]
    <3> DEFINE e == [radius_sq |-> c.radius_sq, radius |-> c.radius, sorted |-> c.sorted,
                     maps |-> c.maps]
    <3>1. c = e
      BY <2>1 DEF IsTable
    <3>2. [e EXCEPT !.maps = m]
            = [radius_sq |-> c.radius_sq, radius |-> c.radius, sorted |-> c.sorted, maps |-> m]
      OBVIOUS
    <3> QED BY <1>1, <1>3, <3>1, <3>2
  <2>5. /\ g.radius_sq = c.radius_sq /\ g.radius = c.radius /\ g.sorted = c.sorted /\ g.maps = m
    BY <2>4
  <2>6. IsTable(g)
    BY <2>4, <2>5 DEF IsTable
  <2>7. ASSUME NEW u \in Tile, Place(c.radius, u[1], u[2]) \in DOMAIN m
        PROVE  m[Place(c.radius, u[1], u[2])]
                 = TileMap(Reached(c.sorted, c.radius, u[1], u[2]), c.radius)
    <3>1. CASE Place(c.radius, u[1], u[2]) = p
      <4>1. Reached(c.sorted, c.radius, u[1], u[2]) = Reached(c.sorted, c.radius, t[1], t[2])
        BY <2>2, <3>1, SameReach
      <4> QED BY <2>3, <3>1, <4>1
    <3>2. CASE Place(c.radius, u[1], u[2]) # p
      <4>1. Place(c.radius, u[1], u[2]) \in DOMAIN c.maps
        BY <2>3, <2>7, <3>2
      <4> QED BY <2>1, <2>3, <4>1 DEF MapsRight
    <3> QED BY <3>1, <3>2
  <2>8. MapsRight(g)
    BY <2>5, <2>7 DEF MapsRight
  <2>9. BuiltFor(g)
    BY <2>1, <2>5, <2>6, <2>8 DEF BuiltFor
  <2> QED BY <2>3, <2>5, <2>9 DEF g
<1> QED BY <1>2, <1>3

-----------------------------------------------------------------------------
(***************************************************************************)
(* The entry of a tile                                                     *)
(***************************************************************************)

\* Round the map and back.
LEMMA Round ==
  ASSUME NEW n \in Nat \ {0}, NEW r \in Nat, 2 * r + 1 <= n, NEW a \in 0..(n - 1), NEW p \in -r..r
  PROVE  FC_WRAP((FC_WRAP(a + p, n) - a) + n \div 2, n) - n \div 2 = p
<1> DEFINE h == n \div 2
           b == FC_WRAP(a + p, n)
<1>1. h \in Nat /\ 2 * h <= n /\ n <= 2 * h + 1
  OBVIOUS
<1>2. \E e \in {-1, 0, 1} : b = n * e + a + p
  <2>1. CASE a + p \in 0..(n - 1)
    <3>1. a + p = n * 0 + (a + p)
      OBVIOUS
    <3>2. b = a + p
      BY <2>1, <3>1, DivMod DEF FC_WRAP
    <3> QED BY <3>1, <3>2
  <2>2. CASE a + p < 0
    <3>1. a + p = n * (-1) + (a + p + n) /\ a + p + n \in 0..(n - 1)
      BY <2>2
    <3>2. b = a + p + n
      BY <3>1, DivMod DEF FC_WRAP
    <3>3. a + p + n = n * 1 + a + p
      OBVIOUS
    <3> QED BY <3>2, <3>3
  <2>3. CASE a + p >= n
    <3>1. a + p = n * 1 + (a + p - n) /\ a + p - n \in 0..(n - 1)
      BY <2>3
    <3>2. b = a + p - n
      BY <3>1, DivMod DEF FC_WRAP
    <3>3. a + p - n = n * (-1) + a + p
      OBVIOUS
    <3> QED BY <3>2, <3>3
  <2> QED BY <2>1, <2>2, <2>3
<1> HIDE DEF h, b
<1>3. PICK e \in {-1, 0, 1} : b = n * e + a + p
  BY <1>2
<1>4. (b - a) + h = n * e + (p + h) /\ e \in Int
  BY <1>1, <1>3
<1>5. p + h \in 0..(n - 1)
  BY <1>1
<1>6. ((b - a) + h) % n = p + h
  BY <1>4, <1>5, DivMod
<1>7. FC_WRAP((b - a) + h, n) - h = p
  BY <1>1, <1>6 DEF FC_WRAP
<1> QED BY <1>7 DEF b, h

LEMMA Unwrapped ==
  ASSUME NEW n \in Nat \ {0}, NEW a \in 0..(n - 1)
  PROVE  FC_WRAP(a, n) = a
<1>1. a = n * 0 + a
  OBVIOUS
<1> QED BY <1>1, DivMod DEF FC_WRAP

\* The vector of a tile is the one that leads to it.
LEMMA VectorOf ==
  ASSUME Fits, wrap \in Wraps, NEW q \in RadiusSq, shown.radius_sq = q,
         <<shown.x, shown.y>> \in Tile, NEW v \in CityVectors
  PROVE  map_distance_vector(<<shown.x, shown.y>>, TileAt(v)) = v
<1> DEFINE r == Root(q)
           x == shown.x
           y == shown.y
<1>0. /\ r \in Nat /\ 2 * r + 1 <= XSize /\ 2 * r + 1 <= YSize
      /\ XSize \in Nat \ {0} /\ YSize \in Nat \ {0}
      /\ x \in 0..(XSize - 1) /\ y \in 0..(YSize - 1)
  BY Radii, MapAssumption DEF Sized, Tile
<1>1. v \in Square(r) /\ OnTheMap(v)
  BY Radii DEF CityVectors
<1>2. v[1] \in -r..r /\ v[2] \in -r..r /\ v = <<v[1], v[2]>>
  BY <1>1 DEF Square
<1> HIDE DEF r
<1>3. FC_WRAP(y + v[2], YSize) - y = v[2]
  <2>1. y + v[2] \in 0..(YSize - 1)
    BY <1>1, Ways DEF OnTheMap
  <2>2. FC_WRAP(y + v[2], YSize) = y + v[2]
    BY <1>0, <2>1, Unwrapped
  <2> QED BY <1>0, <1>2, <2>2
<1>4. (IF "X" \in wrap
       THEN FC_WRAP((FC_WRAP(x + v[1], XSize) - x) + XSize \div 2, XSize) - XSize \div 2
       ELSE FC_WRAP(x + v[1], XSize) - x) = v[1]
  <2>1. CASE "X" \in wrap
    BY <1>0, <1>2, <2>1, Round
  <2>2. CASE "X" \notin wrap
    <3>1. x + v[1] \in 0..(XSize - 1)
      BY <1>1, <2>2 DEF OnTheMap
    <3>2. FC_WRAP(x + v[1], XSize) = x + v[1]
      BY <1>0, <3>1, Unwrapped
    <3> QED BY <1>0, <1>2, <2>2, <3>2
  <2> QED BY <2>1, <2>2
<1>5. TileAt(v) = <<FC_WRAP(x + v[1], XSize), FC_WRAP(y + v[2], YSize)>>
  BY DEF TileAt
<1>6. map_distance_vector(<<x, y>>, TileAt(v)) =
        <<IF "X" \in wrap
          THEN FC_WRAP((FC_WRAP(x + v[1], XSize) - x) + XSize \div 2, XSize) - XSize \div 2
          ELSE FC_WRAP(x + v[1], XSize) - x,
          FC_WRAP(y + v[2], YSize) - y>>
  BY <1>5, Ways DEF map_distance_vector
<1> QED BY <1>2, <1>3, <1>4, <1>6

\* A vector of the city is one of the table, that is not cut off.
LEMMA VectorsReached ==
  ASSUME Fits, wrap \in Wraps, NEW q \in RadiusSq, shown.radius_sq = q,
         <<shown.x, shown.y>> \in Tile, NEW b \in RadiusSq, q <= b
  PROVE  CityVectors = {v \in Reached(Disc(Root(b), b), Root(b), shown.x, shown.y) :
                          map_vector_to_sq_distance(v) <= q}
<1> DEFINE x == shown.x
           y == shown.y
           R == Root(b)
<1>0. /\ XSize \in Nat \ {0} /\ YSize \in Nat \ {0}
      /\ x \in 0..(XSize - 1) /\ y \in 0..(YSize - 1)
  BY MapAssumption DEF Tile
<1>1. /\ q \in Nat /\ b \in Nat /\ Sized(R) /\ R \in Nat /\ Disc(R, b) \in SUBSET Square(R)
      /\ 2 * R + 1 <= XSize /\ 2 * R + 1 <= YSize
  BY Radii DEF Sized
<1>2. Disc(Root(q), q) = {v \in Int \X Int : map_vector_to_sq_distance(v) <= q}
  BY <1>1, Discs
<1>3. Disc(R, b) = {v \in Int \X Int : map_vector_to_sq_distance(v) <= b}
  BY <1>1, Discs
<1>4. ASSUME NEW v \in Int \X Int, map_vector_to_sq_distance(v) <= q
      PROVE  v \in Disc(R, b)
  <2>1. map_vector_to_sq_distance(v) \in Nat
    BY Distances
  <2>2. map_vector_to_sq_distance(v) <= b
    BY <1>1, <1>4, <2>1
  <2> QED BY <1>3, <2>2
<1>5. Disc(Root(q), q) = {v \in Disc(R, b) : map_vector_to_sq_distance(v) <= q}
  BY <1>2, <1>3, <1>4
<1> HIDE DEF R
<1>6. ASSUME NEW v \in Square(R) PROVE OnTheMap(v) <=> Within(v, R, x, y)
  <2>1. v[1] \in -R..R /\ v[2] \in -R..R
    BY DEF Square
  <2>2. Along(R, y).min = -y /\ Along(R, y).max = (YSize - 1) - y
    <3>1. Along(R, y) = delta_tile_helper(y, R, YSize)
      BY Ways
    <3> QED BY <1>0, <1>1, <3>1, CutByOne
  <2>3. (y + v[2] \in 0..(YSize - 1)) <=> (Along(R, y).min <= v[2] /\ v[2] <= Along(R, y).max)
    BY <1>0, <1>1, <2>1, <2>2
  <2>4. CASE "X" \in wrap
    <3>1. Across(R, x) = [min |-> -R, max |-> R, i |-> 0]
      BY <2>4 DEF Across, Uncut
    <3>2. Across(R, x).min = -R /\ Across(R, x).max = R
      BY <3>1
    <3>3. Across(R, x).min <= v[1] /\ v[1] <= Across(R, x).max
      BY <1>1, <2>1, <3>2
    <3> QED BY <2>3, <2>4, <3>3, Ways DEF OnTheMap, Within
  <2>5. CASE "X" \notin wrap
    <3>1. Across(R, x) = delta_tile_helper(x, R, XSize)
      BY <2>5 DEF Across
    <3>2. Across(R, x).min = -x /\ Across(R, x).max = (XSize - 1) - x
      BY <1>0, <1>1, <3>1, CutByOne
    <3>3. (x + v[1] \in 0..(XSize - 1)) <=> (Across(R, x).min <= v[1] /\ v[1] <= Across(R, x).max)
      BY <1>0, <1>1, <2>1, <3>2
    <3> QED BY <2>3, <2>5, <3>3, Ways DEF OnTheMap, Within
  <2> QED BY <2>4, <2>5
<1>7. CityVectors = {v \in Disc(R, b) : map_vector_to_sq_distance(v) <= q /\ OnTheMap(v)}
  BY <1>5 DEF CityVectors
<1>8. \A v \in Disc(R, b) : OnTheMap(v) <=> Within(v, R, x, y)
  BY <1>1, <1>6
<1>9. CityVectors = {v \in Reached(Disc(R, b), R, x, y) : map_vector_to_sq_distance(v) <= q}
  BY <1>7, <1>8 DEF Reached
<1> QED BY <1>9 DEF R

\* The nearer tiles come first: those of a larger radius change no rank.
LEMMA RanksKept ==
  ASSUME NEW S \in SUBSET (Int \X Int), NEW q \in Int, NEW v \in S, map_vector_to_sq_distance(v) <= q
  PROVE  Rank(v, {w \in S : map_vector_to_sq_distance(w) <= q}) = Rank(v, S)
<1> DEFINE near == {w \in S : map_vector_to_sq_distance(w) <= q}
<1>1. ASSUME NEW w \in S, Before(w, v) PROVE w \in near
  <2>1. map_vector_to_sq_distance(w) \in Nat /\ map_vector_to_sq_distance(v) \in Nat
    BY Distances
  <2>2. map_vector_to_sq_distance(w) <= map_vector_to_sq_distance(v)
    BY <1>1, <2>1 DEF Before
  <2> QED BY <2>1, <2>2
<1>2. {w \in near : Before(w, v)} = {w \in S : Before(w, v)}
  BY <1>1
<1> QED BY <1>2 DEF Rank

-----------------------------------------------------------------------------
(***************************************************************************)
(* The invariant                                                           *)
(***************************************************************************)

\* The city that is shown has its map in the table.
ShownBuilt ==
  looks > 0 => /\ BuiltFor(ctm) /\ <<shown.x, shown.y>> \in Tile /\ shown.radius_sq \in RadiusSq
               /\ shown.radius_sq <= ctm.radius_sq
               /\ Place(ctm.radius, shown.x, shown.y) \in DOMAIN ctm.maps

TilesInv == /\ wrap \in Wraps /\ spot \in Tile \cup {<<>>} /\ looks \in Nat
            /\ ctm = NoMap \/ BuiltFor(ctm)
            /\ ShownBuilt

\* The table is one of the map's topology, which stays.
LEMMA StillBuilt ==
  ASSUME wrap' = wrap, hex' = hex
  PROVE  /\ \A c : BuiltFor(c)' <=> BuiltFor(c)
         /\ \A r, x, y : Place(r, x, y)' = Place(r, x, y)
<1>1. \A r, x : Across(r, x)' = Across(r, x) /\ Along(r, x)' = Along(r, x)
  BY DEF Across, Along
<1>2. \A r, x, y : Place(r, x, y)' = Place(r, x, y)
  BY <1>1 DEF Place
<1>3. \A v, r, x, y : Within(v, r, x, y)' <=> Within(v, r, x, y)
  BY <1>1 DEF Within
<1>4. \A S, r, x, y : Reached(S, r, x, y)' = Reached(S, r, x, y)
  BY <1>3 DEF Reached
<1>5. \A v : map_vector_to_sq_distance(v)' = map_vector_to_sq_distance(v)
  BY DEF map_vector_to_sq_distance, map_vector_to_distance
<1>6. \A r, q : Disc(r, q)' = Disc(r, q)
  BY <1>5 DEF Disc
<1>7. \A v, w : Before(v, w)' <=> Before(v, w)
  BY <1>5 DEF Before
<1>8. \A v, S : Rank(v, S)' = Rank(v, S)
  BY <1>7 DEF Rank
<1>9. \A S, r : TileMap(S, r)' = TileMap(S, r)
  BY <1>8 DEF TileMap
<1>10. \A c : MapsRight(c)' <=> MapsRight(c)
  BY <1>2, <1>4, <1>9 DEF MapsRight
<1>11. \A c : BuiltFor(c)' <=> BuiltFor(c)
  BY <1>6, <1>10 DEF BuiltFor
<1> QED BY <1>2, <1>11

LEMMA TilesBegin == Init_tiles => TilesInv
<1> SUFFICES ASSUME Init_tiles PROVE TilesInv
  OBVIOUS
<1> QED BY DEF Init_tiles, TilesInv, ShownBuilt

LEMMA CityShown ==
  ASSUME Fits, TilesInv, show_city_worked_tiles
  PROVE  TilesInv'
<1>1. PICK t \in Tile, q \in RadiusSq :
        /\ shown' = [x |-> t[1], y |-> t[2], radius_sq |-> q]
        /\ ctm' = get_city_tile_map_for_pos(build_city_tile_map(ctm, q), t[1], t[2]).c
  BY DEF show_city_worked_tiles
<1>2. /\ wrap' = wrap /\ hex' = hex /\ spot' = spot /\ looks' \in Nat
      /\ wrap \in Wraps /\ spot \in Tile \cup {<<>>} /\ (ctm = NoMap \/ BuiltFor(ctm))
  BY DEF show_city_worked_tiles, TilesInv
<1> DEFINE b == build_city_tile_map(ctm, q)
           g == get_city_tile_map_for_pos(b, t[1], t[2]).c
<1>3. BuiltFor(b) /\ q <= b.radius_sq
  BY <1>2, TableBuilt
<1> HIDE DEF b
<1>4. /\ BuiltFor(g) /\ g.radius_sq = b.radius_sq
      /\ Place(g.radius, t[1], t[2]) \in DOMAIN g.maps
  BY <1>2, <1>3, TableFetched
<1>5. ctm' = g
  BY <1>1 DEF b
<1> HIDE DEF g
<1>6. /\ shown'.x = t[1] /\ shown'.y = t[2] /\ shown'.radius_sq = q
      /\ t = <<t[1], t[2]>>
  BY <1>1 DEF Tile
<1>7. BuiltFor(ctm)'
  BY <1>2, <1>4, <1>5, StillBuilt
<1>8. Place(ctm.radius, shown.x, shown.y)' = Place(ctm'.radius, shown'.x, shown'.y)
  BY <1>2, StillBuilt
<1>9. ShownBuilt'
  BY <1>3, <1>4, <1>5, <1>6, <1>7, <1>8 DEF ShownBuilt
<1> QED BY <1>2, <1>7, <1>9 DEF TilesInv

LEMMA LineDrawn ==
  ASSUME TilesInv, webgl_render_goto_line
  PROVE  TilesInv'
<1>1. \/ spot' \in Tile
      \/ spot # <<>> /\ \E d \in Dirs : mapstep(spot, d) # <<>> /\ spot' = mapstep(spot, d)
  BY DEF webgl_render_goto_line
<1>2. UNCHANGED <<wrap, hex, shown, ctm, looks>>
  BY DEF webgl_render_goto_line
<1>3. wrap \in Wraps /\ spot \in Tile \cup {<<>>} /\ looks \in Nat /\ (ctm = NoMap \/ BuiltFor(ctm)) /\ looks = 0
  BY DEF TilesInv, webgl_render_goto_line
<1>4. spot' \in Tile
  BY <1>1, <1>3, StepLeads
<1>5. ctm' = NoMap \/ BuiltFor(ctm)'
  BY <1>2, <1>3, StillBuilt
<1>6. ShownBuilt'
  BY <1>2, <1>3 DEF ShownBuilt
<1> QED BY <1>2, <1>3, <1>4, <1>5, <1>6 DEF TilesInv

LEMMA IndexIsRight ==
  ASSUME Fits, TilesInv
  PROVE  TileIndexRight
<1> SUFFICES ASSUME looks > 0, NEW v \in CityVectors
             PROVE  get_city_dxy_to_index(map_distance_vector(<<shown.x, shown.y>>, TileAt(v)))
                      = Rank(v, CityVectors)
  BY DEF TileIndexRight
<1> DEFINE t == <<shown.x, shown.y>>
           q == shown.radius_sq
           b == ctm.radius_sq
           R == Root(b)
           S == Reached(Disc(R, b), R, shown.x, shown.y)
           p == Place(R, shown.x, shown.y)
           i == dxy_to_center_index(v, R)
<1>1. /\ wrap \in Wraps /\ BuiltFor(ctm) /\ t \in Tile /\ q \in RadiusSq /\ q <= b
      /\ Place(ctm.radius, shown.x, shown.y) \in DOMAIN ctm.maps
  BY DEF TilesInv, ShownBuilt
<1>2. b \in RadiusSq /\ ctm.radius = R /\ ctm.sorted = Disc(R, b) /\ MapsRight(ctm)
  BY <1>1 DEF BuiltFor
<1>3. R \in Nat /\ Disc(R, b) \in SUBSET Square(R) /\ q \in Nat
  BY <1>1, <1>2, Radii
<1>4. t[1] = shown.x /\ t[2] = shown.y
  OBVIOUS
<1>5. p \in DOMAIN ctm.maps /\ ctm.maps[p] = TileMap(S, R)
  BY <1>1, <1>2, <1>4 DEF MapsRight
<1>6. get_city_tile_map_for_pos(ctm, shown.x, shown.y) = [at |-> p, c |-> ctm]
  BY <1>2, <1>5, Fetches
<1>7. map_distance_vector(t, TileAt(v)) = v
  BY <1>1, VectorOf
<1>8. CityVectors = {w \in S : map_vector_to_sq_distance(w) <= q}
  BY <1>1, <1>2, VectorsReached
<1>9. S \in SUBSET Square(R) /\ S \in SUBSET (Int \X Int)
  BY <1>3 DEF Reached, Square
<1>10. v \in S /\ map_vector_to_sq_distance(v) <= q
  BY <1>8
<1>11. get_city_dxy_to_index(v) =
         IF i \in DOMAIN ctm.maps[p] THEN ctm.maps[p][i] ELSE -1
  BY <1>2, <1>6 DEF get_city_dxy_to_index
<1> HIDE DEF S, p, i, t, q, b, R
<1>12. i \in DOMAIN TileMap(S, R) /\ TileMap(S, R)[i] = Rank(v, S)
  BY <1>3, <1>9, <1>10, MapReads DEF i
<1>13. get_city_dxy_to_index(v) = Rank(v, S)
  BY <1>5, <1>11, <1>12
<1>14. Rank(v, {w \in S : map_vector_to_sq_distance(w) <= q}) = Rank(v, S)
  BY <1>3, <1>9, <1>10, RanksKept
<1> QED BY <1>7, <1>8, <1>13, <1>14 DEF t

\* In a map that wraps in the direction of x at most, and that no city goes
\* round, a tile of a city is looked up where the civserver has put it
\* (get_city_dxy_to_index, webgl/city.js), and a step leads back (mapstep,
\* get_direction_for_step, map.js).
THEOREM TilesAreFound ==
  ASSUME Fits
  PROVE  TilesSpec => []TilesFound
<1>1. TilesInv /\ [Next_tiles]_cityVars => TilesInv'
  <2> SUFFICES ASSUME TilesInv, [Next_tiles]_cityVars PROVE TilesInv'
    OBVIOUS
  <2>1. CASE show_city_worked_tiles
    BY <2>1, CityShown
  <2>2. CASE webgl_render_goto_line
    BY <2>2, LineDrawn
  <2>3. CASE UNCHANGED cityVars
    <3>1. wrap' = wrap /\ hex' = hex /\ shown' = shown /\ ctm' = ctm /\ spot' = spot /\ looks' = looks
      BY <2>3 DEF cityVars
    <3>2. (ctm = NoMap \/ BuiltFor(ctm))' /\ ShownBuilt'
      BY <3>1, StillBuilt DEF TilesInv, ShownBuilt
    <3> QED BY <3>1, <3>2 DEF TilesInv
  <2> QED BY <2>1, <2>2, <2>3 DEF Next_tiles
<1>2. TilesInv => TilesFound
  <2> SUFFICES ASSUME TilesInv PROVE TilesFound
    OBVIOUS
  <2>1. TileIndexRight
    BY IndexIsRight
  <2>2. spot \in Tile \cup {<<>>} /\ XSize >= 3
    BY DEF TilesInv, Fits
  <2>3. StepsBack
    BY <2>2, StepBack, DirectionFound DEF StepsBack
  <2> QED BY <2>1, <2>3 DEF TilesFound
<1> QED BY <1>1, <1>2, TilesBegin, PTL DEF TilesSpec

-----------------------------------------------------------------------------
(***************************************************************************)
(* Objects of the 3D view                                                  *)
(***************************************************************************)

\* No object of the scene is lost from its table.
Kept(v) == v \in Views /\ \A t \in Site : v.stray[t] = {}

\* A flag comes with its unit, and what belongs to a city with the city.
Paired(v, t) == /\ "flag" \in v.has[t] => "mesh" \in v.has[t]
                /\ \A k \in CityKinds : k \in v.has[t] => "city" \in v.has[t]

\* A tile is shown as it is: units where there are some, a city where one is.
Peopled(v, g, t) == /\ "mesh" \in v.has[t] => g.stack[t] # <<>>
                    /\ "city" \in v.has[t] => g.city[t].there

RingRight(v, g) ==
  v.ring # Nobody => /\ v.scene /\ g.focus # Nobody
                     /\ g.at[g.focus] = v.ring \/ "mesh" \notin v.has[g.at[g.focus]]

\* A unit is listed on the tile where it is, once.
Stacked(g) == \A t \in Site : \A i \in 1..Len(g.stack[t]) :
                /\ g.at[g.stack[t][i]] = t
                /\ \A j \in 1..Len(g.stack[t]) : g.stack[t][i] = g.stack[t][j] => i = j

\* The unit in focus is on the map.
Attentive(g) == g.focus # Nobody => g.at[g.focus] \in Site

Played(g) == g \in Games /\ Stacked(g) /\ Attentive(g)

Faithful(v, g) == /\ Kept(v) /\ Played(g) /\ RingRight(v, g)
                  /\ \A t \in Site : Paired(v, t) /\ Peopled(v, g, t)

\* All but the objects of some kinds are in the tables as before.
AsBefore(v, w, t, kinds) == \A k : k \notin kinds => (k \in w.has[t] <=> k \in v.has[t])

\* Only tables have changed.
Steady(v, w) == w.scene = v.scene /\ w.ring = v.ring

\* The table of tile t has objects more or less, and nothing else has changed.
Tabled(v, w, t, objects) == /\ Kept(w) /\ Steady(v, w)
                            /\ w.has = [v.has EXCEPT ![t] = objects]
                            /\ w.labelOf = v.labelOf /\ w.barOf = v.barOf

-----------------------------------------------------------------------------
LEMMA PutsKeeps ==
  ASSUME NEW v, Kept(v), NEW k \in ObjectKinds, NEW t \in Site, k \notin v.has[t] \/ ~v.scene
  PROVE  Tabled(v, Puts(v, k, t), t, v.has[t] \cup {k})
<1> DEFINE w == Puts(v, k, t)
<1>0. v \in Views /\ v.stray[t] = {}
  BY DEF Kept
<1>1. w = [v EXCEPT !.has = [v.has EXCEPT ![t] = v.has[t] \cup {k}], !.stray = [v.stray EXCEPT ![t] = {}]]
  BY <1>0 DEF Puts, Views
<1>2. [v.has EXCEPT ![t] = v.has[t] \cup {k}] \in [Site -> SUBSET ObjectKinds]
  BY <1>0 DEF Views
<1>3. [v.stray EXCEPT ![t] = {}] \in [Site -> SUBSET ObjectKinds]
  BY <1>0 DEF Views
<1>4. w \in Views
  BY <1>0, <1>1, <1>2, <1>3, ZenonT(60) DEF Views
<1>5. \A s \in Site : w.stray[s] = {}
  BY <1>0, <1>1 DEF Kept, Views
<1>6. w.has = [v.has EXCEPT ![t] = v.has[t] \cup {k}] /\ w.labelOf = v.labelOf /\ w.barOf = v.barOf
  BY <1>0, <1>1 DEF Views
<1>7. w.scene = v.scene /\ w.ring = v.ring
  BY <1>0, <1>1 DEF Views
<1> HIDE DEF w
<1>8. Kept(w) /\ Steady(v, w)
  BY <1>4, <1>5, <1>7 DEF Kept, Steady
<1> QED BY <1>6, <1>8 DEF w, Tabled

LEMMA ClearedKeeps ==
  ASSUME NEW v, Kept(v), NEW K, NEW t \in Site
  PROVE  Tabled(v, Cleared(v, K, t), t, v.has[t] \ K)
<1> DEFINE w == Cleared(v, K, t)
<1>0. v \in Views
  BY DEF Kept
<1>1. w = [v EXCEPT !.has = [v.has EXCEPT ![t] = v.has[t] \ K]]
  BY <1>0 DEF Cleared, Views
<1>2. [v.has EXCEPT ![t] = v.has[t] \ K] \in [Site -> SUBSET ObjectKinds]
  BY <1>0 DEF Views
<1>4. w \in Views
  BY <1>0, <1>1, <1>2, ZenonT(60) DEF Views
<1>5. w.stray = v.stray
  BY <1>0, <1>1 DEF Views
<1>6. w.has = [v.has EXCEPT ![t] = v.has[t] \ K] /\ w.labelOf = v.labelOf /\ w.barOf = v.barOf
  BY <1>0, <1>1 DEF Views
<1>7. w.scene = v.scene /\ w.ring = v.ring
  BY <1>0, <1>1 DEF Views
<1> HIDE DEF w
<1>8. Kept(w) /\ Steady(v, w)
  BY <1>4, <1>5, <1>7 DEF Kept, Steady
<1> QED BY <1>6, <1>8 DEF w, Tabled

LEMMA ModelKeeps ==
  ASSUME NEW v, Kept(v), NEW m \in Model, NEW t \in Site
  PROVE  /\ Kept(webgl_get_model(v, m, t)) /\ Steady(v, webgl_get_model(v, m, t))
         /\ webgl_get_model(v, m, t).has = v.has
<1> DEFINE w == webgl_get_model(v, m, t)
           now == [v.wanted EXCEPT ![t] = m]
           more == IF m \in v.asked THEN v.fetching ELSE v.fetching \cup {m}
<1>0. v \in Views
  BY DEF Kept
<1>1. w = [v EXCEPT !.wanted = now, !.asked = v.asked \cup {m}, !.fetching = more]
  BY <1>0 DEF webgl_get_model, Views
<1>2. now \in [Site -> Model \cup {Nobody}]
  BY <1>0 DEF Views
<1>3. more \in SUBSET Model /\ v.asked \cup {m} \in SUBSET Model
  BY <1>0 DEF Views
<1> HIDE DEF now, more
<1>4. w \in Views
  BY <1>0, <1>1, <1>2, <1>3, ZenonT(60) DEF Views
<1>5. w.stray = v.stray /\ w.has = v.has
  BY <1>0, <1>1 DEF Views
<1>7. w.scene = v.scene /\ w.ring = v.ring
  BY <1>0, <1>1 DEF Views
<1> HIDE DEF w
<1>8. Kept(w) /\ Steady(v, w)
  BY <1>4, <1>5, <1>7 DEF Kept, Steady
<1> QED BY <1>5, <1>8 DEF w

LEMMA FirstIsIn ==
  ASSUME NEW n \in Nat, NEW I \in SUBSET (1..n), I # {}
  PROVE  Min(I) \in I /\ Min(I) \in 1..n
<1>1. \E m \in I : \A k \in I : m <= k
  BY LeastNat
<1> QED BY <1>1 DEF Min

\* Every list of units that are there once is at most as long as there are units.
LEMMA FewUnits ==
  ASSUME NEW g, g \in Games, Stacked(g), NEW t \in Site
  PROVE  Len(g.stack[t]) \in 0..Cardinality(Piece) /\ Cardinality(Piece) \in Nat
<1> DEFINE s == g.stack[t]
           n == Len(s)
<1>1. s \in Seq(Piece)
  BY DEF Games
<1>2. /\ n \in Nat /\ \A i \in 1..n : s[i] \in Piece
      /\ \A i \in 1..n : \A j \in 1..n : s[i] = s[j] => i = j
  BY <1>1 DEF Stacked
<1>3. Cardinality(Piece) \in Nat /\ IsFiniteSet(Piece)
  BY FS_CardinalityType, SceneAssumption
<1> HIDE DEF s, n
<1>4. IsFiniteSet(1..n) /\ Cardinality(1..n) = n
  BY <1>2, FS_Interval
<1>5. n <= Cardinality(Piece)
  <2> SUFFICES ASSUME Cardinality(Piece) < n PROVE FALSE
    BY <1>2, <1>3
  <2> DEFINE f == [i \in 1..n |-> s[i]]
  <2>1. f \in [1..n -> Piece]
    BY <1>2
  <2> HIDE DEF f
  <2>2. \E x, y \in 1..n : x # y /\ f[x] = f[y]
    BY <1>3, <1>4, <2>1, FS_PigeonHole
  <2> QED BY <1>2, <2>2 DEF f
<1> QED BY <1>2, <1>3, <1>5 DEF s, n

\* The unit that is shown on a tile.
LEMMA VisibleIs ==
  ASSUME NEW g, g \in Games, Stacked(g), NEW t \in Site, NEW u, u = find_visible_unit(g, t)
  PROVE  /\ u \in Piece \cup {Nobody}
         /\ u # Nobody => g.stack[t] # <<>> /\ g.at[u] = t
         /\ g.stack[t] # <<>> /\ g.focus # Nobody /\ g.at[g.focus] = t => u = g.focus
<1> DEFINE here == g.stack[t]
           M == {i \in 1..Len(here) : g.anim[here[i]] # <<>>}
           S == {i \in 1..Len(here) : here[i] \notin g.riding}
           i == IF M # {} THEN Min(M) ELSE IF S # {} THEN Min(S) ELSE 1
           seen == get_focus_unit_on_tile(g, t) # Nobody
<1>1. here \in Seq(Piece) /\ Len(here) \in Nat
  BY DEF Games
<1>2. M \in SUBSET (1..Len(here)) /\ S \in SUBSET (1..Len(here))
  OBVIOUS
<1>3. seen <=> g.focus # Nobody /\ g.at[g.focus] = t
  BY DEF get_focus_unit_on_tile
<1>4. M # {} => Min(M) # 0
  <2> HIDE DEF here, M
  <2> QED BY <1>1, <1>2, FirstIsIn
<1>5. S # {} => Min(S) # 0
  <2> HIDE DEF here, S
  <2> QED BY <1>1, <1>2, FirstIsIn
<1>6. SelectInSeq(here, LAMBDA p : g.anim[p] # <<>>) = IF M # {} THEN Min(M) ELSE 0
  BY DEF SelectInSeq
<1>7. SelectInSeq(here, LAMBDA p : p \notin g.riding) = IF S # {} THEN Min(S) ELSE 0
  BY DEF SelectInSeq
<1>8. u = IF here = <<>> THEN Nobody
          ELSE IF seen THEN g.focus
          ELSE IF g.city[t].there THEN Nobody
          ELSE here[i]
  BY <1>4, <1>5, <1>6, <1>7 DEF find_visible_unit
<1>9. here # <<>> => i \in 1..Len(here)
  <2>1. here # <<>> => 1 \in 1..Len(here)
    BY <1>1
  <2> HIDE DEF here, M, S
  <2>2. M # {} => Min(M) \in 1..Len(here)
    BY <1>1, <1>2, FirstIsIn
  <2>3. S # {} => Min(S) \in 1..Len(here)
    BY <1>1, <1>2, FirstIsIn
  <2> QED BY <2>1, <2>2, <2>3
<1>10. \A j \in 1..Len(here) : here[j] \in Piece /\ g.at[here[j]] = t
  BY <1>1 DEF Stacked
<1>11. Nobody \notin Piece /\ g.focus \in Piece \cup {Nobody}
  BY SceneAssumption DEF Games
<1>12. u = Nobody \/ (here # <<>> /\ u \in Piece /\ g.at[u] = t)
  <2> HIDE DEF here, M, S, i, seen
  <2>1. CASE here = <<>>
    BY <1>8, <2>1
  <2>2. CASE here # <<>> /\ seen
    BY <1>3, <1>8, <1>11, <2>2
  <2>3. CASE here # <<>> /\ ~seen
    BY <1>8, <1>9, <1>10, <2>3
  <2> QED BY <2>1, <2>2, <2>3
<1>13. here # <<>> /\ seen => u = g.focus
  BY <1>8
<1> HIDE DEF M, S, i, seen
<1> QED BY <1>3, <1>11, <1>12, <1>13

LEMMA Kinds == /\ UnitKinds \subseteq ObjectKinds /\ CityKinds \subseteq ObjectKinds
               /\ {"mesh", "flag", "label", "bar"} \subseteq ObjectKinds
               /\ {"city", "name", "walls", "light", "disorder"} \subseteq ObjectKinds
               /\ {"building", "extra", "trees"} \subseteq ObjectKinds
BY DEF ObjectKinds, UnitKinds, CityKinds

\* The ring goes to the unit in focus, if it is the one that is drawn.
Ringed(v, w, g, t, u) == /\ Kept(w) /\ w.scene = v.scene /\ w.has = v.has
                         /\ v.scene /\ g.focus = u => w.ring \in {t, Nobody}
                         /\ ~v.scene \/ g.focus # u => w.ring = v.ring

LEMMA RingKeeps ==
  ASSUME NEW v, Kept(v), NEW g, NEW t \in Site, NEW u, NEW w, w = FocusRing(v, g, t, u)
  PROVE  Ringed(v, w, g, t, u)
<1>0. v \in Views
  BY DEF Kept
<1>1. CASE ~v.scene \/ g.focus # u
  BY <1>1 DEF FocusRing, Ringed
<1>2. CASE v.scene /\ g.focus = u
  <2> DEFINE r == IF g.anim[u] = <<>> THEN t ELSE Nobody
  <2>1. w = [v EXCEPT !.ring = r]
    BY <1>2 DEF FocusRing
  <2>2. r \in {t, Nobody}
    OBVIOUS
  <2>3. r \in Site \cup {Nobody}
    OBVIOUS
  <2> HIDE DEF r
  <2>4. w \in Views
    BY <1>0, <2>1, <2>3, ZenonT(60) DEF Views
  <2>5. w.ring = r /\ w.scene = v.scene /\ w.has = v.has /\ w.stray = v.stray
    BY <1>0, <2>1 DEF Views
  <2> QED BY <1>2, <2>2, <2>4, <2>5 DEF Kept, Ringed
<1> QED BY <1>1, <1>2

\* The unit is drawn, with its flag.
LEMMA MeshKeeps ==
  ASSUME NEW v, Kept(v), NEW t \in Site, NEW u \in Piece, NEW w, w = WithMesh(v, t, u),
         "mesh" \notin v.has[t]
  PROVE  /\ Kept(w) /\ Steady(v, w)
         /\ \A s \in Site \ {t} : w.has[s] = v.has[s]
         /\ AsBefore(v, w, t, {"mesh", "flag"})
         /\ "mesh" \in w.has[t]
<1> DEFINE p == Puts(v, "mesh", t)
           m == [p EXCEPT !.moving = @ \cup {u}]
<1>t. Tabled(v, p, t, v.has[t] \cup {"mesh"})
  BY Kinds, PutsKeeps
<1> HIDE DEF p
<1>1. Kept(p) /\ Steady(v, p) /\ p.has = [v.has EXCEPT ![t] = @ \cup {"mesh"}]
  BY <1>t DEF Tabled
<1>0. p \in Views /\ v \in Views
  BY <1>1 DEF Kept
<1>2. m = [p EXCEPT !.moving = p.moving \cup {u}]
  BY <1>0 DEF Views
<1>3. p.moving \cup {u} \in SUBSET Piece
  BY <1>0 DEF Views
<1>4. m \in Views
  BY <1>0, <1>2, <1>3, ZenonT(60) DEF Views
<1>5. m.has = p.has /\ m.stray = p.stray /\ m.scene = p.scene /\ m.ring = p.ring
  BY <1>0, <1>2 DEF Views
<1>6. w = IF m.scene /\ "flag" \notin v.has[t] THEN Puts(m, "flag", t) ELSE m
  <2>1. m.scene = v.scene
    BY <1>1, <1>5 DEF Steady
  <2> QED BY <2>1 DEF WithMesh, p
<1> HIDE DEF m
<1>7. Kept(m) /\ Steady(v, m) /\ m.has = [v.has EXCEPT ![t] = @ \cup {"mesh"}]
  BY <1>1, <1>4, <1>5 DEF Kept, Steady
<1>8. v.has \in [Site -> SUBSET ObjectKinds]
  BY <1>0 DEF Views
<1>9. CASE ~(m.scene /\ "flag" \notin v.has[t])
  BY <1>6, <1>7, <1>8, <1>9 DEF AsBefore
<1>10. CASE m.scene /\ "flag" \notin v.has[t]
  <2>1. "flag" \notin m.has[t]
    BY <1>7, <1>8, <1>10
  <2>2. w = Puts(m, "flag", t)
    BY <1>6, <1>10
  <2>k. Kept(m) /\ "flag" \in ObjectKinds
    BY <1>7, Kinds
  <2>p. Tabled(m, Puts(m, "flag", t), t, m.has[t] \cup {"flag"})
    BY <2>1, <2>k, PutsKeeps
  <2>t. Tabled(m, w, t, m.has[t] \cup {"flag"})
    BY <2>2, <2>p
  <2>3. Kept(w) /\ Steady(m, w) /\ w.has = [m.has EXCEPT ![t] = @ \cup {"flag"}]
    BY <2>t DEF Tabled
  <2>4. w.has = [v.has EXCEPT ![t] = @ \cup {"mesh", "flag"}]
    BY <1>7, <1>8, <2>3
  <2>5. Steady(v, w)
    BY <1>7, <2>3 DEF Steady
  <2> QED BY <1>8, <2>3, <2>4, <2>5 DEF AsBefore
<1> QED BY <1>9, <1>10

\* The label and the bar are exchanged for new ones, or stay.
LEMMA LabelKeeps ==
  ASSUME NEW v, Kept(v), NEW g, g \in Games, Stacked(g), NEW t \in Site, NEW u \in Piece,
         g.stack[t] # <<>>, NEW w, w = Relabelled(v, g, t, u)
  PROVE  /\ Kept(w) /\ Steady(v, w)
         /\ \A s \in Site \ {t} : w.has[s] = v.has[s]
         /\ AsBefore(v, w, t, {"label"})
<1> DEFINE now == <<g.look[u], Len(g.stack[t])>>
           c == Cleared(v, {"label"}, t)
           off == [c EXCEPT !.labelOf[t] = now]
<1>t. Tabled(v, c, t, v.has[t] \ {"label"})
  BY ClearedKeeps
<1> HIDE DEF c
<1>1. /\ Kept(c) /\ Steady(v, c) /\ c.has = [v.has EXCEPT ![t] = @ \ {"label"}]
      /\ c.labelOf = v.labelOf
  BY <1>t DEF Tabled
<1>0. c \in Views /\ v \in Views
  BY <1>1 DEF Kept
<1>2. now \in Looks \X (1..Cardinality(Piece))
  <2>1. Len(g.stack[t]) \in 0..Cardinality(Piece) /\ Cardinality(Piece) \in Nat
    BY FewUnits
  <2>2. g.stack[t] \in Seq(Piece) /\ g.look[u] \in Looks
    BY DEF Games
  <2>3. Len(g.stack[t]) # 0
    BY <2>2
  <2>4. Len(g.stack[t]) \in 1..Cardinality(Piece)
    BY <2>1, <2>3
  <2> QED BY <2>2, <2>4
<1>3. CASE v.labelOf[t] = now \/ g.anim[u] # <<>>
  BY <1>3 DEF Relabelled, AsBefore, Steady
<1>4. CASE ~(v.labelOf[t] = now \/ g.anim[u] # <<>>)
  <2>1. w = IF v.scene /\ (g.look[u] = "busy" \/ Len(g.stack[t]) > 1)
            THEN Puts(off, "label", t) ELSE off
    BY <1>4 DEF Relabelled, c
  <2> DEFINE l == [c.labelOf EXCEPT ![t] = now]
  <2>2. off = [c EXCEPT !.labelOf = l]
    BY <1>0 DEF Views
  <2>3. l \in [Site -> {<<>>} \cup (Looks \X (1..Cardinality(Piece)))]
    BY <1>0, <1>2 DEF Views
  <2> HIDE DEF now, l
  <2>4. off \in Views
    BY <1>0, <2>2, <2>3, ZenonT(60) DEF Views
  <2>5. off.has = c.has /\ off.stray = c.stray /\ off.scene = c.scene /\ off.ring = c.ring
    BY <1>0, <2>2 DEF Views
  <2> HIDE DEF off
  <2>6. Kept(off) /\ Steady(v, off) /\ off.has = [v.has EXCEPT ![t] = @ \ {"label"}]
    BY <1>1, <2>4, <2>5 DEF Kept, Steady
  <2>7. v.has \in [Site -> SUBSET ObjectKinds]
    BY <1>0 DEF Views
  <2>8. CASE w = off
    BY <2>6, <2>7, <2>8 DEF AsBefore
  <2>9. CASE w = Puts(off, "label", t)
    <3>1. "label" \notin off.has[t]
      BY <2>6, <2>7
    <3>k. Kept(off) /\ "label" \in ObjectKinds
      BY <2>6, Kinds
    <3>p. Tabled(off, Puts(off, "label", t), t, off.has[t] \cup {"label"})
      BY <3>1, <3>k, PutsKeeps
    <3>t. Tabled(off, w, t, off.has[t] \cup {"label"})
      BY <2>9, <3>p
    <3>2. Kept(w) /\ Steady(off, w) /\ w.has = [off.has EXCEPT ![t] = @ \cup {"label"}]
      BY <3>t DEF Tabled
    <3>3. Steady(v, w)
      BY <2>6, <3>2 DEF Steady
    <3> QED BY <2>6, <2>7, <3>2, <3>3 DEF AsBefore
  <2> QED BY <2>1, <2>8, <2>9
<1> QED BY <1>3, <1>4

LEMMA BarKeeps ==
  ASSUME NEW v, Kept(v), NEW g, g \in Games, NEW t \in Site, NEW u \in Piece,
         NEW w, w = Rebarred(v, g, t, u)
  PROVE  /\ Kept(w) /\ Steady(v, w)
         /\ \A s \in Site \ {t} : w.has[s] = v.has[s]
         /\ AsBefore(v, w, t, {"bar"})
<1>1. CASE v.barOf[t] = <<g.look[u]>> \/ g.anim[u] # <<>>
  BY <1>1 DEF Rebarred, AsBefore, Steady
<1>2. CASE ~(v.barOf[t] = <<g.look[u]>> \/ g.anim[u] # <<>>)
  <2> DEFINE now == <<g.look[u]>>
             c == Cleared(v, {"bar"}, t)
             p == Puts(c, "bar", t)
             l == [p.barOf EXCEPT ![t] = now]
  <2>1. w = [p EXCEPT !.barOf[t] = now]
    BY <1>2 DEF Rebarred
  <2> HIDE DEF l, now, p
  <2>t. Tabled(v, c, t, v.has[t] \ {"bar"})
    BY ClearedKeeps
  <2> HIDE DEF c
  <2>2. Kept(c) /\ Steady(v, c) /\ c.has = [v.has EXCEPT ![t] = @ \ {"bar"}]
    BY <2>t DEF Tabled
  <2>3. v \in Views /\ c \in Views
    BY <2>2 DEF Kept
  <2>4. v.has \in [Site -> SUBSET ObjectKinds]
    BY <2>3 DEF Views
  <2>5. "bar" \notin c.has[t]
    BY <2>2, <2>4
  <2>u. Tabled(c, p, t, c.has[t] \cup {"bar"})
    BY <2>2, <2>5, Kinds, PutsKeeps DEF p
  <2>6. Kept(p) /\ Steady(c, p) /\ p.has = [c.has EXCEPT ![t] = @ \cup {"bar"}]
    BY <2>u DEF Tabled
  <2>7. p \in Views
    BY <2>6 DEF Kept
  <2>8. w = [p EXCEPT !.barOf = l]
    BY <2>1, <2>7 DEF Views, l
  <2>9. l \in [Site -> {<<>>} \cup {<<k>> : k \in Looks}]
    <3>1. g.look[u] \in Looks
      BY DEF Games
    <3> QED BY <2>7, <3>1 DEF Views, l, now
  <2>10. w \in Views
    BY <2>7, <2>8, <2>9, ZenonT(60) DEF Views
  <2>11. w.has = p.has /\ w.stray = p.stray /\ w.scene = p.scene /\ w.ring = p.ring
    BY <2>7, <2>8 DEF Views
  <2>12. Kept(w) /\ Steady(v, w)
    BY <2>2, <2>6, <2>10, <2>11 DEF Kept, Steady
  <2> QED BY <2>2, <2>4, <2>6, <2>11, <2>12 DEF AsBefore
<1> QED BY <1>1, <1>2

LEMMA NoUnitKeeps ==
  ASSUME NEW v, Kept(v), NEW t \in Site, NEW w, w = NoUnitShown(v, t)
  PROVE  /\ Kept(w) /\ Steady(v, w)
         /\ w.has = [v.has EXCEPT ![t] = @ \ UnitKinds]
<1> DEFINE c == Cleared(v, UnitKinds, t)
           l == [c.labelOf EXCEPT ![t] = <<>>]
           b == [c.barOf EXCEPT ![t] = <<>>]
<1>t. Tabled(v, c, t, v.has[t] \ UnitKinds)
  BY ClearedKeeps
<1>1. Kept(c) /\ Steady(v, c) /\ c.has = [v.has EXCEPT ![t] = @ \ UnitKinds]
  BY <1>t DEF Tabled
<1>2. c \in Views
  BY <1>1 DEF Kept
<1>3. w = [c EXCEPT !.labelOf = l, !.barOf = b]
  BY <1>2 DEF NoUnitShown, Views
<1> HIDE DEF c
<1>4. l \in [Site -> {<<>>} \cup (Looks \X (1..Cardinality(Piece)))]
  BY <1>2 DEF Views
<1>5. b \in [Site -> {<<>>} \cup {<<k>> : k \in Looks}]
  BY <1>2 DEF Views
<1> HIDE DEF l, b
<1>6. w \in Views
  BY <1>2, <1>3, <1>4, <1>5, ZenonT(60) DEF Views
<1>7. w.has = c.has /\ w.stray = c.stray /\ w.scene = c.scene /\ w.ring = c.ring
  BY <1>2, <1>3 DEF Views
<1> QED BY <1>1, <1>6, <1>7 DEF Kept, Steady

\* What drawing the units of tile t has done.
UnitsDrawn(v, w, g, t) ==
  /\ Kept(w) /\ w.scene = v.scene
  /\ \A s \in Site \ {t} : w.has[s] = v.has[s]
  /\ AsBefore(v, w, t, UnitKinds)
  /\ Paired(v, t) => Paired(w, t)
  /\ Paired(v, t) /\ "mesh" \in w.has[t] => g.stack[t] # <<>>
  /\ \/ w.ring = v.ring
     \/ v.scene /\ w.ring = Nobody
     \/ v.scene /\ w.ring = t /\ g.focus # Nobody /\ g.at[g.focus] = t
  /\ v.scene /\ g.focus # Nobody /\ g.at[g.focus] = t =>
       w.ring \in {t, Nobody} \/ "mesh" \notin w.has[t]

LEMMA AppearsDraws ==
  ASSUME NEW v, Kept(v), NEW g, g \in Games, Stacked(g), NEW t \in Site,
         NEW u \in Piece, u = find_visible_unit(g, t), "mesh" \notin v.has[t],
         NEW w, w = UnitAppears(v, g, t, u)
  PROVE  UnitsDrawn(v, w, g, t)
<1>1. /\ g.stack[t] # <<>> /\ g.at[u] = t /\ u # Nobody
      /\ g.focus # Nobody /\ g.at[g.focus] = t => u = g.focus
  BY VisibleIs, SceneAssumption
<1>2. CASE u \notin v.loaded
  <2>1. w = webgl_get_model(v, u, t)
    BY <1>2 DEF UnitAppears
  <2>2. u \in Model
    BY DEF Model
  <2>3. Kept(w) /\ Steady(v, w) /\ w.has = v.has
    BY <2>1, <2>2, ModelKeeps
  <2> QED BY <1>1, <2>3 DEF UnitsDrawn, Steady, AsBefore, Paired
<1>3. CASE u \in v.loaded
  <2> DEFINE m == WithMesh(v, t, u)
  <2>1. w = FocusRing(m, g, t, u)
    BY <1>3 DEF UnitAppears
  <2>2. /\ Kept(m) /\ Steady(v, m)
        /\ \A s \in Site \ {t} : m.has[s] = v.has[s]
        /\ AsBefore(v, m, t, {"mesh", "flag"})
        /\ "mesh" \in m.has[t]
    BY MeshKeeps
  <2> HIDE DEF m
  <2>r. Ringed(m, w, g, t, u)
    BY <2>1, <2>2, RingKeeps
  <2>3. /\ Kept(w) /\ w.scene = m.scene /\ w.has = m.has
        /\ m.scene /\ g.focus = u => w.ring \in {t, Nobody}
        /\ ~m.scene \/ g.focus # u => w.ring = m.ring
    BY <2>r DEF Ringed
  <2>4. AsBefore(v, w, t, UnitKinds)
    BY <2>2, <2>3 DEF AsBefore, UnitKinds
  <2>5. Paired(v, t) => Paired(w, t)
    BY <2>2, <2>3 DEF AsBefore, Paired, CityKinds
  <2> QED BY <1>1, <2>2, <2>3, <2>4, <2>5 DEF UnitsDrawn, Steady
<1> QED BY <1>2, <1>3

LEMMA RedrawnDraws ==
  ASSUME NEW v, Kept(v), NEW g, g \in Games, Stacked(g), NEW t \in Site,
         NEW u \in Piece, u = find_visible_unit(g, t), "mesh" \in v.has[t],
         NEW w, w = UnitRedrawn(v, g, t, u)
  PROVE  UnitsDrawn(v, w, g, t)
<1>1. /\ g.stack[t] # <<>> /\ g.at[u] = t /\ u # Nobody
      /\ g.focus # Nobody /\ g.at[g.focus] = t => u = g.focus
  BY VisibleIs, SceneAssumption
<1> DEFINE bare == Cleared(v, {"mesh", "flag"}, t)
           labelled == Relabelled(bare, g, t, u)
           barred == Rebarred(labelled, g, t, u)
           told == FocusRing(barred, g, t, u)
<1>w. w = IF u \notin v.loaded THEN webgl_get_model(told, u, t) ELSE WithMesh(told, t, u)
  BY DEF UnitRedrawn
<1>2. Tabled(v, bare, t, v.has[t] \ {"mesh", "flag"})
  BY ClearedKeeps
<1> HIDE DEF bare
<1>3. v.has \in [Site -> SUBSET ObjectKinds]
  BY DEF Kept, Views
<1>4. /\ Kept(bare) /\ Steady(v, bare)
      /\ \A s \in Site \ {t} : bare.has[s] = v.has[s]
      /\ AsBefore(v, bare, t, {"mesh", "flag"})
      /\ "mesh" \notin bare.has[t] /\ "flag" \notin bare.has[t]
  BY <1>2, <1>3 DEF Tabled, AsBefore
<1>5. /\ Kept(labelled) /\ Steady(bare, labelled)
      /\ \A s \in Site \ {t} : labelled.has[s] = bare.has[s]
      /\ AsBefore(bare, labelled, t, {"label"})
  BY <1>1, <1>4, LabelKeeps
<1> HIDE DEF labelled
<1>6. /\ Kept(barred) /\ Steady(labelled, barred)
      /\ \A s \in Site \ {t} : barred.has[s] = labelled.has[s]
      /\ AsBefore(labelled, barred, t, {"bar"})
  BY <1>5, BarKeeps
<1> HIDE DEF barred
<1>r. Ringed(barred, told, g, t, u)
  BY <1>6, RingKeeps
<1> HIDE DEF told
<1>7. /\ Kept(told) /\ told.scene = barred.scene /\ told.has = barred.has
      /\ barred.scene /\ g.focus = u => told.ring \in {t, Nobody}
      /\ ~barred.scene \/ g.focus # u => told.ring = barred.ring
  BY <1>r DEF Ringed
<1>8. /\ told.scene = v.scene
      /\ \A s \in Site \ {t} : told.has[s] = v.has[s]
      /\ AsBefore(v, told, t, UnitKinds)
      /\ "mesh" \notin told.has[t] /\ "flag" \notin told.has[t]
      /\ v.scene /\ g.focus = u => told.ring \in {t, Nobody}
      /\ ~v.scene \/ g.focus # u => told.ring = v.ring
  <2>1. \A k : k \notin {"label", "bar"} => (k \in told.has[t] <=> k \in bare.has[t])
    BY <1>5, <1>6, <1>7 DEF AsBefore
  <2>2. AsBefore(v, told, t, UnitKinds)
    BY <1>4, <2>1 DEF AsBefore, UnitKinds
  <2>3. "mesh" \notin told.has[t] /\ "flag" \notin told.has[t]
    BY <1>4, <2>1
  <2> QED BY <1>4, <1>5, <1>6, <1>7, <2>2, <2>3 DEF Steady
<1>9. CASE u \notin v.loaded
  <2>1. w = webgl_get_model(told, u, t) /\ u \in Model
    BY <1>w, <1>9 DEF Model
  <2>2. Kept(w) /\ Steady(told, w) /\ w.has = told.has
    BY <1>7, <2>1, ModelKeeps
  <2>3. AsBefore(v, w, t, UnitKinds)
    BY <1>8, <2>2 DEF AsBefore
  <2>4. Paired(v, t) => Paired(w, t)
    BY <1>8, <2>2 DEF AsBefore, Paired, CityKinds, UnitKinds
  <2> QED BY <1>1, <1>8, <2>2, <2>3, <2>4 DEF UnitsDrawn, Steady
<1>10. CASE u \in v.loaded
  <2>1. w = WithMesh(told, t, u)
    BY <1>w, <1>10
  <2>2. /\ Kept(w) /\ Steady(told, w)
        /\ \A s \in Site \ {t} : w.has[s] = told.has[s]
        /\ AsBefore(told, w, t, {"mesh", "flag"})
        /\ "mesh" \in w.has[t]
    BY <1>7, <1>8, <2>1, MeshKeeps
  <2>3. AsBefore(v, w, t, UnitKinds)
    BY <1>8, <2>2 DEF AsBefore, UnitKinds
  <2>4. Paired(v, t) => Paired(w, t)
    BY <2>2, <2>3 DEF AsBefore, Paired, CityKinds, UnitKinds
  <2> QED BY <1>1, <1>8, <2>2, <2>3, <2>4 DEF UnitsDrawn, Steady
<1> QED BY <1>9, <1>10

LEMMA UnitsAreDrawn ==
  ASSUME NEW v, Kept(v), NEW g, g \in Games, Stacked(g), NEW t \in Site
  PROVE  UnitsDrawn(v, update_unit_position(v, g, t), g, t)
<1> DEFINE u == find_visible_unit(g, t)
           w == update_unit_position(v, g, t)
<1>1. /\ u \in Piece \cup {Nobody}
      /\ g.stack[t] # <<>> /\ g.focus # Nobody /\ g.at[g.focus] = t => u = g.focus
  BY VisibleIs
<1>2. w = IF u = Nobody THEN IF "mesh" \in v.has[t] THEN NoUnitShown(v, t) ELSE v
          ELSE IF "mesh" \in v.has[t] THEN UnitRedrawn(v, g, t, u) ELSE UnitAppears(v, g, t, u)
  BY DEF update_unit_position
<1>3. CASE u = Nobody /\ "mesh" \in v.has[t]
  <2>1. w = NoUnitShown(v, t)
    BY <1>2, <1>3
  <2> HIDE DEF w, u
  <2>2. Kept(w) /\ Steady(v, w) /\ w.has = [v.has EXCEPT ![t] = @ \ UnitKinds]
    BY <2>1, NoUnitKeeps
  <2>3. v.has \in [Site -> SUBSET ObjectKinds]
    BY DEF Kept, Views
  <2>4. /\ \A s \in Site \ {t} : w.has[s] = v.has[s]
        /\ AsBefore(v, w, t, UnitKinds) /\ "mesh" \notin w.has[t] /\ "flag" \notin w.has[t]
    BY <2>2, <2>3 DEF AsBefore, UnitKinds
  <2>5. Paired(v, t) => Paired(w, t)
    BY <2>4 DEF AsBefore, Paired, CityKinds, UnitKinds
  <2> QED BY <2>2, <2>4, <2>5 DEF UnitsDrawn, Steady, w
<1>4. CASE u = Nobody /\ "mesh" \notin v.has[t]
  BY <1>2, <1>4 DEF UnitsDrawn, AsBefore
<1>5. CASE u # Nobody /\ "mesh" \in v.has[t]
  <2>1. w = UnitRedrawn(v, g, t, u) /\ u \in Piece
    BY <1>1, <1>2, <1>5
  <2> QED BY <1>5, <2>1, RedrawnDraws
<1>6. CASE u # Nobody /\ "mesh" \notin v.has[t]
  <2>1. w = UnitAppears(v, g, t, u) /\ u \in Piece
    BY <1>1, <1>2, <1>6
  <2> QED BY <1>6, <2>1, AppearsDraws
<1> QED BY <1>3, <1>4, <1>5, <1>6

-----------------------------------------------------------------------------
\* Only objects of some kinds on tile t have changed.
Touched(v, w, t, K) == /\ Kept(w) /\ Steady(v, w)
                       /\ \A s \in Site \ {t} : w.has[s] = v.has[s]
                       /\ AsBefore(v, w, t, K)

LEMMA TouchedTwice ==
  ASSUME NEW v, NEW x, NEW w, NEW t \in Site, NEW K, NEW L,
         Touched(v, x, t, K), Touched(x, w, t, L)
  PROVE  Touched(v, w, t, K \cup L)
BY DEF Touched, Steady, AsBefore

LEMMA NotTouched ==
  ASSUME NEW v, Kept(v), NEW t \in Site, NEW K
  PROVE  Touched(v, v, t, K)
BY DEF Touched, Steady, AsBefore

LEMMA PutsTouches ==
  ASSUME NEW v, Kept(v), NEW k \in ObjectKinds, NEW t \in Site, k \notin v.has[t]
  PROVE  Touched(v, Puts(v, k, t), t, {k}) /\ k \in Puts(v, k, t).has[t]
<1> DEFINE w == Puts(v, k, t)
<1>1. Tabled(v, w, t, v.has[t] \cup {k})
  BY PutsKeeps
<1> HIDE DEF w
<1>2. v.has \in [Site -> SUBSET ObjectKinds]
  BY DEF Kept, Views
<1>3. Touched(v, w, t, {k}) /\ k \in w.has[t]
  BY <1>1, <1>2 DEF Tabled, Touched, AsBefore
<1> QED BY <1>3 DEF w

LEMMA ClearedTouches ==
  ASSUME NEW v, Kept(v), NEW K, NEW t \in Site
  PROVE  Touched(v, Cleared(v, K, t), t, K) /\ \A k \in K : k \notin Cleared(v, K, t).has[t]
<1> DEFINE w == Cleared(v, K, t)
<1>1. Tabled(v, w, t, v.has[t] \ K)
  BY ClearedKeeps
<1> HIDE DEF w
<1>2. v.has \in [Site -> SUBSET ObjectKinds]
  BY DEF Kept, Views
<1>3. Touched(v, w, t, K) /\ \A k \in K : k \notin w.has[t]
  BY <1>1, <1>2 DEF Tabled, Touched, AsBefore
<1> QED BY <1>3 DEF w

LEMMA ModelTouches ==
  ASSUME NEW v, Kept(v), NEW m \in Model, NEW t \in Site, NEW K
  PROVE  Touched(v, webgl_get_model(v, m, t), t, K)
<1> DEFINE w == webgl_get_model(v, m, t)
<1>1. Kept(w) /\ Steady(v, w) /\ w.has = v.has
  BY ModelKeeps
<1> HIDE DEF w
<1>2. Touched(v, w, t, K)
  BY <1>1 DEF Touched, AsBefore
<1> QED BY <1>2 DEF w

LEMMA Models == {"village", "town", "walls", "library", "mine", "pollution"} \subseteq Model
BY DEF Model

LEMMA WallsTouch ==
  ASSUME NEW v, Kept(v), NEW g, NEW t \in Site
  PROVE  Touched(v, WithWalls(v, g, t), t, {"walls"})
<1> DEFINE w == WithWalls(v, g, t)
<1>1. CASE ~v.scene \/ ~g.city[t].walls \/ "walls" \in v.has[t]
  <2>1. w = v
    BY <1>1 DEF WithWalls
  <2> QED BY <2>1, NotTouched
<1>2. CASE ~(~v.scene \/ ~g.city[t].walls \/ "walls" \in v.has[t])
  <2>1. w = IF "walls" \notin v.loaded THEN webgl_get_model(v, "walls", t) ELSE Puts(v, "walls", t)
    BY <1>2 DEF WithWalls
  <2>2. Touched(v, webgl_get_model(v, "walls", t), t, {"walls"})
    BY Models, ModelTouches
  <2>3. Touched(v, Puts(v, "walls", t), t, {"walls"})
    BY <1>2, Kinds, PutsTouches
  <2> QED BY <2>1, <2>2, <2>3
<1> QED BY <1>1, <1>2

LEMMA LightTouches ==
  ASSUME NEW v, Kept(v), NEW t \in Site
  PROVE  Touched(v, WithLight(v, t), t, {"light"})
<1>1. CASE v.scene /\ "light" \notin v.has[t]
  <2>1. WithLight(v, t) = Puts(v, "light", t)
    BY <1>1 DEF WithLight
  <2>2. Touched(v, Puts(v, "light", t), t, {"light"})
    BY <1>1, Kinds, PutsTouches
  <2> QED BY <2>1, <2>2
<1>2. CASE ~(v.scene /\ "light" \notin v.has[t])
  <2>1. WithLight(v, t) = v
    BY <1>2 DEF WithLight
  <2> QED BY <2>1, NotTouched
<1> QED BY <1>1, <1>2

LEMMA DisorderTouches ==
  ASSUME NEW v, Kept(v), NEW g, NEW t \in Site
  PROVE  Touched(v, WithDisorder(v, g, t), t, {"disorder"})
<1>1. \/ WithDisorder(v, g, t) = v
      \/ WithDisorder(v, g, t) = Puts(v, "disorder", t) /\ "disorder" \notin v.has[t]
      \/ WithDisorder(v, g, t) = Cleared(v, {"disorder"}, t)
  BY DEF WithDisorder
<1>2. Touched(v, v, t, {"disorder"})
  BY NotTouched
<1>3. "disorder" \notin v.has[t] => Touched(v, Puts(v, "disorder", t), t, {"disorder"})
  BY Kinds, PutsTouches
<1>4. Touched(v, Cleared(v, {"disorder"}, t), t, {"disorder"})
  BY ClearedTouches
<1> QED BY <1>1, <1>2, <1>3, <1>4

-----------------------------------------------------------------------------
\* The game as the drawing of a city leaves it.
SameGame(g, h) == /\ h \in Games /\ h.at = g.at /\ h.stack = g.stack /\ h.focus = g.focus
                  /\ \A s \in Site : h.city[s].there = g.city[s].there

Cities == [there : BOOLEAN, large : BOOLEAN, walls : BOOLEAN, unhappy : BOOLEAN, library : BOOLEAN,
           added : BOOLEAN, drawn : {"village", "town", Nobody}]

\* One city has been exchanged for another.
Exchanged(g, h, t, c) == /\ h \in Games /\ h.city = [g.city EXCEPT ![t] = c]
                         /\ h.at = g.at /\ h.stack = g.stack /\ h.focus = g.focus

LEMMA CitiesAre == ASSUME NEW g, g \in Games PROVE g.city \in [Site -> Cities]
BY DEF Games, Cities

LEMMA CityExchanged ==
  ASSUME NEW g, g \in Games, NEW t \in Site, NEW c, c \in Cities, NEW h,
         h = [g EXCEPT !.city = [g.city EXCEPT ![t] = c]]
  PROVE  Exchanged(g, h, t, c)
<1> DEFINE cs == [g.city EXCEPT ![t] = c]
<1>1. g.city \in [Site -> Cities]
  BY CitiesAre
<1>2. cs \in [Site -> Cities]
  BY <1>1
<1>4. h = [g EXCEPT !.city = cs]
  OBVIOUS
<1> HIDE DEF cs
<1>3. h \in Games
  BY <1>2, <1>4, ZenonT(60) DEF Games, Cities
<1>5. h.at = g.at /\ h.stack = g.stack /\ h.focus = g.focus /\ h.city = cs
  BY <1>4 DEF Games
<1> QED BY <1>3, <1>5 DEF cs, Exchanged

LEMMA NamedSame ==
  ASSUME NEW g, g \in Games, NEW t \in Site, NEW m \in {"village", "town"}, NEW h,
         h = [g EXCEPT !.city[t].drawn = m]
  PROVE  SameGame(g, h)
<1> DEFINE c == [g.city[t] EXCEPT !.drawn = m]
<1>1. g.city \in [Site -> Cities] /\ g.city[t] \in Cities
  BY CitiesAre
<1>2. c \in Cities /\ c.there = g.city[t].there
  BY <1>1 DEF Cities
<1>3. h = [g EXCEPT !.city = [g.city EXCEPT ![t] = c]]
  BY DEF Games
<1> HIDE DEF c
<1>4. Exchanged(g, h, t, c)
  BY <1>2, <1>3, CityExchanged
<1> QED BY <1>1, <1>2, <1>4 DEF SameGame, Exchanged

LEMMA AddedSame ==
  ASSUME NEW g, g \in Games, NEW t \in Site, NEW h, h = [g EXCEPT !.city[t].added = TRUE]
  PROVE  SameGame(g, h)
<1> DEFINE c == [g.city[t] EXCEPT !.added = TRUE]
<1>1. g.city \in [Site -> Cities] /\ g.city[t] \in Cities
  BY CitiesAre
<1>2. c \in Cities /\ c.there = g.city[t].there
  BY <1>1 DEF Cities
<1>3. h = [g EXCEPT !.city = [g.city EXCEPT ![t] = c]]
  BY DEF Games
<1> HIDE DEF c
<1>4. Exchanged(g, h, t, c)
  BY <1>2, <1>3, CityExchanged
<1> QED BY <1>1, <1>2, <1>4 DEF SameGame, Exchanged

LEMMA SameTwice ==
  ASSUME NEW g, NEW h, NEW i, SameGame(g, h), SameGame(h, i)
  PROVE  SameGame(g, i)
BY DEF SameGame

LEMMA BuildingAdded ==
  ASSUME NEW v, Kept(v), NEW g, g \in Games, NEW t \in Site, NEW b, b \in add_city_building(v, g, t)
  PROVE  /\ Kept(b.scenery) /\ Steady(v, b.scenery) /\ SameGame(g, b.game)
         /\ \A s \in Site : AsBefore(v, b.scenery, s, {"building"})
<1> DEFINE free == {s \in Site : ~g.city[s].there /\ {"city", "building"} \cap v.has[s] = {}}
           m == webgl_get_model(v, "library", t)
<1>0. SameGame(g, g)
  BY DEF SameGame
<1>1. \/ b = Built(v, g)
      \/ b = Built(m, g)
      \/ \E s \in free : b = Built(Puts(v, "building", s), [g EXCEPT !.city[t].added = TRUE])
  BY DEF add_city_building
<1>2. CASE b = Built(v, g)
  <2>1. b.scenery = v /\ b.game = g
    BY <1>2 DEF Built
  <2> QED BY <1>0, <2>1 DEF Steady, AsBefore
<1>3. CASE b = Built(m, g)
  <2>1. b.scenery = m /\ b.game = g
    BY <1>3 DEF Built
  <2>2. Kept(m) /\ Steady(v, m) /\ m.has = v.has
    BY Models, ModelKeeps
  <2> QED BY <1>0, <2>1, <2>2 DEF AsBefore
<1>4. ASSUME NEW s \in free, b = Built(Puts(v, "building", s), [g EXCEPT !.city[t].added = TRUE])
      PROVE  /\ Kept(b.scenery) /\ Steady(v, b.scenery) /\ SameGame(g, b.game)
             /\ \A r \in Site : AsBefore(v, b.scenery, r, {"building"})
  <2> DEFINE w == Puts(v, "building", s)
             h == [g EXCEPT !.city[t].added = TRUE]
  <2>1. b.scenery = w /\ b.game = h
    BY <1>4 DEF Built
  <2>2. s \in Site /\ "building" \notin v.has[s]
    OBVIOUS
  <2>3. Touched(v, w, s, {"building"})
    BY <2>2, Kinds, PutsTouches
  <2>4. SameGame(g, h)
    BY AddedSame
  <2> HIDE DEF w, h
  <2>5. \A r \in Site : AsBefore(v, w, r, {"building"})
    BY <2>3 DEF Touched, AsBefore
  <2> QED BY <2>1, <2>3, <2>4, <2>5 DEF Touched
<1> QED BY <1>1, <1>2, <1>3, <1>4

\* What drawing the city of tile t has done.
CityDrawn(v, w, g, h, t) ==
  /\ Kept(w) /\ Steady(v, w) /\ SameGame(g, h)
  /\ \A s \in Site \ {t} : AsBefore(v, w, s, {"building"})
  /\ AsBefore(v, w, t, CityKinds \cup {"building"})
  /\ Paired(w, t) /\ ("city" \in w.has[t] => g.city[t].there)

\* The ways to draw a city end alike: a building, light, and disorder or not.
LEMMA CityFinished ==
  ASSUME NEW v, NEW g, NEW t \in Site, Paired(v, t), g.city[t].there,
         NEW x, Touched(v, x, t, CityKinds), "city" \in x.has[t],
         NEW f, SameGame(g, f), NEW b, b \in add_city_building(x, f, t),
         NEW w, Touched(b.scenery, w, t, {"light", "disorder"})
  PROVE  CityDrawn(v, w, g, b.game, t)
<1>1. /\ Kept(x) /\ Steady(v, x) /\ AsBefore(v, x, t, CityKinds)
      /\ \A s \in Site \ {t} : x.has[s] = v.has[s]
  BY DEF Touched
<1>2. /\ Kept(b.scenery) /\ Steady(x, b.scenery) /\ SameGame(f, b.game)
      /\ \A s \in Site : AsBefore(x, b.scenery, s, {"building"})
  <2>1. f \in Games
    BY DEF SameGame
  <2> QED BY <1>1, <2>1, BuildingAdded
<1>3. SameGame(g, b.game)
  BY <1>2, SameTwice
<1>4. /\ Kept(w) /\ Steady(b.scenery, w) /\ AsBefore(b.scenery, w, t, {"light", "disorder"})
      /\ \A s \in Site \ {t} : w.has[s] = b.scenery.has[s]
  BY DEF Touched
<1>5. Steady(v, w)
  BY <1>1, <1>2, <1>4 DEF Steady
<1>6. \A s \in Site \ {t} : AsBefore(v, w, s, {"building"})
  BY <1>1, <1>2, <1>4 DEF AsBefore
<1>7. AsBefore(v, w, t, CityKinds \cup {"building"})
  BY <1>1, <1>2, <1>4 DEF AsBefore, CityKinds
<1>8. "city" \in w.has[t]
  BY <1>2, <1>4 DEF AsBefore
<1>9. Paired(w, t)
  <2>1. "flag" \notin CityKinds \cup {"building"} /\ "mesh" \notin CityKinds \cup {"building"}
    BY DEF CityKinds
  <2> QED BY <1>7, <1>8, <2>1 DEF Paired, AsBefore
<1> QED BY <1>3, <1>4, <1>5, <1>6, <1>7, <1>9 DEF CityDrawn

\* A city that waits for its model is drawn no further.
LEMMA CityWaits ==
  ASSUME NEW v, Kept(v), NEW g, NEW h, SameGame(g, h), NEW t \in Site, Paired(v, t),
         "city" \in v.has[t] => g.city[t].there, NEW m \in Model
  PROVE  CityDrawn(v, webgl_get_model(v, m, t), g, h, t)
<1> DEFINE w == webgl_get_model(v, m, t)
<1>1. Kept(w) /\ Steady(v, w) /\ w.has = v.has
  BY ModelKeeps
<1> HIDE DEF w
<1>2. CityDrawn(v, w, g, h, t)
  BY <1>1 DEF CityDrawn, AsBefore, Paired
<1> QED BY <1>2 DEF w

LEMMA ModelsOf ==
  ASSUME NEW c
  PROVE  ModelOf(c) \in {"village", "town"} /\ ModelOf(c) \in Model
BY DEF ModelOf, Model

LEMMA CityAppearsDraws ==
  ASSUME NEW v, Kept(v), NEW g, g \in Games, NEW t \in Site, Paired(v, t),
         "city" \notin v.has[t], g.city[t].there, NEW b, b \in CityAppears(v, g, t)
  PROVE  CityDrawn(v, b.scenery, g, b.game, t)
<1> DEFINE m == ModelOf(g.city[t])
           named == [g EXCEPT !.city[t].drawn = m]
           first == Puts(v, "city", t)
           walled == WithWalls(first, g, t)
           x == Puts(walled, "name", t)
<1>1. b \in IF m \notin v.loaded THEN {Built(webgl_get_model(v, m, t), named)}
            ELSE {Built(WithLight(a.scenery, t), a.game) : a \in add_city_building(x, named, t)}
  BY DEF CityAppears
<1>2. m \in {"village", "town"} /\ m \in Model
  BY ModelsOf
<1> HIDE DEF m
<1>3. SameGame(g, named)
  BY <1>2, NamedSame
<1>4. Touched(v, first, t, {"city"}) /\ "city" \in first.has[t]
  BY Kinds, PutsTouches
<1>5. Touched(first, walled, t, {"walls"})
  <2>1. Kept(first)
    BY <1>4 DEF Touched
  <2> QED BY <2>1, WallsTouch
<1> HIDE DEF first, walled, named
<1>6. "name" \notin walled.has[t] /\ "city" \in walled.has[t] /\ Kept(walled)
  <2>1. "name" \notin v.has[t]
    BY DEF Paired, CityKinds
  <2> QED BY <1>4, <1>5, <2>1 DEF Touched, AsBefore
<1>7. Touched(walled, x, t, {"name"})
  BY <1>6, Kinds, PutsTouches
<1> HIDE DEF x
<1>8. Touched(v, x, t, CityKinds) /\ "city" \in x.has[t]
  BY <1>4, <1>5, <1>6, <1>7 DEF Touched, Steady, AsBefore, CityKinds
<1>9. CASE m \notin v.loaded
  <2>1. b = Built(webgl_get_model(v, m, t), named)
    BY <1>1, <1>9
  <2>2. b.scenery = webgl_get_model(v, m, t) /\ b.game = named
    BY <2>1 DEF Built
  <2> QED BY <1>2, <1>3, <2>2, CityWaits
<1>10. CASE m \in v.loaded
  <2>1. PICK a \in add_city_building(x, named, t) : b = Built(WithLight(a.scenery, t), a.game)
    BY <1>1, <1>10
  <2>2. b.scenery = WithLight(a.scenery, t) /\ b.game = a.game
    BY <2>1 DEF Built
  <2>3. named \in Games /\ Kept(x)
    BY <1>3, <1>8 DEF SameGame, Touched
  <2>4. Kept(a.scenery)
    BY <2>3, BuildingAdded
  <2>5. Touched(a.scenery, WithLight(a.scenery, t), t, {"light"})
    BY <2>4, LightTouches
  <2>6. Touched(a.scenery, b.scenery, t, {"light", "disorder"})
    BY <2>2, <2>5 DEF Touched, AsBefore
  <2>7. CityDrawn(v, b.scenery, g, a.game, t)
    BY <1>3, <1>8, <2>6, CityFinished
  <2> QED BY <2>2, <2>7
<1> QED BY <1>9, <1>10

LEMMA CityRedrawnDraws ==
  ASSUME NEW v, Kept(v), NEW g, g \in Games, NEW t \in Site, Paired(v, t),
         "city" \in v.has[t], g.city[t].there, NEW b, b \in CityRedrawn(v, g, t)
  PROVE  CityDrawn(v, b.scenery, g, b.game, t)
<1> DEFINE m == ModelOf(g.city[t])
           grows == m # g.city[t].drawn
           razed == IF v.scene /\ g.city[t].walls THEN Cleared(v, {"walls"}, t) ELSE v
           freed == Cleared(razed, {"city"}, t)
           resized == Puts(freed, "city", t)
           sized == IF grows THEN resized ELSE v
           named == [g EXCEPT !.city[t].drawn = m]
           x == WithWalls(sized, g, t)
           ended(a) == WithDisorder(WithLight(a.scenery, t), a.game, t)
<1>1. b \in IF grows /\ m \notin v.loaded THEN {Built(webgl_get_model(v, m, t), g)}
            ELSE {Built(ended(a), a.game) : a \in add_city_building(x, named, t)}
  BY DEF CityRedrawn
<1>2. m \in {"village", "town"} /\ m \in Model
  BY ModelsOf
<1> HIDE DEF m
<1>3. SameGame(g, named) /\ SameGame(g, g)
  <2>1. SameGame(g, named)
    BY <1>2, NamedSame
  <2> QED BY <2>1 DEF SameGame
<1>4. Touched(v, razed, t, {"walls"})
  <2>1. Touched(v, v, t, {"walls"})
    BY NotTouched
  <2>2. Touched(v, Cleared(v, {"walls"}, t), t, {"walls"})
    BY ClearedTouches
  <2> QED BY <2>1, <2>2
<1>5. Touched(razed, freed, t, {"city"}) /\ "city" \notin freed.has[t]
  <2>1. Kept(razed)
    BY <1>4 DEF Touched
  <2> HIDE DEF razed
  <2> QED BY <2>1, ClearedTouches
<1>6. Touched(freed, resized, t, {"city"}) /\ "city" \in resized.has[t]
  <2>1. Kept(freed)
    BY <1>5 DEF Touched
  <2> HIDE DEF freed
  <2> QED BY <1>5, <2>1, Kinds, PutsTouches
<1> HIDE DEF razed, freed, resized
<1>7. Touched(v, resized, t, {"walls", "city"})
  BY <1>4, <1>5, <1>6 DEF Touched, Steady, AsBefore
<1>8. Touched(v, sized, t, {"walls", "city"}) /\ "city" \in sized.has[t]
  <2>1. Touched(v, v, t, {"walls", "city"})
    BY NotTouched
  <2> QED BY <1>6, <1>7, <2>1
<1> HIDE DEF sized, named
<1>9. Touched(sized, x, t, {"walls"})
  <2>1. Kept(sized)
    BY <1>8 DEF Touched
  <2> QED BY <2>1, WallsTouch
<1> HIDE DEF x
<1>10. Touched(v, x, t, CityKinds) /\ "city" \in x.has[t]
  BY <1>8, <1>9 DEF Touched, Steady, AsBefore, CityKinds
<1>11. CASE grows /\ m \notin v.loaded
  <2>1. b = Built(webgl_get_model(v, m, t), g)
    BY <1>1, <1>11
  <2>2. b.scenery = webgl_get_model(v, m, t) /\ b.game = g
    BY <2>1 DEF Built
  <2>3. CityDrawn(v, webgl_get_model(v, m, t), g, g, t)
    BY <1>2, <1>3, CityWaits
  <2> QED BY <2>2, <2>3
<1>12. CASE ~(grows /\ m \notin v.loaded)
  <2>1. PICK a \in add_city_building(x, named, t) : b = Built(ended(a), a.game)
    BY <1>1, <1>12
  <2>2. b.scenery = ended(a) /\ b.game = a.game
    BY <2>1 DEF Built
  <2>3. named \in Games /\ Kept(x)
    BY <1>3, <1>10 DEF SameGame, Touched
  <2>4. Kept(a.scenery)
    BY <2>3, BuildingAdded
  <2> DEFINE l == WithLight(a.scenery, t)
  <2>5. Touched(a.scenery, l, t, {"light"})
    BY <2>4, LightTouches
  <2> HIDE DEF l
  <2>6. Touched(l, WithDisorder(l, a.game, t), t, {"disorder"})
    <3>1. Kept(l)
      BY <2>5 DEF Touched
    <3> QED BY <3>1, DisorderTouches
  <2>7. Touched(l, b.scenery, t, {"disorder"})
    BY <2>2, <2>6 DEF l
  <2>8. Touched(a.scenery, b.scenery, t, {"light", "disorder"})
    BY <2>5, <2>7 DEF Touched, Steady, AsBefore
  <2>9. CityDrawn(v, b.scenery, g, a.game, t)
    BY <1>3, <1>10, <2>8, CityFinished
  <2> QED BY <2>2, <2>9
<1> QED BY <1>11, <1>12

LEMMA CitiesAreDrawn ==
  ASSUME NEW v, Kept(v), NEW g, g \in Games, NEW t \in Site, Paired(v, t),
         NEW b, b \in update_city_position(v, g, t)
  PROVE  CityDrawn(v, b.scenery, g, b.game, t)
<1>1. CASE g.city[t].there /\ "city" \in v.has[t]
  <2>1. b \in CityRedrawn(v, g, t)
    BY <1>1 DEF update_city_position
  <2> QED BY <1>1, <2>1, CityRedrawnDraws
<1>2. CASE g.city[t].there /\ "city" \notin v.has[t]
  <2>1. b \in CityAppears(v, g, t)
    BY <1>2 DEF update_city_position
  <2> QED BY <1>2, <2>1, CityAppearsDraws
<1>3. CASE ~g.city[t].there
  <2>0. SameGame(g, g)
    BY DEF SameGame
  <2>1. b = Built(IF "city" \in v.has[t] THEN NoCityShown(v, t) ELSE v, g)
    BY <1>3 DEF update_city_position
  <2>2. b.game = g /\ b.scenery = IF "city" \in v.has[t] THEN NoCityShown(v, t) ELSE v
    BY <2>1 DEF Built
  <2>3. CASE "city" \in v.has[t]
    <3> DEFINE w == NoCityShown(v, t)
    <3>1. Touched(v, w, t, CityKinds) /\ \A k \in CityKinds : k \notin w.has[t]
      BY ClearedTouches DEF NoCityShown
    <3> HIDE DEF w
    <3>2. Paired(w, t)
      <4>1. "flag" \notin CityKinds /\ "mesh" \notin CityKinds
        BY DEF CityKinds
      <4> QED BY <3>1, <4>1 DEF Touched, AsBefore, Paired
    <3>3. "city" \notin w.has[t]
      BY <3>1 DEF CityKinds
    <3>4. CityDrawn(v, w, g, g, t)
      BY <2>0, <3>1, <3>2, <3>3 DEF CityDrawn, Touched, AsBefore
    <3> QED BY <2>2, <2>3, <3>4 DEF w
  <2>4. CASE "city" \notin v.has[t]
    <3>1. CityDrawn(v, v, g, g, t)
      BY <2>0, <2>4 DEF CityDrawn, Steady, AsBefore
    <3> QED BY <2>2, <2>4, <3>1
  <2> QED BY <2>3, <2>4
<1> QED BY <1>1, <1>2, <1>3

LEMMA ExtrasTouch ==
  ASSUME NEW v, Kept(v), NEW g, NEW t \in Site, NEW w, w \in update_tile_extras(v, g, t)
  PROVE  Touched(v, w, t, {"extra", "trees"})
<1> DEFINE x == update_tile_extra_update_model(v, g, t)
           y == update_tile_forest(x, g, t)
<1>0. w \in update_tile_cactus(y, g, t)
  BY DEF update_tile_extras
<1>1. Touched(v, x, t, {"extra"})
  <2> DEFINE m == IF "pollution" \in g.extras[t] THEN "pollution" ELSE "mine"
  <2>1. \/ x = v
        \/ x = Cleared(v, {"extra"}, t)
        \/ x = webgl_get_model(v, m, t)
        \/ x = Puts(v, "extra", t) /\ "extra" \notin v.has[t]
    BY DEF update_tile_extra_update_model
  <2>2. Touched(v, v, t, {"extra"})
    BY NotTouched
  <2>3. Touched(v, Cleared(v, {"extra"}, t), t, {"extra"})
    BY ClearedTouches
  <2>4. Touched(v, webgl_get_model(v, m, t), t, {"extra"})
    <3>1. m \in Model
      BY DEF Model
    <3> HIDE DEF m
    <3> QED BY <3>1, ModelTouches
  <2>5. "extra" \notin v.has[t] => Touched(v, Puts(v, "extra", t), t, {"extra"})
    BY Kinds, PutsTouches
  <2> HIDE DEF x
  <2> QED BY <2>1, <2>2, <2>3, <2>4, <2>5
<1> HIDE DEF x
<1>2. Touched(x, y, t, {"trees"})
  <2>0. Kept(x)
    BY <1>1 DEF Touched
  <2>1. \/ y = x
        \/ y = Puts(x, "trees", t) /\ "trees" \notin x.has[t]
        \/ y = Cleared(x, {"trees"}, t)
    BY DEF update_tile_forest
  <2>2. Touched(x, x, t, {"trees"})
    BY <2>0, NotTouched
  <2>3. Touched(x, Cleared(x, {"trees"}, t), t, {"trees"})
    BY <2>0, ClearedTouches
  <2>4. "trees" \notin x.has[t] => Touched(x, Puts(x, "trees", t), t, {"trees"})
    BY <2>0, Kinds, PutsTouches
  <2> QED BY <2>1, <2>2, <2>3, <2>4
<1> HIDE DEF y
<1>3. Touched(y, w, t, {"trees"})
  <2>0. Kept(y)
    BY <1>2 DEF Touched
  <2>1. w = y \/ (w = Puts(y, "trees", t) /\ "trees" \notin y.has[t])
    BY <1>0 DEF update_tile_cactus
  <2>2. Touched(y, y, t, {"trees"})
    BY <2>0, NotTouched
  <2>3. "trees" \notin y.has[t] => Touched(y, Puts(y, "trees", t), t, {"trees"})
    BY <2>0, Kinds, PutsTouches
  <2> QED BY <2>1, <2>2, <2>3
<1> QED BY <1>1, <1>2, <1>3 DEF Touched, Steady, AsBefore

-----------------------------------------------------------------------------
\* The tables are in order, whatever they show.
Orderly(v) == Kept(v) /\ (v.ring # Nobody => v.scene) /\ \A t \in Site : Paired(v, t)

Manned(v, g, t) == "mesh" \in v.has[t] => g.stack[t] # <<>>
Settled(v, g, t) == "city" \in v.has[t] => g.city[t].there

LEMMA FaithfulIs ==
  ASSUME NEW v, NEW g
  PROVE  Faithful(v, g) <=> /\ Orderly(v) /\ Played(g) /\ RingRight(v, g)
                            /\ \A t \in Site : Manned(v, g, t) /\ Settled(v, g, t)
BY DEF Faithful, Orderly, Manned, Settled, Peopled, RingRight

\* Drawing the units of a tile keeps what is right and puts that tile right.
DrawnRight(v, w, g, t) ==
  /\ Orderly(w) /\ Manned(w, g, t)
  /\ \A s \in Site : (Manned(v, g, s) => Manned(w, g, s)) /\ (Settled(v, g, s) => Settled(w, g, s))
  /\ RingRight(v, g) \/ (g.focus # Nobody /\ g.at[g.focus] = t) => RingRight(w, g)

LEMMA UnitsPutRight ==
  ASSUME NEW v, Orderly(v), NEW g, Played(g), NEW t \in Site,
         NEW w, w = update_unit_position(v, g, t)
  PROVE  DrawnRight(v, w, g, t)
<1>1. UnitsDrawn(v, w, g, t)
  BY UnitsAreDrawn DEF Orderly, Played
<1>2. /\ Kept(w) /\ w.scene = v.scene
      /\ \A s \in Site \ {t} : w.has[s] = v.has[s]
      /\ AsBefore(v, w, t, UnitKinds)
      /\ Paired(w, t) /\ ("mesh" \in w.has[t] => g.stack[t] # <<>>)
  BY <1>1 DEF UnitsDrawn, Orderly
<1>3. /\ \/ w.ring = v.ring
         \/ v.scene /\ w.ring = Nobody
         \/ v.scene /\ w.ring = t /\ g.focus # Nobody /\ g.at[g.focus] = t
      /\ v.scene /\ g.focus # Nobody /\ g.at[g.focus] = t =>
           w.ring \in {t, Nobody} \/ "mesh" \notin w.has[t]
  BY <1>1 DEF UnitsDrawn
<1>4. Orderly(w)
  BY <1>2, <1>3 DEF Orderly, Paired
<1>5. Manned(w, g, t) /\ \A s \in Site : Manned(v, g, s) => Manned(w, g, s)
  BY <1>2 DEF Manned
<1>6. \A s \in Site : Settled(v, g, s) => Settled(w, g, s)
  <2>1. "city" \notin UnitKinds
    BY DEF UnitKinds
  <2> QED BY <1>2, <2>1 DEF Settled, AsBefore
<1>7. ASSUME g.focus # Nobody, g.at[g.focus] = t PROVE RingRight(w, g)
  BY <1>2, <1>3, <1>7 DEF RingRight, Orderly
<1>8. ASSUME RingRight(v, g), ~(g.focus # Nobody /\ g.at[g.focus] = t) PROVE RingRight(w, g)
  <2>1. g.focus # Nobody => g.at[g.focus] \in Site \ {t}
    BY <1>8 DEF Played, Attentive
  <2> QED BY <1>2, <1>3, <1>8, <2>1 DEF RingRight
<1> QED BY <1>4, <1>5, <1>6, <1>7, <1>8 DEF DrawnRight

LEMMA UnitsStayFaithful ==
  ASSUME NEW v, NEW g, Faithful(v, g), NEW t \in Site
  PROVE  Faithful(update_unit_position(v, g, t), g)
<1> DEFINE w == update_unit_position(v, g, t)
<1>1. /\ Orderly(v) /\ Played(g) /\ RingRight(v, g)
      /\ \A s \in Site : Manned(v, g, s) /\ Settled(v, g, s)
  BY FaithfulIs
<1>2. /\ Orderly(w) /\ \A s \in Site : Manned(w, g, s) /\ Settled(w, g, s)
      /\ RingRight(w, g)
  <2>1. DrawnRight(v, w, g, t)
    BY <1>1, UnitsPutRight
  <2> HIDE DEF w
  <2> QED BY <1>1, <2>1 DEF DrawnRight
<1> HIDE DEF w
<1>3. Faithful(w, g)
  BY <1>1, <1>2, FaithfulIs
<1> QED BY <1>3 DEF w

LEMMA GameLikewise ==
  ASSUME NEW g, NEW h, SameGame(g, h), Played(g)
  PROVE  Played(h)
BY DEF SameGame, Played, Stacked, Attentive

\* Drawing a city keeps what is right and puts its tile right.
LEMMA CityPutRight ==
  ASSUME NEW v, Orderly(v), NEW g, Played(g), RingRight(v, g), NEW t \in Site,
         \A s \in Site : Manned(v, g, s), \A s \in Site \ {t} : Settled(v, g, s),
         NEW b, b \in update_city_position(v, g, t)
  PROVE  Faithful(b.scenery, b.game)
<1> DEFINE w == b.scenery
           h == b.game
<1>1. CityDrawn(v, w, g, h, t)
  BY CitiesAreDrawn DEF Orderly, Played
<1> HIDE DEF w, h
<1>2. /\ Kept(w) /\ Steady(v, w) /\ SameGame(g, h)
      /\ \A s \in Site \ {t} : AsBefore(v, w, s, {"building"})
      /\ AsBefore(v, w, t, CityKinds \cup {"building"})
      /\ Paired(w, t) /\ ("city" \in w.has[t] => g.city[t].there)
  BY <1>1 DEF CityDrawn
<1>3. Played(h)
  BY <1>2, GameLikewise
<1>4. \A s \in Site \ {t} : Paired(w, s)
  BY <1>2 DEF Orderly, Paired, AsBefore, CityKinds
<1>5. \A s \in Site : "mesh" \in w.has[s] <=> "mesh" \in v.has[s]
  BY <1>2 DEF AsBefore, CityKinds
<1>6. \A s \in Site : Manned(w, h, s)
  BY <1>2, <1>5 DEF Manned, SameGame
<1>7. \A s \in Site : Settled(w, h, s)
  BY <1>2 DEF Settled, SameGame, AsBefore
<1>8. RingRight(w, h)
  BY <1>2, <1>5 DEF RingRight, Played, Attentive, SameGame, Steady
<1>9. Orderly(w)
  BY <1>2, <1>4 DEF Orderly, Steady
<1>10. Faithful(w, h)
  BY <1>3, <1>6, <1>7, <1>8, <1>9, FaithfulIs
<1> QED BY <1>10 DEF w, h

LEMMA CityStaysFaithful ==
  ASSUME NEW v, NEW g, Faithful(v, g), NEW t \in Site, NEW b, b \in update_city_position(v, g, t)
  PROVE  Faithful(b.scenery, b.game)
<1>1. /\ Orderly(v) /\ Played(g) /\ RingRight(v, g)
      /\ \A s \in Site : Manned(v, g, s) /\ Settled(v, g, s)
  BY FaithfulIs
<1> QED BY <1>1, CityPutRight

\* What changes nothing of units and cities keeps the view faithful.
LEMMA LeavesFaithful ==
  ASSUME NEW v, NEW w, NEW g, Faithful(v, g), Kept(w), Steady(v, w),
         \A s \in Site : AsBefore(v, w, s, {"building", "extra", "trees"})
  PROVE  Faithful(w, g)
<1>1. \A s \in Site : Paired(w, s) /\ Peopled(w, g, s)
  BY DEF Faithful, Paired, Peopled, AsBefore, CityKinds
<1>2. RingRight(w, g)
  BY DEF Faithful, RingRight, Played, Attentive, Steady, AsBefore
<1> QED BY <1>1, <1>2 DEF Faithful

LEMMA ExtrasStayFaithful ==
  ASSUME NEW v, NEW g, Faithful(v, g), NEW t \in Site, NEW w, w \in update_tile_extras(v, g, t)
  PROVE  Faithful(w, g)
<1>1. Touched(v, w, t, {"extra", "trees"})
  BY ExtrasTouch DEF Faithful
<1>2. /\ Kept(w) /\ Steady(v, w)
      /\ \A s \in Site : AsBefore(v, w, s, {"building", "extra", "trees"})
  BY <1>1 DEF Touched, AsBefore
<1> QED BY <1>2, LeavesFaithful

-----------------------------------------------------------------------------
\* The element that a fold takes out of a set, and a fold with the steps D.
Picked(s) == CHOOSE x \in s : TRUE

FoldsTo(it, S, base, D) ==
  it = [s \in SUBSET S |-> IF s = {} THEN base ELSE D[Picked(s)][it[s \ {Picked(s)}]]]

\* What is true of the empty set, and of a set when it is true of the set
\* without one of its elements, is true of every finite set.
LEMMA OneByOne ==
  ASSUME NEW S, IsFiniteSet(S), NEW T, {} \in T,
         \A s \in SUBSET S : s # {} /\ s \ {Picked(s)} \in T => s \in T
  PROVE  S \in T
<1> DEFINE N == {n \in Nat : \A s \in SUBSET S : Cardinality(s) = n => s \in T}
<1>1. \A s \in SUBSET S : IsFiniteSet(s) /\ Cardinality(s) \in Nat
  BY FS_Subset, FS_CardinalityType
<1>2. 0 \in N
  BY <1>1, FS_EmptySet
<1>3. ASSUME NEW n \in Nat, n \in N PROVE n + 1 \in N
  <2> SUFFICES ASSUME NEW s \in SUBSET S, Cardinality(s) = n + 1 PROVE s \in T
    OBVIOUS
  <2> DEFINE x == Picked(s)
  <2>1. s # {}
    BY <1>3, FS_EmptySet
  <2>2. x \in s
    BY <2>1 DEF Picked
  <2> HIDE DEF x
  <2>3. Cardinality(s \ {x}) = n
    <3>1. IsFiniteSet(s)
      BY <1>1
    <3>2. Cardinality(s \ {x}) = Cardinality(s) - 1
      BY <2>2, <3>1, FS_RemoveElement
    <3> QED BY <3>2
  <2>4. s \ {x} \in SUBSET S
    OBVIOUS
  <2>5. s \ {x} \in T
    BY <1>3, <2>3, <2>4
  <2> QED BY <2>1, <2>5 DEF x
<1> HIDE DEF N
<1>4. Nat \subseteq N
  BY <1>2, <1>3, Induct
<1> QED BY <1>1, <1>4 DEF N

\* A fold over a finite set whose steps stay within V is a function into V.
LEMMA FoldsWithin ==
  ASSUME NEW S, IsFiniteSet(S), NEW V, NEW base \in V, NEW D, D \in [S -> [V -> V]]
  PROVE  \E it \in [SUBSET S -> V] : FoldsTo(it, S, base, D)
<1> DEFINE Small(n) == {s \in SUBSET S : Cardinality(s) <= n}
           Right(f, n) == \A s \in Small(n) :
                             f[s] = IF s = {} THEN base ELSE D[Picked(s)][f[s \ {Picked(s)}]]
           N == {n \in Nat : \E f \in [Small(n) -> V] : Right(f, n)}
<1>1. \A s \in SUBSET S : IsFiniteSet(s) /\ Cardinality(s) \in Nat
  BY FS_Subset, FS_CardinalityType
<1>2. \A s \in SUBSET S : s # {} => /\ Picked(s) \in s /\ Picked(s) \in S /\ s \ {Picked(s)} \in SUBSET S
                                   /\ Cardinality(s \ {Picked(s)}) = Cardinality(s) - 1
  BY <1>1, FS_RemoveElement DEF Picked
<1>3. \A s \in SUBSET S : Cardinality(s) = 0 <=> s = {}
  BY <1>1, FS_EmptySet
<1>4. 0 \in N
  <2> DEFINE f == [s \in Small(0) |-> base]
  <2>1. \A s \in Small(0) : s = {}
    BY <1>1, <1>3
  <2>2. f \in [Small(0) -> V]
    OBVIOUS
  <2>3. Right(f, 0)
    BY <2>1
  <2> HIDE DEF f, Small, Right
  <2> QED BY <2>2, <2>3
<1>5. ASSUME NEW n \in Nat, n \in N PROVE n + 1 \in N
  <2>1. PICK f \in [Small(n) -> V] : Right(f, n)
    BY <1>5
  <2> DEFINE e(s) == IF s = {} THEN base ELSE D[Picked(s)][f[s \ {Picked(s)}]]
             h == [s \in Small(n + 1) |-> e(s)]
  <2>2. \A s \in Small(n + 1) : s # {} => Picked(s) \in S /\ s \ {Picked(s)} \in Small(n)
    BY <1>1, <1>2
  <2>3. \A s \in Small(n + 1) : e(s) \in V
    BY <2>2
  <2>4. h \in [Small(n + 1) -> V]
    BY <2>3
  <2>5. \A s \in Small(n) : s \in Small(n + 1) /\ f[s] = e(s)
    BY <1>1, <2>1
  <2>6. \A s \in Small(n) : h[s] = f[s]
    BY <2>5
  <2>7. \A s \in Small(n + 1) : h[s] = e(s)
    OBVIOUS
  <2> HIDE DEF h, Small
  <2>8. Right(h, n + 1)
    BY <2>2, <2>6, <2>7
  <2>9. n + 1 \in Nat
    OBVIOUS
  <2> HIDE DEF Right
  <2> QED BY <2>4, <2>8, <2>9
<1> HIDE DEF N
<1>6. Nat \subseteq N
  BY <1>4, <1>5, Induct
<1>7. Cardinality(S) \in N
  BY <1>1, <1>6
<1>8. PICK f \in [Small(Cardinality(S)) -> V] : Right(f, Cardinality(S))
  BY <1>7 DEF N
<1>9. Small(Cardinality(S)) = SUBSET S
  BY <1>1, FS_Subset
<1>10. f \in [SUBSET S -> V]
  BY <1>8, <1>9
<1> HIDE DEF Small
<1>11. \A s \in SUBSET S : f[s] = IF s = {} THEN base ELSE D[Picked(s)][f[s \ {Picked(s)}]]
  BY <1>8, <1>9
<1>12. f = [s \in SUBSET S |-> IF s = {} THEN base ELSE D[Picked(s)][f[s \ {Picked(s)}]]]
  BY <1>10, <1>11
<1> QED BY <1>10, <1>12 DEF FoldsTo

LEMMA RedrawStaysFaithful ==
  ASSUME NEW v, NEW g, Faithful(v, g), NEW sites \in SUBSET Site
  PROVE  Faithful(Redraw(v, g, sites), g)
<1> DEFINE V == {w \in Views : Faithful(w, g)}
           D == [t \in sites |-> [w \in V |-> update_unit_position(w, g, t)]]
           Right(it) == it = [s \in SUBSET sites |->
                                IF s = {} THEN v
                                ELSE update_unit_position(it[s \ {Picked(s)}], g, Picked(s))]
           r == CHOOSE it : Right(it)
<1>1. IsFiniteSet(sites)
  BY SceneAssumption, FS_Subset
<1>2. v \in V
  BY DEF Faithful, Kept
<1>3. \A t \in sites : \A w \in V : update_unit_position(w, g, t) \in V
  <2> SUFFICES ASSUME NEW t \in sites, NEW w \in V
               PROVE  update_unit_position(w, g, t) \in V
    OBVIOUS
  <2>1. Faithful(update_unit_position(w, g, t), g)
    BY UnitsStayFaithful
  <2> QED BY <2>1 DEF Faithful, Kept
<1> HIDE DEF V
<1>4. D \in [sites -> [V -> V]]
  BY <1>3
<1>5. \A t \in sites : \A w \in V : D[t][w] = update_unit_position(w, g, t)
  OBVIOUS
<1> HIDE DEF D
<1>6. PICK it \in [SUBSET sites -> V] : FoldsTo(it, sites, v, D)
  BY <1>1, <1>2, <1>4, FoldsWithin
<1>7. \A s \in SUBSET sites : s # {} => Picked(s) \in sites /\ s \ {Picked(s)} \in SUBSET sites
  BY DEF Picked
<1>8. \A s \in SUBSET sites :
        s # {} => D[Picked(s)][it[s \ {Picked(s)}]] = update_unit_position(it[s \ {Picked(s)}], g, Picked(s))
  BY <1>5, <1>6, <1>7
<1>9. Right(it)
  BY <1>6, <1>8 DEF FoldsTo
<1>10. Right(r)
  <2> HIDE DEF Right
  <2> QED BY <1>9
<1>11. Redraw(v, g, sites) = r[sites]
  BY DEF Redraw, FoldSet, MapThenFoldSet, Picked
<1> HIDE DEF r
<1>12. \A s \in SUBSET sites :
         r[s] = IF s = {} THEN v ELSE update_unit_position(r[s \ {Picked(s)}], g, Picked(s))
  BY <1>10
<1> DEFINE T == {s \in SUBSET sites : r[s] \in V}
<1>13. {} \in T
  BY <1>2, <1>12
<1>14. \A s \in SUBSET sites : s # {} /\ s \ {Picked(s)} \in T => s \in T
  <2> SUFFICES ASSUME NEW s \in SUBSET sites, s # {}, r[s \ {Picked(s)}] \in V
               PROVE  r[s] \in V
    OBVIOUS
  <2>1. r[s] = update_unit_position(r[s \ {Picked(s)}], g, Picked(s))
    BY <1>12
  <2> QED BY <1>3, <1>7, <2>1
<1> HIDE DEF T
<1>15. sites \in T
  BY <1>1, <1>13, <1>14, OneByOne
<1>16. r[sites] \in V
  BY <1>15 DEF T
<1> QED BY <1>11, <1>16 DEF V

\* Pairs of a view and a game that it shows as it is.
Fair == {b \in {Built(w, h) : w \in Views, h \in Games} : Faithful(b.scenery, b.game)}

LEMMA BuiltIs ==
  ASSUME NEW v, NEW g
  PROVE  Built(v, g).scenery = v /\ Built(v, g).game = g
BY DEF Built

LEMMA FairIs ==
  ASSUME NEW v, NEW g, Faithful(v, g)
  PROVE  Built(v, g) \in Fair
<1>1. v \in Views /\ g \in Games
  BY DEF Faithful, Kept, Played
<1> QED BY <1>1, BuiltIs DEF Fair

LEMMA CityDrawsFair ==
  ASSUME NEW v, NEW g, Faithful(v, g), NEW t \in Site
  PROVE  DrawCity(v, g, t) \in SUBSET Fair
<1> SUFFICES ASSUME NEW b \in update_city_position(v, g, t) PROVE b \in Fair
  BY DEF DrawCity
<1>1. Faithful(b.scenery, b.game)
  BY CityStaysFaithful
<1>2. \E w, h : b = Built(w, h)
  BY DEF update_city_position, CityRedrawn, CityAppears
<1>3. b = Built(b.scenery, b.game)
  BY <1>2, BuiltIs
<1> QED BY <1>1, <1>3, FairIs

LEMMA ExtrasDrawFair ==
  ASSUME NEW v, NEW g, Faithful(v, g), NEW t \in Site
  PROVE  DrawExtras(v, g, t) \in SUBSET Fair
<1> SUFFICES ASSUME NEW w \in update_tile_extras(v, g, t) PROVE Built(w, g) \in Fair
  BY DEF DrawExtras
<1>1. Faithful(w, g)
  BY ExtrasStayFaithful
<1> QED BY <1>1, FairIs

\* A model's arrival, or failure, changes no table of objects.
LEMMA ModelsStayFaithful ==
  ASSUME NEW v, NEW g, Faithful(v, g), NEW w \in Views, w.has = v.has, w.stray = v.stray,
         w.scene = v.scene, w.ring = v.ring
  PROVE  Faithful(w, g)
<1>1. Kept(w) /\ Steady(v, w)
  BY DEF Faithful, Kept, Steady
<1> QED BY <1>1, LeavesFaithful DEF AsBefore

LEMMA LoadedDrawsFair ==
  ASSUME NEW m, NEW v, NEW g, Faithful(v, g), NEW t \in Site
  PROVE  LoadedTile(m, v, g, t) \in SUBSET Fair
<1> DEFINE u == update_unit_position(v, g, t)
<1>1. Faithful(u, g)
  BY UnitsStayFaithful
<1> HIDE DEF u
<1>2. DrawCity(u, g, t) \in SUBSET Fair
  BY <1>1, CityDrawsFair
<1>3. \A b \in DrawCity(u, g, t) : DrawExtras(b.scenery, b.game, t) \in SUBSET Fair
  BY <1>2, ExtrasDrawFair DEF Fair
<1>4. ASSUME NEW d \in Fair
      PROVE  Built([d.scenery EXCEPT !.wanted[t] = Nobody, !.asked = @ \ {m}], d.game) \in Fair
  <2> DEFINE x == d.scenery
             w == [x EXCEPT !.wanted[t] = Nobody, !.asked = @ \ {m}]
             now == [x.wanted EXCEPT ![t] = Nobody]
  <2>1. Faithful(x, d.game)
    BY DEF Fair
  <2>2. x \in Views
    BY <2>1 DEF Faithful, Kept
  <2> HIDE DEF x
  <2>3. w = [x EXCEPT !.wanted = now, !.asked = x.asked \ {m}]
    BY <2>2 DEF Views
  <2>4. now \in [Site -> Model \cup {Nobody}] /\ x.asked \ {m} \in SUBSET Model
    BY <2>2 DEF Views
  <2> HIDE DEF now
  <2>5. w \in Views
    BY <2>2, <2>3, <2>4, ZenonT(60) DEF Views
  <2>6. w.has = x.has /\ w.stray = x.stray /\ w.scene = x.scene /\ w.ring = x.ring
    BY <2>2, <2>3 DEF Views
  <2> HIDE DEF w
  <2>7. Faithful(w, d.game)
    BY <2>1, <2>5, <2>6, ModelsStayFaithful
  <2>8. Built(w, d.game) \in Fair
    BY <2>7, FairIs
  <2> QED BY <2>8 DEF w, x
<1> SUFFICES ASSUME NEW d \in UNION {DrawExtras(b.scenery, b.game, t) : b \in DrawCity(u, g, t)}
             PROVE  Built([d.scenery EXCEPT !.wanted[t] = Nobody, !.asked = @ \ {m}], d.game) \in Fair
  BY DEF LoadedTile, u
<1>5. d \in Fair
  BY <1>3
<1> QED BY <1>4, <1>5

\* Drawing cities, extras, or the tiles that waited for a model, one after the other.
LEMMA CitiesInTurn ==
  ASSUME NEW drawn \in SUBSET Fair, NEW sites \in SUBSET Site
  PROVE  Each(DrawCity, drawn, sites) \in SUBSET Fair
<1> DEFINE V == SUBSET Fair
           next(bs, t) == UNION {DrawCity(b.scenery, b.game, t) : b \in bs}
           D == [t \in sites |-> [bs \in V |-> next(bs, t)]]
           Right(it) == it = [s \in SUBSET sites |->
                                IF s = {} THEN drawn ELSE next(it[s \ {Picked(s)}], Picked(s))]
           r == CHOOSE it : Right(it)
<1>1. IsFiniteSet(sites)
  BY SceneAssumption, FS_Subset
<1>2. Each(DrawCity, drawn, sites) = r[sites]
  BY DEF Each, FoldSet, MapThenFoldSet, Picked
<1>3. \A t \in sites : \A bs \in V : next(bs, t) \in V
  <2>1. \A t \in sites : \A b \in Fair : DrawCity(b.scenery, b.game, t) \in SUBSET Fair
    BY CityDrawsFair DEF Fair
  <2> QED BY <2>1
<1> HIDE DEF next
<1>4. D \in [sites -> [V -> V]]
  BY <1>3
<1>5. \A t \in sites : \A bs \in V : D[t][bs] = next(bs, t)
  OBVIOUS
<1> HIDE DEF D, V
<1>6. PICK it \in [SUBSET sites -> V] : FoldsTo(it, sites, drawn, D)
  <2>1. drawn \in V
    BY DEF V
  <2> QED BY <1>1, <1>4, <2>1, FoldsWithin
<1>7. \A s \in SUBSET sites : s # {} => Picked(s) \in sites /\ s \ {Picked(s)} \in SUBSET sites
  BY DEF Picked
<1>8. \A s \in SUBSET sites :
        s # {} => D[Picked(s)][it[s \ {Picked(s)}]] = next(it[s \ {Picked(s)}], Picked(s))
  BY <1>5, <1>6, <1>7
<1>9. Right(it)
  BY <1>6, <1>8 DEF FoldsTo
<1>10. Right(r)
  <2> HIDE DEF Right
  <2> QED BY <1>9
<1> HIDE DEF r
<1>11. \A s \in SUBSET sites :
         r[s] = IF s = {} THEN drawn ELSE next(r[s \ {Picked(s)}], Picked(s))
  BY <1>10
<1> DEFINE T == {s \in SUBSET sites : r[s] \in V}
<1>12. {} \in T
  BY <1>11 DEF V
<1>13. \A s \in SUBSET sites : s # {} /\ s \ {Picked(s)} \in T => s \in T
  <2> SUFFICES ASSUME NEW s \in SUBSET sites, s # {}, r[s \ {Picked(s)}] \in V
               PROVE  r[s] \in V
    OBVIOUS
  <2>1. r[s] = next(r[s \ {Picked(s)}], Picked(s))
    BY <1>11
  <2> QED BY <1>3, <1>7, <2>1
<1> HIDE DEF T
<1>14. sites \in T
  BY <1>1, <1>12, <1>13, OneByOne
<1>15. r[sites] \in V
  BY <1>14 DEF T
<1> QED BY <1>2, <1>15 DEF V

LEMMA ExtrasInTurn ==
  ASSUME NEW drawn \in SUBSET Fair, NEW sites \in SUBSET Site
  PROVE  Each(DrawExtras, drawn, sites) \in SUBSET Fair
<1> DEFINE V == SUBSET Fair
           next(bs, t) == UNION {DrawExtras(b.scenery, b.game, t) : b \in bs}
           D == [t \in sites |-> [bs \in V |-> next(bs, t)]]
           Right(it) == it = [s \in SUBSET sites |->
                                IF s = {} THEN drawn ELSE next(it[s \ {Picked(s)}], Picked(s))]
           r == CHOOSE it : Right(it)
<1>1. IsFiniteSet(sites)
  BY SceneAssumption, FS_Subset
<1>2. Each(DrawExtras, drawn, sites) = r[sites]
  BY DEF Each, FoldSet, MapThenFoldSet, Picked
<1>3. \A t \in sites : \A bs \in V : next(bs, t) \in V
  <2>1. \A t \in sites : \A b \in Fair : DrawExtras(b.scenery, b.game, t) \in SUBSET Fair
    BY ExtrasDrawFair DEF Fair
  <2> QED BY <2>1
<1> HIDE DEF next
<1>4. D \in [sites -> [V -> V]]
  BY <1>3
<1>5. \A t \in sites : \A bs \in V : D[t][bs] = next(bs, t)
  OBVIOUS
<1> HIDE DEF D, V
<1>6. PICK it \in [SUBSET sites -> V] : FoldsTo(it, sites, drawn, D)
  <2>1. drawn \in V
    BY DEF V
  <2> QED BY <1>1, <1>4, <2>1, FoldsWithin
<1>7. \A s \in SUBSET sites : s # {} => Picked(s) \in sites /\ s \ {Picked(s)} \in SUBSET sites
  BY DEF Picked
<1>8. \A s \in SUBSET sites :
        s # {} => D[Picked(s)][it[s \ {Picked(s)}]] = next(it[s \ {Picked(s)}], Picked(s))
  BY <1>5, <1>6, <1>7
<1>9. Right(it)
  BY <1>6, <1>8 DEF FoldsTo
<1>10. Right(r)
  <2> HIDE DEF Right
  <2> QED BY <1>9
<1> HIDE DEF r
<1>11. \A s \in SUBSET sites :
         r[s] = IF s = {} THEN drawn ELSE next(r[s \ {Picked(s)}], Picked(s))
  BY <1>10
<1> DEFINE T == {s \in SUBSET sites : r[s] \in V}
<1>12. {} \in T
  BY <1>11 DEF V
<1>13. \A s \in SUBSET sites : s # {} /\ s \ {Picked(s)} \in T => s \in T
  <2> SUFFICES ASSUME NEW s \in SUBSET sites, s # {}, r[s \ {Picked(s)}] \in V
               PROVE  r[s] \in V
    OBVIOUS
  <2>1. r[s] = next(r[s \ {Picked(s)}], Picked(s))
    BY <1>11
  <2> QED BY <1>3, <1>7, <2>1
<1> HIDE DEF T
<1>14. sites \in T
  BY <1>1, <1>12, <1>13, OneByOne
<1>15. r[sites] \in V
  BY <1>14 DEF T
<1> QED BY <1>2, <1>15 DEF V

LEMMA TilesInTurn ==
  ASSUME NEW m, NEW drawn \in SUBSET Fair, NEW sites \in SUBSET Site
  PROVE  LoadedTiles(m, drawn, sites) \in SUBSET Fair
<1> DEFINE V == SUBSET Fair
           next(bs, t) == UNION {LoadedTile(m, b.scenery, b.game, t) : b \in bs}
           D == [t \in sites |-> [bs \in V |-> next(bs, t)]]
           Right(it) == it = [s \in SUBSET sites |->
                                IF s = {} THEN drawn ELSE next(it[s \ {Picked(s)}], Picked(s))]
           r == CHOOSE it : Right(it)
<1>1. IsFiniteSet(sites)
  BY SceneAssumption, FS_Subset
<1>2. LoadedTiles(m, drawn, sites) = r[sites]
  BY DEF LoadedTiles, Each, FoldSet, MapThenFoldSet, Picked
<1>3. \A t \in sites : \A bs \in V : next(bs, t) \in V
  <2>1. \A t \in sites : \A b \in Fair : LoadedTile(m, b.scenery, b.game, t) \in SUBSET Fair
    BY LoadedDrawsFair DEF Fair
  <2> QED BY <2>1
<1> HIDE DEF next
<1>4. D \in [sites -> [V -> V]]
  BY <1>3
<1>5. \A t \in sites : \A bs \in V : D[t][bs] = next(bs, t)
  OBVIOUS
<1> HIDE DEF D, V
<1>6. PICK it \in [SUBSET sites -> V] : FoldsTo(it, sites, drawn, D)
  <2>1. drawn \in V
    BY DEF V
  <2> QED BY <1>1, <1>4, <2>1, FoldsWithin
<1>7. \A s \in SUBSET sites : s # {} => Picked(s) \in sites /\ s \ {Picked(s)} \in SUBSET sites
  BY DEF Picked
<1>8. \A s \in SUBSET sites :
        s # {} => D[Picked(s)][it[s \ {Picked(s)}]] = next(it[s \ {Picked(s)}], Picked(s))
  BY <1>5, <1>6, <1>7
<1>9. Right(it)
  BY <1>6, <1>8 DEF FoldsTo
<1>10. Right(r)
  <2> HIDE DEF Right
  <2> QED BY <1>9
<1> HIDE DEF r
<1>11. \A s \in SUBSET sites :
         r[s] = IF s = {} THEN drawn ELSE next(r[s \ {Picked(s)}], Picked(s))
  BY <1>10
<1> DEFINE T == {s \in SUBSET sites : r[s] \in V}
<1>12. {} \in T
  BY <1>11 DEF V
<1>13. \A s \in SUBSET sites : s # {} /\ s \ {Picked(s)} \in T => s \in T
  <2> SUFFICES ASSUME NEW s \in SUBSET sites, s # {}, r[s \ {Picked(s)}] \in V
               PROVE  r[s] \in V
    OBVIOUS
  <2>1. r[s] = next(r[s \ {Picked(s)}], Picked(s))
    BY <1>11
  <2> QED BY <1>3, <1>7, <2>1
<1> HIDE DEF T
<1>14. sites \in T
  BY <1>1, <1>12, <1>13, OneByOne
<1>15. r[sites] \in V
  BY <1>14 DEF T
<1> QED BY <1>2, <1>15 DEF V

-----------------------------------------------------------------------------
\* A list names nobody twice.
Distinct(s) == \A i \in 1..Len(s) : \A j \in 1..Len(s) : s[i] = s[j] => i = j

\* What is left of a list of units when one is taken out.
LEMMA TakenOut ==
  ASSUME NEW s \in Seq(Piece), Distinct(s), NEW u, NEW r, r = RemoveFirst(s, u)
  PROVE  /\ r \in Seq(Piece) /\ Distinct(r)
         /\ \A i \in 1..Len(r) : r[i] # u /\ \E j \in 1..Len(s) : r[i] = s[j]
<1>1. CASE ~\E i \in 1..Len(s) : s[i] = u
  BY <1>1 DEF RemoveFirst
<1>2. CASE \E i \in 1..Len(s) : s[i] = u
  <2> DEFINE I == {i \in 1..Len(s) : s[i] = u}
             n == Min(I)
  <2>1. Len(s) \in Nat
    OBVIOUS
  <2>2. n \in I
    <3>1. I \in SUBSET (1..Len(s)) /\ I # {}
      BY <1>2
    <3> HIDE DEF I
    <3> QED BY <2>1, <3>1, FirstIsIn
  <2>3. SelectInSeq(s, LAMBDA v : v = u) = n
    BY <2>2 DEF SelectInSeq
  <2>4. r = SubSeq(s, 1, n - 1) \o SubSeq(s, n + 1, Len(s))
    BY <1>2, <2>3 DEF RemoveFirst, RemoveAt
  <2>5. n \in 1..Len(s) /\ s[n] = u
    BY <2>2
  <2> HIDE DEF I, n
  <2> DEFINE a == SubSeq(s, 1, n - 1)
             b == SubSeq(s, n + 1, Len(s))
  <2>6. /\ a \in Seq(Piece) /\ Len(a) = n - 1 /\ \A i \in 1..(n - 1) : a[i] = s[i]
        /\ b \in Seq(Piece) /\ Len(b) = Len(s) - n /\ \A i \in 1..(Len(s) - n) : b[i] = s[i + n]
    BY <2>1, <2>5
  <2> HIDE DEF a, b
  <2>7. r \in Seq(Piece) /\ Len(r) = Len(s) - 1
    <3>1. r = a \o b
      BY <2>4 DEF a, b
    <3>2. Len(a \o b) = Len(a) + Len(b) /\ a \o b \in Seq(Piece)
      BY <2>6
    <3> QED BY <2>1, <2>5, <2>6, <3>1, <3>2
  <2>8. \A i \in 1..Len(r) : r[i] = IF i < n THEN s[i] ELSE s[i + 1]
    <3> SUFFICES ASSUME NEW i \in 1..Len(r) PROVE r[i] = IF i < n THEN s[i] ELSE s[i + 1]
      OBVIOUS
    <3>0. r = a \o b
      BY <2>4 DEF a, b
    <3>1. i \in 1..(Len(a) + Len(b))
      BY <2>1, <2>5, <2>6, <2>7
    <3>2. r[i] = IF i <= Len(a) THEN a[i] ELSE b[i - Len(a)]
      BY <2>6, <3>0, <3>1
    <3>3. CASE i < n
      BY <2>1, <2>5, <2>6, <3>2, <3>3
    <3>4. CASE ~(i < n)
      <4>1. i - Len(a) \in 1..(Len(s) - n) /\ ~(i <= Len(a)) /\ (i - Len(a)) + n = i + 1
        BY <2>1, <2>5, <2>6, <2>7, <3>4
      <4> QED BY <2>6, <3>2, <3>4, <4>1
    <3> QED BY <3>3, <3>4
  <2>9. \A i \in 1..Len(r) : \E j \in 1..Len(s) : j # n /\ r[i] = s[j] /\ j = IF i < n THEN i ELSE i + 1
    BY <2>1, <2>5, <2>7, <2>8
  <2>10. \A i \in 1..Len(r) : r[i] # u
    BY <2>5, <2>9 DEF Distinct
  <2>11. Distinct(r)
    <3> SUFFICES ASSUME NEW i \in 1..Len(r), NEW j \in 1..Len(r), r[i] = r[j] PROVE i = j
      BY DEF Distinct
    <3>1. PICK x \in 1..Len(s) : r[i] = s[x] /\ x = IF i < n THEN i ELSE i + 1
      BY <2>9
    <3>2. PICK y \in 1..Len(s) : r[j] = s[y] /\ y = IF j < n THEN j ELSE j + 1
      BY <2>9
    <3>3. x = y
      BY <3>1, <3>2 DEF Distinct
    <3> QED BY <2>5, <2>7, <3>1, <3>2, <3>3
  <2> QED BY <2>7, <2>9, <2>10, <2>11
<1> QED BY <1>1, <1>2

LEMMA StackedIs ==
  ASSUME NEW g
  PROVE  Stacked(g) <=> \A t \in Site : /\ Distinct(g.stack[t])
                                        /\ \A i \in 1..Len(g.stack[t]) : g.at[g.stack[t][i]] = t
BY DEF Stacked, Distinct

\* A unit is taken off its tile.
LEMMA OffItsTile ==
  ASSUME NEW g, g \in Games, Stacked(g), NEW u \in Piece, NEW s, s = Without(g, u)
  PROVE  /\ s \in [Site -> Seq(Piece)]
         /\ \A t \in Site : /\ Distinct(s[t])
                            /\ \A i \in 1..Len(s[t]) : s[t][i] # u /\ g.at[s[t][i]] = t
                            /\ t # g.at[u] => s[t] = g.stack[t]
<1>1. g.stack \in [Site -> Seq(Piece)] /\ g.at \in [Piece -> Site \cup {Nobody}] /\ Nobody \notin Site
  BY SceneAssumption DEF Games
<1>2. \A t \in Site : /\ Distinct(g.stack[t])
                      /\ \A i \in 1..Len(g.stack[t]) : g.at[g.stack[t][i]] = t
  BY StackedIs
<1>3. CASE g.at[u] = Nobody
  <2>1. s = g.stack
    BY <1>3 DEF Without
  <2> QED BY <1>1, <1>2, <1>3, <2>1
<1>4. CASE g.at[u] # Nobody
  <2> DEFINE d == g.at[u]
             r == RemoveFirst(g.stack[d], u)
  <2>1. d \in Site
    BY <1>1, <1>4
  <2>2. s = [g.stack EXCEPT ![d] = r]
    BY <1>4 DEF Without
  <2>3. /\ r \in Seq(Piece) /\ Distinct(r)
        /\ \A i \in 1..Len(r) : r[i] # u /\ \E j \in 1..Len(g.stack[d]) : r[i] = g.stack[d][j]
    BY <1>1, <1>2, <2>1, TakenOut
  <2>4. \A t \in Site : t # d => \A i \in 1..Len(g.stack[t]) : g.stack[t][i] # u
    BY <1>1, <1>2, <2>1
  <2>5. \A i \in 1..Len(r) : g.at[r[i]] = d
    BY <1>2, <2>1, <2>3
  <2> HIDE DEF d, r
  <2>6. s \in [Site -> Seq(Piece)] /\ s[d] = r /\ \A t \in Site : t # d => s[t] = g.stack[t]
    BY <1>1, <2>1, <2>2, <2>3
  <2>7. \A t \in Site : t # d => /\ Distinct(s[t])
                                 /\ \A i \in 1..Len(s[t]) : s[t][i] # u /\ g.at[s[t][i]] = t
    BY <1>2, <2>4, <2>6
  <2> QED BY <2>3, <2>5, <2>6, <2>7 DEF d
<1> QED BY <1>3, <1>4

-----------------------------------------------------------------------------
SceneInv == Faithful(scenery, game) /\ facts \in 0..MaxFacts

LEMMA SceneInvIs ==
  SceneInv <=> /\ Orderly(scenery) /\ Played(game) /\ RingRight(scenery, game)
               /\ \A s \in Site : Manned(scenery, game, s) /\ Settled(scenery, game, s)
               /\ facts \in 0..MaxFacts
BY FaithfulIs DEF SceneInv

LEMMA SceneInvNext == Faithful(scenery', game') /\ facts' \in 0..MaxFacts => SceneInv'
BY DEF SceneInv, Faithful, Kept, Played, RingRight, Paired, Peopled, Stacked, Attentive

LEMMA FactIs == facts \in 0..MaxFacts /\ Fact => facts' \in 0..MaxFacts
BY SceneAssumption DEF Fact

\* The way that a unit has before it consists of tiles.
LEMMA WaysAre ==
  ASSUME NEW g, g \in Games, NEW u \in Piece, g.at[u] # Nobody, NEW t \in Site, NEW carried \in BOOLEAN
  PROVE  update_unit_anim_list(g, u, t, carried) \in Seq(Site)
<1>1. g.anim[u] \in Seq(Site) /\ g.at[u] \in Site
  BY DEF Games
<1> QED BY <1>1 DEF update_unit_anim_list

\* A unit comes to a tile.
ComesTo(f, g, u, t) ==
  /\ Played(g) /\ g.at = [f.at EXCEPT ![u] = t] /\ g.focus = f.focus /\ g.city = f.city
  /\ \A s \in Site : s # t /\ s # f.at[u] => g.stack[s] = f.stack[s]

LEMMA UnitMoves ==
  ASSUME NEW f, Played(f), NEW u \in Piece, NEW t \in Site, NEW look \in Looks, NEW riding \in SUBSET Piece,
         NEW way \in Seq(Site), NEW g,
         g = [f EXCEPT !.anim = [f.anim EXCEPT ![u] = way], !.at = [f.at EXCEPT ![u] = t],
                       !.look = [f.look EXCEPT ![u] = look], !.riding = riding,
                       !.stack = [Without(f, u) EXCEPT ![t] = Append(@, u)]]
  PROVE  ComesTo(f, g, u, t)
<1> DEFINE off == Without(f, u)
           stack == [off EXCEPT ![t] = Append(@, u)]
           at == [f.at EXCEPT ![u] = t]
           anim == [f.anim EXCEPT ![u] = way]
           seen == [f.look EXCEPT ![u] = look]
<1>0. f \in Games /\ Stacked(f) /\ Attentive(f)
  BY DEF Played
<1>1. /\ off \in [Site -> Seq(Piece)]
      /\ \A s \in Site : /\ Distinct(off[s])
                         /\ \A i \in 1..Len(off[s]) : off[s][i] # u /\ f.at[off[s][i]] = s
                         /\ s # f.at[u] => off[s] = f.stack[s]
  BY <1>0, OffItsTile
<1> HIDE DEF off
<1>2. stack \in [Site -> Seq(Piece)]
  BY <1>1
<1>3. anim \in [Piece -> Seq(Site)]
  BY <1>0 DEF Games
<1>4. at \in [Piece -> Site \cup {Nobody}]
  BY <1>0 DEF Games
<1>5. seen \in [Piece -> Looks]
  BY <1>0 DEF Games
<1>6. g = [f EXCEPT !.anim = anim, !.at = at, !.look = seen, !.riding = riding, !.stack = stack]
  BY DEF off
<1>7. stack[t] = Append(off[t], u) /\ \A s \in Site : s # t => stack[s] = off[s]
  BY <1>1
<1>8. at[u] = t /\ \A p \in Piece : p # u => at[p] = f.at[p]
  BY <1>0 DEF Games
<1>9. at = [f.at EXCEPT ![u] = t]
  OBVIOUS
<1> HIDE DEF stack, at, anim, seen
<1>10. g \in Games
  BY <1>0, <1>2, <1>3, <1>4, <1>5, <1>6, ZenonT(60) DEF Games
<1>11. g.at = at /\ g.stack = stack /\ g.focus = f.focus /\ g.city = f.city
  BY <1>0, <1>6 DEF Games
<1>12. Stacked(g)
  <2> SUFFICES ASSUME NEW s \in Site
               PROVE  Distinct(g.stack[s]) /\ \A i \in 1..Len(g.stack[s]) : g.at[g.stack[s][i]] = s
    BY StackedIs
  <2>1. off[s] \in Seq(Piece) /\ \A i \in 1..Len(off[s]) : off[s][i] \in Piece /\ at[off[s][i]] = s
    BY <1>1, <1>8
  <2>2. CASE s # t
    BY <1>1, <1>7, <1>11, <2>1, <2>2
  <2>3. CASE s = t
    <3> DEFINE o == off[t]
               a == Append(o, u)
    <3>1. /\ o \in Seq(Piece) /\ Distinct(o)
          /\ \A i \in 1..Len(o) : o[i] # u /\ at[o[i]] = t
      BY <1>1, <2>1, <2>3
    <3> HIDE DEF o
    <3>2. Len(a) = Len(o) + 1 /\ a[Len(o) + 1] = u /\ \A i \in 1..Len(o) : a[i] = o[i]
      BY <3>1
    <3> HIDE DEF a
    <3>3. Distinct(a)
      BY <3>1, <3>2 DEF Distinct
    <3>4. \A i \in 1..Len(a) : at[a[i]] = t
      BY <1>8, <3>1, <3>2
    <3>5. g.stack[s] = a
      BY <1>7, <1>11, <2>3 DEF a, o
    <3> QED BY <1>11, <2>3, <3>3, <3>4, <3>5
  <2> QED BY <2>2, <2>3
<1>13. Attentive(g)
  <2>1. f.focus \in Piece \cup {Nobody}
    BY <1>0 DEF Games
  <2> QED BY <1>0, <1>8, <1>11, <2>1 DEF Attentive
<1>14. \A s \in Site : s # t /\ s # f.at[u] => g.stack[s] = f.stack[s]
  BY <1>1, <1>7, <1>11
<1> QED BY <1>9, <1>10, <1>11, <1>12, <1>13, <1>14 DEF Played, ComesTo

LEMMA UnitPacketKeeps == SceneInv /\ UnitPacket => SceneInv'
<1> SUFFICES ASSUME SceneInv, UnitPacket PROVE SceneInv'
  OBVIOUS
<1>1. /\ Orderly(scenery) /\ Played(game) /\ RingRight(scenery, game)
      /\ \A s \in Site : Manned(scenery, game, s) /\ Settled(scenery, game, s)
      /\ facts \in 0..MaxFacts
  BY SceneInvIs
<1>0. game \in Games
  BY <1>1 DEF Played
<1>2. PICK u \in Piece, t \in Site, look \in Looks, carried \in BOOLEAN :
        LET new == game.at[u] = Nobody
            g == [game EXCEPT !.anim[u] = IF new THEN <<>>
                                          ELSE update_unit_anim_list(game, u, t, carried),
                              !.at[u] = t, !.look[u] = look,
                              !.riding = IF carried THEN @ \cup {u} ELSE @ \ {u},
                              !.stack = [Without(game, u) EXCEPT ![t] = Append(@, u)]]
            behind == IF new THEN scenery ELSE update_unit_position(scenery, g, game.at[u])
        IN  /\ Fact /\ (look = game.look[u] \/ t = game.at[u])
            /\ game' = g
            /\ scenery' = update_unit_position(behind, g, t)
  BY Zenon DEF UnitPacket
<1> DEFINE way == IF game.at[u] = Nobody THEN <<>> ELSE update_unit_anim_list(game, u, t, carried)
           riding == IF carried THEN game.riding \cup {u} ELSE game.riding \ {u}
           g == [game EXCEPT !.anim = [game.anim EXCEPT ![u] = way], !.at = [game.at EXCEPT ![u] = t],
                             !.look = [game.look EXCEPT ![u] = look], !.riding = riding,
                             !.stack = [Without(game, u) EXCEPT ![t] = Append(@, u)]]
           behind == IF game.at[u] = Nobody THEN scenery ELSE update_unit_position(scenery, g, game.at[u])
           w == update_unit_position(behind, g, t)
<1>3. Fact /\ game' = g
  BY <1>0, <1>2 DEF Games
<1>4. scenery' = w
  BY <1>2, <1>3
<1>5. way \in Seq(Site)
  BY <1>0, WaysAre
<1>6. riding \in SUBSET Piece
  BY <1>0 DEF Games
<1> HIDE DEF way, riding
<1>7. /\ Played(g) /\ g.at = [game.at EXCEPT ![u] = t] /\ g.focus = game.focus /\ g.city = game.city
      /\ \A s \in Site : s # t /\ s # game.at[u] => g.stack[s] = game.stack[s]
  <2>1. ComesTo(game, g, u, t)
    BY <1>1, <1>5, <1>6, UnitMoves
  <2> HIDE DEF g
  <2> QED BY <2>1 DEF ComesTo
<1> HIDE DEF g
<1>8. \A s \in Site : /\ s # t /\ s # game.at[u] => Manned(scenery, g, s)
                      /\ Settled(scenery, g, s)
  BY <1>1, <1>7 DEF Manned, Settled
<1>9. game.focus # u => RingRight(scenery, g)
  <2>1. game.focus \in Piece \cup {Nobody}
    BY <1>0 DEF Games
  <2>2. game.focus # u => g.focus = game.focus /\ (g.focus # Nobody => g.at[g.focus] = game.at[game.focus])
    BY <1>0, <1>7, <2>1 DEF Games
  <2> QED BY <1>1, <2>2 DEF RingRight
<1>10. /\ Orderly(behind) /\ \A s \in Site : (s # t => Manned(behind, g, s)) /\ Settled(behind, g, s)
       /\ game.focus # u => RingRight(behind, g)
  <2>1. CASE game.at[u] = Nobody
    BY <1>1, <1>8, <1>9, <2>1, SceneAssumption
  <2>2. CASE game.at[u] # Nobody
    <3>1. game.at[u] \in Site /\ behind = update_unit_position(scenery, g, game.at[u])
      BY <1>0, <2>2 DEF Games
    <3> HIDE DEF behind
    <3>2. DrawnRight(scenery, behind, g, game.at[u])
      BY <1>1, <1>7, <3>1, UnitsPutRight
    <3> QED BY <1>8, <1>9, <3>1, <3>2 DEF DrawnRight
  <2> QED BY <2>1, <2>2
<1> HIDE DEF behind
<1>11. g.at[u] = t /\ u # Nobody
  BY <1>0, <1>7, SceneAssumption DEF Games
<1>12. /\ Orderly(w) /\ \A s \in Site : Manned(w, g, s) /\ Settled(w, g, s)
       /\ RingRight(w, g)
  <2>1. DrawnRight(behind, w, g, t)
    BY <1>7, <1>10, UnitsPutRight
  <2>2. g.focus = u => g.focus # Nobody /\ g.at[g.focus] = t
    BY <1>11
  <2> HIDE DEF w
  <2> QED BY <1>7, <1>10, <2>1, <2>2 DEF DrawnRight
<1> HIDE DEF w
<1>13. Faithful(w, g)
  BY <1>7, <1>12, FaithfulIs
<1> QED BY <1>1, <1>3, <1>4, <1>13, FactIs, SceneInvNext

\* No ring is right in every game.
LEMMA NoRing ==
  ASSUME NEW v, Orderly(v), NEW w, w = webgl_clear_unit_focus(v)
  PROVE  /\ Orderly(w) /\ w.has = v.has /\ w.ring = Nobody
<1>0. v \in Views
  BY DEF Orderly, Kept
<1>1. w = [v EXCEPT !.ring = Nobody]
  BY DEF webgl_clear_unit_focus
<1>2. w \in Views
  BY <1>0, <1>1, ZenonT(60) DEF Views
<1>3. w.has = v.has /\ w.stray = v.stray /\ w.ring = Nobody
  BY <1>0, <1>1 DEF Views
<1> QED BY <1>2, <1>3 DEF Orderly, Kept, Paired

\* The tile of the unit in focus is drawn, once or twice.
LEMMA FocusPutRight ==
  ASSUME NEW v, Orderly(v), NEW g, Played(g), NEW u \in Piece, g.focus = u, g.at[u] \in Site,
         NEW w \in Focused(v, g, u)
  PROVE  DrawnRight(v, w, g, g.at[u]) /\ RingRight(w, g)
<1> DEFINE t == g.at[u]
           x == update_unit_position(v, g, t)
<1>1. w = x \/ w = update_unit_position(x, g, t)
  BY DEF Focused
<1>2. DrawnRight(v, x, g, t)
  BY UnitsPutRight
<1> HIDE DEF x
<1>3. w = update_unit_position(x, g, t) => DrawnRight(x, w, g, t)
  <2>1. Orderly(x)
    BY <1>2 DEF DrawnRight
  <2> HIDE DEF t
  <2> QED BY <2>1, UnitsPutRight DEF t
<1>4. DrawnRight(v, w, g, t)
  BY <1>1, <1>2, <1>3 DEF DrawnRight
<1>5. g.focus # Nobody
  BY SceneAssumption
<1> QED BY <1>4, <1>5 DEF DrawnRight

LEMMA UnitFocusedKeeps == SceneInv /\ UnitFocused => SceneInv'
<1> SUFFICES ASSUME SceneInv, UnitFocused PROVE SceneInv'
  OBVIOUS
<1>1. /\ Orderly(scenery) /\ Played(game)
      /\ \A s \in Site : Manned(scenery, game, s) /\ Settled(scenery, game, s)
      /\ facts \in 0..MaxFacts
  BY SceneInvIs
<1>2. PICK u \in Piece : /\ Fact /\ game.at[u] # Nobody
                         /\ game' = [game EXCEPT !.focus = u]
                         /\ scenery' \in Focused(scenery, [game EXCEPT !.focus = u], u)
  BY DEF UnitFocused
<1> DEFINE g == [game EXCEPT !.focus = u]
<1>0. game \in Games
  BY <1>1 DEF Played
<1>3. game.at[u] \in Site
  BY <1>0, <1>2 DEF Games
<1>4. g \in Games
  BY <1>0, ZenonT(60) DEF Games
<1>5. g.at = game.at /\ g.stack = game.stack /\ g.city = game.city /\ g.focus = u
  BY <1>0 DEF Games
<1>6. game' = g /\ scenery' \in Focused(scenery, g, u)
  BY <1>2
<1> HIDE DEF g
<1>7. Played(g)
  BY <1>1, <1>3, <1>4, <1>5 DEF Played, Stacked, Attentive
<1>8. DrawnRight(scenery, scenery', g, g.at[u]) /\ RingRight(scenery', g)
  BY <1>1, <1>3, <1>5, <1>6, <1>7, FocusPutRight
<1>9. \A s \in Site : Manned(scenery, g, s) /\ Settled(scenery, g, s)
  BY <1>1, <1>5 DEF Manned, Settled
<1>10. Faithful(scenery', g)
  BY <1>7, <1>8, <1>9, FaithfulIs DEF DrawnRight
<1> QED BY <1>1, <1>2, <1>6, <1>10, FactIs, SceneInvNext

LEMMA ClearSelectionKeeps == SceneInv /\ ClearSelection => SceneInv'
<1> SUFFICES ASSUME SceneInv, ClearSelection PROVE SceneInv'
  OBVIOUS
<1>1. /\ Orderly(scenery) /\ Played(game)
      /\ \A s \in Site : Manned(scenery, game, s) /\ Settled(scenery, game, s)
      /\ facts \in 0..MaxFacts
  BY SceneInvIs
<1>2. /\ Fact /\ game' = [game EXCEPT !.focus = Nobody]
      /\ scenery' = webgl_clear_unit_focus(scenery)
  BY DEF ClearSelection
<1>0. game \in Games
  BY <1>1 DEF Played
<1>3. game' \in Games
  BY <1>0, <1>2, ZenonT(60) DEF Games
<1>4. game'.at = game.at /\ game'.stack = game.stack /\ game'.city = game.city /\ game'.focus = Nobody
  BY <1>0, <1>2 DEF Games
<1>5. Played(game')
  BY <1>1, <1>3, <1>4 DEF Played, Stacked, Attentive
<1>6. Orderly(scenery') /\ scenery'.has = scenery.has /\ scenery'.ring = Nobody
  BY <1>1, <1>2, NoRing
<1>7. \A s \in Site : Manned(scenery', game', s) /\ Settled(scenery', game', s)
  BY <1>1, <1>4, <1>6 DEF Manned, Settled
<1>8. RingRight(scenery', game')
  BY <1>6 DEF RingRight
<1>9. Faithful(scenery', game')
  BY <1>5, <1>6, <1>7, <1>8, FaithfulIs
<1> QED BY <1>1, <1>2, <1>9, FactIs, SceneInvNext

\* A unit leaves its tile, and the focus moves on from it.
LeftBy(f, g, u, next) ==
  /\ Played(g) /\ g.at = f.at /\ g.city = f.city
  /\ g.focus = IF f.focus = u THEN next ELSE f.focus
  /\ g.focus # u
  /\ \A s \in Site : (s # f.at[u] => g.stack[s] = f.stack[s])
                     /\ \A i \in 1..Len(g.stack[s]) : g.stack[s][i] # u

LEMMA UnitLeaves ==
  ASSUME NEW f, Played(f), NEW u \in Piece, f.at[u] \in Site, NEW next \in Piece \cup {Nobody},
         next # Nobody => next # u /\ f.at[next] # Nobody, NEW g,
         g = [f EXCEPT !.stack = Without(f, u), !.focus = IF f.focus = u THEN next ELSE f.focus]
  PROVE  LeftBy(f, g, u, next)
<1> DEFINE off == Without(f, u)
           now == IF f.focus = u THEN next ELSE f.focus
<1>0. f \in Games /\ Stacked(f) /\ Attentive(f)
  BY DEF Played
<1>1. /\ off \in [Site -> Seq(Piece)]
      /\ \A s \in Site : /\ Distinct(off[s])
                         /\ \A i \in 1..Len(off[s]) : off[s][i] # u /\ f.at[off[s][i]] = s
                         /\ s # f.at[u] => off[s] = f.stack[s]
  BY <1>0, OffItsTile
<1> HIDE DEF off
<1>2. f.at \in [Piece -> Site \cup {Nobody}] /\ f.focus \in Piece \cup {Nobody}
  BY <1>0 DEF Games
<1>3. /\ now \in Piece \cup {Nobody} /\ now # u
      /\ now # Nobody => f.at[now] \in Site
  BY <1>0, <1>2, SceneAssumption DEF Attentive
<1>4. g = [f EXCEPT !.stack = off, !.focus = now]
  BY DEF off
<1>5. now = IF f.focus = u THEN next ELSE f.focus
  OBVIOUS
<1> HIDE DEF now
<1>6. g \in Games
  <2>1. off \in [Site -> Seq(Piece)] /\ now \in Piece \cup {Nobody}
    BY <1>1, <1>3
  <2> QED BY <1>0, <1>4, <2>1, ZenonT(60) DEF Games
<1>7. g.stack = off /\ g.focus = now /\ g.at = f.at /\ g.city = f.city
  BY <1>0, <1>4 DEF Games
<1>8. Stacked(g)
  <2> SUFFICES ASSUME NEW s \in Site
               PROVE  Distinct(g.stack[s]) /\ \A i \in 1..Len(g.stack[s]) : g.at[g.stack[s][i]] = s
    BY StackedIs
  <2> QED BY <1>1, <1>7
<1>9. Attentive(g)
  BY <1>3, <1>7 DEF Attentive
<1> QED BY <1>1, <1>3, <1>5, <1>6, <1>7, <1>8, <1>9 DEF Played, LeftBy

\* A unit that is on no tile is gone.
GoneFrom(f, g) == /\ Played(g) /\ g.stack = f.stack /\ g.city = f.city /\ g.focus = f.focus
                  /\ g.focus # Nobody => g.at[g.focus] = f.at[f.focus]

LEMMA UnitGoes ==
  ASSUME NEW f, Played(f), NEW u \in Piece, f.focus # u,
         \A s \in Site : \A i \in 1..Len(f.stack[s]) : f.stack[s][i] # u, NEW g,
         g = [f EXCEPT !.at[u] = Nobody, !.anim[u] = <<>>, !.look[u] = "idle", !.riding = @ \ {u}]
  PROVE  GoneFrom(f, g)
<1> DEFINE at == [f.at EXCEPT ![u] = Nobody]
           anim == [f.anim EXCEPT ![u] = <<>>]
           seen == [f.look EXCEPT ![u] = "idle"]
           riding == f.riding \ {u}
<1>0. f \in Games /\ Stacked(f) /\ Attentive(f)
  BY DEF Played
<1>1. at \in [Piece -> Site \cup {Nobody}]
  BY <1>0 DEF Games
<1>2. anim \in [Piece -> Seq(Site)]
  BY <1>0 DEF Games
<1>3. seen \in [Piece -> Looks]
  BY <1>0 DEF Games, Looks
<1>4. riding \in SUBSET Piece
  BY <1>0 DEF Games
<1>5. g = [f EXCEPT !.at = at, !.anim = anim, !.look = seen, !.riding = riding]
  BY <1>0 DEF Games
<1>6. \A p \in Piece : p # u => at[p] = f.at[p]
  BY <1>0 DEF Games
<1> HIDE DEF at, anim, seen, riding
<1>7. g \in Games
  BY <1>0, <1>1, <1>2, <1>3, <1>4, <1>5, ZenonT(60) DEF Games
<1>8. g.at = at /\ g.stack = f.stack /\ g.city = f.city /\ g.focus = f.focus
  BY <1>0, <1>5 DEF Games
<1>9. f.stack \in [Site -> Seq(Piece)] /\ f.focus \in Piece \cup {Nobody}
  BY <1>0 DEF Games
<1>10. Stacked(g)
  <2> SUFFICES ASSUME NEW s \in Site
               PROVE  Distinct(g.stack[s]) /\ \A i \in 1..Len(g.stack[s]) : g.at[g.stack[s][i]] = s
    BY StackedIs
  <2>1. Distinct(f.stack[s]) /\ \A i \in 1..Len(f.stack[s]) : f.at[f.stack[s][i]] = s
    BY <1>0, StackedIs
  <2>2. \A i \in 1..Len(f.stack[s]) : f.stack[s][i] \in Piece
    BY <1>9
  <2> QED BY <1>6, <1>8, <2>1, <2>2
<1>11. g.focus # Nobody => g.at[g.focus] = f.at[f.focus]
  BY <1>6, <1>8, <1>9
<1>12. Attentive(g)
  BY <1>0, <1>8, <1>11 DEF Attentive
<1> QED BY <1>7, <1>8, <1>10, <1>11, <1>12 DEF Played, GoneFrom

LEMMA UnitRemovedKeeps == SceneInv /\ UnitRemoved => SceneInv'
<1> SUFFICES ASSUME SceneInv, UnitRemoved PROVE SceneInv'
  OBVIOUS
<1>1. /\ Orderly(scenery) /\ Played(game) /\ RingRight(scenery, game)
      /\ \A s \in Site : Manned(scenery, game, s) /\ Settled(scenery, game, s)
      /\ facts \in 0..MaxFacts
  BY SceneInvIs
<1>0. game \in Games
  BY <1>1 DEF Played
<1>2. PICK u \in Piece, next \in Piece \cup {Nobody} :
        LET t == game.at[u]
            off == [game EXCEPT !.stack = Without(game, u)]
            moved == [off EXCEPT !.focus = IF game.focus = u THEN next ELSE @]
            refocused == IF game.focus # u THEN {scenery}
                         ELSE IF next = Nobody THEN {webgl_clear_unit_focus(scenery)}
                         ELSE Focused(scenery, moved, next)
            gone == [moved EXCEPT !.at[u] = Nobody, !.anim[u] = <<>>, !.look[u] = "idle",
                                  !.riding = @ \ {u}]
        IN  /\ Fact /\ t # Nobody
            /\ (next # Nobody => game.focus = u /\ next # u /\ game.at[next] # Nobody)
            /\ game' = gone
            /\ scenery' \in {update_unit_position(v, gone, t) : v \in refocused}
  BY Zenon DEF UnitRemoved
<1> DEFINE t == game.at[u]
           off == [game EXCEPT !.stack = Without(game, u)]
           moved == [off EXCEPT !.focus = IF game.focus = u THEN next ELSE @]
           refocused == IF game.focus # u THEN {scenery}
                        ELSE IF next = Nobody THEN {webgl_clear_unit_focus(scenery)}
                        ELSE Focused(scenery, moved, next)
           gone == [moved EXCEPT !.at[u] = Nobody, !.anim[u] = <<>>, !.look[u] = "idle",
                                 !.riding = @ \ {u}]
<1>3. /\ Fact /\ t # Nobody
      /\ (next # Nobody => game.focus = u /\ next # u /\ game.at[next] # Nobody)
  BY <1>2
<1>4. game' = gone
  BY <1>2
<1>5. PICK x \in refocused : scenery' = update_unit_position(x, gone, t)
  BY <1>2
<1>6. t \in Site
  BY <1>0, <1>3 DEF Games
<1>7. moved = [game EXCEPT !.stack = Without(game, u),
                           !.focus = IF game.focus = u THEN next ELSE game.focus]
  BY <1>0 DEF Games
<1> HIDE DEF moved
<1>8. LeftBy(game, moved, u, next)
  BY <1>1, <1>3, <1>6, <1>7, UnitLeaves DEF t
<1>9. /\ Played(moved) /\ moved.at = game.at /\ moved.city = game.city
      /\ moved.focus = IF game.focus = u THEN next ELSE game.focus
      /\ moved.focus # u
      /\ \A s \in Site : s # t => moved.stack[s] = game.stack[s]
      /\ \A s \in Site : \A i \in 1..Len(moved.stack[s]) : moved.stack[s][i] # u
  BY <1>8 DEF LeftBy
<1>10. GoneFrom(moved, gone)
  BY <1>9, UnitGoes
<1>11. /\ Played(gone) /\ gone.stack = moved.stack /\ gone.city = moved.city
       /\ gone.focus = moved.focus
       /\ gone.focus # Nobody => gone.at[gone.focus] = moved.at[moved.focus]
  BY <1>10 DEF GoneFrom
<1> HIDE DEF gone
<1>12. \A s \in Site : (s # t => Manned(scenery, moved, s)) /\ Settled(scenery, moved, s)
  BY <1>1, <1>9 DEF Manned, Settled
<1>13. /\ Orderly(x) /\ RingRight(x, moved)
       /\ \A s \in Site : (s # t => Manned(x, moved, s)) /\ Settled(x, moved, s)
  <2>1. CASE game.focus # u
    <3>1. x = scenery /\ moved.focus = game.focus
      BY <1>9, <2>1
    <3>2. RingRight(scenery, moved)
      BY <1>1, <1>9, <3>1 DEF RingRight
    <3> QED BY <1>1, <1>12, <3>1, <3>2
  <2>2. CASE game.focus = u /\ next = Nobody
    <3>1. x = webgl_clear_unit_focus(scenery)
      BY <2>2
    <3>2. Orderly(x) /\ x.has = scenery.has /\ x.ring = Nobody
      BY <1>1, <3>1, NoRing
    <3> HIDE DEF refocused
    <3> QED BY <1>12, <3>2 DEF RingRight, Manned, Settled
  <2>3. CASE game.focus = u /\ next # Nobody
    <3>1. x \in Focused(scenery, moved, next) /\ moved.focus = next /\ next \in Piece
      BY <1>9, <2>3
    <3>2. moved.at[next] \in Site
      BY <1>0, <1>3, <1>9, <2>3 DEF Games
    <3> HIDE DEF refocused
    <3>3. DrawnRight(scenery, x, moved, moved.at[next]) /\ RingRight(x, moved)
      BY <1>1, <1>9, <3>1, <3>2, FocusPutRight
    <3> QED BY <1>12, <3>3 DEF DrawnRight
  <2> QED BY <2>1, <2>2, <2>3
<1> HIDE DEF refocused
<1>14. /\ RingRight(x, gone)
       /\ \A s \in Site : (s # t => Manned(x, gone, s)) /\ Settled(x, gone, s)
  BY <1>11, <1>13 DEF RingRight, Manned, Settled
<1>15. DrawnRight(x, scenery', gone, t)
  BY <1>5, <1>6, <1>11, <1>13, UnitsPutRight
<1>16. Faithful(scenery', gone)
  BY <1>11, <1>14, <1>15, FaithfulIs DEF DrawnRight
<1> QED BY <1>1, <1>3, <1>4, <1>16, FactIs, SceneInvNext

LEMMA CityComes ==
  ASSUME SceneInv, NEW t \in Site, NEW c \in Cities,
         NEW b, b \in update_city_position(scenery, [game EXCEPT !.city[t] = c], t)
  PROVE  Faithful(b.scenery, b.game)
<1> DEFINE g == [game EXCEPT !.city[t] = c]
<1>1. /\ Orderly(scenery) /\ Played(game) /\ RingRight(scenery, game)
      /\ \A s \in Site : Manned(scenery, game, s) /\ Settled(scenery, game, s)
  BY SceneInvIs
<1>2. game \in Games /\ game.city \in [Site -> Cities]
  BY <1>1, CitiesAre DEF Played
<1>3. g = [game EXCEPT !.city = [game.city EXCEPT ![t] = c]]
  BY <1>2 DEF Games
<1> HIDE DEF g
<1>4. Exchanged(game, g, t, c)
  BY <1>2, <1>3, CityExchanged
<1>5. /\ g \in Games /\ g.at = game.at /\ g.stack = game.stack /\ g.focus = game.focus
      /\ \A s \in Site : s # t => g.city[s] = game.city[s]
  BY <1>2, <1>4 DEF Exchanged
<1>6. Played(g)
  BY <1>1, <1>5 DEF Played, Stacked, Attentive
<1>7. RingRight(scenery, g)
  BY <1>1, <1>5 DEF RingRight
<1>8. \A s \in Site : Manned(scenery, g, s)
  BY <1>1, <1>5 DEF Manned
<1>9. \A s \in Site \ {t} : Settled(scenery, g, s)
  BY <1>1, <1>5 DEF Settled
<1>10. b \in update_city_position(scenery, g, t)
  BY DEF g
<1> QED BY <1>1, <1>6, <1>7, <1>8, <1>9, <1>10, CityPutRight

LEMMA NewCities ==
  /\ NoCity \in Cities /\ NewCity \in Cities
  /\ \A c \in Cities : CityChanges(c) \subseteq Cities
<1>1. NoCity \in Cities
  BY DEF NoCity, Cities
<1>2. NewCity \in Cities
  BY <1>1 DEF NewCity, Cities
<1>3. ASSUME NEW c \in Cities PROVE CityChanges(c) \subseteq Cities
  <2>1. [c EXCEPT !.large = ~@] \in Cities
    BY DEF Cities
  <2>2. [c EXCEPT !.walls = ~@] \in Cities
    BY DEF Cities
  <2>3. [c EXCEPT !.unhappy = ~@] \in Cities
    BY DEF Cities
  <2>4. [c EXCEPT !.library = TRUE] \in Cities
    BY DEF Cities
  <2> QED BY <2>1, <2>2, <2>3, <2>4 DEF CityChanges
<1> QED BY <1>1, <1>2, <1>3

LEMMA CityPacketKeeps == SceneInv /\ CityPacket => SceneInv'
<1> SUFFICES ASSUME SceneInv, CityPacket PROVE SceneInv'
  OBVIOUS
<1>1. PICK t \in Site : \E c \in (IF game.city[t].there THEN CityChanges(game.city[t]) ELSE {NewCity}) :
        /\ Fact
        /\ \E b \in update_city_position(scenery, [game EXCEPT !.city[t] = c], t) :
             game' = b.game /\ scenery' = b.scenery
  BY DEF CityPacket
<1>2. PICK c \in (IF game.city[t].there THEN CityChanges(game.city[t]) ELSE {NewCity}) :
        /\ Fact
        /\ \E b \in update_city_position(scenery, [game EXCEPT !.city[t] = c], t) :
             game' = b.game /\ scenery' = b.scenery
  BY <1>1
<1>3. game.city[t] \in Cities
  BY CitiesAre DEF SceneInv, Faithful, Played
<1>4. c \in Cities
  BY <1>3, NewCities
<1>5. Faithful(scenery', game')
  BY <1>2, <1>4, CityComes
<1> QED BY <1>2, <1>5, FactIs, SceneInvNext DEF SceneInv

LEMMA CityRemovedKeeps == SceneInv /\ remove_city => SceneInv'
<1> SUFFICES ASSUME SceneInv, remove_city PROVE SceneInv'
  OBVIOUS
<1>1. PICK t \in Site :
        /\ Fact
        /\ \E b \in update_city_position(scenery, [game EXCEPT !.city[t] = NoCity], t) :
             game' = b.game /\ scenery' = b.scenery
  BY DEF remove_city
<1>2. Faithful(scenery', game')
  BY <1>1, NewCities, CityComes
<1> QED BY <1>1, <1>2, FactIs, SceneInvNext DEF SceneInv

\* Extras, terrain and animations are no matter of units and cities.
LEMMA OtherwiseFaithful ==
  ASSUME NEW v, NEW f, Faithful(v, f), NEW g \in Games, g.at = f.at, g.stack = f.stack,
         g.focus = f.focus, g.city = f.city
  PROVE  Faithful(v, g)
<1>1. Played(g) /\ RingRight(v, g)
  BY DEF Faithful, Played, Stacked, Attentive, RingRight
<1>2. \A t \in Site : Paired(v, t) /\ Peopled(v, g, t)
  BY DEF Faithful, Peopled
<1> QED BY <1>1, <1>2 DEF Faithful

LEMMA TileInfoKeeps == SceneInv /\ handle_tile_info_objects => SceneInv'
<1> SUFFICES ASSUME SceneInv, handle_tile_info_objects PROVE SceneInv'
  OBVIOUS
<1>1. PICK t \in Site, extras \in SUBSET {"mine", "pollution"}, terrain \in Terrains :
        LET g == [game EXCEPT !.extras[t] = extras, !.terrain[t] = terrain]
        IN  /\ Fact /\ (extras = game.extras[t] \/ terrain = game.terrain[t])
            /\ game' = g /\ scenery' \in update_tile_extras(scenery, g, t)
  BY DEF handle_tile_info_objects
<1> DEFINE now == [game.extras EXCEPT ![t] = extras]
           land == [game.terrain EXCEPT ![t] = terrain]
<1>0. game \in Games
  BY DEF SceneInv, Faithful, Played
<1>2. game' = [game EXCEPT !.extras = now, !.terrain = land]
  BY <1>0, <1>1 DEF Games
<1>3. now \in [Site -> SUBSET {"mine", "pollution"}] /\ land \in [Site -> Terrains]
  BY <1>0 DEF Games
<1> HIDE DEF now, land
<1>4. game' \in Games
  BY <1>0, <1>2, <1>3, ZenonT(60) DEF Games
<1>5. game'.at = game.at /\ game'.stack = game.stack /\ game'.focus = game.focus /\ game'.city = game.city
  BY <1>0, <1>2 DEF Games
<1>6. Faithful(scenery, game')
  BY <1>4, <1>5, OtherwiseFaithful DEF SceneInv
<1>7. scenery' \in update_tile_extras(scenery, game', t)
  BY <1>1
<1>8. Faithful(scenery', game')
  BY <1>6, <1>7, ExtrasStayFaithful
<1> QED BY <1>1, <1>8, FactIs, SceneInvNext DEF SceneInv

LEMMA AnimationsKeep ==
  ASSUME NEW v, NEW f, Faithful(v, f), NEW ways \in [Piece -> Seq(Site)], NEW g,
         g = [f EXCEPT !.anim = ways]
  PROVE  Faithful(v, g)
<1>0. f \in Games
  BY DEF Faithful, Played
<1>1. g \in Games
  BY <1>0, ZenonT(60) DEF Games
<1>2. g.at = f.at /\ g.stack = f.stack /\ g.focus = f.focus /\ g.city = f.city
  BY <1>0 DEF Games
<1> QED BY <1>1, <1>2, OtherwiseFaithful

LEMMA AnimationsResetKeeps == SceneInv /\ reset_unit_anim_list => SceneInv'
<1> SUFFICES ASSUME SceneInv, reset_unit_anim_list PROVE SceneInv'
  OBVIOUS
<1> DEFINE ways == [u \in Piece |-> <<>>]
<1>1. Fact /\ game' = [game EXCEPT !.anim = ways] /\ scenery' = scenery
  BY DEF reset_unit_anim_list
<1>2. ways \in [Piece -> Seq(Site)]
  OBVIOUS
<1> HIDE DEF ways
<1>3. Faithful(scenery', game')
  BY <1>1, <1>2, AnimationsKeep DEF SceneInv
<1> QED BY <1>1, <1>3, FactIs, SceneInvNext DEF SceneInv

LEMMA AnimatedKeeps == SceneInv /\ update_animated_objects => SceneInv'
<1> SUFFICES ASSUME SceneInv, update_animated_objects PROVE SceneInv'
  OBVIOUS
<1>1. PICK arrive \in SUBSET scenery.moving :
        LET runs == {u \in scenery.moving : Len(game.anim[u]) > 1}
            over == {u \in arrive : Len(game.anim[u]) = 2}
            g == [game EXCEPT !.anim = [u \in Piece |-> IF u \in over THEN <<>>
                                                        ELSE IF u \in arrive THEN Tail(@[u])
                                                        ELSE @[u]]]
            v == [scenery EXCEPT !.moving = runs \ over]
        IN  /\ arrive \subseteq runs
            /\ game' = g
            /\ scenery' = Redraw(v, g, {game.anim[u][2] : u \in over})
            /\ scenery' # scenery \/ game' # game
            /\ UNCHANGED facts
  BY Zenon DEF update_animated_objects
<1> DEFINE runs == {u \in scenery.moving : Len(game.anim[u]) > 1}
           over == {u \in arrive : Len(game.anim[u]) = 2}
           ways == [u \in Piece |-> IF u \in over THEN <<>>
                                    ELSE IF u \in arrive THEN Tail(game.anim[u]) ELSE game.anim[u]]
           v == [scenery EXCEPT !.moving = runs \ over]
           sites == {game.anim[u][2] : u \in over}
<1>0. game \in Games /\ scenery \in Views
  BY DEF SceneInv, Faithful, Played, Kept
<1>2. game.anim \in [Piece -> Seq(Site)] /\ scenery.moving \in SUBSET Piece
  BY <1>0 DEF Games, Views
<1>3. arrive \subseteq runs /\ facts' = facts
  BY <1>1
<1>4. game' = [game EXCEPT !.anim = ways]
  BY <1>0, <1>1 DEF Games
<1>5. scenery' = Redraw(v, game', sites)
  BY <1>1
<1>6. ways \in [Piece -> Seq(Site)]
  <2> SUFFICES ASSUME NEW u \in Piece PROVE ways[u] \in Seq(Site)
    OBVIOUS
  <2>1. game.anim[u] \in Seq(Site)
    BY <1>2
  <2>2. u \in arrive => Tail(game.anim[u]) \in Seq(Site)
    <3>1. u \in arrive => game.anim[u] # <<>>
      BY <1>3
    <3> QED BY <2>1, <3>1
  <2> QED BY <2>1, <2>2
<1>7. sites \in SUBSET Site
  <2> SUFFICES ASSUME NEW u \in over PROVE game.anim[u][2] \in Site
    OBVIOUS
  <2>1. game.anim[u] \in Seq(Site) /\ Len(game.anim[u]) = 2
    BY <1>2
  <2> QED BY <2>1
<1>8. runs \ over \in SUBSET Piece
  BY <1>2
<1> HIDE DEF runs, over, ways, sites
<1>9. v \in Views
  BY <1>0, <1>8, ZenonT(60) DEF Views
<1>10. v.has = scenery.has /\ v.stray = scenery.stray /\ v.scene = scenery.scene /\ v.ring = scenery.ring
  BY <1>0 DEF Views
<1> HIDE DEF v
<1>11. Faithful(scenery, game')
  BY <1>4, <1>6, AnimationsKeep DEF SceneInv
<1>12. Faithful(v, game')
  BY <1>9, <1>10, <1>11, ModelsStayFaithful
<1>13. Faithful(scenery', game')
  BY <1>5, <1>7, <1>12, RedrawStaysFaithful
<1> QED BY <1>3, <1>13, SceneInvNext DEF SceneInv

LEMMA LoadFailsKeeps == SceneInv /\ LoadFails => SceneInv'
<1> SUFFICES ASSUME SceneInv, LoadFails PROVE SceneInv'
  OBVIOUS
<1>1. PICK m \in scenery.fetching :
        /\ scenery' = [scenery EXCEPT !.fetching = scenery.fetching \ {m}]
        /\ Fact /\ game' = game
  BY DEF LoadFails
<1>0. scenery \in Views
  BY DEF SceneInv, Faithful, Kept
<1>2. scenery.fetching \ {m} \in SUBSET Model
  BY <1>0 DEF Views
<1>3. scenery' \in Views
  BY <1>0, <1>1, <1>2, ZenonT(60) DEF Views
<1>4. /\ scenery'.has = scenery.has /\ scenery'.stray = scenery.stray
      /\ scenery'.scene = scenery.scene /\ scenery'.ring = scenery.ring
  BY <1>0, <1>1 DEF Views
<1>5. Faithful(scenery', game)
  BY <1>3, <1>4, ModelsStayFaithful DEF SceneInv
<1> QED BY <1>1, <1>5, FactIs, SceneInvNext DEF SceneInv

LEMMA LoadedKeeps == SceneInv /\ load_model => SceneInv'
<1> SUFFICES ASSUME SceneInv, load_model PROVE SceneInv'
  OBVIOUS
<1>1. PICK m \in scenery.fetching :
        LET got == [scenery EXCEPT !.loaded = @ \cup {m}, !.fetching = @ \ {m}]
            waiting == {t \in Site : scenery.wanted[t] = m}
        IN  /\ \E b \in LoadedTiles(m, {Built(got, game)}, waiting) :
                 game' = b.game /\ scenery' = b.scenery
            /\ UNCHANGED facts
  BY DEF load_model
<1> DEFINE got == [scenery EXCEPT !.loaded = @ \cup {m}, !.fetching = @ \ {m}]
           waiting == {t \in Site : scenery.wanted[t] = m}
           results == LoadedTiles(m, {Built(got, game)}, waiting)
<1>2. PICK b \in results : game' = b.game /\ scenery' = b.scenery
  BY <1>1
<1>3. facts' = facts
  BY <1>1
<1>0. scenery \in Views
  BY DEF SceneInv, Faithful, Kept
<1>4. m \in Model
  BY <1>0 DEF Views
<1>5. got \in Views
  <2>1. scenery.loaded \cup {m} \in SUBSET Model /\ scenery.fetching \ {m} \in SUBSET Model
    BY <1>0, <1>4 DEF Views
  <2>2. got = [scenery EXCEPT !.loaded = scenery.loaded \cup {m}, !.fetching = scenery.fetching \ {m}]
    BY <1>0 DEF Views
  <2> HIDE DEF got
  <2> QED BY <1>0, <2>1, <2>2, ZenonT(60) DEF Views
<1>6. /\ got.has = scenery.has /\ got.stray = scenery.stray
      /\ got.scene = scenery.scene /\ got.ring = scenery.ring
  BY <1>0 DEF Views
<1>7. waiting \in SUBSET Site
  OBVIOUS
<1> HIDE DEF got, waiting
<1>8. Faithful(got, game)
  BY <1>5, <1>6, ModelsStayFaithful DEF SceneInv
<1>9. {Built(got, game)} \in SUBSET Fair
  BY <1>8, FairIs
<1>10. results \in SUBSET Fair
  BY <1>7, <1>9, TilesInTurn
<1> HIDE DEF results
<1>11. Faithful(scenery', game')
  BY <1>2, <1>10 DEF Fair
<1> QED BY <1>3, <1>11, SceneInvNext DEF SceneInv

LEMMA ShownAllKeeps == SceneInv /\ add_all_objects_to_scene => SceneInv'
<1> SUFFICES ASSUME SceneInv, add_all_objects_to_scene PROVE SceneInv'
  OBVIOUS
<1> DEFINE empty == [scenery EXCEPT !.scene = TRUE, !.has = NoObjects,
                                 !.labelOf = NoKeys, !.barOf = NoKeys]
           twice == {t \in Site : Len(game.stack[t]) > 1}
           manned == {t \in Site : game.stack[t] # <<>>}
           once == Redraw(empty, game, manned)
           units == Redraw(once, game, twice)
           settled == {t \in Site : game.city[t].there}
           cities == Each(DrawCity, {Built(units, game)}, settled)
           all == Each(DrawExtras, cities, Site)
<1>1. ~scenery.scene /\ facts' = facts
  BY DEF add_all_objects_to_scene
<1>2. PICK b \in all : game' = b.game /\ scenery' = b.scenery
  BY DEF add_all_objects_to_scene
<1>0. scenery \in Views /\ Orderly(scenery) /\ Played(game)
  BY SceneInvIs DEF Orderly, Kept
<1>3. scenery.ring = Nobody
  BY <1>0, <1>1 DEF Orderly
<1>4. /\ NoObjects \in [Site -> SUBSET ObjectKinds]
      /\ NoKeys \in [Site -> {<<>>} \cup (Looks \X (1..Cardinality(Piece)))]
      /\ NoKeys \in [Site -> {<<>>} \cup {<<l>> : l \in Looks}]
  BY DEF NoObjects, NoKeys
<1>5. empty \in Views
  BY <1>0, <1>4, ZenonT(60) DEF Views
<1>6. empty.has = NoObjects /\ empty.stray = scenery.stray /\ empty.ring = Nobody
  BY <1>0, <1>3 DEF Views
<1> HIDE DEF empty
<1>7. Faithful(empty, game)
  <2>1. \A t \in Site : empty.has[t] = {}
    BY <1>6 DEF NoObjects
  <2>2. Kept(empty)
    BY <1>0, <1>5, <1>6 DEF Kept, Orderly
  <2> QED BY <1>0, <1>6, <2>1, <2>2 DEF Faithful, RingRight, Paired, Peopled
<1>8. /\ twice \in SUBSET Site /\ manned \in SUBSET Site /\ settled \in SUBSET Site
  OBVIOUS
<1> HIDE DEF twice, manned, settled
<1>9. Faithful(once, game)
  BY <1>7, <1>8, RedrawStaysFaithful
<1> HIDE DEF once
<1>10. Faithful(units, game)
  BY <1>8, <1>9, RedrawStaysFaithful
<1> HIDE DEF units
<1>11. {Built(units, game)} \in SUBSET Fair
  BY <1>10, FairIs
<1>12. cities \in SUBSET Fair
  BY <1>8, <1>11, CitiesInTurn
<1> HIDE DEF cities
<1>13. all \in SUBSET Fair
  BY <1>12, ExtrasInTurn
<1> HIDE DEF all
<1>14. Faithful(scenery', game')
  BY <1>2, <1>13 DEF Fair
<1> QED BY <1>1, <1>14, SceneInvNext DEF SceneInv

LEMMA SceneStarts == Init_tileobjects => SceneInv
<1> SUFFICES ASSUME Init_tileobjects PROVE SceneInv
  OBVIOUS
<1>1. game \in Games
  <2>1. [u \in Piece |-> <<>>] \in [Piece -> Seq(Site)] /\ [t \in Site |-> <<>>] \in [Site -> Seq(Piece)]
    OBVIOUS
  <2>2. [t \in Site |-> NoCity] \in [Site -> Cities]
    BY NewCities
  <2>3. [u \in Piece |-> Nobody] \in [Piece -> Site \cup {Nobody}]
    OBVIOUS
  <2>4. [u \in Piece |-> "idle"] \in [Piece -> Looks] /\ [t \in Site |-> "Forest"] \in [Site -> Terrains]
    BY DEF Looks, Terrains
  <2>5. [t \in Site |-> {}] \in [Site -> SUBSET {"mine", "pollution"}]
    OBVIOUS
  <2>6. [t \in Site |-> NoCity] \in [Site -> [there : BOOLEAN, large : BOOLEAN, walls : BOOLEAN,
                           unhappy : BOOLEAN, library : BOOLEAN, added : BOOLEAN,
                           drawn : {"village", "town", Nobody}]]
    BY <2>2 DEF Cities
  <2> QED BY <2>1, <2>3, <2>4, <2>5, <2>6 DEF Init_tileobjects, Games
<1>2. scenery \in Views
  <2>1. /\ NoObjects \in [Site -> SUBSET ObjectKinds]
        /\ NoKeys \in [Site -> {<<>>} \cup (Looks \X (1..Cardinality(Piece)))]
        /\ NoKeys \in [Site -> {<<>>} \cup {<<l>> : l \in Looks}]
    BY DEF NoObjects, NoKeys
  <2>2. [t \in Site |-> Nobody] \in [Site -> Model \cup {Nobody}]
    OBVIOUS
  <2>3. {"village"} \in SUBSET Model /\ {} \in SUBSET Model
    BY DEF Model
  <2> QED BY <2>1, <2>2, <2>3 DEF Init_tileobjects, Views
<1>3. /\ game.focus = Nobody /\ scenery.ring = Nobody /\ facts = 0
      /\ \A t \in Site : game.stack[t] = <<>> /\ scenery.stray[t] = {} /\ scenery.has[t] = {}
  BY DEF Init_tileobjects, NoObjects
<1>4. Played(game)
  BY <1>1, <1>3 DEF Played, Stacked, Attentive
<1>5. Faithful(scenery, game)
  BY <1>2, <1>3, <1>4 DEF Faithful, Kept, RingRight, Paired, Peopled
<1> QED BY <1>3, <1>5, SceneAssumption DEF SceneInv

LEMMA SceneStep == SceneInv /\ [Next_tileobjects]_tileVars => SceneInv'
<1> SUFFICES ASSUME SceneInv, [Next_tileobjects]_tileVars PROVE SceneInv'
  OBVIOUS
<1>1. CASE UNCHANGED tileVars
  BY <1>1, SceneInvNext DEF tileVars, SceneInv
<1> QED
  BY <1>1, UnitPacketKeeps, UnitRemovedKeeps, UnitFocusedKeeps, ClearSelectionKeeps,
     CityPacketKeeps, CityRemovedKeeps, TileInfoKeeps, AnimationsResetKeeps, AnimatedKeeps,
     LoadedKeeps, LoadFailsKeeps, ShownAllKeeps
  DEF Next_tileobjects

LEMMA SceneIsRight == SceneInv => SceneFaithful
<1> SUFFICES ASSUME SceneInv PROVE SceneFaithful
  OBVIOUS
<1>1. Faithful(scenery, game) /\ facts \in 0..MaxFacts
  BY DEF SceneInv
<1>2. TilesTypeOK
  BY <1>1 DEF TilesTypeOK, Faithful, Kept, Played
<1>3. \A t \in Site : scenery.stray[t] = {}
  BY <1>1 DEF Faithful, Kept
<1>4. \A t \in Site : {"mesh", "flag"} \cap scenery.has[t] # {}
                        => "mesh" \in scenery.has[t] /\ game.stack[t] # <<>>
  BY <1>1 DEF Faithful, Paired, Peopled
<1>5. \A t \in Site : CityKinds \cap scenery.has[t] # {} => "city" \in scenery.has[t] /\ game.city[t].there
  BY <1>1 DEF Faithful, Paired, Peopled
<1>6. \A t \in Site : scenery.ring = t
                        => /\ game.focus # Nobody
                           /\ game.at[game.focus] = t \/ "mesh" \notin scenery.has[game.at[game.focus]]
  BY <1>1, SceneAssumption DEF Faithful, RingRight
<1> QED BY <1>2, <1>3, <1>4, <1>5, <1>6 DEF SceneFaithful

\* The view of the map shows the game as it is, whatever the order of packets,
\* clicks, frames and downloads (object_position_handler.js, preload.js).
THEOREM ViewIsFaithful == SceneSpec => []SceneFaithful
<1>1. Init_tileobjects => SceneInv
  BY SceneStarts
<1>2. SceneInv /\ [Next_tileobjects]_tileVars => SceneInv'
  BY SceneStep
<1>3. SceneInv => SceneFaithful
  BY SceneIsRight
<1> QED BY <1>1, <1>2, <1>3, PTL DEF SceneSpec
=============================================================================
