SPECIFICATION SceneSpec
CONSTANTS
  u1 = u1
  s1 = s1
  Piece = {u1}
  Site = {s1}
  Nobody = Nobody
  MaxFacts = 3
CHECK_DEADLOCK FALSE
INVARIANT ShownOnceLoaded
