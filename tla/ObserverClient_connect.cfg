SPECIFICATION Spec
CONSTANTS
  s1 = s1
  s2 = s2
  t1 = t1
  Sock = {s1, s2}
  None = None
  Tile = {t1}
  MaxRetries = 2
  MaxPending = 1
  MaxTimers = 1
  MaxTimeouts = 2
SYMMETRY Sym
CHECK_DEADLOCK FALSE
INVARIANTS NothingMissed RetriesSound
PROPERTY StartsWithTiles
