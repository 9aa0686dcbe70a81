CONSTANTS
  p1 = p1
  p2 = p2
  g1 = g1
  g2 = g2
  None = None
  Port = {p1}
  Game = {g1, g2}
  MaxRetries = 2
SPECIFICATION FairSpec
INVARIANT TypeOK
PROPERTY PortReturns
