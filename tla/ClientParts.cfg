SPECIFICATION Spec
CONSTANTS
  u1 = u1
  u2 = u2
  Unit = {u1, u2}
  Zero = zero
  MaxUp = 2
  MaxDown = 1
  MaxWaiting = 1
  MaxEvents = 4
  Ship = {u1, u2}
  place1 = place1
  place2 = place2
  Place = {place1, place2}
  Unknown = Unknown
  Asked = Asked
  MaxOrders = 2
  MaxMoves = 1
  MaxPackets = 2
  item1 = item1
  item2 = item2
  Item = {item1, item2}
  Buildable = {item1}
  Hole = hole
  MaxLen = 3
  MaxEdits = 2
  MaxNews = 1
  MaxRates = {60}
  Position = {0, 35, 60}
  left = left
  right = right
  Party = {left, right}
  Worth = {1, 2}
  MaxReqs = 3
  Wraps <- AllWraps
  Hexes = {FALSE, TRUE}
  XSize = 6
  YSize = 5
  RadiusSq = {2, 5}
  MaxLooks = 2
  Piece = {u1, u2}
  site1 = site1
  site2 = site2
  Site = {site1, site2}
  Nobody = Nobody
  MaxFacts = 4
SYMMETRY Sym
CHECK_DEADLOCK FALSE
INVARIANTS MeetingShown ListSound RatesLegal TilesFound FocusAlive SceneFaithful
PROPERTIES SelectionFollows FocusFair FinalOrderOfItsGoto
