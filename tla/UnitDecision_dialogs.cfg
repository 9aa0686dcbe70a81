SPECIFICATION DecisionSpec
CONSTANTS
  u1 = u1
  u2 = u2
  Unit = {u1, u2}
  Zero = zero
  MaxUp = 2
  MaxDown = 1
  MaxWaiting = 1
  MaxEvents = 5
INVARIANT OneDialog
SYMMETRY Sym
CHECK_DEADLOCK FALSE
