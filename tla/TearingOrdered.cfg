SPECIFICATION Spec
CONSTANTS
  Systems <- UpToTwo
  MaxTearing = 2
  Pinned = TRUE
INVARIANTS TearingOrdered
