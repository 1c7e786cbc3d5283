SPECIFICATION FairDrainSpec
CONSTANTS
  h1 = h1  h2 = h2  p1 = p1  p2 = p2
  Conns = {h1, h2, p1, p2}
  Hijacked = {h1, h2}
CHECK_DEADLOCK FALSE
INVARIANT DrainInv
INVARIANT NothingStaysOpen
PROPERTY NoRequestCut
PROPERTY DrainCompletes
