SPECIFICATION FairSpec
CONSTANTS
  v1 = v1
  o1 = o1
  w1 = w1
  Variants = {v1}
  Orders = {o1}
  Lines <- OneLine
  InitialStock <- OneStock
  Deltas <- NoDelta
  Workers = {w1}
  MaxIntents = 2
  MaxFaults = 0
  Active <- Live
  Overlap = FALSE
INVARIANT HoldCovered
PROPERTIES HoldEnds
CHECK_DEADLOCK FALSE
