CONSTANTS
  Room = {"guide", "street"}
  Guided = {"guide"}
  Carried = {"guide", "street"}
  Interval = 2
  Lines = 2
  MaxLag = 2
  MaxMoves = 4
  MaxTime = 6
SPECIFICATION FairSpec
INVARIANTS InOrder
PROPERTIES NoneLeftOut OnlyIfBroughtBack StayingHearsAll
CHECK_DEADLOCK FALSE
