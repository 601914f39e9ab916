CONSTANTS
  Room = {"guide", "street"}
  Guided = {"guide"}
  Carried = {"guide", "street"}
  Interval = 1
  Lines = 2
  MaxLag = 1
  MaxMoves = 3
  MaxTime = 3
SPECIFICATION Spec
PROPERTY LeavingStops
CHECK_DEADLOCK FALSE
