CONSTANTS
  Conn = {c1, c2}
  Name = {n1}
  NoConn = NoConn
  NoName = NoName
  MaxCommands = 2
SPECIFICATION Spec
SYMMETRY Symmetry
INVARIANTS TypeOK NameIndexCurrent PositionHasOwner DroppedOnlyIfReplaced
CHECK_DEADLOCK FALSE
