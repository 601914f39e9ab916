CONSTANTS
  Conn = {c1, c2}
  Name = {n1}
  NoConn = NoConn
  NoName = NoName
  MaxCommands = 0
SPECIFICATION FairSpec
PROPERTY DisconnectEnds
CHECK_DEADLOCK FALSE
