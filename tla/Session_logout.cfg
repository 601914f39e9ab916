CONSTANTS
  Conn = {c1, c2}
  Name = {n1}
  NoConn = NoConn
  NoName = NoName
  MaxCommands = 1
SPECIFICATION Spec
INVARIANT TaskSavesOnLogout
CHECK_DEADLOCK FALSE
