CONSTANTS
  Conn = {c1, c2}
  Name = {n1}
  NoConn = NoConn
  NoName = NoName
  MaxCommands = 0
SPECIFICATION Spec
PROPERTY OldSessionYields
CHECK_DEADLOCK FALSE
