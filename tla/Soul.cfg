SPECIFICATION Spec
SYMMETRY Symmetry
CONSTANTS
  Conn = {c1, c2}
  a = a
  x = x
  y = y
  Saved <- MCSaved
  Names = {a, x, y}
  Mains = {a}
  Rooms = {r1, r2}
  Start = r1
  MaxParty = 3
  NoName = NoName
  NoRoom = NoRoom
  NoConn = NoConn
INVARIANTS
  NobodyAbandoned
  NoGhostPosition
PROPERTIES
  Gathers
