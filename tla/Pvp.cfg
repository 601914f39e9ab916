SPECIFICATION Spec
CONSTANTS
  Players = {p1, p2, p3}
  Rooms = {r1, r2}
  Nobody = Nobody
  NoRoom = NoRoom
INVARIANTS
  LinkMeansFight
  LinksMutual
PROPERTIES
  NoTakeover
  GhostsEnd
