SPECIFICATION Spec
CONSTANTS
  p1 = p1
  p2 = p2
  m1 = m1
  m2 = m2
  temple = temple
  field = field
  k1 = k1
  k2 = k2
  Players = {p1}
  Mobs = {m1, m2}
  Rooms = {temple, field}
  NoRoom = NoRoom
  Temple = temple
  Leader = p1
  MaxPaid = 1
  KeyOf <- MCTwoKeys
  Kind <- MCKind
  Moving = {m2}
  Origin <- MCOrigin
  TempleStep = 0
  LastStep = 0
PROPERTIES
  NobodyFightsTheDead
  MobsLive
