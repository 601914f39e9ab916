SPECIFICATION ItemSpec
CONSTANTS
  Players = {p1, p2}
  Mobs = {m1, m2}
  MaxCopies = 3
INVARIANT OneCopy
