SPECIFICATION ItemSpec
CONSTANTS
  Players = {p1, p2, p3}
  Mobs = {m1, m2}
  MaxCopies = 3
INVARIANT NoBodyHoldsTwo
PROPERTY NothingElseDoubles
