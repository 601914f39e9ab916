SPECIFICATION Spec
CONSTANTS
    Conn = {c1, c2, c3}
    None = None
    Mob = {}
    MaxParty = 2
    MaxFollowing = 3
CONSTRAINT FewFollowers
SYMMETRY ConnSymmetry
INVARIANTS
    PartySizeBound
    NobodyLeadsItselfAsMember
