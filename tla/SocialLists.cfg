SPECIFICATION Spec
CONSTANTS
    Conn = {c1, c2, c3}
    None = None
    Mob = {}
    MaxParty = 3
    MaxRequest = 2
    MaxFollowing = 2
    MaxPlaces = 3
CONSTRAINT FewPlaces
SYMMETRY ConnSymmetry
INVARIANT NoDuplicates
PROPERTY ImplementsGraph
