SPECIFICATION RaceSpec
CONSTANTS
    Conn = {c1, c2, c3}
    None = None
    Mob = {}
    MaxParty = 3
    MaxCommands = 4
SYMMETRY ConnSymmetry
CHECK_DEADLOCK FALSE
INVARIANT LeadersMapToThemselves
