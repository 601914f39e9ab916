SPECIFICATION RaceSpec
CONSTANTS
    Conn = {c1, c2, c3}
    None = None
    Mob = {m1}
    MaxParty = 3
    MaxCommands = 5
SYMMETRY ConnSymmetry
CHECK_DEADLOCK FALSE
PROPERTIES
    AgreementLostOnlyLate
    RelationsReturnOnlyLate
    SuccessionKeepsParty
