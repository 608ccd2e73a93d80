SPECIFICATION Spec
CONSTANTS
    Key = {1, 2, 3}
    Servers = 2
    Command = {c1, c2}
    Limit = 2
    Lapsing = {2}
    None = None
SYMMETRY Symmetry
CHECK_DEADLOCK FALSE
INVARIANTS
    LiveOnesAreRevoked
