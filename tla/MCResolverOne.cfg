SPECIFICATION Spec
CONSTANTS
    Lookup = {p1, p2, p3}
    Identity = {i, j}
    Signed <- Few
    NegativeTtl = 1
    MaxTime = 3
    Caching = TRUE
    Parallel = FALSE
    None = None
    Missing = Missing
SYMMETRY Symmetry
INVARIANTS
    TypeOK
    OneIdentity
    NoDowngrade
    FreshWhenMade
