SPECIFICATION Spec
CONSTANTS
    a = a
    b = b
    c = c
    i = i
    j = j
    l1 = l1
    l2 = l2
    Server = {a, b, c}
    Upstreams <- Detour
    Identity = {i, j}
    Held <- AtRoot
    Down = {}
    Client = {l1, l2}
    Entry <- LeafOrAbove
    Budgets = {1, 5}
    MaxRecurse = 2
    Width = 2
    Permits = 1
    Caching = TRUE
    MaxChanges = 2
    None = None
    NoTask = NoTask
CHECK_DEADLOCK FALSE
INVARIANTS
    ChainResolves
    NegativeIsTrue
PROPERTY
    BindingIsRelayed
