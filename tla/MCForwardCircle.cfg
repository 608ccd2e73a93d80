SPECIFICATION FairSpec
CONSTANTS
    a = a
    b = b
    c = c
    i = i
    j = j
    l1 = l1
    l2 = l2
    Server = {a, b}
    Upstreams <- Mutual
    Identity = {i}
    Held <- Nowhere
    Down = {}
    Client = {l1, l2}
    Entry <- Anywhere
    Budgets = {2}
    MaxRecurse = 2
    Width = 1
    Permits = 1
    Caching = TRUE
    MaxChanges = 1
    None = None
    NoTask = NoTask
CHECK_DEADLOCK FALSE
INVARIANTS
    TypeOK
    PermitsAddUp
    LinkIsTheWaiters
PROPERTY
    EveryLookupAnswered
