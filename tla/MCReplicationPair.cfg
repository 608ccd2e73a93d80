SPECIFICATION FairSpec
CONSTANTS
    k1 = k1
    k2 = k2
    k3 = k3
    i1 = i1
    n1 = n1
    n2 = n2
    n3 = n3
    PubKey <- Keys
    NoKey = NoKey
    NoRecord = NoRecord
    U64Max = 99
    MaxEndpoints = 2
    MinTtl = 1
    MaxTtl = 3
    MaxClockSkew = 1
    Node = {n1, n2, n3}
    Peers <- OneWay
    Silent = {n3}
    Offered <- Mixed
    KeyOrder <- Order
    Limit = 2
    MaxTime = 2
    MaxFaults = 1
    Prompt = TRUE
INVARIANTS
    TypeOK
    OrderIndependent

    
