SPECIFICATION Spec
CONSTANTS
    k1 = k1
    k2 = k2
    i1 = i1
    i2 = i2
    PubKey <- Keys
    NoKey = NoKey
    NoRecord = NoRecord
    U64Max = 99
    MaxEndpoints = 2
    MinTtl = 1
    MaxTtl = 3
    MaxClockSkew = 1
    Task = {t1, t2}
    Offered <- Rivals
    MaxTime = 3
    MaxRevision = 2
    ClockMayStep = TRUE
    Racing = FALSE
INVARIANTS
    TypeOK
    OwnershipHolds
    IndexReversesBindings
PROPERTY
    BindingIsForGood
