SPECIFICATION Spec
CONSTANTS
    Servers = 2
    Ttl = 2
    MaxTime = 4
    MaxSigned = 3
    MaxRestarts = 1
    Instant = FALSE
    None = None
CHECK_DEADLOCK FALSE
INVARIANTS
    SerialsTellApart
    
    WithdrawalSticks
