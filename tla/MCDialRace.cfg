SPECIFICATION FairDial
CONSTANTS
    MaxAnswers = 3
    Delay = 2
    Timeout = 5
    Trip = 1
CHECK_DEADLOCK FALSE
INVARIANTS
    
    ErrorMeansNobody
    DeadCostLittle
PROPERTY
    DialEnds
