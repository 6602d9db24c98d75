SPECIFICATION LiveSpec
CONSTANTS
    Plans <- AllPlans
    HeaderSize = 2
    MaxSize = 2
INVARIANTS
    TypeOK
    AckedWereRead
    NoByteSkipped
PROPERTIES
    KeepsOrder
    
CHECK_DEADLOCK FALSE
