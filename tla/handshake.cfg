SPECIFICATION LiveSpec
CONSTANTS
    Plans <- AllPlans
    RefNum <- Numbers
    AddressSize = 15
INVARIANTS
    TypeOK
    OpensTogether
PROPERTIES
    OneWriter
    DialEnds
    HandsOver
CHECK_DEADLOCK FALSE
