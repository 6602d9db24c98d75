SPECIFICATION Spec
CONSTANTS
    Window = 4
    MaxSize = 4
    Modulus = 16
    LastTaken = 9
INVARIANTS
    TypeOK
    OldestLeads
    EmptyMeansQuiet
PROPERTIES
    KeepsWindow
CHECK_DEADLOCK FALSE
