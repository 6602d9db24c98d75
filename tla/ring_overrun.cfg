SPECIFICATION Spec
CONSTANTS
    Window = 4
    MaxSize = 4
    Modulus = 16
    LastTaken = 8
INVARIANTS
    GivesFreePlaces
CHECK_DEADLOCK FALSE
