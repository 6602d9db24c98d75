SPECIFICATION Spec
CONSTANTS
    Window = 4
    MaxSize = 4
    Modulus = 16
    LastTaken = 14
INVARIANTS
    RefusedOnlyIfBusy
CHECK_DEADLOCK FALSE
