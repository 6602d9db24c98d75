SPECIFICATION Spec
CONSTANTS
    f1 = f1
    f2 = f2
    Fds = {f1, f2}
    Timers = {}
    MaxRef = 1
    DataOps <- ReadWaits
    CtlOps = {"ADD", "DEL"}
    Quitters = {}
    SocketErrors = TRUE
INVARIANTS
    WaiterArmed
SYMMETRY Symmetry
CHECK_DEADLOCK FALSE
