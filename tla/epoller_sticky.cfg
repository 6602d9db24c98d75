SPECIFICATION Spec
CONSTANTS
    f1 = f1
    t1 = t1
    Fds = {f1}
    Timers = {t1}
    MaxRef = 1
    DataOps <- WaitsAndReadDeadlines
    CtlOps = {"ADD"}
    Quitters = {}
    SocketErrors = FALSE
INVARIANTS
    DeadlineClearsTimeout
CHECK_DEADLOCK FALSE
