SPECIFICATION FairSpec
CONSTANTS
    f1 = f1
    Fds = {f1}
    Timers = {}
    MaxRef = 1
    DataOps <- Waits
    CtlOps = {"ADD"}
    Quitters = {}
    SocketErrors = FALSE
PROPERTIES
    WriterServed
CHECK_DEADLOCK FALSE
