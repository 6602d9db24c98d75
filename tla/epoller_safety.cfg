SPECIFICATION Spec
CONSTANTS
    f1 = f1
    t1 = t1
    Fds = {f1}
    Timers = {t1}
    MaxRef = 2
    DataOps <- ReaderAsksAll
    CtlOps = {"ADD", "DEL"}
    Quitters = {"R", "W"}
    SocketErrors = TRUE
INVARIANTS
    TypeOK
    NobodyForgotten
    NothingWithheld
    DeadlinesOwned
    AnsweredOnce
    WaiterArmed
PROPERTIES
    KeepsPromise
CHECK_DEADLOCK FALSE
