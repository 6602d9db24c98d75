SPECIFICATION LiveSpec
CONSTANTS
    c1 = c1
    c2 = c2
    Clients <- TwoClients
    MinEvents = 1
    MaxEvents = 2
    Delta = 1
INVARIANTS
    TypeOK
PROPERTIES
    AnsweredWhileRunning
    StopEnds
    ResizedOnEvidence
CHECK_DEADLOCK FALSE
