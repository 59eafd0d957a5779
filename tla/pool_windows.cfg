SPECIFICATION FairSpec
CONSTANTS
    c1 = c1
    c2 = c2
    c3 = c3
    Conns = {c1, c2, c3}
    None = None
    Server = Server
    MaxThreads = 1
    MaxFds = 2
    Backlog = 1
    HangUps <- Fin
    Posix = FALSE
    Secure = FALSE
PROPERTIES
    AcceptLoopReturns
    QueuedIsAccepted
CHECK_DEADLOCK FALSE
