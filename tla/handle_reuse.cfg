SPECIFICATION Spec
CONSTANTS
    c1 = c1
    c2 = c2
    c3 = c3
    Conns = {c1, c2, c3}
    None = None
    Server = Server
    MaxThreads = 2
    MaxFds = 2
    Backlog = 1
    HangUps <- Fin
    Posix = TRUE
    Secure = FALSE
SYMMETRY Symmetry
INVARIANT OneThreadPerConnection
CHECK_DEADLOCK FALSE
