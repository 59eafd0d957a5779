SPECIFICATION Spec
CONSTANTS
    c1 = c1
    c2 = c2
    c3 = c3
    Conns = {c1, c2, c3}
    None = None
    Server = Server
    MaxThreads = 2
    MaxFds = 3
    Backlog = 1
    HangUps <- NoHangUps
    Posix = TRUE
    Secure = TRUE
SYMMETRY Symmetry
INVARIANTS
    OneThreadPerConnection
    AnswersItsRequester
    EndedThreadLeavesNoHandle
CHECK_DEADLOCK FALSE
