SPECIFICATION Spec
CONSTANTS
    Requests <- MCRequests
    Frames <- MCFrames
    Settings <- MCSeptember
    MaxMessages = 2
INVARIANT RouteNotFoundIsSent
CHECK_DEADLOCK FALSE
