SPECIFICATION FairSpec
CONSTANTS
    Requests <- MCRequests
    Frames <- MCFrames
    Settings <- MCSettings
    MaxMessages = 3
INVARIANTS
    TypeOK
    ProtocolsAgree
    EndsAsAsked
    AnsweredRequestsLeaveNoArena
    AnswersKeepTls
    BodyIsComplete
PROPERTIES
    EveryRequestAnswered
    LeaverIsNoticed
CHECK_DEADLOCK FALSE
