SPECIFICATION Spec
CONSTANTS
    Payloads <- MCPayloads
    Keys <- MCKeys
    Lengths <- MCLengths
INVARIANTS
    ShortFrameIsRead
    AnswerLengthIsNetworkOrder
    EchoIsWhole
    CloseIsAnswered
CHECK_DEADLOCK FALSE
