SPECIFICATION Spec
CONSTANTS
    Payloads <- MCPayloads
    Keys <- MCKeys
    Lengths <- MCLengths
INVARIANT LengthIsRead
CHECK_DEADLOCK FALSE
