SPECIFICATION Spec
CONSTANTS
    Files <- MCFiles
    Origins <- MCOrigins
    MaxOrigins = 2
    MaxHeaders = 2
    MaxAdds = 3
INVARIANTS
    TypeOK
    WildcardIsAlone
    OriginsAreAllowedOnes
    MethodsFit
CHECK_DEADLOCK FALSE
