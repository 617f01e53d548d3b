SPECIFICATION ProgressSpec
CONSTANTS
    s1 = s1
    s2 = s2
    s3 = s3
    None = None
    Server <- Peers12
    MaxTerm = 1
    MaxIndex = 2
    MaxMsgs = 2
    Timeouts <- InTurn
    Restarts <- NoPeer
    Appliers <- Peers12
PROPERTIES
    CatchUp
CHECK_DEADLOCK FALSE
