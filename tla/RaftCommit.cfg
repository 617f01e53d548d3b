SPECIFICATION Spec
CONSTANTS
    s1 = s1
    s2 = s2
    s3 = s3
    None = None
    Server <- Peers123
    MaxTerm = 4
    MaxIndex = 2
    MaxMsgs = 1
    Timeouts <- InTurn
    Restarts <- NoPeer
    Appliers <- Peer2
VIEW LiveState
INVARIANTS
    LeaderCompleteness
    LogMatching
    StateMachineSafety
    MatchIndexSound
    StatePersisted
PROPERTIES
    CommittedEntriesStay
CHECK_DEADLOCK FALSE
