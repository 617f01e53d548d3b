SPECIFICATION Spec
CONSTANTS
    s1 = s1
    s2 = s2
    s3 = s3
    None = None
    Server <- Peers12
    MaxTerm = 2
    MaxIndex = 2
    MaxMsgs = 2
    Timeouts <- Contested
    Restarts <- Peers12
    Appliers <- Peers12
VIEW LiveVotes
INVARIANTS
    TypeOK
    ElectionSafety
    OneVotePerTerm
    ElectionInv
    MatchIndexSound
    ApplyInOrder
    IndexOrder
    SnapshotCoversPrefix
PROPERTIES
    NothingGoesBack
CHECK_DEADLOCK FALSE
