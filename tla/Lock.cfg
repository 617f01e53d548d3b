CONSTANTS
    Client = {c1, c2}
    Key = {l}
    Value = {c1, c2, Free}
    NoValue = NoValue
    MaxVersion = 0
    l = l
    Free = Free
    MaxRounds = 2
SPECIFICATION LockSpec
INVARIANTS LockTypeOK MutualExclusion LockInv
PROPERTY LockProgress
CHECK_DEADLOCK FALSE
