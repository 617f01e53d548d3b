SPECIFICATION Spec
CONSTANTS
    Server = {s1, s2}
    Client = {c1, c2}
    Key = {k}
    Value = {v}
    NoValue = NoValue
    Compacting = {s1}
    KeepReplies = 0
    KeepInSnapshot = 1
    MaxOps = 2
    MaxEvents = 3
INVARIANT
    ReplicasAgree
PROPERTY
    LinearizableUnlessMixedUp
CHECK_DEADLOCK FALSE
SYMMETRY Symmetry
