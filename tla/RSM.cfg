CONSTANTS
    Server = {s1, s2}
    Request = {q1, q2}
    NoOne = NoOne
    Snapshots = {TRUE, FALSE}
    Hasty = {q1, q2}
    MaxTerm = 3
    MaxRestarts = 1
SPECIFICATION Spec
INVARIANTS SameState SnapshotsTrue OkIsExecuted PendingHasWaiter
CHECK_DEADLOCK FALSE
SYMMETRY Symmetry
