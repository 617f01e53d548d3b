CONSTANTS
    Server = {s1, s2}
    Request = {q1, q2}
    NoOne = NoOne
    Snapshots = {FALSE}
    Hasty = {}
    MaxTerm = 2
    MaxRestarts = 0
SPECIFICATION Spec
INVARIANT ResultMatches
CHECK_DEADLOCK FALSE
SYMMETRY Symmetry
