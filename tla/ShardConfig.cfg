SPECIFICATION Spec
CONSTANTS
    NShards = 12
    Gids = {1, 2, 3, 4}
    MaxNum = 4
INVARIANT
    Balanced
PROPERTY
    MovesNeeded
