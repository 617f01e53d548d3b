CONSTANTS
    Workers = {w1, w2}
    NMap = 2
    NReduce = 2
    MapChanSize = 2
    Crashing = {w2}
    MaxSlow = 2
SPECIFICATION Spec
INVARIANTS TypeOK OutputInTime TaskOwned ReduceInputs SendNeverBlocks
PROPERTY JobCompletes
CHECK_DEADLOCK FALSE
