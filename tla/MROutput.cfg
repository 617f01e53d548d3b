CONSTANTS
    Workers = {w1, w2}
    NMap = 2
    NReduce = 1
    MapChanSize = 2
    Crashing = {w2}
    MaxSlow = 1
SPECIFICATION Spec
INVARIANTS OutputComplete
CHECK_DEADLOCK FALSE
