CONSTANTS
    Client = {c1, c2}
    Key = {k1, k2}
    Value = {v1, v2}
    NoValue = NoValue
    MaxVersion = 2
SPECIFICATION Spec
PROPERTIES Linearizable CallReturns
