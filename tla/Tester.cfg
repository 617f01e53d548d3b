SPECIFICATION Spec
CONSTANTS
    s1 = s1
    s2 = s2
    k1 = k1
    c1 = c1
    Server = {s1, s2}
    Client = {k1}
    Holder = {s1, s2, k1}
    Call = {c1}
    MaxInstance = 2
    MaxOps = 3
INVARIANTS TesterTypeOK ReplyDurable LinksAsMarked
PROPERTIES SavedByCurrent CallReturns
CHECK_DEADLOCK FALSE
