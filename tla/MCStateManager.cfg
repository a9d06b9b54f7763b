SPECIFICATION Spec
CONSTANTS
    u1 = u1
    u2 = u2
    u3 = u3
    p1 = p1
    p2 = p2
    Upstreams = {u1, u2, u3}
    Payments = {p1, p2}
    Amount <- MCAmount
    LocalFunds = 4
    RemoteFunds = 3
    MaxUpdates = 6
INVARIANTS  OrderIrrelevant MirrorCommutes
CHECK_DEADLOCK FALSE
