SPECIFICATION RunSpec
CONSTANTS
    u1 = u1
    u2 = u2
    u3 = u3
    p1 = p1
    p2 = p2
    Upstreams = {}
    Payments = {p1, p2}
    Amount <- MCAmount
    Capacity = 4
    InitialClient = 3
    MaxAccepted = 3
    MaxInFlight = 4
    Direct = {}
    Refused = {}
    OverrideBalances = {}
    MaxUpdates = 3
    MaxRestarts = 0
INVARIANTS
    RefundedIsUnpaid
