SPECIFICATION Spec
CONSTANTS
    u1 = u1
    u2 = u2
    u3 = u3
    p1 = p1
    p2 = p2
    Upstreams = {u1}
    Payments = {p1}
    Amount <- MCAmount
    Capacity = 2
    InitialClient = 1
    MaxAccepted = 2
    MaxInFlight = 2
    Direct = {}
    Refused = {}
    OverrideBalances = {3}
    MaxUpdates = 2
    MaxRestarts = 1
INVARIANTS
    TypeOK
    FundsConserved
    
PROPERTIES
    ErrorsStick
