SPECIFICATION FairSpec
CONSTANTS
    u1 = u1
    u2 = u2
    u3 = u3
    p1 = p1
    p2 = p2
    Upstreams = {u1, u2}
    Payments = {}
    Amount <- MCAmount
    Capacity = 3
    InitialClient = 0
    MaxAccepted = 2
    MaxInFlight = 3
    Direct = {}
    Refused = {}
    OverrideBalances = {}
    MaxUpdates = 2
    MaxRestarts = 0
PROPERTIES
    ActiveChannelAnswers
