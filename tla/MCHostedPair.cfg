SPECIFICATION Spec
CONSTANTS
    p1 = p1
    p2 = p2
    Upstreams = {p1, p2}
    Payments = {p1, p2}
    Amount <- MCAmount
    Replied = {p1}
    Onions <- MCOnions
    SourceFunds = 2
    TargetFunds = 2
    MaxAccepted = 2
    MaxInFlight = 2
    MaxUpdates = 2
INVARIANTS
    
    ForwardedByOne
    PairConserved
