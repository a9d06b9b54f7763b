SPECIFICATION Spec
CONSTANTS
    Base = 24
    W16 = 2
    W32 = 3
    W64 = 4
    HashWidth = 2
    SigWidth = 2
    OnionWidth = 2
    RoutingInfo = 26
    HmacWidth = 2
    FailureWidth = 8
    SecretWidth = 2
    Routes <- MCRoutes
    Directs <- MCDirects
    Hashes = {h1, h2}
    Codes <- MCCodes
    MaxRecords = 3
SYMMETRY MCSymmetry
INVARIANTS
    HopsLearnTheirPayload
    
CHECK_DEADLOCK FALSE
