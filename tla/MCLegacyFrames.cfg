SPECIFICATION Spec
CONSTANTS
    Base = 9
    W16 = 2
    W32 = 3
    W64 = 4
    HashWidth = 2
    SigWidth = 2
    OnionWidth = 2
    Says <- MCSays
    HostSays <- MCAll
    Answers <- MCAnswers
    MaxInTransit = 1
    TlvBytes = {0, 1, 6, 8}
    MaxTlv = 2
    MaxVaried <- MCMaxVaried
    LegacyKinds = {"invoke_hosted_channel", "update_fulfill_htlc"}
PROPERTIES
    HeardAsSent
CHECK_DEADLOCK FALSE
