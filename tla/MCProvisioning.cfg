SPECIFICATION Spec
CONSTANTS
    Peers = {a}
    Secrets = {s1}
    NoSecret = NoSecret
    Capacities = {1, 2}
    DefaultCapacity = 1
    RequireSecret = FALSE
    Tasks = {t1, t2, t3, t4}
    Kinds = {"invoke", "open", "error", "resize", "accept", "remove"}
    MaxAdds = 2
    MaxRetries = 2
SYMMETRY Symmetry
INVARIANTS
    SecretGrantsOnce
PROPERTIES
    CasKeepsOthers
CHECK_DEADLOCK FALSE
