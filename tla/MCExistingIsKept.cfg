SPECIFICATION RunSpec
CONSTANTS
    Peers = {a}
    Secrets = {s1}
    NoSecret = NoSecret
    Capacities = {1}
    DefaultCapacity = 1
    RequireSecret = FALSE
    Tasks = {t1, t2, t3}
    Kinds = {"invoke", "open"}
    MaxAdds = 1
    MaxRetries = 2
SYMMETRY Symmetry
PROPERTY
    ExistingIsKept
CHECK_DEADLOCK FALSE
