CONSTANTS
    Clients = {c1, c2, c3}
    Conns = {n1, n2, n3}
    PoolSize = 1
    Evict = TRUE
    Auth = TRUE
    Failover = TRUE
    MaxTwice = 1
SPECIFICATION FairSpec
CHECK_DEADLOCK FALSE
INVARIANTS ConnsAccounted
PROPERTIES CloseEnds
