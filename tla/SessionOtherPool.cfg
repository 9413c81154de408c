SPECIFICATION DocumentedSpec
CONSTANTS
    Pool = Pool
    Pipelines = {}
    PoolIds = {rp1, rp2}
    Counts = {1, 2, 3}
    ClientVersion = 23
    ServerVersion = 23
    Calls = {"open", "disconnect", "connect"}
    DrainFirst = FALSE
    MaxCi = 0
    MaxQueue = 2
    MaxClients = 2
CHECK_DEADLOCK FALSE
INVARIANT Accepted
