SPECIFICATION DocumentedSpec
CONSTANTS
    Pool = Pool
    Pipelines = {}
    PoolIds = {rp1}
    Counts = {1, 2}
    ClientVersion = 23
    ServerVersion = 23
    Calls = {"open", "connect", "disconnect", "close", "set_broken", "set_runspaces", "get_available_runspaces"}
    DrainFirst = TRUE
    MaxCi = 2
    MaxQueue = 2
    MaxClients = 2
CHECK_DEADLOCK FALSE
INVARIANTS Accepted CountsAgree
PROPERTIES OpeningEnds ClosedForGood BrokenIsSeen
