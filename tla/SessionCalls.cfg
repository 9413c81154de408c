SPECIFICATION FairSpec
CONSTANTS
    Pool = Pool
    Pipelines = {}
    PoolIds = {rp1}
    Counts = {1, 2}
    ClientVersion = 23
    ServerVersion = 23
    Calls = {"open", "set_runspaces", "get_available_runspaces", "reset_runspace_state", "exchange_key", "request_key", "send_event"}
    DrainFirst = FALSE
    MaxCi = 2
    MaxQueue = 3
    MaxClients = 1
CHECK_DEADLOCK FALSE
INVARIANTS CallsAccounted OneExchange
PROPERTIES EveryCallAnswered KeyArrives
