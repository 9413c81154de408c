SPECIFICATION DocumentedSpec
CONSTANTS
    Pool = Pool
    Pipelines = {p1}
    PoolIds = {rp1}
    Counts = {1, 2, 3}
    ClientVersion = 23
    ServerVersion = 23
    Calls = {"open", "pipeline", "send", "stop", "write", "close_pipeline", "pipeline_host_call", "host_call", "close"}
    DrainFirst = FALSE
    MaxCi = 1
    MaxQueue = 3
    MaxClients = 1
CHECK_DEADLOCK FALSE
INVARIANTS PipelinesAgree OutputBeforeEnd NoFailure
PROPERTIES PipelineEnds
