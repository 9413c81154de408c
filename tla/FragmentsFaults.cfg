SPECIFICATION Spec
CONSTANTS
    Targets = {pool, pipeline}
    Streams = {default, prompt_response}
    Sizes = {1, 4}
    Header = 1
    Amounts = {3, 7}
    Sender = "client"
    SplitStreams = TRUE
    DrainFirst = TRUE
    MaxMessages = 2
    MaxFaults = 2
    MaxReconnects = 1
CHECK_DEADLOCK FALSE
INVARIANTS Integrity
