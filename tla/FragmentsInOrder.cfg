SPECIFICATION FairSpec
CONSTANTS
    Targets = {pool, pipeline}
    Streams = {default, prompt_response}
    Sizes = {1, 4}
    Header = 1
    Amounts = {2, 3, 7}
    Sender = "client"
    SplitStreams = FALSE
    DrainFirst = FALSE
    MaxMessages = 2
    MaxFaults = 0
    MaxReconnects = 0
CHECK_DEADLOCK FALSE
INVARIANTS TypeOK NoFragmentError OneTarget
PROPERTIES ImplementsChannel AllArrive PayloadFits
