SPECIFICATION Spec
CONSTANTS
    Texts = {"a"}
    Peers = {0, 22, 23}
    Settings <- MCSettings
    Requests <- MCRequests
    PoolApartment <- MCPoolApartment
    MaxCalls = 4
    MaxRedirected = 3
    Pool = Pool
    Pipeline = Pipeline
    Colors <- MCColors
    Hosts <- MCHosts
    Cells <- MCCells
    Grids <- MCGrids
    Together <- MCTogether
    MaxCi = 2
    MaxOpen = 2
CHECK_DEADLOCK FALSE
INVARIANTS StatementsKept RedirectionsKept SettingsKept ParametersKept OptionsKept ResultIsOwn CallsAwaited
