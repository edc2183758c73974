SPECIFICATION UseSpec
CONSTANTS
    Client = {"a1", "s1"}
    StartOrder <- MCPairOrder
    Ident <- MCIdent
    Orig <- MCOrig
    Impl <- MCPy
    SystemMode = "PULL"
    SimulatorMode = "SYSTEM_WIDE"
    UseDB = FALSE
    PortChoice <- MCOwnPort
    MaxFd = 6
    SendTo <- MCSendSelf
    MaxSends = 1
    ReceiveAs = {}
    FetchFrom = {"a"}
    EmptyPayloads = FALSE
    MayClose = {}
    MaxTimeouts = 0
    MaxCalls = 2
PROPERTY Delivery
PROPERTY WaitsEnd
PROPERTY ExitHeeded
CHECK_DEADLOCK FALSE
