SPECIFICATION ConnectedSpec
CONSTANTS
    Client = {"b1", "s1", "s2"}
    StartOrder <- MCChurnOrder
    Ident <- MCIdent
    Orig <- MCOrig
    Impl <- MCMixed
    SystemMode = "PUSH"
    SimulatorMode = "SYSTEM_WIDE"
    UseDB = FALSE
    PortChoice <- MCReusePort
    MaxFd = 7
    SendTo <- MCSendBs
    MaxSends = 1
    ReceiveAs = {}
    FetchFrom = {""}
    EmptyPayloads = FALSE
    MayClose = {"b1"}
    MaxTimeouts = 0
    MaxCalls = 0
INVARIANT DescriptorsConsistent
INVARIANT OneSimulator
INVARIANT OnePlace
CHECK_DEADLOCK FALSE
