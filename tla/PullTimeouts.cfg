SPECIFICATION ConnectedSpec
CONSTANTS
    Client = {"a1", "b1", "s1"}
    StartOrder <- MCTrioOrder
    Ident <- MCIdent
    Orig <- MCOrig
    Impl <- MCCpp
    SystemMode = "PULL"
    SimulatorMode = "SYSTEM_WIDE"
    UseDB = FALSE
    PortChoice <- MCOwnPort
    MaxFd = 9
    SendTo <- MCSendB
    MaxSends = 2
    ReceiveAs = {}
    FetchFrom = {""}
    EmptyPayloads = TRUE
    MayClose = {}
    MaxTimeouts = 1
    MaxCalls = 0
INVARIANT OnePlace
INVARIANT FetchOrder
INVARIANT ReceiveOrder
INVARIANT OwnMail
PROPERTY CrossesNetwork
