SPECIFICATION Spec
CONSTANTS
    Client = {"a1", "s1"}
    StartOrder <- MCNobody
    Ident <- MCIdent
    Orig <- MCOrig
    Impl <- MCSimPy
    SystemMode = "PUSH"
    SimulatorMode = "SYSTEM_WIDE"
    UseDB = FALSE
    PortChoice <- MCOwnPort
    MaxFd = 6
    SendTo <- MCSendSelf
    MaxSends = 1
    ReceiveAs = {}
    FetchFrom = {""}
    EmptyPayloads = FALSE
    MayClose = {}
    MaxTimeouts = 1
    MaxCalls = 0
INVARIANT TypeOK
INVARIANT DescriptorsConsistent
INVARIANT RegisteredRight
CHECK_DEADLOCK FALSE
