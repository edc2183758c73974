SPECIFICATION ConnectedSpec
CONSTANTS
    Client = {"a1", "b1", "sa", "sb"}
    StartOrder <- MCNodesOrder
    Ident <- MCIdent
    Orig <- MCOrig
    Impl <- MCCpp
    SystemMode = "PUSH"
    SimulatorMode = "PER_NODE"
    UseDB = TRUE
    PortChoice <- MCOwnPort
    MaxFd = 12
    SendTo <- MCSendAB
    MaxSends = 2
    ReceiveAs = {}
    FetchFrom = {""}
    EmptyPayloads = FALSE
    MayClose = {}
    MaxTimeouts = 0
    MaxCalls = 0
INVARIANT OnePlace
INVARIANT OwnNode
INVARIANT KeysResolve
INVARIANT OwnMail
PROPERTY LossOnlyByMerging
PROPERTY CrossesNetwork
