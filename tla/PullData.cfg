SPECIFICATION ConnectedSpec
CONSTANTS
    Client = {"a1", "b1", "s1"}
    StartOrder <- MCTrioOrder
    Ident <- MCIdent
    Orig <- MCOrig
    Impl <- MCCpp
    SystemMode = "PULL"
    SimulatorMode = "SYSTEM_WIDE"
    UseDB = FALSE
    PortChoice <- MCOwnPort
    MaxFd = 9
    SendTo <- MCSendAB
    MaxSends = 2
    ReceiveAs = {}
    FetchFrom = {"a", "b"}
    EmptyPayloads = FALSE
    MayClose = {}
    MaxTimeouts = 0
    MaxCalls = 0
INVARIANT OnePlace
INVARIANT Lockstep
INVARIANT ReceiveOrder
PROPERTY AnswersMatch
PROPERTY LossOnlyByMerging
PROPERTY CrossesNetwork
