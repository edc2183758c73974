SPECIFICATION FairSpec
CONSTANTS
    Client = {"a1", "b1"}
    Ident <- MCIdent
    MaxSends = 1
    DaemonImpls = {"cpp", "py"}
    MaxStops = 1
    Orig <- MCOrig
    Impl <- MCImplDB
    UseDB = TRUE
    SendTo <- MCSendAB
    PostTo <- MCPostB
    MayListen = {}
    MaxStarts <- MCRestartA
    MaxTimeouts = 1
    MaxPings = 1
INVARIANT TypeOK
INVARIANT AnsweredOnce
PROPERTY QueuedSafe
PROPERTY Answered
CHECK_DEADLOCK FALSE
