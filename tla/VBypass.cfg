SPECIFICATION FairSpec
CONSTANTS
    Client = {"a1", "b1", "s1"}
    Ident <- MCIdent
    MaxSends = 1
    DaemonImpls = {"py"}
    MaxStops = 0
    Orig <- MCOrig
    Impl <- MCImplPy
    UseDB = FALSE
    SendTo <- MCSendB
    PostTo <- MCPostB
    MayListen = {}
    MaxStarts <- MCStartOnce
    MaxTimeouts = 0
    MaxPings = 0
PROPERTY CrossesNetwork
CHECK_DEADLOCK FALSE
