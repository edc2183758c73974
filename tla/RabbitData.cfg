SPECIFICATION Spec
CONSTANTS
    Client = {"a1", "b1", "s1"}
    Ident <- MCIdent
    MaxSends = 2
    DaemonImpls = {"cpp"}
    MaxStops = 1
    Orig <- MCOrig
    Impl <- MCImpl
    UseDB = FALSE
    SendTo <- MCSendBS
    PostTo <- MCPostB
    MayListen = {"b1"}
    MaxStarts <- MCStartOnce
    MaxTimeouts = 0
    MaxPings = 0
INVARIANT OneCopy
INVARIANT MailOrder
INVARIANT OwnQueue
CHECK_DEADLOCK FALSE
