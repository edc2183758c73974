SPECIFICATION FairSpec
CONSTANTS
    NSB_DAEMON_MODE = {"PULL", "PUSH"}
    NumHosts = 2
    Message <- MCMessage
    Size = 2
    MaxErrors = 1
    MaxSignals = 1
INVARIANT TypeOK
INVARIANT PostedRight
PROPERTY Carried
PROPERTY ShutdownEnds
CHECK_DEADLOCK FALSE
