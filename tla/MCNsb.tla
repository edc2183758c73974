------------------------------- MODULE MCNsb -------------------------------
(***************************************************************************)
(* Instances of NsbSystem for TLC.  A client process is named after the    *)
(* identifier it is given: a1 is application a, and sa is the              *)
(* simulator client of node a in PER_NODE mode.                            *)
(***************************************************************************)
EXTENDS NsbSystem

CONSTANT StartOrder     \* clients that are in use from the start, as they connected

MCIdentTable == "a1" :> "a" @@ "b1" :> "b" @@ "sa" :> "a" @@ "sb" :> "b" @@ "s1" :> "s" @@ "s2" :> "s"
MCIdent == [c \in Client |-> MCIdentTable[c]]
MCOrig == [c \in Client |-> IF c \in {"a1", "b1"} THEN "APP_CLIENT" ELSE "SIM_CLIENT"]
MCCpp == [c \in Client |-> "cpp"]
MCPy == [c \in Client |-> "py"]
MCMixed == [c \in Client |-> IF c = "s2" THEN "py" ELSE "cpp"]
MCSimPy == [c \in Client |-> IF c = "s1" THEN "py" ELSE "cpp"]

(* Who sends to whom. *)
MCSendNone == [c \in Client |-> {}]
MCSendB == [c \in Client |-> IF c = "a1" THEN {"b"} ELSE {}]
MCSendAB == [c \in Client |-> IF c = "a1" THEN {"a", "b"} ELSE {}]
MCSendSelf == [c \in Client |-> IF c = "a1" THEN {"a"} ELSE {}]
MCSendBs == [c \in Client |-> IF c = "b1" THEN {"b"} ELSE {}]
MCSendEachOther == [c \in Client |-> CASE c = "a1" -> {"b"} [] c = "b1" -> {"a"} [] OTHER -> {}]

(* Every connection has a port of its own; or s2 may be given the ports that *)
(* b1 had.                                                                   *)
MCOwnPort == [k \in Conn |-> {k}]
MCReusePort == [k \in Conn |-> IF k[1] = "s2" THEN {k, <<"b1", k[2]>>} ELSE {k}]

MCNobody == <<>>
MCTrioOrder == <<"s1", "a1", "b1">>
MCPairOrder == <<"s1", "a1">>
MCNodesOrder == <<"sa", "a1", "sb", "b1">>
MCChurnOrder == <<"s1", "b1">>

-----------------------------------------------------------------------------
Started == {StartOrder[i] : i \in DOMAIN StartOrder}
StartedConn == {k \in Conn : k[1] \in Started}

FdOf(k) ==
    LET i == CHOOSE j \in DOMAIN StartOrder : StartOrder[j] = k[1]
    IN  3 * (i - 1) + CASE k[2] = "CTRL" -> 1 [] k[2] = "SEND" -> 2 [] k[2] = "RECV" -> 3

Registry(og, Key(_)) ==
    LET S == Started \cap OfKind(og)
        Owner(i) == CHOOSE c \in S : Key(c) = i
    IN  [i \in {Key(c) : c \in S} |-> [ch \in Channel |-> FdOf(<<Owner(i), ch>>)]]

IfStarted(x, y) == [c \in Client |-> IF c \in Started THEN x ELSE y]

(* The state after the clients of StartOrder have connected and initialized *)
(* one after the other, with nothing else going on.                         *)
Connected ==
    /\ client_end = [k \in Conn |-> IF k \in StartedConn THEN "open" ELSE "none"]
    /\ port = [k \in Conn |-> IF k \in StartedConn THEN k ELSE NoPort]
    /\ backlog = <<>>
    /\ fd_table = [f \in Fd |-> IF \E k \in StartedConn : FdOf(k) = f
                                THEN CHOOSE k \in StartedConn : FdOf(k) = f ELSE NoConn]
    /\ up = [k \in Conn |-> <<>>]
    /\ down = [k \in Conn |-> <<>>]
    /\ reset = [k \in Conn |-> FALSE]
    /\ status = "running"
    /\ read_fds = {}
    /\ accept_ready = FALSE
    /\ channel_fds = [i \in 1 .. Cardinality(StartedConn) |-> i]
    /\ fd_lookup = [k \in StartedConn |-> FdOf(k)]
    /\ app_client_lookup = Registry("APP_CLIENT", LAMBDA c : Ident[c])
    /\ sim_client_lookup = Registry("SIM_CLIENT", SimulatorKey)
    /\ tx_buffer = <<>>
    /\ rx_buffer = <<>>
    /\ pc = IfStarted("idle", "connect")
    /\ cfg = IfStarted(DaemonConfig, DefaultConfig)
    /\ nsent = [c \in Client |-> 0]
    /\ ncalls = [c \in Client |-> 0]
    /\ timeouts = 0
    /\ db = <<>>
    /\ asked = [c \in Client |-> ""]
    /\ fetched = [c \in Client |-> <<>>]
    /\ posted = [c \in Client |-> <<>>]
    /\ received = [c \in Client |-> <<>>]

ConnectedSpec == Connected /\ [][Next]_vars
FairSpec == ConnectedSpec /\ DaemonFairness /\ WaitFairness
UseSpec == FairSpec /\ UseFairness
=============================================================================
