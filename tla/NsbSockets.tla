---------------------------- MODULE NsbSockets ----------------------------
(***************************************************************************)
(* The TCP connections between the clients and the daemon, as the sockets  *)
(* API shows them to the two sides.  This is the operating system, not NSB *)
(* code: the model contains what NSB's calls depend on.                    *)
(*                                                                         *)
(*  - A client opens one connection per channel.  connect() succeeds once  *)
(*    the connection is in the listen backlog, before accept().            *)
(*  - Each direction is a FIFO stream of messages.  A read returns some    *)
(*    non-empty prefix of the stream: what has arrived so far.             *)
(*  - accept() returns the lowest free descriptor, so the number of a      *)
(*    closed connection comes back for a later one.                        *)
(*  - A local port is unique among the open connections and may be used    *)
(*    again after them.                                                    *)
(*  - Data sent to a peer that has closed is lost and answered by a reset; *)
(*    sending again after the reset raises SIGPIPE, which NSB does not     *)
(*    handle.                                                              *)
(***************************************************************************)
EXTENDS NsbWire

CONSTANTS
    PortChoice, \* PortChoice[k]: the ephemeral ports connection k may be given
    MaxFd       \* bound: descriptors the daemon may have open for channels

Channel == {"CTRL", "SEND", "RECV"}
Conn == Client \X Channel
NoConn == <<"", "">>
Port == UNION {PortChoice[k] : k \in Conn}
NoPort == NoConn
Fd == 1 .. MaxFd
NoFd == 0       \* the daemon's -1

ASSUME SocketsAssumption == NoPort \notin Port /\ MaxFd \in Nat

VARIABLES
    client_end, \* the client's socket of each connection
    port,       \* its local port
    backlog,    \* connections waiting for accept()
    fd_table,   \* the daemon's open descriptors
    up, down,   \* the streams client -> daemon and daemon -> client
    reset       \* connections the client's host has reset

socketVars == <<client_end, port, backlog, fd_table, up, down, reset>>
socketsButUp == <<client_end, port, backlog, fd_table, down, reset>>
socketsButDown == <<client_end, port, backlog, fd_table, up, reset>>

SocketsTypeOK ==
    /\ client_end \in [Conn -> {"none", "open", "closed"}]
    /\ port \in [Conn -> Port \cup {NoPort}]
    /\ backlog \in Seq(Conn)
    /\ fd_table \in [Fd -> Conn \cup {NoConn}]
    /\ up \in [Conn -> Seq(nsbm)]
    /\ down \in [Conn -> Seq(nsbm)]
    /\ reset \in [Conn -> BOOLEAN]

SocketsInit ==
    /\ client_end = [k \in Conn |-> "none"]
    /\ port = [k \in Conn |-> NoPort]
    /\ backlog = <<>>
    /\ fd_table = [f \in Fd |-> NoConn]
    /\ up = [k \in Conn |-> <<>>]
    /\ down = [k \in Conn |-> <<>>]
    /\ reset = [k \in Conn |-> FALSE]

-----------------------------------------------------------------------------
OpenFds == {f \in Fd : fd_table[f] # NoConn}
FreeFds == Fd \ OpenFds
LowestFree == CHOOSE f \in FreeFds : \A g \in FreeFds : f <= g

InBacklog(k) == \E i \in DOMAIN backlog : backlog[i] = k

(* The daemon still holds, or will get, its end of the connection. *)
ServerEnd(k) == InBacklog(k) \/ \E f \in Fd : fd_table[f] = k

(* select() reports a descriptor with data, an end of file or an error. *)
Readable(f) ==
    LET k == fd_table[f]
    IN  k # NoConn /\ (up[k] # <<>> \/ client_end[k] = "closed" \/ reset[k])

PortsInUse == {port[k] : k \in {j \in Conn : client_end[j] = "open" \/ ServerEnd(j)}}

(* What a read may return of stream s, and what it leaves. *)
Read(s, n) == SubSeq(s, 1, n)
Unread(s, n) == SubSeq(s, n + 1, Len(s))

(* A client's send(): the bytes go nowhere once the daemon's end is closed. *)
UpAfterSend(k, m) == IF ServerEnd(k) THEN [up EXCEPT ![k] = Append(@, m)] ELSE up
=============================================================================
