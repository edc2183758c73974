----------------------------- MODULE NsbClient -----------------------------
(***************************************************************************)
(* The client libraries: NSBAppClient and NSBSimClient in C++              *)
(* (cpp/src/nsb_client.cc over cpp/src/nsb.cc) and in Python               *)
(* (python/nsb_client.py).  Both talk to the daemon in the same way; where *)
(* they differ the action says so (Impl[c]).                               *)
(*                                                                         *)
(* An operation that waits for the daemon is two steps: the request, and   *)
(* the return.  Between them the client sits in a wait state.  A client    *)
(* object is used by one thread.                                           *)
(*                                                                         *)
(* The payload database (Redis) and the simulated network behind the       *)
(* simulator are external: db and Network model what the clients see.      *)
(***************************************************************************)
EXTENDS NsbDaemon

CONSTANTS
    Orig,           \* Orig[c]: APP_CLIENT or SIM_CLIENT
    Impl,           \* Impl[c]: cpp or py
    SendTo,         \* SendTo[c]: identifiers application c sends to
    ReceiveAs,      \* identifiers receive() is called with, besides the caller's own
    FetchFrom,      \* sources fetch() is called with; "" is fetch() without one
    EmptyPayloads,  \* may send() be called with an empty payload?
    MayClose,       \* clients that may be destroyed
    MaxTimeouts,    \* bound: waits that end by their timeout
    MaxCalls        \* bound: ping() and exit() calls per client

ASSUME ClientAssumption ==
    /\ Orig \in [Client -> {"APP_CLIENT", "SIM_CLIENT"}]
    /\ Impl \in [Client -> {"cpp", "py"}]
    /\ SendTo \in [Client -> SUBSET Identifier]
    /\ ReceiveAs \subseteq Identifier
    /\ FetchFrom \subseteq Id
    /\ EmptyPayloads \in BOOLEAN
    /\ MayClose \subseteq Client
    /\ MaxTimeouts \in Nat
    /\ MaxCalls \in Nat

VARIABLES
    pc,         \* where each client is
    cfg,        \* its Config
    nsent,      \* send() calls made
    ncalls,     \* ping() and exit() calls made
    timeouts,   \* waits ended by a timeout, over all clients
    db,         \* the payload database: db[i] is stored under key <<"#", i>>
    asked,      \* the identifier a waiting receive() or fetch() asked for
    fetched,    \* what fetch() returned to each simulator client, in order
    posted,     \* what each simulator client posted, in order
    received    \* what receive() returned to each application client, in order

logVars == <<fetched, posted, received>>
clientVars == <<pc, cfg, nsent, ncalls, timeouts, db, asked, logVars>>

Config == [system_mode : {"PULL", "PUSH"},
           simulator_mode : {"SYSTEM_WIDE", "PER_NODE"},
           use_db : BOOLEAN]

(* The default Config, and the one the daemon's INIT response carries. *)
DefaultConfig == [system_mode |-> "PULL", simulator_mode |-> "SYSTEM_WIDE", use_db |-> FALSE]
DaemonConfig == [system_mode |-> SystemMode, simulator_mode |-> SimulatorMode, use_db |-> UseDB]

WaitState == {"initWait", "pingWait", "recvWait", "fetchWait"}
PcState == {"connect", "init", "idle", "spin", "closed"} \cup WaitState

ClientTypeOK ==
    /\ pc \in [Client -> PcState]
    /\ cfg \in [Client -> Config]
    /\ nsent \in [Client -> 0 .. MaxSends]
    /\ ncalls \in [Client -> 0 .. MaxCalls]
    /\ timeouts \in 0 .. MaxTimeouts
    /\ db \in Seq(Value)
    /\ asked \in [Client -> Id]
    /\ fetched \in [Client -> Seq(MessageEntry)]
    /\ posted \in [Client -> Seq(MessageEntry)]
    /\ received \in [Client -> Seq(MessageEntry)]

ClientInit ==
    /\ pc = [c \in Client |-> "connect"]
    /\ cfg = [c \in Client |-> DefaultConfig]
    /\ nsent = [c \in Client |-> 0]
    /\ ncalls = [c \in Client |-> 0]
    /\ timeouts = 0
    /\ db = <<>>
    /\ asked = [c \in Client |-> ""]
    /\ fetched = [c \in Client |-> <<>>]
    /\ posted = [c \in Client |-> <<>>]
    /\ received = [c \in Client |-> <<>>]

-----------------------------------------------------------------------------
(* SocketInterface.                                                        *)

Goto(c, to) == pc' = [pc EXCEPT ![c] = to]

(* sendMessage / _send_msg *)
SendMessage(c, ch, m) == up' = UpAfterSend(<<c, ch>>, m)

(* receiveMessage / _recv_msg returned n messages of the channel. *)
TakeFrom(c, ch, n) ==
    /\ n \in 1 .. Len(down[<<c, ch>>])
    /\ down' = [down EXCEPT ![<<c, ch>>] = Unread(@, n)]
Response(c, ch, n) == Parse(Read(down[<<c, ch>>], n))

(* closeConnection, or the end of the process, with the data of unread not *)
(* read by the client: a close with unread data resets the connection.     *)
CloseConnections(c, unread) ==
    /\ client_end' = [k \in Conn |-> IF k[1] = c /\ client_end[k] = "open"
                                     THEN "closed" ELSE client_end[k]]
    /\ reset' = [k \in Conn |-> reset[k] \/ (k[1] = c /\ unread[k] # <<>>)]
    /\ down' = [k \in Conn |-> IF k[1] = c THEN <<>> ELSE down[k]]
    /\ Goto(c, "closed")

(* connectToServer / _connect: the channels are connected one by one. *)
ConnectChannel(c, ch) ==
    /\ pc[c] = "connect"
    /\ status \in {"running", "stopping", "hung"}
    /\ client_end[<<c, ch>>] = "none"
    /\ ch = "SEND" => client_end[<<c, "CTRL">>] # "none"
    /\ ch = "RECV" => client_end[<<c, "SEND">>] # "none"
    /\ \E p \in PortChoice[<<c, ch>>] \ PortsInUse : port' = [port EXCEPT ![<<c, ch>>] = p]
    /\ client_end' = [client_end EXCEPT ![<<c, ch>>] = "open"]
    /\ backlog' = Append(backlog, <<c, ch>>)
    /\ Goto(c, IF ch = "RECV" THEN "init" ELSE "connect")
    /\ UNCHANGED <<fd_table, up, down, reset, daemonVars,
                   cfg, nsent, ncalls, timeouts, db, asked, logVars>>

(* No daemon to connect to until the timeout: the process exits / raises. *)
ConnectFails(c) ==
    /\ pc[c] = "connect"
    /\ status \in {"stopped", "crashed"}
    /\ CloseConnections(c, down)
    /\ UNCHANGED <<port, backlog, fd_table, up, daemonVars,
                   cfg, nsent, ncalls, timeouts, db, asked, logVars>>

(* The destructor, the end of the process, or its death. *)
Close(c) ==
    /\ c \in MayClose
    /\ pc[c] \notin {"connect", "closed"}
    /\ CloseConnections(c, down)
    /\ UNCHANGED <<port, backlog, fd_table, up, daemonVars,
                   cfg, nsent, ncalls, timeouts, db, asked, logVars>>

(* sendMessage of C++ on a connection whose other end is closed may raise  *)
(* SIGPIPE, which ends the process.                                        *)
BrokenPipe(c) ==
    /\ Impl[c] = "cpp" /\ pc[c] \in {"init", "idle"}
    /\ \E ch \in Channel : ~ServerEnd(<<c, ch>>)
    /\ CloseConnections(c, down)
    /\ UNCHANGED <<port, backlog, fd_table, up, daemonVars,
                   cfg, nsent, ncalls, timeouts, db, asked, logVars>>

-----------------------------------------------------------------------------
(* NSBClient: initialize, ping, exit.                                      *)

IntroMessage(c) ==
    [Bare("INIT", Orig[c], "SUCCESS") EXCEPT !.body = [kind |-> "intro", val |-> <<c, 0>>]]

initialize(c) ==
    /\ pc[c] = "init"
    /\ SendMessage(c, "CTRL", IntroMessage(c))
    /\ Goto(c, "initWait")
    /\ UNCHANGED <<socketsButUp, daemonVars,
                   cfg, nsent, ncalls, timeouts, db, asked, logVars>>

(* The response configures the client; a refused client exits / raises.  On *)
(* any other message C++ goes on with the default configuration and Python  *)
(* raises.                                                                  *)
InitReturn(c, n) ==
    LET m == Response(c, "CTRL", n)
        configured == m.op = "INIT" /\ m.code = "SUCCESS" /\ m.body.kind = "config"
        refused == m.op = "INIT" /\ m.code # "SUCCESS"
        ignored == ~configured /\ ~refused
    IN  /\ pc[c] = "initWait"
        /\ n \in 1 .. Len(down[<<c, "CTRL">>])
        /\ \/ /\ configured \/ (ignored /\ Impl[c] = "cpp")
              /\ TakeFrom(c, "CTRL", n)
              /\ cfg' = IF configured THEN [cfg EXCEPT ![c] = DaemonConfig] ELSE cfg
              /\ Goto(c, "idle")
              /\ UNCHANGED <<client_end, reset>>
           \/ /\ refused \/ (ignored /\ Impl[c] = "py")
              /\ CloseConnections(c, [down EXCEPT ![<<c, "CTRL">>] = Unread(@, n)])
              /\ UNCHANGED cfg
        /\ UNCHANGED <<port, backlog, fd_table, up, daemonVars,
                       nsent, ncalls, timeouts, db, asked, logVars>>

(* Without a response initialize() of C++ just returns, and the client is  *)
(* used with the default configuration; Python raises.                     *)
InitTimeout(c) ==
    /\ pc[c] = "initWait"
    /\ timeouts < MaxTimeouts
    /\ timeouts' = timeouts + 1
    /\ \/ /\ Impl[c] = "cpp"
          /\ Goto(c, "idle")
          /\ UNCHANGED <<client_end, down, reset>>
       \/ /\ Impl[c] = "py"
          /\ CloseConnections(c, down)
    /\ UNCHANGED <<port, backlog, fd_table, up, daemonVars,
                   cfg, nsent, ncalls, db, asked, logVars>>

ping(c) ==
    /\ pc[c] = "idle" /\ ncalls[c] < MaxCalls
    /\ SendMessage(c, "CTRL", Bare("PING", Orig[c], "SUCCESS"))
    /\ ncalls' = [ncalls EXCEPT ![c] = @ + 1]
    /\ Goto(c, "pingWait")
    /\ UNCHANGED <<socketsButUp, daemonVars,
                   cfg, nsent, timeouts, db, asked, logVars>>

exit(c) ==
    /\ pc[c] = "idle" /\ ncalls[c] < MaxCalls
    /\ SendMessage(c, "CTRL", Bare("EXIT", Orig[c], "SUCCESS"))
    /\ ncalls' = [ncalls EXCEPT ![c] = @ + 1]
    /\ UNCHANGED <<socketsButUp, daemonVars,
                   pc, cfg, nsent, timeouts, db, asked, logVars>>

PingReturn(c, n) ==
    /\ pc[c] = "pingWait"
    /\ TakeFrom(c, "CTRL", n)
    /\ Goto(c, "idle")
    /\ UNCHANGED <<socketsButDown, daemonVars,
                   cfg, nsent, ncalls, timeouts, db, asked, logVars>>

(* A wait ends by its timeout: the call returns without a message.  In PUSH *)
(* mode fetch() and receive() poll, so giving up is not counted there.      *)
WaitTimeout(c) ==
    /\ pc[c] \in {"pingWait", "recvWait", "fetchWait"}
    /\ \/ /\ pc[c] # "pingWait" /\ cfg[c].system_mode = "PUSH"
          /\ UNCHANGED timeouts
       \/ /\ timeouts < MaxTimeouts
          /\ timeouts' = timeouts + 1
    /\ Goto(c, "idle")
    /\ UNCHANGED <<socketVars, daemonVars, cfg, nsent, ncalls, db, asked, logVars>>

(* The daemon's end of the channel is closed.  receiveMessage of C++ loops  *)
(* for ever on the end of file, whatever its timeout; Python returns None,  *)
(* which makes initialize() raise.                                          *)
WaitChannel(c) == IF pc[c] \in {"initWait", "pingWait"} THEN "CTRL" ELSE "RECV"

WaitEof(c) ==
    /\ pc[c] \in WaitState
    /\ LET k == <<c, WaitChannel(c)>> IN down[k] = <<>> /\ ~ServerEnd(k)
    /\ \/ /\ Impl[c] = "cpp"
          /\ Goto(c, "spin")
          /\ UNCHANGED <<client_end, down, reset>>
       \/ /\ Impl[c] = "py" /\ pc[c] # "initWait"
          /\ Goto(c, "idle")
          /\ UNCHANGED <<client_end, down, reset>>
       \/ /\ Impl[c] = "py" /\ pc[c] = "initWait"
          /\ CloseConnections(c, down)
    /\ UNCHANGED <<port, backlog, fd_table, up, daemonVars,
                   cfg, nsent, ncalls, timeouts, db, asked, logVars>>

-----------------------------------------------------------------------------
(* The payload object of an outgoing message, and of an incoming one.       *)

(* db->store(payload), or the payload itself.  Faulty: the key of the last one. *)
Stored(c, v) == IF cfg[c].use_db THEN Append(db, v) ELSE db
StoredBodyFaulty(c, v) == PayloadBody(cfg[c].use_db, IF cfg[c].use_db THEN <<"#", Len(db)>> ELSE v)
StoredBody(c, v) == PayloadBody(cfg[c].use_db, IF cfg[c].use_db THEN <<"#", Len(db) + 1>> ELSE v)

IsKey(v) == v[1] = "#" /\ v[2] \in DOMAIN db

(* db->checkOut(key): "" when the key is not there. *)
CheckOut(c, m) ==
    LET v == PayloadOf(cfg[c].use_db, m)
    IN  IF ~cfg[c].use_db THEN v ELSE IF IsKey(v) THEN db[v[2]] ELSE NoValue
AfterCheckOut(c, m) ==
    LET v == PayloadOf(cfg[c].use_db, m)
    IN  IF cfg[c].use_db /\ IsKey(v) THEN [db EXCEPT ![v[2]] = NoValue] ELSE db

(* The MessageEntry a returning call hands to its caller. *)
Returned(c, m) == [source |-> m.metadata.src, destination |-> m.metadata.dest,
                   payload_obj |-> CheckOut(c, m)]

DataMessage(c, op, s, d, body) ==
    [op |-> op, og |-> Orig[c], code |-> "MESSAGE", metadata |-> Route(s, d), body |-> body]

-----------------------------------------------------------------------------
(* NSBAppClient: send, receive.                                             *)

send(c, d) ==
    /\ Orig[c] = "APP_CLIENT" /\ pc[c] = "idle" /\ nsent[c] < MaxSends
    /\ nsent' = [nsent EXCEPT ![c] = @ + 1]
    /\ \E v \in {<<c, nsent[c] + 1>>} \cup (IF EmptyPayloads THEN {NoValue} ELSE {}) :
          /\ SendMessage(c, "SEND", DataMessage(c, "SEND", Ident[c], d, StoredBody(c, v)))
          /\ db' = Stored(c, v)
    /\ UNCHANGED <<socketsButUp, daemonVars,
                   pc, cfg, ncalls, timeouts, asked, logVars>>

(* receive(d): in PULL mode a request, in PUSH mode only the wait. *)
receive(c, d) ==
    /\ Orig[c] = "APP_CLIENT" /\ pc[c] = "idle"
    /\ \/ /\ cfg[c].system_mode = "PULL"
          /\ SendMessage(c, "RECV", [Bare("RECEIVE", Orig[c], "SUCCESS")
                                        EXCEPT !.metadata = Route("", d)])
       \/ /\ cfg[c].system_mode = "PUSH"
          /\ UNCHANGED up
    /\ asked' = [asked EXCEPT ![c] = d]
    /\ Goto(c, "recvWait")
    /\ UNCHANGED <<socketsButUp, daemonVars, cfg, nsent, ncalls, timeouts, db, logVars>>

(* Python takes any operation (its test for RECEIVE or FORWARD is always true). *)
ReceiveReturn(c, n) ==
    LET m == Response(c, "RECV", n)
        e == Returned(c, m)
        accepted == m.code = "MESSAGE" /\ (Impl[c] = "py" \/ m.op \in {"RECEIVE", "FORWARD"})
    IN  /\ pc[c] = "recvWait"
        /\ TakeFrom(c, "RECV", n)
        /\ Goto(c, "idle")
        /\ \/ /\ accepted
              /\ db' = AfterCheckOut(c, m)
              /\ received' = IF exists(e) THEN [received EXCEPT ![c] = Append(@, e)]
                                          ELSE received
           \/ /\ ~accepted
              /\ UNCHANGED <<db, received>>
        /\ UNCHANGED <<socketsButDown, daemonVars,
                       cfg, nsent, ncalls, timeouts, asked, fetched, posted>>

-----------------------------------------------------------------------------
(* NSBSimClient: fetch, post.                                               *)

(* A FETCH names the source when the caller did, and always in PER_NODE     *)
(* mode.  C++ attaches the metadata anyway, Python only with a source.      *)
FetchMetadata(c, s) ==
    LET src == IF cfg[c].simulator_mode = "PER_NODE" THEN Ident[c] ELSE s
    IN  IF src = "" /\ Impl[c] = "py" THEN NoMetadata ELSE Route(src, "")

fetch(c, s) ==
    /\ Orig[c] = "SIM_CLIENT" /\ pc[c] = "idle"
    /\ \/ /\ cfg[c].system_mode = "PULL"
          /\ SendMessage(c, "RECV", [Bare("FETCH", Orig[c], "SUCCESS")
                                        EXCEPT !.metadata = FetchMetadata(c, s)])
       \/ /\ cfg[c].system_mode = "PUSH"
          /\ UNCHANGED up
    /\ asked' = [asked EXCEPT ![c] = s]
    /\ Goto(c, "fetchWait")
    /\ UNCHANGED <<socketsButUp, daemonVars, cfg, nsent, ncalls, timeouts, db, logVars>>

FetchReturn(c, n) ==
    LET m == Response(c, "RECV", n)
        e == Returned(c, m)
        accepted == m.code = "MESSAGE" /\ m.op \in {"FETCH", "FORWARD"}
    IN  /\ pc[c] = "fetchWait"
        /\ TakeFrom(c, "RECV", n)
        /\ Goto(c, "idle")
        /\ \/ /\ accepted
              /\ db' = AfterCheckOut(c, m)
              /\ fetched' = IF exists(e) THEN [fetched EXCEPT ![c] = Append(@, e)]
                                         ELSE fetched
           \/ /\ ~accepted
              /\ UNCHANGED <<db, fetched>>
        /\ UNCHANGED <<socketsButDown, daemonVars,
                       cfg, nsent, ncalls, timeouts, asked, posted, received>>

(* The simulated network, external: what was fetched comes out of it at any *)
(* simulator client, in any order, once, or never.                          *)
Logged(log) == UNION {{log[c][i] : i \in DOMAIN log[c]} : c \in Client}
Network == Logged(fetched) \ Logged(posted)

(* post(): with a database C++ stores the payload again and posts its key;  *)
(* Python puts the payload itself where the key belongs.                    *)
PostBody(c, v) == IF Impl[c] = "py" THEN PayloadBody(cfg[c].use_db, v) ELSE StoredBody(c, v)

post(c, e) ==
    /\ Orig[c] = "SIM_CLIENT" /\ pc[c] = "idle"
    /\ e \in Network
    /\ posted' = [posted EXCEPT ![c] = Append(@, e)]
    /\ SendMessage(c, "SEND", DataMessage(c, "POST", e.source, e.destination,
                                          PostBody(c, e.payload_obj)))
    /\ db' = IF Impl[c] = "py" THEN db ELSE Stored(c, e.payload_obj)
    /\ UNCHANGED <<socketsButUp, daemonVars,
                   pc, cfg, nsent, ncalls, timeouts, asked, fetched, received>>

-----------------------------------------------------------------------------
Responded(c) == \E n \in 1 .. Len(down[<<c, WaitChannel(c)>>]) :
    \/ InitReturn(c, n)
    \/ PingReturn(c, n)
    \/ ReceiveReturn(c, n)
    \/ FetchReturn(c, n)

ClientNext(c) ==
    \/ \E ch \in Channel : ConnectChannel(c, ch)
    \/ ConnectFails(c)
    \/ Close(c)
    \/ BrokenPipe(c)
    \/ initialize(c)
    \/ InitTimeout(c)
    \/ ping(c)
    \/ exit(c)
    \/ WaitTimeout(c)
    \/ WaitEof(c)
    \/ Responded(c)
    \/ \E d \in SendTo[c] : send(c, d)
    \/ \E d \in ReceiveAs \cup {Ident[c]} : receive(c, d)
    \/ \E s \in FetchFrom : fetch(c, s)
    \/ \E e \in Network : post(c, e)
=============================================================================
