----------------------------- MODULE NsbDaemon -----------------------------
(***************************************************************************)
(* The NSB daemon (cpp/src/nsb_daemon.cc): one thread that runs a select() *)
(* loop over the listening socket and the channels it has accepted.        *)
(*                                                                         *)
(* One turn of the loop is a Select step, then one step per descriptor     *)
(* that select() flagged (in the order of channel_fds), then at most one   *)
(* Accept.  A handler runs to its end within one step: the thread does     *)
(* nothing else meanwhile.  Clients may act between any two steps.         *)
(***************************************************************************)
EXTENDS NsbSockets, SequencesExt

CONSTANTS
    SystemMode,     \* "PULL" or "PUSH"           (Config::SYSTEM_MODE)
    SimulatorMode,  \* "SYSTEM_WIDE" or "PER_NODE" (Config::SIMULATOR_MODE)
    UseDB           \* Config::USE_DB

ASSUME ConfigAssumption ==
    /\ SystemMode \in {"PULL", "PUSH"}
    /\ SimulatorMode \in {"SYSTEM_WIDE", "PER_NODE"}
    /\ UseDB \in BOOLEAN

VARIABLES
    status,             \* running; stopping (EXIT was handled); stopped; or lost
    read_fds,           \* flagged by select() and not visited yet in this turn
    accept_ready,       \* select() flagged the listening socket
    channel_fds,        \* accepted descriptors, in the order of accept()
    fd_lookup,          \* port -> descriptor
    app_client_lookup,  \* identifier -> ClientDetails
    sim_client_lookup,
    tx_buffer,          \* sent payloads waiting to be fetched
    rx_buffer           \* posted payloads waiting to be received

lookupVars == <<app_client_lookup, sim_client_lookup>>
bufferVars == <<tx_buffer, rx_buffer>>
daemonVars == <<status, read_fds, accept_ready, channel_fds, fd_lookup,
                lookupVars, bufferVars>>

SimKey == Identifier \cup {"simulator"}
ClientDetails == [Channel -> Fd \cup {NoFd}]

(* A std::map from keys in S to values in T. *)
IsMap(m, S, T) == DOMAIN m \subseteq S /\ m \in [DOMAIN m -> T]

DaemonTypeOK ==
    /\ status \in {"running", "stopping", "stopped", "crashed", "hung"}
    /\ read_fds \in SUBSET Fd
    /\ accept_ready \in BOOLEAN
    /\ channel_fds \in Seq(Fd)
    /\ IsMap(fd_lookup, Port, Fd)
    /\ IsMap(app_client_lookup, Identifier, ClientDetails)
    /\ IsMap(sim_client_lookup, SimKey, ClientDetails)
    /\ tx_buffer \in Seq(MessageEntry)
    /\ rx_buffer \in Seq(MessageEntry)

EmptyMap == [x \in {} |-> x]

DaemonInit ==
    /\ status = "running"
    /\ read_fds = {}
    /\ accept_ready = FALSE
    /\ channel_fds = <<>>
    /\ fd_lookup = EmptyMap
    /\ app_client_lookup = EmptyMap
    /\ sim_client_lookup = EmptyMap
    /\ tx_buffer = <<>>
    /\ rx_buffer = <<>>

-----------------------------------------------------------------------------
(* Library calls.                                                          *)

(* std::map::emplace keeps an entry that is there already. *)
emplace(m, k, v) == [x \in DOMAIN m \cup {k} |-> IF x \in DOMAIN m THEN m[x] ELSE v]

(* std::find_if gives the first match.  Faulty: the last one. *)
FirstInFaulty(S) == CHOOSE i \in S : \A j \in S : j <= i
FirstIn(S) == CHOOSE i \in S : \A j \in S : i <= j

(* Faulty: the element stays. *)
eraseFaulty(s, i) == s
erase(s, i) == RemoveAt(s, i)

(* The process is gone and the kernel has closed its descriptors. *)
Die ==
    /\ status' = "crashed"
    /\ fd_table' = [f \in Fd |-> NoConn]
    /\ backlog' = <<>>

(* Faulty: a message is written again after it was written. *)
SocketSendFaulty(k, m) ==
    \/ /\ client_end[k] = "open"
       /\ down' = [down EXCEPT ![k] = @ \o <<m, m>>]
       /\ UNCHANGED <<reset, status, fd_table, backlog>>
    \/ /\ client_end[k] # "open"
       /\ UNCHANGED <<down, reset, status, fd_table, backlog>>

(* The daemon's send() on connection k. *)
SocketSend(k, m) ==
    \/ /\ client_end[k] = "open"
       /\ down' = [down EXCEPT ![k] = Append(@, m)]
       /\ UNCHANGED <<reset, status, fd_table, backlog>>
    \/ /\ client_end[k] = "closed"
       /\ \E r \in BOOLEAN : reset' = [reset EXCEPT ![k] = @ \/ r]
       /\ UNCHANGED <<down, status, fd_table, backlog>>
    \/ /\ reset[k]
       /\ Die
       /\ UNCHANGED <<down, reset>>

NoSend == UNCHANGED <<down, reset, status, fd_table, backlog>>

-----------------------------------------------------------------------------
(* The select() loop of start_server.                                      *)

(* The loop is at its select().  What has reached the daemon's host by now *)
(* may be any part of what was sent.  A timeout leaves the loop unchanged. *)
Select ==
    /\ status = "running"
    /\ read_fds = {} /\ ~accept_ready
    /\ read_fds' \in SUBSET {f \in OpenFds : Readable(f)}
    /\ accept_ready' \in {FALSE, backlog # <<>>}
    /\ read_fds' # {} \/ accept_ready'
    /\ UNCHANGED <<status, channel_fds, fd_lookup, lookupVars, bufferVars, socketVars>>

(* The loop over channel_fds has come to descriptor f and FD_ISSET holds.  *)
Visit(f) ==
    /\ status \in {"running", "stopping"}
    /\ f \in read_fds
    /\ \E i \in DOMAIN channel_fds :
          channel_fds[i] = f /\ \A j \in 1 .. (i - 1) : channel_fds[j] \notin read_fds
    /\ read_fds' = read_fds \ {f}
    /\ UNCHANGED accept_ready

(* recv() until nothing is left: n messages of the stream have arrived.    *)
Receive(f, n) ==
    /\ Visit(f)
    /\ n \in 1 .. Len(up[fd_table[f]])
    /\ up' = [up EXCEPT ![fd_table[f]] = Unread(@, n)]
    /\ UNCHANGED <<channel_fds, fd_lookup, client_end, port>>

(* handle_message: all that was read is parsed as one message. *)
Incoming(f, n) == Parse(Read(up[fd_table[f]], n))

(* recv() gave an end of file, or the error of a reset connection. *)
Disconnect(f) ==
    LET k == fd_table[f]
    IN  /\ Visit(f)
        /\ up[k] = <<>> \/ reset[k]
        /\ fd_table' = [fd_table EXCEPT ![f] = NoConn]
        /\ \E i \in DOMAIN channel_fds :
              channel_fds[i] = f /\ channel_fds' = erase(channel_fds, i)
        /\ up' = [up EXCEPT ![k] = <<>>]
        /\ UNCHANGED <<status, fd_lookup, lookupVars, bufferVars,
                       client_end, port, backlog, down, reset>>

(* After the descriptors: one accept(), which fails when none is free. *)
Accept ==
    /\ status \in {"running", "stopping"}
    /\ read_fds = {} /\ accept_ready
    /\ accept_ready' = FALSE
    /\ \/ /\ FreeFds # {}
          /\ fd_table' = [fd_table EXCEPT ![LowestFree] = Head(backlog)]
          /\ channel_fds' = Append(channel_fds, LowestFree)
          /\ fd_lookup' = emplace(fd_lookup, port[Head(backlog)], LowestFree)
          /\ backlog' = Tail(backlog)
       \/ /\ FreeFds = {}
          /\ UNCHANGED <<fd_table, channel_fds, fd_lookup, backlog>>
    /\ UNCHANGED <<status, read_fds, lookupVars, bufferVars,
                   client_end, port, up, down, reset>>

(* The end of start_server, once running is false. *)
Shutdown ==
    /\ status = "stopping"
    /\ read_fds = {} /\ ~accept_ready
    /\ status' = "stopped"
    /\ fd_table' = [f \in Fd |-> NoConn]
    /\ backlog' = <<>>
    /\ UNCHANGED <<read_fds, accept_ready, channel_fds, fd_lookup, lookupVars, bufferVars,
                   client_end, port, up, down, reset>>

-----------------------------------------------------------------------------
(* The handlers.  f is the descriptor, n the number of messages read.      *)

(* Faulty: only a message is worth an answer. *)
ReplyFaulty(f, m) ==
    \/ m.code # "NO_MESSAGE" /\ SocketSend(fd_table[f], m)
    \/ m.code = "NO_MESSAGE" /\ NoSend
Reply(f, m) == SocketSend(fd_table[f], m)

(* Faulty: the ports of the introduction are mixed up. *)
DetailsFaulty(c) ==
    [ch \in Channel |-> IF port[<<c, "SEND">>] \in DOMAIN fd_lookup
                        THEN fd_lookup[port[<<c, "SEND">>]] ELSE NoFd]

(* ClientDetails(nsb_msg, fd_lookup): a channel not accepted yet has no descriptor. *)
Details(c) ==
    [ch \in Channel |-> IF port[<<c, ch>>] \in DOMAIN fd_lookup
                        THEN fd_lookup[port[<<c, ch>>]] ELSE NoFd]

(* A simulator registers under its identifier, or under a generic key, once. *)
(* Faulty: the generic key is left empty; a second simulator is let in.      *)
SimulatorKeyFaulty(c) == IF SimulatorMode = "PER_NODE" THEN Ident[c] ELSE ""
SimulatorKey(c) == IF SimulatorMode = "PER_NODE" THEN Ident[c] ELSE "simulator"
SimulatorAllowedFaulty == TRUE
SimulatorAllowed == SimulatorMode = "PER_NODE" \/ DOMAIN sim_client_lookup = {}

InitReply(success) ==
    [Bare("INIT", "DAEMON", IF success THEN "SUCCESS" ELSE "FAILURE")
        EXCEPT !.body = [kind |-> "config", val |-> NoValue]]

(* Every INIT a client writes carries an intro and its kind, so the early   *)
(* returns for an INIT without them are not taken.                          *)
handle_init(f, n) ==
    LET m == Incoming(f, n)
        c == m.body.val[1]
    IN  /\ Receive(f, n)
        /\ m.op = "INIT" /\ m.body.kind = "intro"
        /\ \/ /\ m.og = "APP_CLIENT"
              /\ app_client_lookup' = emplace(app_client_lookup, Ident[c], Details(c))
              /\ UNCHANGED sim_client_lookup
              /\ Reply(f, InitReply(TRUE))
           \/ /\ m.og = "SIM_CLIENT" /\ SimulatorAllowed
              /\ sim_client_lookup' = emplace(sim_client_lookup, SimulatorKey(c), Details(c))
              /\ UNCHANGED app_client_lookup
              /\ Reply(f, InitReply(TRUE))
           \/ /\ m.og = "SIM_CLIENT" /\ ~SimulatorAllowed
              /\ UNCHANGED lookupVars
              /\ Reply(f, InitReply(FALSE))
        /\ UNCHANGED bufferVars

handle_ping(f, n) ==
    /\ Receive(f, n)
    /\ Incoming(f, n).op = "PING"
    /\ Reply(f, Bare("PING", "DAEMON", "SUCCESS"))
    /\ UNCHANGED <<lookupVars, bufferVars>>

(* Faulty: nothing is written. *)
ForwardFaulty(fd, m) == NoSend

(* The forwarded message is the incoming one with another operation.  A    *)
(* descriptor that is closed by now makes select() fail and the message is *)
(* dropped; one that was reused is written to whoever holds it now.        *)
Forward(fd, m) ==
    \/ fd_table[fd] = NoConn /\ NoSend
    \/ fd_table[fd] # NoConn /\ SocketSend(fd_table[fd], [m EXCEPT !.op = "FORWARD"])

(* Undefined behaviour: FD_SET(-1) and a select() on nothing without a     *)
(* timeout, or a dereferenced end().                                       *)
Undefined ==
    /\ UNCHANGED <<down, reset>>
    /\ \/ Die
       \/ status' = "hung" /\ UNCHANGED <<fd_table, backlog>>

(* The simulator a payload is forwarded to.  Faulty: the destination's. *)
TargetSimFaulty(m) == IF SimulatorMode = "PER_NODE" THEN m.metadata.dest ELSE "simulator"
TargetSim(m) == IF SimulatorMode = "PER_NODE" THEN m.metadata.src ELSE "simulator"

ForwardToSim(m) ==
    \/ /\ TargetSim(m) \in DOMAIN sim_client_lookup
       /\ sim_client_lookup[TargetSim(m)]["RECV"] # NoFd
       /\ Forward(sim_client_lookup[TargetSim(m)]["RECV"], m)
    \/ /\ TargetSim(m) \in DOMAIN sim_client_lookup
       /\ sim_client_lookup[TargetSim(m)]["RECV"] = NoFd
       /\ Undefined
    \/ /\ TargetSim(m) \notin DOMAIN sim_client_lookup
       /\ IF SimulatorMode = "PER_NODE" THEN Die /\ UNCHANGED <<down, reset>>
                                        ELSE Undefined

handle_send(f, n) ==
    LET m == Incoming(f, n)
    IN  /\ Receive(f, n)
        /\ m.op = "SEND"
        /\ \/ /\ SystemMode = "PULL"
              /\ tx_buffer' = Append(tx_buffer, Entry(UseDB, m))
              /\ NoSend
           \/ /\ SystemMode = "PUSH"
              /\ ForwardToSim(m)
              /\ UNCHANGED tx_buffer
        /\ UNCHANGED <<rx_buffer, lookupVars>>

(* The buffer positions a FETCH may take: none without metadata, any when  *)
(* no source is given.  The first of them is taken.                        *)
(* Faulty: the source asked for is ignored.                                *)
FetchMatchesFaulty(m) == {i \in DOMAIN tx_buffer : m.metadata.has}
FetchMatches(m) ==
    {i \in DOMAIN tx_buffer :
        m.metadata.has /\ m.metadata.src \in {"", tx_buffer[i].source}}

(* The answer to FETCH or RECEIVE: the entry taken, if there is one to speak of. *)
EntryReply(op, e) ==
    IF exists(e)
    THEN [op |-> op, og |-> "DAEMON", code |-> "MESSAGE",
          metadata |-> Route(e.source, e.destination),
          body |-> PayloadBody(UseDB, e.payload_obj)]
    ELSE Bare(op, "DAEMON", "NO_MESSAGE")

handle_fetch(f, n) ==
    LET m == Incoming(f, n)
        i == FirstIn(FetchMatches(m))
    IN  /\ Receive(f, n)
        /\ m.op = "FETCH"
        /\ \/ /\ FetchMatches(m) # {}
              /\ tx_buffer' = erase(tx_buffer, i)
              /\ Reply(f, EntryReply("FETCH", tx_buffer[i]))
           \/ /\ FetchMatches(m) = {}
              /\ UNCHANGED tx_buffer
              /\ Reply(f, EntryReply("FETCH", NoEntry))
        /\ UNCHANGED <<rx_buffer, lookupVars>>

(* The descriptor a payload is forwarded to.  Faulty: the sender's. *)
PostTargetFaulty(m) ==
    IF m.metadata.src \in DOMAIN app_client_lookup
    THEN app_client_lookup[m.metadata.src]["RECV"] ELSE NoFd
(* Faulty: it is looked up among the simulator clients. *)
PostTargetSim(m) ==
    IF m.metadata.dest \in DOMAIN sim_client_lookup
    THEN sim_client_lookup[m.metadata.dest]["RECV"] ELSE NoFd
PostTarget(m) ==
    IF m.metadata.dest \in DOMAIN app_client_lookup
    THEN app_client_lookup[m.metadata.dest]["RECV"] ELSE NoFd

handle_post(f, n) ==
    LET m == Incoming(f, n)
        fd == PostTarget(m)
    IN  /\ Receive(f, n)
        /\ m.op = "POST"
        /\ \/ /\ SystemMode = "PULL"
              /\ rx_buffer' = IF m.code = "MESSAGE"
                              THEN Append(rx_buffer, Entry(UseDB, m)) ELSE rx_buffer
              /\ NoSend
           \/ /\ SystemMode = "PUSH" /\ fd # NoFd
              /\ Forward(fd, m)
              /\ UNCHANGED rx_buffer
           \/ /\ SystemMode = "PUSH" /\ fd = NoFd
              /\ NoSend
              /\ UNCHANGED rx_buffer
        /\ UNCHANGED <<tx_buffer, lookupVars>>

(* Faulty: the destination asked for is ignored. *)
ReceiveMatchesFaulty(m) == {i \in DOMAIN rx_buffer : m.metadata.has}
ReceiveMatches(m) ==
    {i \in DOMAIN rx_buffer :
        m.metadata.has /\ m.metadata.dest \in {"", rx_buffer[i].destination}}

handle_receive(f, n) ==
    LET m == Incoming(f, n)
        i == FirstIn(ReceiveMatches(m))
    IN  /\ Receive(f, n)
        /\ m.op = "RECEIVE"
        /\ \/ /\ ReceiveMatches(m) # {}
              /\ rx_buffer' = erase(rx_buffer, i)
              /\ Reply(f, EntryReply("RECEIVE", rx_buffer[i]))
           \/ /\ ReceiveMatches(m) = {}
              /\ UNCHANGED rx_buffer
              /\ Reply(f, EntryReply("RECEIVE", NoEntry))
        /\ UNCHANGED <<tx_buffer, lookupVars>>

(* Faulty: the loop goes on. *)
handle_exitFaulty(f, n) ==
    /\ Receive(f, n)
    /\ Incoming(f, n).op = "EXIT"
    /\ UNCHANGED <<status, lookupVars, bufferVars, fd_table, backlog, down, reset>>

(* EXIT: stop().  The rest of this turn of the loop is still served. *)
handle_exit(f, n) ==
    /\ Receive(f, n)
    /\ Incoming(f, n).op = "EXIT"
    /\ status' = "stopping"
    /\ UNCHANGED <<lookupVars, bufferVars, fd_table, backlog, down, reset>>

Handle(f, n) ==
    \/ handle_init(f, n)
    \/ handle_ping(f, n)
    \/ handle_send(f, n)
    \/ handle_fetch(f, n)
    \/ handle_post(f, n)
    \/ handle_receive(f, n)
    \/ handle_exit(f, n)

DaemonNext ==
    \/ Select
    \/ \E f \in read_fds \cap OpenFds : \E n \in 1 .. Len(up[fd_table[f]]) : Handle(f, n)
    \/ \E f \in read_fds \cap OpenFds : Disconnect(f)
    \/ Accept
    \/ Shutdown
=============================================================================
