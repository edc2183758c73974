-------------------------- MODULE NsbSafetyProofs --------------------------
(***************************************************************************)
(* Type correctness of NsbSystem, and the safety properties that are about *)
(* connections, requests and registration, for every set of clients and    *)
(* every bound.                                                            *)
(*                                                                         *)
(*  - TypeOK, in every configuration.  It is not inductive by itself: that *)
(*    Accept() registers a port needs the connections in the backlog to    *)
(*    have one, and that it takes a connection at all needs the backlog to *)
(*    be non-empty whenever select() has flagged the listening socket.     *)
(*  - DescriptorsConsistent, in every configuration.  That Disconnect      *)
(*    drops no connection its client holds open rests on EndsKnown: the    *)
(*    daemon only visits a descriptor that is readable, and an empty       *)
(*    stream is readable only when the client's end is closed.             *)
(*  - Lockstep, in PULL mode with no abandoned call.  The strengthening    *)
(*    says which operations travel on which channel, so that a read of     *)
(*    CTRL or SEND never writes to a RECV channel.                         *)
(*  - OneSimulator, in PULL mode, unless a client goes on without the      *)
(*    answer to its INIT: until then its CTRL channel carries one request  *)
(*    or one answer (StartInv).                                            *)
(*  - RegisteredRight, in every configuration in which no port comes back: *)
(*    fd_lookup leads from a port to the descriptor of the connection that *)
(*    has the port, or had it until its client left (RegInv).              *)
(*                                                                         *)
(* KindInv, which operations which client writes, is used by all that      *)
(* follows from here.                                                      *)
(***************************************************************************)
EXTENDS NsbSystem, NsbWireProofs, SequenceTheorems

-----------------------------------------------------------------------------
(* Type correctness.                                                       *)

BacklogKnown ==
    /\ Alive /\ accept_ready => backlog # <<>>
    /\ \A i \in DOMAIN backlog : client_end[backlog[i]] # "none"
    /\ \A k \in Conn : client_end[k] # "none" => port[k] \in Port

TypeInv == TypeOK /\ BacklogKnown

(* list::erase and vector::erase leave a sequence over the same elements. *)
LEMMA RemoveAtType == ASSUME NEW T, NEW s \in Seq(T), NEW i \in DOMAIN s
                      PROVE RemoveAt(s, i) \in Seq(T)
  BY DEF RemoveAt

(* map::emplace leaves a map with the same keys and values. *)
LEMMA emplaceType == ASSUME NEW S, NEW T, NEW m, IsMap(m, S, T), NEW k \in S, NEW v \in T
                     PROVE IsMap(emplace(m, k, v), S, T)
  BY DEF emplace, IsMap

(* find_if returns an index of the sequence it searched, the lowest that matches. *)
LEMMA FirstInType == ASSUME NEW n \in Nat, NEW S, S \subseteq 1 .. n, S # {}
                     PROVE FirstIn(S) \in S /\ \A j \in S : FirstIn(S) <= j
<1>1. \E i \in S : \A j \in S : i <= j
  BY MinExists, S \subseteq Nat
<1> QED BY <1>1 DEF FirstIn

(* A client's channels are connections. *)
LEMMA ConnFacts == ASSUME NEW c \in Client, NEW ch \in Channel
                   PROVE <<c, ch>> \in Conn /\ <<c, ch>> # NoConn
  BY WireAssumption DEF Conn, NoConn

(* The mark of a free descriptor is no connection. *)
LEMMA NoConnNotConn == NoConn \notin Conn
  BY WireAssumption DEF Conn, NoConn

-----------------------------------------------------------------------------
(* What a send() of the daemon, and a handler's read, do to the sockets.   *)

SendOutcome ==
    /\ down' \in [Conn -> Seq(nsbm)]
    /\ reset' \in [Conn -> BOOLEAN]
    /\ fd_table' \in [Fd -> Conn \cup {NoConn}]
    /\ \A j \in Conn : reset'[j] => reset[j] \/ client_end[j] = "closed"
    /\ \A j \in Conn : down'[j] # <<>> => down[j] # <<>> \/ client_end[j] = "open"
    /\ \/ status' \in {status, "stopping"} /\ backlog' = backlog /\ fd_table' = fd_table
       \/ status' \in {"crashed", "hung"} /\ backlog' \in {backlog, <<>>}

(* A send() of the daemon ends the daemon or adds one message to one channel. *)
LEMMA SocketSendOutcome == ASSUME TypeOK, NEW k \in Conn, NEW m \in nsbm, SocketSend(k, m)
                           PROVE SendOutcome
<1> USE DEF TypeOK, SocketsTypeOK
<1>1. CASE /\ client_end[k] = "open"
           /\ down' = [down EXCEPT ![k] = Append(@, m)]
           /\ UNCHANGED <<reset, status, fd_table, backlog>>
  BY <1>1 DEF SendOutcome
<1>2. CASE /\ client_end[k] = "closed"
           /\ \E r \in BOOLEAN : reset' = [reset EXCEPT ![k] = @ \/ r]
           /\ UNCHANGED <<down, status, fd_table, backlog>>
  <2>1. PICK r \in BOOLEAN : reset' = [reset EXCEPT ![k] = @ \/ r]
    BY <1>2
  <2>2. reset' \in [Conn -> BOOLEAN]
    BY <2>1, (reset[k] \/ r) \in BOOLEAN, Zenon
  <2> QED BY <1>2, <2>2 DEF SendOutcome
<1>3. CASE reset[k] /\ Die /\ UNCHANGED <<down, reset>>
  BY <1>3 DEF SendOutcome, Die
<1> QED BY <1>1, <1>2, <1>3 DEF SocketSend

(* A handler that sends nothing keeps the channels as they are. *)
LEMMA NoSendOutcome == ASSUME TypeOK, NoSend PROVE SendOutcome
  BY DEF NoSend, SendOutcome, TypeOK, SocketsTypeOK

(* What the daemon reads is a message, and the rest of the channel stays typed. *)
LEMMA ReadOutcome ==
    ASSUME TypeOK, NEW f \in read_fds \cap OpenFds, NEW n \in 1 .. Len(up[fd_table[f]]),
           Receive(f, n)
    PROVE  /\ fd_table[f] \in Conn
           /\ Incoming(f, n) \in nsbm
           /\ up' \in [Conn -> Seq(nsbm)]
           /\ read_fds' \in SUBSET Fd
           /\ UNCHANGED <<accept_ready, channel_fds, fd_lookup, client_end, port>>
           /\ Alive
<1> USE DEF TypeOK, SocketsTypeOK, DaemonTypeOK
<1>1. f \in Fd /\ fd_table[f] \in Conn
  BY DEF OpenFds
<1>2. up[fd_table[f]] \in Seq(nsbm)
  BY <1>1
<1>3. Read(up[fd_table[f]], n) \in Seq(nsbm) /\ Unread(up[fd_table[f]], n) \in Seq(nsbm)
  BY <1>2, SplitType DEF Read, Unread
<1>4. Incoming(f, n) \in nsbm
  BY <1>3, ParseType DEF Incoming
<1>5. up' \in [Conn -> Seq(nsbm)]
  BY <1>1, <1>3 DEF Receive
<1> QED BY <1>1, <1>4, <1>5 DEF Receive, Visit, Alive

(* A handler that keeps the daemon's records typed keeps TypeInv. *)
LEMMA HandlerStep ==
    ASSUME TypeInv, NEW f \in read_fds \cap OpenFds, NEW n \in 1 .. Len(up[fd_table[f]]),
           Receive(f, n), SendOutcome, UNCHANGED clientVars,
           IsMap(app_client_lookup', Identifier, ClientDetails),
           IsMap(sim_client_lookup', SimKey, ClientDetails),
           tx_buffer' \in Seq(MessageEntry), rx_buffer' \in Seq(MessageEntry)
    PROVE  TypeInv'
<1>0. TypeOK /\ BacklogKnown
  BY DEF TypeInv
<1>1. /\ up' \in [Conn -> Seq(nsbm)] /\ read_fds' \in SUBSET Fd /\ Alive
      /\ UNCHANGED <<accept_ready, channel_fds, fd_lookup, client_end, port>>
  BY <1>0, ReadOutcome
<1>2. SocketsTypeOK'
  <2>1. backlog' \in Seq(Conn)
    <3>1. backlog' = backlog \/ backlog' = <<>>
      BY DEF SendOutcome
    <3>2. backlog \in Seq(Conn) /\ <<>> \in Seq(Conn)
      BY <1>0 DEF TypeOK, SocketsTypeOK
    <3> QED BY <3>1, <3>2
  <2> QED BY <1>0, <1>1, <2>1 DEF SendOutcome, TypeOK, SocketsTypeOK
<1>3. DaemonTypeOK'
  <2>1. status' \in {"running", "stopping", "stopped", "crashed", "hung"}
    BY <1>0 DEF SendOutcome, TypeOK, DaemonTypeOK
  <2> QED BY <1>0, <1>1, <2>1 DEF TypeOK, DaemonTypeOK
<1>4. ClientTypeOK'
  BY <1>0 DEF TypeOK, ClientTypeOK, clientVars, logVars
<1>5. BacklogKnown'
  <2>1. CASE backlog' = backlog
    BY <1>0, <1>1, <2>1 DEF BacklogKnown, Alive
  <2>2. CASE backlog' = <<>> /\ status' \in {"crashed", "hung"}
    BY <1>0, <1>1, <2>2 DEF BacklogKnown, Alive
  <2> QED BY <2>1, <2>2 DEF SendOutcome
<1> QED BY <1>2, <1>3, <1>4, <1>5 DEF TypeInv, TypeOK

-----------------------------------------------------------------------------
(* The handlers.                                                           *)

(* A handler's response is one send(). *)
LEMMA ReplyOutcome ==
    ASSUME TypeOK, NEW f \in OpenFds, NEW m \in nsbm, Reply(f, m)
    PROVE  SendOutcome
<1>1. fd_table[f] \in Conn
  BY DEF OpenFds, TypeOK, SocketsTypeOK
<1> QED BY <1>1, SocketSendOutcome DEF Reply

(* A forwarded message of PUSH mode is one send(). *)
LEMMA ForwardOutcome ==
    ASSUME TypeOK, NEW fd \in Fd, NEW m \in nsbm, Forward(fd, m)
    PROVE  SendOutcome
<1>1. CASE fd_table[fd] = NoConn /\ NoSend
  BY <1>1, NoSendOutcome
<1>2. CASE fd_table[fd] # NoConn /\ SocketSend(fd_table[fd], [m EXCEPT !.op = "FORWARD"])
  <2>1. fd_table[fd] \in Conn
    BY <1>2 DEF TypeOK, SocketsTypeOK
  <2>2. [m EXCEPT !.op = "FORWARD"] \in nsbm
    BY DEF nsbm, Op
  <2> QED BY <1>2, <2>1, <2>2, SocketSendOutcome
<1> QED BY <1>1, <1>2 DEF Forward

(* A send to no simulator ends the daemon, hangs it or does nothing. *)
LEMMA UndefinedOutcome == ASSUME TypeOK, Undefined PROVE SendOutcome
  BY DEF Undefined, Die, SendOutcome, TypeOK, SocketsTypeOK

(* handle_send's forwarding is one send() or undefined behaviour. *)
LEMMA ForwardToSimOutcome ==
    ASSUME TypeOK, NEW m \in nsbm, ForwardToSim(m)
    PROVE  SendOutcome
<1> DEFINE sim == TargetSim(m)
<1>1. CASE /\ sim \in DOMAIN sim_client_lookup /\ sim_client_lookup[sim]["RECV"] # NoFd
           /\ Forward(sim_client_lookup[sim]["RECV"], m)
  <2>1. sim_client_lookup[sim] \in ClientDetails
    BY <1>1 DEF TypeOK, DaemonTypeOK, IsMap
  <2>2. sim_client_lookup[sim]["RECV"] \in Fd
    BY <1>1, <2>1 DEF ClientDetails, Channel
  <2> QED BY <1>1, <2>2, ForwardOutcome
<1>2. CASE Undefined
  BY <1>2, UndefinedOutcome
<1>3. CASE Die /\ UNCHANGED <<down, reset>>
  BY <1>3 DEF Die, SendOutcome, TypeOK, SocketsTypeOK
<1> QED BY <1>1, <1>2, <1>3 DEF ForwardToSim

(* What handle_init registers is a ClientDetails. *)
LEMMA DetailsType == ASSUME TypeOK, NEW c \in Client PROVE Details(c) \in ClientDetails
<1>1. ASSUME NEW p \in DOMAIN fd_lookup PROVE fd_lookup[p] \in Fd
  BY DEF TypeOK, DaemonTypeOK, IsMap
<1> QED BY <1>1 DEF Details, ClientDetails

(* The answer made from a buffer entry is a message. *)
LEMMA EntryReplyType ==
    ASSUME NEW op \in Op, NEW e \in MessageEntry
    PROVE  EntryReply(op, e) \in nsbm
<1>1. CASE exists(e)
  <2>1. e.source \in Id /\ e.destination \in Id /\ e.payload_obj \in Value
    BY DEF MessageEntry
  <2>2. Route(e.source, e.destination) \in Metadata /\ PayloadBody(UseDB, e.payload_obj) \in Body
    BY <2>1, MessageTypes, ConfigAssumption
  <2> QED BY <1>1, <2>2 DEF EntryReply, nsbm, Og, Code
<1>2. CASE ~exists(e)
  BY <1>2, MessageTypes DEF EntryReply, Og, Code
<1> QED BY <1>1, <1>2

(* Every handler of the daemon keeps TypeInv. *)
LEMMA HandlersTyped ==
    ASSUME TypeInv, NEW f \in read_fds \cap OpenFds, NEW n \in 1 .. Len(up[fd_table[f]]),
           Handle(f, n), UNCHANGED clientVars
    PROVE  TypeInv' /\ Receive(f, n) /\ SendOutcome
<1> DEFINE m == Incoming(f, n)
<1>0. TypeOK
  BY DEF TypeInv
<1>a. /\ IsMap(app_client_lookup, Identifier, ClientDetails)
      /\ IsMap(sim_client_lookup, SimKey, ClientDetails)
      /\ tx_buffer \in Seq(MessageEntry) /\ rx_buffer \in Seq(MessageEntry)
  BY <1>0 DEF TypeOK, DaemonTypeOK
<1>b. Receive(f, n)
  BY DEF Handle, handle_init, handle_ping, handle_send, handle_fetch, handle_post,
         handle_receive, handle_exit
<1>c. m \in nsbm
  BY <1>0, <1>b, ReadOutcome
<1>1. CASE handle_init(f, n)
  <2> DEFINE c == m.body.val[1]
  <2>1. c \in Client
    <3>1. m.body \in Body /\ m.body.kind = "intro"
      BY <1>1, <1>c DEF handle_init, nsbm
    <3> QED BY <3>1 DEF Body
  <2>2. Details(c) \in ClientDetails /\ Ident[c] \in Identifier /\ SimulatorKey(c) \in SimKey
    BY <1>0, <2>1, DetailsType DEF Identifier, SimulatorKey, SimKey
  <2>3. InitReply(TRUE) \in nsbm /\ InitReply(FALSE) \in nsbm
    <3>1. [kind |-> "config", val |-> NoValue] \in Body
      BY MessageTypes DEF Body
    <3>2. Bare("INIT", "DAEMON", "SUCCESS") \in nsbm /\ Bare("INIT", "DAEMON", "FAILURE") \in nsbm
      BY MessageTypes DEF Op, Og, Code
    <3> QED BY <3>1, <3>2 DEF InitReply, nsbm
  <2>4. SendOutcome
    BY <1>0, <1>1, <2>3, ReplyOutcome DEF handle_init
  <2>5. /\ IsMap(app_client_lookup', Identifier, ClientDetails)
        /\ IsMap(sim_client_lookup', SimKey, ClientDetails)
    <3>1. CASE /\ app_client_lookup' = emplace(app_client_lookup, Ident[c], Details(c))
               /\ UNCHANGED sim_client_lookup
      BY <1>a, <2>2, <3>1, emplaceType
    <3>2. CASE /\ sim_client_lookup' = emplace(sim_client_lookup, SimulatorKey(c), Details(c))
               /\ UNCHANGED app_client_lookup
      BY <1>a, <2>2, <3>2, emplaceType
    <3>3. CASE UNCHANGED lookupVars
      BY <1>a, <3>3 DEF lookupVars
    <3> QED BY <1>1, <3>1, <3>2, <3>3 DEF handle_init
  <2> QED BY <1>1, <1>a, <1>b, <2>4, <2>5, HandlerStep DEF handle_init, bufferVars
<1>2. CASE handle_ping(f, n)
  <2>1. SendOutcome
    BY <1>0, <1>2, ReplyOutcome, MessageTypes DEF handle_ping, Op, Og, Code
  <2> QED BY <1>2, <1>a, <1>b, <2>1, HandlerStep DEF handle_ping, bufferVars, lookupVars
<1>3. CASE handle_send(f, n)
  <2>1. SendOutcome
    BY <1>0, <1>3, <1>c, NoSendOutcome, ForwardToSimOutcome DEF handle_send
  <2>2. tx_buffer' \in Seq(MessageEntry)
    <3>1. Entry(UseDB, m) \in MessageEntry
      BY <1>c, MessageTypes, ConfigAssumption
    <3> QED BY <1>3, <1>a, <3>1 DEF handle_send
  <2> QED BY <1>3, <1>a, <1>b, <2>1, <2>2, HandlerStep DEF handle_send, lookupVars
<1>4. CASE handle_fetch(f, n)
  <2> DEFINE i == FirstIn(FetchMatches(m))
  <2>1. FetchMatches(m) # {} => i \in DOMAIN tx_buffer
    <3>1. Len(tx_buffer) \in Nat /\ DOMAIN tx_buffer = 1 .. Len(tx_buffer)
      BY <1>a
    <3>2. FetchMatches(m) \subseteq 1 .. Len(tx_buffer)
      BY <3>1 DEF FetchMatches
    <3> QED BY <3>1, <3>2, FirstInType
  <2>2. FetchMatches(m) # {} => EntryReply("FETCH", tx_buffer[i]) \in nsbm
    BY <1>a, <2>1, EntryReplyType DEF Op
  <2>3. EntryReply("FETCH", NoEntry) \in nsbm
    BY MessageTypes, EntryReplyType DEF Op
  <2>4. SendOutcome
    BY <1>0, <1>4, <2>2, <2>3, ReplyOutcome DEF handle_fetch
  <2>5. tx_buffer' \in Seq(MessageEntry)
    BY <1>a, <1>4, <2>1, RemoveAtType DEF handle_fetch, erase
  <2> QED BY <1>4, <1>a, <1>b, <2>4, <2>5, HandlerStep DEF handle_fetch, lookupVars
<1>5. CASE handle_post(f, n)
  <2>1. Entry(UseDB, m) \in MessageEntry
    BY <1>c, MessageTypes, ConfigAssumption
  <2>2. rx_buffer' \in Seq(MessageEntry)
    BY <1>5, <1>a, <2>1 DEF handle_post
  <2> DEFINE d == m.metadata.dest
             fd == PostTarget(m)
  <2>3. fd # NoFd => fd \in Fd
    <3>1. d \in DOMAIN app_client_lookup => app_client_lookup[d] \in ClientDetails
      BY <1>a DEF IsMap
    <3> QED BY <3>1 DEF ClientDetails, Channel, PostTarget
  <2>4. SendOutcome
    <3>1. NoSend \/ (fd # NoFd /\ Forward(fd, m))
      BY <1>5 DEF handle_post
    <3> QED BY <1>0, <1>c, <2>3, <3>1, NoSendOutcome, ForwardOutcome
  <2> QED BY <1>5, <1>a, <1>b, <2>2, <2>4, HandlerStep DEF handle_post, lookupVars
<1>6. CASE handle_receive(f, n)
  <2> DEFINE i == FirstIn(ReceiveMatches(m))
  <2>1. ReceiveMatches(m) # {} => i \in DOMAIN rx_buffer
    <3>1. Len(rx_buffer) \in Nat /\ DOMAIN rx_buffer = 1 .. Len(rx_buffer)
      BY <1>a
    <3>2. ReceiveMatches(m) \subseteq 1 .. Len(rx_buffer)
      BY <3>1 DEF ReceiveMatches
    <3> QED BY <3>1, <3>2, FirstInType
  <2>2. ReceiveMatches(m) # {} => EntryReply("RECEIVE", rx_buffer[i]) \in nsbm
    BY <1>a, <2>1, EntryReplyType DEF Op
  <2>3. EntryReply("RECEIVE", NoEntry) \in nsbm
    BY MessageTypes, EntryReplyType DEF Op
  <2>4. SendOutcome
    BY <1>0, <1>6, <2>2, <2>3, ReplyOutcome DEF handle_receive
  <2>5. rx_buffer' \in Seq(MessageEntry)
    BY <1>a, <1>6, <2>1, RemoveAtType DEF handle_receive, erase
  <2> QED BY <1>6, <1>a, <1>b, <2>4, <2>5, HandlerStep DEF handle_receive, lookupVars
<1>7. CASE handle_exit(f, n)
  <2>1. SendOutcome
    BY <1>0, <1>7 DEF handle_exit, SendOutcome, TypeOK, SocketsTypeOK
  <2> QED BY <1>7, <1>a, <1>b, <2>1, HandlerStep DEF handle_exit, lookupVars, bufferVars
<1> QED BY <1>b, <1>1, <1>2, <1>3, <1>4, <1>5, <1>6, <1>7 DEF Handle

-----------------------------------------------------------------------------
(* The steps of the loop.                                                  *)

(* Every other step of start_server keeps TypeInv. *)
LEMMA LoopTyped ==
    ASSUME TypeInv, DaemonNext, UNCHANGED clientVars
    PROVE  TypeInv'
<1>0. /\ SocketsTypeOK /\ DaemonTypeOK /\ ClientTypeOK /\ BacklogKnown
  BY DEF TypeInv, TypeOK
<1>c. ClientTypeOK'
  BY <1>0 DEF ClientTypeOK, clientVars, logVars
<1>1. CASE Select
  <2>1. read_fds' \in SUBSET Fd /\ accept_ready' \in BOOLEAN
    BY <1>1 DEF Select, OpenFds
  <2>2. SocketsTypeOK' /\ DaemonTypeOK'
    BY <1>0, <1>1, <2>1 DEF Select, SocketsTypeOK, DaemonTypeOK, lookupVars, bufferVars, socketVars
  <2>3. BacklogKnown'
    BY <1>0, <1>1 DEF Select, BacklogKnown, Alive, socketVars
  <2> QED BY <1>c, <2>2, <2>3 DEF TypeInv, TypeOK
<1>2. ASSUME NEW f \in read_fds \cap OpenFds, NEW n \in 1 .. Len(up[fd_table[f]]), Handle(f, n)
      PROVE TypeInv'
  BY <1>2, HandlersTyped
<1>3. ASSUME NEW f \in read_fds \cap OpenFds, Disconnect(f)
      PROVE TypeInv'
  <2>1. fd_table[f] \in Conn
    BY <1>0 DEF OpenFds, SocketsTypeOK
  <2>2. SocketsTypeOK'
    <3>1. up' \in [Conn -> Seq(nsbm)]
      BY <1>0, <1>3, <2>1 DEF Disconnect, SocketsTypeOK
    <3>2. fd_table' \in [Fd -> Conn \cup {NoConn}]
      BY <1>0, <1>3 DEF Disconnect, SocketsTypeOK
    <3> QED BY <1>0, <1>3, <3>1, <3>2 DEF Disconnect, SocketsTypeOK
  <2>3. channel_fds' \in Seq(Fd)
    BY <1>0, <1>3, RemoveAtType DEF Disconnect, erase, DaemonTypeOK
  <2>4. DaemonTypeOK'
    BY <1>0, <1>3, <2>3 DEF Disconnect, Visit, DaemonTypeOK, lookupVars, bufferVars
  <2>5. BacklogKnown'
    BY <1>0, <1>3 DEF Disconnect, Visit, BacklogKnown, Alive
  <2> QED BY <1>c, <2>2, <2>4, <2>5 DEF TypeInv, TypeOK
<1>4. CASE Accept
  <2>1. CASE FreeFds # {} /\ fd_table' = [fd_table EXCEPT ![LowestFree] = Head(backlog)]
             /\ channel_fds' = Append(channel_fds, LowestFree)
             /\ fd_lookup' = emplace(fd_lookup, port[Head(backlog)], LowestFree)
             /\ backlog' = Tail(backlog)
    <3>1. backlog \in Seq(Conn) /\ backlog # <<>>
      BY <1>0, <1>4 DEF Accept, BacklogKnown, Alive, SocketsTypeOK
    <3>2. /\ Head(backlog) \in Conn /\ Tail(backlog) \in Seq(Conn)
          /\ Head(backlog) = backlog[1] /\ 1 \in DOMAIN backlog
          /\ \A i \in DOMAIN Tail(backlog) : i + 1 \in DOMAIN backlog /\ Tail(backlog)[i] = backlog[i + 1]
      BY <3>1
    <3>3. port[Head(backlog)] \in Port
      BY <1>0, <3>2 DEF BacklogKnown
    <3>4. LowestFree \in Fd
      <4>1. FreeFds \subseteq Nat /\ FreeFds \subseteq Fd
        BY SocketsAssumption DEF FreeFds, Fd
      <4>2. \E f \in FreeFds : \A g \in FreeFds : f <= g
        BY <2>1, <4>1, MinExists
      <4> QED BY <4>1, <4>2 DEF LowestFree
    <3>5. SocketsTypeOK'
      BY <1>0, <1>4, <2>1, <3>2, <3>4 DEF Accept, SocketsTypeOK
    <3>6. IsMap(fd_lookup', Port, Fd)
      BY <1>0, <2>1, <3>3, <3>4, emplaceType DEF DaemonTypeOK
    <3>a. channel_fds' \in Seq(Fd)
      BY <1>0, <2>1, <3>4 DEF DaemonTypeOK
    <3>7. DaemonTypeOK'
      BY <1>0, <1>4, <3>a, <3>6 DEF Accept, DaemonTypeOK, lookupVars, bufferVars
    <3>8. BacklogKnown'
      BY <1>0, <1>4, <2>1, <3>2 DEF Accept, BacklogKnown
    <3> QED BY <1>c, <3>5, <3>7, <3>8 DEF TypeInv, TypeOK
  <2>2. CASE FreeFds = {} /\ UNCHANGED <<fd_table, channel_fds, fd_lookup, backlog>>
    <3>1. SocketsTypeOK' /\ DaemonTypeOK'
      BY <1>0, <1>4, <2>2 DEF Accept, SocketsTypeOK, DaemonTypeOK, lookupVars, bufferVars
    <3>2. BacklogKnown'
      BY <1>0, <1>4, <2>2 DEF Accept, BacklogKnown
    <3> QED BY <1>c, <3>1, <3>2 DEF TypeInv, TypeOK
  <2> QED BY <1>4, <2>1, <2>2 DEF Accept
<1>5. CASE Shutdown
  <2>1. SocketsTypeOK' /\ DaemonTypeOK'
    BY <1>0, <1>5 DEF Shutdown, SocketsTypeOK, DaemonTypeOK, lookupVars, bufferVars
  <2>2. BacklogKnown'
    BY <1>0, <1>5 DEF Shutdown, BacklogKnown, Alive
  <2> QED BY <1>c, <2>1, <2>2 DEF TypeInv, TypeOK
<1> QED BY <1>1, <1>2, <1>3, <1>4, <1>5 DEF DaemonNext

-----------------------------------------------------------------------------
(* The clients.                                                            *)

(* A client's sendMessage keeps the channels typed. *)
LEMMA SendMessageType ==
    ASSUME TypeOK, NEW c \in Client, NEW ch \in Channel, NEW m \in nsbm, SendMessage(c, ch, m)
    PROVE  up' \in [Conn -> Seq(nsbm)]
  BY ConnFacts DEF SendMessage, UpAfterSend, TypeOK, SocketsTypeOK

(* What a client reads is a message, and the rest of the channel stays typed. *)
LEMMA TakeFromType ==
    ASSUME TypeOK, NEW c \in Client, NEW ch \in Channel,
           NEW n \in 1 .. Len(down[<<c, ch>>])
    PROVE  /\ Response(c, ch, n) \in nsbm
           /\ TakeFrom(c, ch, n) => down' \in [Conn -> Seq(nsbm)]
<1>1. <<c, ch>> \in Conn /\ down[<<c, ch>>] \in Seq(nsbm)
  BY ConnFacts DEF TypeOK, SocketsTypeOK
<1>2. Read(down[<<c, ch>>], n) \in Seq(nsbm) /\ Unread(down[<<c, ch>>], n) \in Seq(nsbm)
  BY <1>1, SplitType DEF Read, Unread
<1> QED BY <1>1, <1>2, ParseType DEF Response, TakeFrom, TypeOK, SocketsTypeOK

(* closeConnection keeps the sockets typed. *)
LEMMA CloseType ==
    ASSUME TypeOK, NEW c \in Client, NEW unread, CloseConnections(c, unread)
    PROVE  /\ client_end' \in [Conn -> {"none", "open", "closed"}]
           /\ \A k \in Conn : client_end'[k] = "none" <=> client_end[k] = "none"
           /\ reset' \in [Conn -> BOOLEAN]
           /\ down' \in [Conn -> Seq(nsbm)]
           /\ pc' \in [Client -> PcState]
<1> USE DEF TypeOK, SocketsTypeOK, ClientTypeOK, CloseConnections
<1>1. reset' \in [Conn -> BOOLEAN]
  <2>1. \A k \in Conn : (reset[k] \/ (k[1] = c /\ unread[k] # <<>>)) \in BOOLEAN
    OBVIOUS
  <2> QED BY <2>1, Zenon
<1>2. pc' \in [Client -> PcState]
  BY DEF Goto, PcState
<1> QED BY <1>1, <1>2

(* A step of a client that leaves the daemon, the ports and the backlog alone. *)
LEMMA ClientStep ==
    ASSUME TypeInv, UNCHANGED <<daemonVars, port, backlog, fd_table>>,
           client_end' \in [Conn -> {"none", "open", "closed"}],
           \A k \in Conn : client_end'[k] = "none" <=> client_end[k] = "none",
           reset' \in [Conn -> BOOLEAN],
           up' \in [Conn -> Seq(nsbm)], down' \in [Conn -> Seq(nsbm)],
           ClientTypeOK'
    PROVE  TypeInv'
<1>0. /\ SocketsTypeOK /\ DaemonTypeOK /\ BacklogKnown
  BY DEF TypeInv, TypeOK
<1>1. SocketsTypeOK'
  BY <1>0 DEF SocketsTypeOK
<1>2. DaemonTypeOK'
  BY <1>0 DEF DaemonTypeOK, daemonVars, lookupVars, bufferVars
<1>3. BacklogKnown'
  <2>1. \A i \in DOMAIN backlog : backlog[i] \in Conn
    BY <1>0 DEF SocketsTypeOK
  <2> QED BY <1>0, <2>1 DEF BacklogKnown, Alive, daemonVars
<1> QED BY <1>1, <1>2, <1>3 DEF TypeInv, TypeOK

(* connectToServer, finished or interrupted, keeps TypeInv. *)
LEMMA ConnectTyped ==
    ASSUME TypeInv, NEW c \in Client, NEW ch \in Channel, ConnectChannel(c, ch)
    PROVE  TypeInv'
<1>0. /\ SocketsTypeOK /\ DaemonTypeOK /\ ClientTypeOK /\ BacklogKnown
  BY DEF TypeInv, TypeOK
<1>1. PICK p \in PortChoice[<<c, ch>>] \ PortsInUse : port' = [port EXCEPT ![<<c, ch>>] = p]
  BY DEF ConnectChannel
<1>2. <<c, ch>> \in Conn /\ p \in Port
  BY ConnFacts, <1>1 DEF Port
<1>3. SocketsTypeOK'
  BY <1>0, <1>1, <1>2 DEF ConnectChannel, SocketsTypeOK
<1>4. DaemonTypeOK'
  BY <1>0 DEF ConnectChannel, DaemonTypeOK, daemonVars, lookupVars, bufferVars
<1>5. ClientTypeOK'
  <2>1. pc' \in [Client -> PcState]
    BY <1>0 DEF ConnectChannel, Goto, ClientTypeOK, PcState
  <2> QED BY <1>0, <2>1 DEF ConnectChannel, ClientTypeOK, logVars
<1>6. BacklogKnown'
  <2>1. backlog' = Append(backlog, <<c, ch>>) /\ backlog \in Seq(Conn)
    BY <1>0 DEF ConnectChannel, SocketsTypeOK
  <2>2. /\ client_end' = [client_end EXCEPT ![<<c, ch>>] = "open"]
        /\ client_end \in [Conn -> {"none", "open", "closed"}]
        /\ port \in [Conn -> Port \cup {NoPort}]
    BY <1>0 DEF ConnectChannel, SocketsTypeOK
  <2>3. (Alive /\ accept_ready => backlog # <<>>)'
    BY <1>0, <2>1 DEF BacklogKnown
  <2>4. (\A i \in DOMAIN backlog : client_end[backlog[i]] # "none")'
    BY <1>0, <1>2, <2>1, <2>2 DEF BacklogKnown
  <2>5. (\A k \in Conn : client_end[k] # "none" => port[k] \in Port)'
    BY <1>0, <1>1, <1>2, <2>2 DEF BacklogKnown
  <2> QED BY <2>3, <2>4, <2>5 DEF BacklogKnown
<1> QED BY <1>3, <1>4, <1>5, <1>6 DEF TypeInv, TypeOK

(* The database connector's operations give values and keys of the database. *)
LEMMA DatabaseTypes ==
    ASSUME TypeOK, NEW c \in Client
    PROVE  /\ cfg[c].use_db \in BOOLEAN
           /\ \A v \in Value : Stored(c, v) \in Seq(Value) /\ StoredBody(c, v) \in Body
           /\ \A m \in nsbm : /\ AfterCheckOut(c, m) \in Seq(Value)
                              /\ Returned(c, m) \in MessageEntry
<1>1. cfg[c].use_db \in BOOLEAN /\ db \in Seq(Value)
  BY DEF TypeOK, ClientTypeOK, Config
<1>2. ASSUME NEW v \in Value PROVE Stored(c, v) \in Seq(Value) /\ StoredBody(c, v) \in Body
  <2>1. <<"#", Len(db) + 1>> \in Value
    <3>1. Len(db) + 1 \in Nat /\ "#" \in Client \cup {"", "#"}
      BY <1>1
    <3> QED BY <3>1 DEF Value
  <2>2. StoredBody(c, v) \in Body
    BY <1>1, <2>1, MessageTypes DEF StoredBody
  <2> QED BY <1>1, <2>2 DEF Stored
<1>3. ASSUME NEW m \in nsbm
      PROVE AfterCheckOut(c, m) \in Seq(Value) /\ Returned(c, m) \in MessageEntry
  <2> DEFINE v == PayloadOf(cfg[c].use_db, m)
  <2>1. v \in Value /\ NoValue \in Value
    BY <1>1, MessageTypes
  <2>2. IsKey(v) => v[2] \in DOMAIN db /\ db[v[2]] \in Value
    BY <1>1 DEF IsKey
  <2>3. CheckOut(c, m) \in Value
    BY <2>1, <2>2 DEF CheckOut
  <2>4. AfterCheckOut(c, m) \in Seq(Value)
    BY <1>1, <2>1, <2>2 DEF AfterCheckOut
  <2>5. m.metadata.src \in Id /\ m.metadata.dest \in Id
    BY DEF nsbm, Metadata
  <2> QED BY <2>3, <2>4, <2>5 DEF Returned, MessageEntry
<1> QED BY <1>1, <1>2, <1>3

(* The message of send() and post() is a message. *)
LEMMA DataMessageType ==
    ASSUME NEW c \in Client, NEW op \in Op, NEW s \in Id, NEW d \in Id, NEW b \in Body
    PROVE  DataMessage(c, op, s, d, b) \in nsbm
<1>1. Orig[c] \in Og
  BY ClientAssumption DEF Og
<1>2. Route(s, d) \in Metadata
  BY MessageTypes
<1> QED BY <1>1, <1>2 DEF DataMessage, nsbm, Code

(* The requests without a payload are messages. *)
LEMMA BareTypes ==
    ASSUME NEW c \in Client, NEW op \in Op
    PROVE  /\ Bare(op, Orig[c], "SUCCESS") \in nsbm
           /\ \A md \in Metadata : [Bare(op, Orig[c], "SUCCESS") EXCEPT !.metadata = md] \in nsbm
           /\ IntroMessage(c) \in nsbm
<1>1. Orig[c] \in Og
  BY ClientAssumption DEF Og
<1>2. Bare(op, Orig[c], "SUCCESS") \in nsbm /\ Bare("INIT", Orig[c], "SUCCESS") \in nsbm
  BY <1>1, MessageTypes DEF Op, Code
<1>3. [kind |-> "intro", val |-> <<c, 0>>] \in Body
  BY DEF Body
<1> QED BY <1>2, <1>3 DEF IntroMessage, nsbm

(* What the simulated network holds are entries that were fetched. *)
LEMMA NetworkType == ASSUME TypeOK, NEW e \in Network PROVE e \in MessageEntry
<1>1. PICK c \in Client : \E i \in DOMAIN fetched[c] : e = fetched[c][i]
  BY DEF Network, Logged
<1> QED BY <1>1 DEF TypeOK, ClientTypeOK

(* The calls that end the client or only talk on the CTRL channel. *)
LEMMA ControlTyped ==
    ASSUME TypeInv, NEW c \in Client,
           \/ ConnectFails(c) \/ Close(c) \/ BrokenPipe(c)
           \/ initialize(c) \/ ping(c) \/ exit(c)
           \/ InitTimeout(c) \/ WaitTimeout(c) \/ WaitEof(c)
    PROVE  TypeInv'
<1>0. TypeOK /\ SocketsTypeOK /\ ClientTypeOK
  BY DEF TypeInv, TypeOK
<1>1. CASE ConnectFails(c) \/ Close(c) \/ BrokenPipe(c)
  <2>1. CloseConnections(c, down) /\ UNCHANGED <<port, backlog, fd_table, up, daemonVars>>
        /\ UNCHANGED <<cfg, nsent, ncalls, timeouts, db, asked, logVars>>
    BY <1>1 DEF ConnectFails, Close, BrokenPipe
  <2>2. ClientTypeOK'
    BY <1>0, <2>1, CloseType DEF ClientTypeOK, logVars
  <2> QED BY <1>0, <2>1, <2>2, CloseType, ClientStep DEF SocketsTypeOK
<1>2. CASE initialize(c) \/ ping(c) \/ exit(c)
  <2>1. up' \in [Conn -> Seq(nsbm)]
    BY <1>0, <1>2, SendMessageType, BareTypes DEF initialize, ping, exit, Channel, Op
  <2>2. pc' \in [Client -> PcState]
    BY <1>0, <1>2 DEF initialize, ping, exit, ClientTypeOK, Goto, PcState, WaitState
  <2>3. ncalls' \in [Client -> 0 .. MaxCalls]
    <3>1. CASE ncalls' = ncalls
      BY <1>0, <3>1 DEF ClientTypeOK
    <3>2. CASE ncalls[c] < MaxCalls /\ ncalls' = [ncalls EXCEPT ![c] = @ + 1]
      <4>1. ncalls[c] + 1 \in 0 .. MaxCalls
        BY <1>0, <3>2, ClientAssumption DEF ClientTypeOK
      <4> QED BY <1>0, <3>2, <4>1 DEF ClientTypeOK
    <3> QED BY <1>2, <3>1, <3>2 DEF initialize, ping, exit
  <2>4. ClientTypeOK'
    BY <1>0, <1>2, <2>2, <2>3 DEF initialize, ping, exit, ClientTypeOK, logVars
  <2> QED BY <1>0, <1>2, <2>1, <2>4, ClientStep
          DEF initialize, ping, exit, SocketsTypeOK, socketsButUp
<1>3. CASE InitTimeout(c) \/ WaitEof(c)
  <2>1. timeouts' \in 0 .. MaxTimeouts
    BY <1>0, <1>3, ClientAssumption DEF InitTimeout, WaitEof, ClientTypeOK
  <2>2. /\ UNCHANGED <<port, backlog, fd_table, up, daemonVars>>
        /\ UNCHANGED <<cfg, nsent, ncalls, db, asked, logVars>>
    BY <1>3 DEF InitTimeout, WaitEof
  <2>3. CASE CloseConnections(c, down)
    <3>1. ClientTypeOK'
      BY <1>0, <2>1, <2>2, <2>3, CloseType DEF ClientTypeOK, logVars
    <3> QED BY <1>0, <2>2, <2>3, <3>1, CloseType, ClientStep DEF SocketsTypeOK
  <2>4. CASE (Goto(c, "idle") \/ Goto(c, "spin")) /\ UNCHANGED <<client_end, down, reset>>
    <3>1. pc' \in [Client -> PcState]
      BY <1>0, <2>4 DEF ClientTypeOK, Goto, PcState
    <3>2. ClientTypeOK'
      BY <1>0, <2>1, <2>2, <3>1 DEF ClientTypeOK, logVars
    <3> QED BY <1>0, <2>2, <2>4, <3>2, ClientStep DEF SocketsTypeOK
  <2> QED BY <1>3, <2>3, <2>4 DEF InitTimeout, WaitEof
<1>4. CASE WaitTimeout(c)
  <2>1. ClientTypeOK'
    BY <1>0, <1>4, ClientAssumption DEF WaitTimeout, ClientTypeOK, Goto, PcState, logVars
  <2> QED BY <1>0, <1>4, <2>1, ClientStep DEF WaitTimeout, SocketsTypeOK, socketVars
<1> QED BY <1>1, <1>2, <1>3, <1>4

(* The calls that take a response. *)
LEMMA ResponseTyped ==
    ASSUME TypeInv, NEW c \in Client, Responded(c)
    PROVE  TypeInv'
<1>0. TypeOK /\ SocketsTypeOK /\ ClientTypeOK
  BY DEF TypeInv, TypeOK
<1>p. \A to \in PcState : Goto(c, to) => pc' \in [Client -> PcState]
  BY <1>0 DEF Goto, ClientTypeOK
<1>1. ASSUME NEW n \in 1 .. Len(down[<<c, "CTRL">>]), InitReturn(c, n)
      PROVE TypeInv'
  <2>1. /\ UNCHANGED <<port, backlog, fd_table, up, daemonVars>>
        /\ UNCHANGED <<nsent, ncalls, timeouts, db, asked, logVars>>
    BY <1>1 DEF InitReturn
  <2>2. CASE /\ TakeFrom(c, "CTRL", n) /\ Goto(c, "idle") /\ UNCHANGED <<client_end, reset>>
             /\ cfg' \in {cfg, [cfg EXCEPT ![c] = DaemonConfig]}
    <3>1. cfg' \in [Client -> Config]
      <4>1. DaemonConfig \in Config
        BY ConfigAssumption DEF DaemonConfig, Config
      <4> QED BY <1>0, <2>2, <4>1 DEF ClientTypeOK
    <3>2. pc' \in [Client -> PcState]
      BY <1>p, <2>2 DEF PcState
    <3>3. ClientTypeOK'
      BY <1>0, <2>1, <3>1, <3>2 DEF ClientTypeOK, logVars
    <3>4. down' \in [Conn -> Seq(nsbm)]
      BY <1>0, <2>2, TakeFromType DEF Channel
    <3> QED BY <1>0, <2>1, <2>2, <3>3, <3>4, ClientStep DEF SocketsTypeOK
  <2>3. CASE /\ CloseConnections(c, [down EXCEPT ![<<c, "CTRL">>] = Unread(@, n)])
             /\ UNCHANGED cfg
    <3>1. ClientTypeOK'
      BY <1>0, <2>1, <2>3, CloseType DEF ClientTypeOK, logVars
    <3> QED BY <1>0, <2>1, <2>3, <3>1, CloseType, ClientStep DEF SocketsTypeOK
  <2> QED BY <1>1, <2>2, <2>3 DEF InitReturn
<1>2. ASSUME NEW n \in 1 .. Len(down[<<c, "CTRL">>]), PingReturn(c, n)
      PROVE TypeInv'
  <2>1. down' \in [Conn -> Seq(nsbm)]
    BY <1>0, <1>2, TakeFromType DEF PingReturn, Channel
  <2>2. pc' \in [Client -> PcState]
    BY <1>p, <1>2 DEF PingReturn, PcState
  <2>3. ClientTypeOK'
    BY <1>0, <1>2, <2>2 DEF PingReturn, ClientTypeOK, logVars
  <2> QED BY <1>0, <1>2, <2>1, <2>3, ClientStep DEF PingReturn, SocketsTypeOK, socketsButDown
<1>3. ASSUME NEW n \in 1 .. Len(down[<<c, "RECV">>]), ReceiveReturn(c, n)
      PROVE TypeInv'
  <2> DEFINE m == Response(c, "RECV", n)
             e == Returned(c, m)
  <2>1. /\ m \in nsbm /\ down' \in [Conn -> Seq(nsbm)]
    BY <1>0, <1>3, TakeFromType DEF ReceiveReturn, Channel
  <2>2. e \in MessageEntry /\ AfterCheckOut(c, m) \in Seq(Value)
    BY <1>0, <2>1, DatabaseTypes
  <2>3. db' \in Seq(Value) /\ received' \in [Client -> Seq(MessageEntry)]
    <3>1. db \in Seq(Value) /\ received \in [Client -> Seq(MessageEntry)]
      BY <1>0 DEF ClientTypeOK
    <3>2. db' = db \/ db' = AfterCheckOut(c, m)
      BY <1>3 DEF ReceiveReturn
    <3>3. received' = received \/ received' = [received EXCEPT ![c] = Append(@, e)]
      BY <1>3 DEF ReceiveReturn
    <3>4. [received EXCEPT ![c] = Append(@, e)] \in [Client -> Seq(MessageEntry)]
      BY <2>2, <3>1
    <3> QED BY <2>2, <3>1, <3>2, <3>3, <3>4
  <2>4. pc' \in [Client -> PcState]
    BY <1>p, <1>3 DEF ReceiveReturn, PcState
  <2>5. ClientTypeOK'
    BY <1>0, <1>3, <2>3, <2>4 DEF ReceiveReturn, ClientTypeOK
  <2> QED BY <1>0, <1>3, <2>1, <2>5, ClientStep DEF ReceiveReturn, SocketsTypeOK, socketsButDown
<1>4. ASSUME NEW n \in 1 .. Len(down[<<c, "RECV">>]), FetchReturn(c, n)
      PROVE TypeInv'
  <2> DEFINE m == Response(c, "RECV", n)
             e == Returned(c, m)
  <2>1. /\ m \in nsbm /\ down' \in [Conn -> Seq(nsbm)]
    BY <1>0, <1>4, TakeFromType DEF FetchReturn, Channel
  <2>2. e \in MessageEntry /\ AfterCheckOut(c, m) \in Seq(Value)
    BY <1>0, <2>1, DatabaseTypes
  <2>3. db' \in Seq(Value) /\ fetched' \in [Client -> Seq(MessageEntry)]
    <3>1. db \in Seq(Value) /\ fetched \in [Client -> Seq(MessageEntry)]
      BY <1>0 DEF ClientTypeOK
    <3>2. db' = db \/ db' = AfterCheckOut(c, m)
      BY <1>4 DEF FetchReturn
    <3>3. fetched' = fetched \/ fetched' = [fetched EXCEPT ![c] = Append(@, e)]
      BY <1>4 DEF FetchReturn
    <3>4. [fetched EXCEPT ![c] = Append(@, e)] \in [Client -> Seq(MessageEntry)]
      BY <2>2, <3>1
    <3> QED BY <2>2, <3>1, <3>2, <3>3, <3>4
  <2>4. pc' \in [Client -> PcState]
    BY <1>p, <1>4 DEF FetchReturn, PcState
  <2>5. ClientTypeOK'
    BY <1>0, <1>4, <2>3, <2>4 DEF FetchReturn, ClientTypeOK
  <2> QED BY <1>0, <1>4, <2>1, <2>5, ClientStep DEF FetchReturn, SocketsTypeOK, socketsButDown
<1> QED BY <1>1, <1>2, <1>3, <1>4
        DEF Responded, WaitChannel, InitReturn, PingReturn, ReceiveReturn, FetchReturn

(* The calls that move payloads. *)
LEMMA DataTyped ==
    ASSUME TypeInv, NEW c \in Client,
           \/ \E d \in SendTo[c] : send(c, d)
           \/ \E d \in ReceiveAs \cup {Ident[c]} : receive(c, d)
           \/ \E s \in FetchFrom : fetch(c, s)
           \/ \E e \in Network : post(c, e)
    PROVE  TypeInv'
<1>0. TypeOK /\ SocketsTypeOK /\ ClientTypeOK
  BY DEF TypeInv, TypeOK
<1>i. Ident[c] \in Identifier /\ Identifier \subseteq Id /\ SendTo[c] \subseteq Identifier
      /\ "" \in Id
  BY ClientAssumption DEF Identifier, Id
<1>1. ASSUME NEW d \in SendTo[c], send(c, d)
      PROVE TypeInv'
  <2>1. PICK v \in {<<c, nsent[c] + 1>>} \cup (IF EmptyPayloads THEN {NoValue} ELSE {}) :
             /\ SendMessage(c, "SEND", DataMessage(c, "SEND", Ident[c], d, StoredBody(c, v)))
             /\ db' = Stored(c, v)
    BY <1>1 DEF send
  <2>2. nsent[c] \in Nat /\ nsent[c] + 1 \in 0 .. MaxSends
    <3>1. nsent[c] \in 0 .. MaxSends /\ nsent[c] < MaxSends /\ MaxSends \in Nat
      BY <1>0, <1>1, WireAssumption DEF send, ClientTypeOK
    <3> QED BY <3>1
  <2>3. v \in Value
    <3>1. v = NoValue \/ v = <<c, nsent[c] + 1>>
      BY <2>1
    <3>2. <<c, nsent[c] + 1>> \in Value
      <4>1. nsent[c] + 1 \in Nat
        BY <2>2
      <4>2. c \in Client \cup {"", "#"}
        OBVIOUS
      <4> QED BY <4>1, <4>2 DEF Value
    <3> QED BY <3>1, <3>2, MessageTypes
  <2>4. DataMessage(c, "SEND", Ident[c], d, StoredBody(c, v)) \in nsbm /\ db' \in Seq(Value)
    BY <1>0, <1>i, <2>1, <2>3, DatabaseTypes, DataMessageType DEF Op
  <2>5. up' \in [Conn -> Seq(nsbm)]
    BY <1>0, <2>1, <2>4, SendMessageType DEF Channel
  <2>6. nsent' \in [Client -> 0 .. MaxSends]
    BY <1>0, <1>1, <2>2 DEF send, ClientTypeOK
  <2>7. ClientTypeOK'
    BY <1>0, <1>1, <2>4, <2>6 DEF send, ClientTypeOK, logVars
  <2> QED BY <1>0, <1>1, <2>5, <2>7, ClientStep DEF send, SocketsTypeOK, socketsButUp
<1>2. ASSUME NEW d \in ReceiveAs \cup {Ident[c]}, receive(c, d)
      PROVE TypeInv'
  <2>1. d \in Id
    BY <1>i, ClientAssumption
  <2>2. Route("", d) \in Metadata
    BY <1>i, <2>1, MessageTypes
  <2>3. up' \in [Conn -> Seq(nsbm)]
    BY <1>0, <1>2, <2>2, BareTypes, SendMessageType DEF receive, SocketsTypeOK, Channel, Op
  <2>4. pc' \in [Client -> PcState] /\ asked' \in [Client -> Id]
    BY <1>0, <1>2, <2>1 DEF receive, ClientTypeOK, Goto, PcState, WaitState
  <2>5. ClientTypeOK'
    BY <1>0, <1>2, <2>4 DEF receive, ClientTypeOK, logVars
  <2> QED BY <1>0, <1>2, <2>3, <2>5, ClientStep DEF receive, SocketsTypeOK, socketsButUp
<1>3. ASSUME NEW s \in FetchFrom, fetch(c, s)
      PROVE TypeInv'
  <2>1. s \in Id
    BY ClientAssumption
  <2>2. FetchMetadata(c, s) \in Metadata
    BY <1>i, <2>1, MessageTypes DEF FetchMetadata
  <2>3. up' \in [Conn -> Seq(nsbm)]
    BY <1>0, <1>3, <2>2, BareTypes, SendMessageType DEF fetch, SocketsTypeOK, Channel, Op
  <2>4. pc' \in [Client -> PcState] /\ asked' \in [Client -> Id]
    BY <1>0, <1>3, <2>1 DEF fetch, ClientTypeOK, Goto, PcState, WaitState
  <2>5. ClientTypeOK'
    BY <1>0, <1>3, <2>4 DEF fetch, ClientTypeOK, logVars
  <2> QED BY <1>0, <1>3, <2>3, <2>5, ClientStep DEF fetch, SocketsTypeOK, socketsButUp
<1>4. ASSUME NEW e \in Network, post(c, e)
      PROVE TypeInv'
  <2>1. e \in MessageEntry /\ e.source \in Id /\ e.destination \in Id /\ e.payload_obj \in Value
    BY <1>0, NetworkType DEF MessageEntry
  <2>2. PostBody(c, e.payload_obj) \in Body /\ Stored(c, e.payload_obj) \in Seq(Value)
    BY <1>0, <2>1, DatabaseTypes, MessageTypes DEF PostBody
  <2>3. up' \in [Conn -> Seq(nsbm)]
    BY <1>0, <1>4, <2>1, <2>2, DataMessageType, SendMessageType DEF post, Channel, Op
  <2>4. db' \in Seq(Value) /\ posted' \in [Client -> Seq(MessageEntry)]
    BY <1>0, <1>4, <2>1, <2>2 DEF post, ClientTypeOK
  <2>5. ClientTypeOK'
    BY <1>0, <1>4, <2>4 DEF post, ClientTypeOK
  <2> QED BY <1>0, <1>4, <2>3, <2>5, ClientStep DEF post, SocketsTypeOK, socketsButUp
<1> QED BY <1>1, <1>2, <1>3, <1>4

-----------------------------------------------------------------------------
(* Every step of the daemon or of a client keeps TypeInv. *)
LEMMA TypeInvStep == TypeInv /\ [Next]_vars => TypeInv'
<1> SUFFICES ASSUME TypeInv, [Next]_vars PROVE TypeInv'
  OBVIOUS
<1>1. CASE DaemonNext /\ UNCHANGED clientVars
  BY <1>1, LoopTyped
<1>2. ASSUME NEW c \in Client, ClientNext(c) PROVE TypeInv'
  <2>1. CASE \E ch \in Channel : ConnectChannel(c, ch)
    BY <2>1, ConnectTyped
  <2>2. CASE \/ ConnectFails(c) \/ Close(c) \/ BrokenPipe(c)
             \/ initialize(c) \/ ping(c) \/ exit(c)
             \/ InitTimeout(c) \/ WaitTimeout(c) \/ WaitEof(c)
    BY <2>2, ControlTyped
  <2>3. CASE Responded(c)
    BY <2>3, ResponseTyped
  <2>4. CASE \/ \E d \in SendTo[c] : send(c, d)
             \/ \E d \in ReceiveAs \cup {Ident[c]} : receive(c, d)
             \/ \E s \in FetchFrom : fetch(c, s)
             \/ \E e \in Network : post(c, e)
    BY <2>4, DataTyped
  <2> QED BY <1>2, <2>1, <2>2, <2>3, <2>4 DEF ClientNext
<1>3. CASE UNCHANGED vars
  <2>1. UNCHANGED <<socketVars, daemonVars, clientVars>>
    BY <1>3 DEF vars
  <2> QED BY <2>1 DEF TypeInv, TypeOK, SocketsTypeOK, DaemonTypeOK, ClientTypeOK, BacklogKnown,
             Alive, socketVars, daemonVars, clientVars, lookupVars, bufferVars, logVars
<1> QED BY <1>1, <1>2, <1>3 DEF Next

(* TypeInv holds before any client has connected. *)
LEMMA TypeInvInit == Init => TypeInv
<1> SUFFICES ASSUME Init PROVE TypeInv
  OBVIOUS
<1> USE DEF Init
<1>1. SocketsTypeOK
  BY DEF SocketsInit, SocketsTypeOK
<1>2. DaemonTypeOK
  <2>1. ASSUME NEW S, NEW T PROVE IsMap(EmptyMap, S, T)
    BY DEF IsMap, EmptyMap
  <2>2. <<>> \in Seq(Fd) /\ <<>> \in Seq(MessageEntry)
    OBVIOUS
  <2> QED BY <2>1, <2>2 DEF DaemonInit, DaemonTypeOK
<1>3. ClientTypeOK
  <2>1. DefaultConfig \in Config /\ "connect" \in PcState /\ "" \in Id
    BY DEF DefaultConfig, Config, PcState, Id
  <2>2. 0 \in 0 .. MaxSends /\ 0 \in 0 .. MaxCalls /\ 0 \in 0 .. MaxTimeouts
    <3>1. MaxSends \in Nat /\ MaxCalls \in Nat /\ MaxTimeouts \in Nat
      BY ClientAssumption, WireAssumption
    <3> QED BY <3>1
  <2>3. <<>> \in Seq(Value) /\ <<>> \in Seq(MessageEntry)
    OBVIOUS
  <2> QED BY <2>1, <2>2, <2>3 DEF ClientInit, ClientTypeOK
<1>4. BacklogKnown
  BY DEF SocketsInit, DaemonInit, BacklogKnown
<1> QED BY <1>1, <1>2, <1>3, <1>4 DEF TypeInv, TypeOK

(* TypeInv is an invariant of the system. *)
LEMMA TypeInvariant == Spec => []TypeInv
  BY TypeInvInit, TypeInvStep, PTL DEF Spec

(* Every variable of the daemon, the clients and the sockets keeps its     *)
(* type: no handler of nsb_daemon.cc and no client call reads a buffer     *)
(* entry, a descriptor or a message that is not there.                     *)
THEOREM TypeCorrect == Spec => []TypeOK
  BY TypeInvariant, PTL DEF TypeInv

-----------------------------------------------------------------------------
(* Connections.                                                            *)

(* What a flagged descriptor, a reset and unread data say of the client's end. *)
EndsKnown ==
    /\ Alive => \A f \in read_fds : Readable(f)
    /\ \A k \in Conn : reset[k] => client_end[k] = "closed"
    /\ \A k \in Conn : down[k] # <<>> => client_end[k] = "open"

LinkInv == TypeInv /\ DescriptorsConsistent /\ EndsKnown

-----------------------------------------------------------------------------
(* Steps of the clients.  None but ConnectChannel changes what the daemon  *)
(* holds.                                                                  *)

ClientEffect ==
    /\ UNCHANGED <<daemonVars, backlog, fd_table>>
    /\ \A k \in Conn : \/ client_end'[k] = client_end[k]
                       \/ client_end[k] = "open" /\ client_end'[k] = "closed"
    /\ \A k \in Conn : up[k] # <<>> => up'[k] # <<>>
    /\ \A k \in Conn : reset[k] => reset'[k]
    /\ \A k \in Conn : reset'[k] => reset[k] \/ client_end'[k] = "closed"
    /\ \A k \in Conn : down'[k] # <<>> => down[k] # <<>> /\ client_end'[k] = client_end[k]

(* A step with ClientEffect keeps the daemon's records consistent. *)
LEMMA EffectKeepsLinks ==
    ASSUME LinkInv, ClientEffect
    PROVE  DescriptorsConsistent' /\ EndsKnown'
<1>0. SocketsTypeOK /\ DescriptorsConsistent /\ EndsKnown
  BY DEF LinkInv, TypeInv, TypeOK
<1>1. UNCHANGED <<status, read_fds, accept_ready, channel_fds, backlog, fd_table>>
  BY DEF ClientEffect, daemonVars
<1>2. \A k \in Conn : ServerEnd(k)' <=> ServerEnd(k)
  BY <1>1 DEF ServerEnd, InBacklog
<1>3. OpenFds' = OpenFds /\ (Alive' <=> Alive)
  BY <1>1 DEF OpenFds, Alive
<1>4. DescriptorsConsistent'
  <2> SUFFICES ASSUME Alive' PROVE (ChannelFdsRight /\ FlagsRight /\ OneServerEnd /\ ServerEndsRight)'
    BY DEF DescriptorsConsistent
  <2>0. ChannelFdsRight /\ FlagsRight /\ OneServerEnd /\ ServerEndsRight
    BY <1>0, <1>3 DEF DescriptorsConsistent
  <2>1. ChannelFdsRight'
    BY <1>1, <1>3, <2>0 DEF ChannelFdsRight
  <2>2. FlagsRight'
    BY <1>1, <1>3, <2>0 DEF FlagsRight
  <2>3. OneServerEnd'
    BY <1>1, <1>3, <2>0 DEF OneServerEnd
  <2>4. ServerEndsRight'
    BY <1>2, <2>0 DEF ServerEndsRight, ClientEffect
  <2> QED BY <2>1, <2>2, <2>3, <2>4
<1>5. EndsKnown'
  <2>1. ASSUME Alive', NEW f \in read_fds' PROVE Readable(f)'
    <3>1. Readable(f) /\ fd_table'[f] = fd_table[f]
      BY <1>0, <1>1, <1>3, <2>1 DEF EndsKnown
    <3>2. f \in Fd /\ fd_table[f] \in Conn
      <4>1. f \in OpenFds
        BY <1>0, <1>1, <1>3, <2>1 DEF DescriptorsConsistent, FlagsRight
      <4> QED BY <1>0, <4>1 DEF OpenFds, SocketsTypeOK
    <3> QED BY <3>1, <3>2 DEF Readable, ClientEffect
  <2>2. ASSUME NEW k \in Conn, reset'[k] PROVE client_end'[k] = "closed"
    BY <1>0, <2>2 DEF EndsKnown, ClientEffect
  <2>3. ASSUME NEW k \in Conn, down'[k] # <<>> PROVE client_end'[k] = "open"
    BY <1>0, <2>3 DEF EndsKnown, ClientEffect
  <2> QED BY <2>1, <2>2, <2>3 DEF EndsKnown
<1> QED BY <1>4, <1>5

(* A send() of a client only adds to a stream. *)
LEMMA SendMessageGrows ==
    ASSUME TypeOK, NEW c \in Client, NEW ch \in Channel, NEW m, SendMessage(c, ch, m)
    PROVE  \A k \in Conn : up[k] # <<>> => up'[k] # <<>>
<1>1. up' = up \/ up' = [up EXCEPT ![<<c, ch>>] = Append(@, m)]
  BY DEF SendMessage, UpAfterSend
<1>2. up \in [Conn -> Seq(nsbm)] /\ <<c, ch>> \in Conn
  BY ConnFacts DEF TypeOK, SocketsTypeOK
<1>3. Append(up[<<c, ch>>], m) # <<>>
  <2>1. up[<<c, ch>>] \in Seq(nsbm \cup {m})
    BY <1>2
  <2> QED BY <2>1
<1> QED BY <1>1, <1>2, <1>3

(* A read of a client only takes from a stream. *)
LEMMA TakeFromShrinks ==
    ASSUME TypeOK, NEW c \in Client, NEW ch \in Channel, NEW n, TakeFrom(c, ch, n)
    PROVE  \A k \in Conn : down'[k] # <<>> => down[k] # <<>>
<1>1. down \in [Conn -> Seq(nsbm)] /\ <<c, ch>> \in Conn
  BY ConnFacts DEF TypeOK, SocketsTypeOK
<1>2. down[<<c, ch>>] # <<>>
  BY <1>1 DEF TakeFrom
<1> QED BY <1>1, <1>2 DEF TakeFrom

(* The end of a client closes what it holds open. *)
LEMMA CloseEffect ==
    ASSUME LinkInv, NEW c \in Client, NEW unread, CloseConnections(c, unread),
           \A k \in Conn : unread[k] # <<>> => down[k] # <<>>,
           UNCHANGED <<backlog, fd_table, up, daemonVars>>
    PROVE  ClientEffect
<1>0. SocketsTypeOK /\ EndsKnown
  BY DEF LinkInv, TypeInv, TypeOK
<1>1. ASSUME NEW k \in Conn
      PROVE \/ client_end'[k] = client_end[k]
            \/ client_end[k] = "open" /\ client_end'[k] = "closed"
  BY DEF CloseConnections
<1>2. ASSUME NEW k \in Conn PROVE reset[k] => reset'[k]
  BY DEF CloseConnections
<1>3. ASSUME NEW k \in Conn, reset'[k] PROVE reset[k] \/ client_end'[k] = "closed"
  <2>1. reset[k] \/ (k[1] = c /\ down[k] # <<>>)
    BY <1>3 DEF CloseConnections
  <2> QED BY <1>0, <2>1 DEF CloseConnections, EndsKnown
<1>4. ASSUME NEW k \in Conn, down'[k] # <<>>
      PROVE down[k] # <<>> /\ client_end'[k] = client_end[k]
  BY <1>4 DEF CloseConnections
<1> QED BY <1>1, <1>2, <1>3, <1>4 DEF ClientEffect

(* Every client step but ConnectChannel has ClientEffect. *)
LEMMA ClientEffects ==
    ASSUME LinkInv, NEW c \in Client, ClientNext(c), \A ch \in Channel : ~ConnectChannel(c, ch)
    PROVE  ClientEffect
<1>0. TypeOK /\ SocketsTypeOK /\ EndsKnown
  BY DEF LinkInv, TypeInv, TypeOK
<1>1. CASE \/ ConnectFails(c) \/ Close(c) \/ BrokenPipe(c)
  BY <1>1, CloseEffect DEF ConnectFails, Close, BrokenPipe
<1>2. CASE \/ initialize(c) \/ ping(c) \/ exit(c)
           \/ \E d \in SendTo[c] : send(c, d)
           \/ \E d \in ReceiveAs \cup {Ident[c]} : receive(c, d)
           \/ \E s \in FetchFrom : fetch(c, s)
           \/ \E e \in Network : post(c, e)
  <2>1. UNCHANGED <<socketsButUp, daemonVars>>
    BY <1>2 DEF initialize, ping, exit, send, receive, fetch, post
  <2>2. up' = up \/ \E ch \in Channel : \E m : SendMessage(c, ch, m)
    BY <1>2 DEF initialize, ping, exit, send, receive, fetch, post, Channel
  <2>3. \A k \in Conn : up[k] # <<>> => up'[k] # <<>>
    BY <1>0, <2>2, SendMessageGrows
  <2> QED BY <2>1, <2>3 DEF ClientEffect, socketsButUp
<1>3. CASE InitTimeout(c) \/ WaitEof(c)
  <2>1. UNCHANGED <<backlog, fd_table, up, daemonVars>>
    BY <1>3 DEF InitTimeout, WaitEof
  <2>2. CloseConnections(c, down) \/ UNCHANGED <<client_end, down, reset>>
    BY <1>3 DEF InitTimeout, WaitEof
  <2>3. CASE CloseConnections(c, down)
    BY <2>1, <2>3, CloseEffect
  <2>4. CASE UNCHANGED <<client_end, down, reset>>
    BY <2>1, <2>4 DEF ClientEffect
  <2> QED BY <2>2, <2>3, <2>4
<1>4. CASE WaitTimeout(c)
  BY <1>4 DEF WaitTimeout, ClientEffect, socketVars
<1>5. CASE Responded(c)
  <2>1. PICK n : InitReturn(c, n) \/ PingReturn(c, n) \/ ReceiveReturn(c, n) \/ FetchReturn(c, n)
    BY <1>5 DEF Responded
  <2>2. CASE \/ /\ UNCHANGED <<client_end, reset, backlog, fd_table, up, daemonVars>>
                /\ \E ch \in Channel : TakeFrom(c, ch, n)
    <3>1. \A k \in Conn : down'[k] # <<>> => down[k] # <<>>
      BY <1>0, <2>2, TakeFromShrinks
    <3> QED BY <2>2, <3>1 DEF ClientEffect
  <2>3. CASE /\ UNCHANGED <<backlog, fd_table, up, daemonVars>>
             /\ n \in 1 .. Len(down[<<c, "CTRL">>])
             /\ CloseConnections(c, [down EXCEPT ![<<c, "CTRL">>] = Unread(@, n)])
    <3> DEFINE unread == [down EXCEPT ![<<c, "CTRL">>] = Unread(@, n)]
    <3>1. <<c, "CTRL">> \in Conn /\ down \in [Conn -> Seq(nsbm)]
      BY <1>0, ConnFacts DEF SocketsTypeOK, Channel
    <3>2. down[<<c, "CTRL">>] # <<>>
      BY <2>3, <3>1
    <3>3. \A k \in Conn : unread[k] # <<>> => down[k] # <<>>
      BY <3>1, <3>2
    <3> QED BY <2>3, <3>3, CloseEffect
  <2> QED BY <2>1, <2>2, <2>3
          DEF InitReturn, PingReturn, ReceiveReturn, FetchReturn, socketsButDown, Channel
<1> QED BY <1>1, <1>2, <1>3, <1>4, <1>5 DEF ClientNext

(* A new connection is the one the backlog gains. *)
LEMMA ConnectLinks ==
    ASSUME LinkInv, NEW c \in Client, NEW ch \in Channel, ConnectChannel(c, ch)
    PROVE  DescriptorsConsistent' /\ EndsKnown'
<1> DEFINE k0 == <<c, ch>>
<1>0. SocketsTypeOK /\ DescriptorsConsistent /\ EndsKnown
  BY DEF LinkInv, TypeInv, TypeOK
<1>1. /\ UNCHANGED <<status, read_fds, accept_ready, channel_fds, fd_table, up, down, reset>>
      /\ client_end[k0] = "none" /\ client_end' = [client_end EXCEPT ![k0] = "open"]
      /\ backlog' = Append(backlog, k0) /\ backlog \in Seq(Conn)
      /\ client_end \in [Conn -> {"none", "open", "closed"}]
  BY <1>0 DEF ConnectChannel, daemonVars, SocketsTypeOK
<1>2. k0 \in Conn
  BY ConnFacts
<1>3. OpenFds' = OpenFds /\ (Alive' <=> Alive)
  BY <1>1 DEF OpenFds, Alive
<1>4. Alive => ~ServerEnd(k0)
  BY <1>0, <1>1, <1>2 DEF DescriptorsConsistent, ServerEndsRight
<1>5. DescriptorsConsistent'
  <2> SUFFICES ASSUME Alive' PROVE (ChannelFdsRight /\ FlagsRight /\ OneServerEnd /\ ServerEndsRight)'
    BY DEF DescriptorsConsistent
  <2>0. ChannelFdsRight /\ FlagsRight /\ OneServerEnd /\ ServerEndsRight /\ ~ServerEnd(k0)
    BY <1>0, <1>3, <1>4 DEF DescriptorsConsistent
  <2>1. ChannelFdsRight'
    BY <1>1, <1>3, <2>0 DEF ChannelFdsRight
  <2>2. FlagsRight'
    BY <1>1, <1>3, <2>0 DEF FlagsRight
  <2>3. /\ \A i \in DOMAIN backlog : backlog'[i] = backlog[i] /\ backlog[i] # k0
        /\ DOMAIN backlog' = DOMAIN backlog \cup {Len(backlog) + 1}
        /\ Len(backlog) + 1 \notin DOMAIN backlog
        /\ backlog'[Len(backlog) + 1] = k0
    BY <1>1, <1>2, <2>0 DEF ServerEnd, InBacklog
  <2>4. OneServerEnd'
    <3>1. (\A f, g \in OpenFds : fd_table[f] = fd_table[g] => f = g)'
      BY <1>1, <1>3, <2>0 DEF OneServerEnd
    <3>2. (\A i, j \in DOMAIN backlog : backlog[i] = backlog[j] => i = j)'
      BY <2>0, <2>3 DEF OneServerEnd
    <3>3. (\A i \in DOMAIN backlog : \A f \in Fd : fd_table[f] # backlog[i])'
      BY <1>1, <2>0, <2>3 DEF OneServerEnd, ServerEnd
    <3> QED BY <3>1, <3>2, <3>3 DEF OneServerEnd
  <2>5. ServerEndsRight'
    <3>1. ASSUME NEW k \in Conn PROVE ServerEnd(k)' <=> ServerEnd(k) \/ k = k0
      BY <1>1, <2>3 DEF ServerEnd, InBacklog
    <3> QED BY <1>1, <1>2, <2>0, <3>1 DEF ServerEndsRight
  <2> QED BY <2>1, <2>2, <2>4, <2>5
<1>6. EndsKnown'
  <2>1. ASSUME Alive', NEW f \in read_fds' PROVE Readable(f)'
    <3>1. Readable(f) /\ fd_table'[f] = fd_table[f]
      BY <1>0, <1>1, <1>3, <2>1 DEF EndsKnown
    <3>2. f \in Fd /\ fd_table[f] \in Conn
      <4>1. f \in OpenFds
        BY <1>0, <1>1, <1>3, <2>1 DEF DescriptorsConsistent, FlagsRight
      <4> QED BY <1>0, <4>1 DEF OpenFds, SocketsTypeOK
    <3>3. fd_table[f] # k0
      BY <1>3, <1>4, <2>1, <3>2 DEF ServerEnd
    <3> QED BY <1>1, <3>1, <3>2, <3>3 DEF Readable
  <2>2. \A k \in Conn : reset'[k] => client_end'[k] = "closed"
    BY <1>0, <1>1, <1>2 DEF EndsKnown
  <2>3. \A k \in Conn : down'[k] # <<>> => client_end'[k] = "open"
    BY <1>0, <1>1, <1>2 DEF EndsKnown
  <2> QED BY <2>1, <2>2, <2>3 DEF EndsKnown
<1> QED BY <1>5, <1>6

-----------------------------------------------------------------------------
(* Steps of the daemon.                                                    *)

(* A handler empties its own stream and, unless it ends the daemon, keeps  *)
(* every descriptor.                                                       *)
LEMMA HandlerLinks ==
    ASSUME LinkInv, NEW f \in read_fds \cap OpenFds, NEW n \in 1 .. Len(up[fd_table[f]]),
           Handle(f, n), UNCHANGED clientVars
    PROVE  DescriptorsConsistent' /\ EndsKnown'
<1>0. TypeInv /\ TypeOK /\ SocketsTypeOK /\ DescriptorsConsistent /\ EndsKnown
  BY DEF LinkInv, TypeInv, TypeOK
<1>1. Receive(f, n) /\ SendOutcome
  BY <1>0, HandlersTyped
<1>2. /\ UNCHANGED <<accept_ready, channel_fds, client_end>>
      /\ fd_table[f] \in Conn /\ Alive
      /\ read_fds' = read_fds \ {f}
      /\ \A k \in Conn : k # fd_table[f] => up'[k] = up[k]
  <2>1. UNCHANGED <<accept_ready, channel_fds, client_end>> /\ fd_table[f] \in Conn /\ Alive
    BY <1>0, <1>1, ReadOutcome
  <2>2. read_fds' = read_fds \ {f}
    BY <1>1 DEF Receive, Visit
  <2>3. \A k \in Conn : k # fd_table[f] => up'[k] = up[k]
    BY <1>0, <1>1, <2>1 DEF Receive, SocketsTypeOK
  <2> QED BY <2>1, <2>2, <2>3
<1>3. Alive' => UNCHANGED <<fd_table, backlog>>
  BY <1>1 DEF SendOutcome, Alive
<1>4. DescriptorsConsistent'
  <2> SUFFICES ASSUME Alive' PROVE (ChannelFdsRight /\ FlagsRight /\ OneServerEnd /\ ServerEndsRight)'
    BY DEF DescriptorsConsistent
  <2>0. ChannelFdsRight /\ FlagsRight /\ OneServerEnd /\ ServerEndsRight
    BY <1>0, <1>2 DEF DescriptorsConsistent
  <2>u. UNCHANGED <<fd_table, backlog>> /\ OpenFds' = OpenFds
    BY <1>3 DEF OpenFds
  <2>1. ChannelFdsRight'
    BY <1>2, <2>u, <2>0 DEF ChannelFdsRight
  <2>2. FlagsRight'
    BY <1>2, <2>u, <2>0 DEF FlagsRight
  <2>3. OneServerEnd'
    BY <2>u, <2>0 DEF OneServerEnd
  <2>4. ServerEndsRight'
    BY <1>2, <2>u, <2>0 DEF ServerEndsRight, ServerEnd, InBacklog
  <2> QED BY <2>1, <2>2, <2>3, <2>4
<1>5. EndsKnown'
  <2>1. ASSUME Alive', NEW g \in read_fds' PROVE Readable(g)'
    <3>1. Readable(g) /\ fd_table'[g] = fd_table[g] /\ g # f
      BY <1>0, <1>2, <1>3, <2>1 DEF EndsKnown
    <3>2. g \in OpenFds
      BY <1>0, <1>2, <2>1 DEF DescriptorsConsistent, FlagsRight
    <3>3. fd_table[g] \in Conn
      BY <1>0, <3>2 DEF OpenFds, SocketsTypeOK
    <3>4. fd_table[g] # fd_table[f]
      BY <1>0, <1>2, <3>1, <3>2 DEF DescriptorsConsistent, OneServerEnd
    <3>5. up'[fd_table[g]] = up[fd_table[g]]
      BY <1>2, <3>3, <3>4
    <3>6. up[fd_table[g]] # <<>> \/ client_end[fd_table[g]] = "closed"
      BY <1>0, <3>1, <3>3 DEF Readable, EndsKnown
    <3> QED BY <1>2, <3>1, <3>3, <3>5, <3>6 DEF Readable
  <2>2. \A k \in Conn : reset'[k] => client_end'[k] = "closed"
    BY <1>0, <1>1, <1>2 DEF EndsKnown, SendOutcome
  <2>3. \A k \in Conn : down'[k] # <<>> => client_end'[k] = "open"
    BY <1>0, <1>1, <1>2 DEF EndsKnown, SendOutcome
  <2> QED BY <2>1, <2>2, <2>3 DEF EndsKnown
<1> QED BY <1>4, <1>5

(* What RemoveAt leaves of a sequence. *)
LEMMA RemoveAtElements ==
    ASSUME NEW T, NEW s \in Seq(T), NEW i \in DOMAIN s
    PROVE  /\ DOMAIN RemoveAt(s, i) = 1 .. (Len(s) - 1)
           /\ \A j \in 1 .. (Len(s) - 1) :
                 RemoveAt(s, i)[j] = IF j < i THEN s[j] ELSE s[j + 1]
<1>1. i \in 1 .. Len(s) /\ Len(s) \in Nat
  OBVIOUS
<1> DEFINE A == SubSeq(s, 1, i - 1)
           B == SubSeq(s, i + 1, Len(s))
<1>2. /\ A \in Seq(T) /\ Len(A) = i - 1
      /\ \A j \in 1 .. (i - 1) : A[j] = s[j]
  BY <1>1
<1>3. /\ B \in Seq(T) /\ Len(B) = Len(s) - i
      /\ \A j \in 1 .. (Len(s) - i) : B[j] = s[j + i]
  BY <1>1
<1>4. RemoveAt(s, i) = A \o B
  BY DEF RemoveAt
<1> HIDE DEF A, B
<1>5. A \o B \in Seq(T) /\ Len(A \o B) = Len(s) - 1
  BY <1>1, <1>2, <1>3
<1>6. ASSUME NEW j \in 1 .. (Len(s) - 1)
      PROVE (A \o B)[j] = IF j < i THEN s[j] ELSE s[j + 1]
  <2>1. CASE j < i
    BY <1>1, <1>2, <1>3, <2>1
  <2>2. CASE ~(j < i)
    <3>1. (A \o B)[j] = B[j - (i - 1)] /\ j - (i - 1) \in 1 .. (Len(s) - i)
      <4>1. j > Len(A) /\ j <= Len(A) + Len(B) /\ j - (i - 1) \in 1 .. (Len(s) - i)
        BY <1>1, <1>2, <1>3, <2>2
      <4>2. (A \o B)[j] = IF j <= Len(A) THEN A[j] ELSE B[j - Len(A)]
        <5>1. j \in 1 .. Len(A) + Len(B)
          BY <1>2, <1>3, <4>1
        <5> QED BY <1>2, <1>3, <5>1, ConcatProperties, Zenon
      <4>3. ~(j <= Len(A))
        BY <1>1, <1>2, <4>1
      <4> QED BY <1>2, <4>1, <4>2, <4>3
    <3>2. B[j - (i - 1)] = s[(j - (i - 1)) + i]
      BY <1>3, <3>1
    <3>3. (j - (i - 1)) + i = j + 1
      BY <1>1
    <3> QED BY <2>2, <3>1, <3>2, <3>3
  <2> QED BY <2>1, <2>2
<1> QED BY <1>4, <1>5, <1>6

(* Removing one of the distinct elements of a sequence removes that element. *)
LEMMA RemoveAtDistinct ==
    ASSUME NEW T, NEW s \in Seq(T), NEW i \in DOMAIN s,
           \A a, b \in DOMAIN s : s[a] = s[b] => a = b
    PROVE  LET r == RemoveAt(s, i)
           IN  /\ \A a, b \in DOMAIN r : r[a] = r[b] => a = b
               /\ {r[a] : a \in DOMAIN r} = {s[a] : a \in DOMAIN s} \ {s[i]}
<1> DEFINE r == RemoveAt(s, i)
<1>1. /\ DOMAIN r = 1 .. (Len(s) - 1)
      /\ \A j \in 1 .. (Len(s) - 1) : r[j] = IF j < i THEN s[j] ELSE s[j + 1]
  BY RemoveAtElements
<1>2. DOMAIN s = 1 .. Len(s) /\ Len(s) \in Nat
  OBVIOUS
<1> HIDE DEF r
<1>3. ASSUME NEW a \in DOMAIN r, NEW b \in DOMAIN r, r[a] = r[b] PROVE a = b
  BY <1>1, <1>2, <1>3
<1>4. ASSUME NEW a \in DOMAIN r PROVE r[a] \in {s[b] : b \in DOMAIN s} \ {s[i]}
  BY <1>1, <1>2
<1>5. ASSUME NEW a \in DOMAIN s, s[a] # s[i] PROVE \E b \in DOMAIN r : r[b] = s[a]
  <2>1. CASE a < i
    BY <1>1, <1>2, <2>1
  <2>2. CASE a > i
    <3>1. a - 1 \in DOMAIN r /\ r[a - 1] = s[a]
      BY <1>1, <1>2, <2>2
    <3> QED BY <3>1
  <2> QED BY <1>2, <1>5, <2>1, <2>2
<1> QED BY <1>3, <1>4, <1>5 DEF r

(* The connection that Disconnect drops is one its client has closed. *)
LEMMA DisconnectLinks ==
    ASSUME LinkInv, NEW f \in read_fds \cap OpenFds, Disconnect(f), UNCHANGED clientVars
    PROVE  DescriptorsConsistent' /\ EndsKnown'
<1> DEFINE k == fd_table[f]
<1>0. SocketsTypeOK /\ DaemonTypeOK /\ DescriptorsConsistent /\ EndsKnown
  BY DEF LinkInv, TypeInv, TypeOK
<1>1. /\ Alive /\ Alive' /\ read_fds' = read_fds \ {f}
      /\ UNCHANGED <<accept_ready, client_end, backlog, down, reset>>
      /\ fd_table' = [fd_table EXCEPT ![f] = NoConn] /\ f \in Fd
      /\ up' = [up EXCEPT ![k] = <<>>]
      /\ fd_table \in [Fd -> Conn \cup {NoConn}] /\ k \in Conn
      /\ up \in [Conn -> Seq(nsbm)]
  BY <1>0 DEF Disconnect, Visit, Alive, OpenFds, SocketsTypeOK
<1>2. ChannelFdsRight /\ FlagsRight /\ OneServerEnd /\ ServerEndsRight
  BY <1>0, <1>1 DEF DescriptorsConsistent
<1>3. client_end[k] = "closed"
  <2>1. up[k] = <<>> \/ reset[k]
    BY DEF Disconnect
  <2>2. up[k] # <<>> \/ client_end[k] = "closed" \/ reset[k]
    BY <1>0, <1>1 DEF EndsKnown, Readable
  <2> QED BY <1>0, <1>1, <2>1, <2>2 DEF EndsKnown
<1>4. OpenFds' = OpenFds \ {f}
  BY <1>1 DEF OpenFds
<1>5. ChannelFdsRight'
  <2>1. PICK i \in DOMAIN channel_fds : channel_fds[i] = f /\ channel_fds' = RemoveAt(channel_fds, i)
    BY DEF Disconnect, erase
  <2>2. channel_fds \in Seq(Fd)
    BY <1>0 DEF DaemonTypeOK
  <2>3. \A a, b \in DOMAIN channel_fds : channel_fds[a] = channel_fds[b] => a = b
    BY <1>2 DEF ChannelFdsRight
  <2>4. /\ \A a, b \in DOMAIN channel_fds' : channel_fds'[a] = channel_fds'[b] => a = b
        /\ {channel_fds'[a] : a \in DOMAIN channel_fds'}
              = {channel_fds[a] : a \in DOMAIN channel_fds} \ {f}
    BY <2>1, <2>2, <2>3, RemoveAtDistinct
  <2> QED BY <1>2, <1>4, <2>4 DEF ChannelFdsRight
<1>6. FlagsRight'
  BY <1>1, <1>2, <1>4 DEF FlagsRight
<1>7. OneServerEnd'
  <2>1. \A g \in OpenFds' : g \in OpenFds /\ g \in Fd /\ fd_table'[g] = fd_table[g]
    BY <1>1, <1>4 DEF OpenFds
  <2>2. (\A g, h \in OpenFds : fd_table[g] = fd_table[h] => g = h)'
    BY <1>2, <2>1 DEF OneServerEnd
  <2>3. \A i \in DOMAIN backlog : backlog[i] # NoConn
    BY <1>0, NoConnNotConn DEF SocketsTypeOK
  <2> QED BY <1>1, <1>2, <2>2, <2>3 DEF OneServerEnd
<1>8. ServerEndsRight'
  <2>1. ASSUME NEW j \in Conn, j # k PROVE ServerEnd(j)' <=> ServerEnd(j)
    BY <1>1, <2>1, NoConnNotConn DEF ServerEnd, InBacklog
  <2>2. ASSUME NEW j \in Conn
        PROVE (client_end[j] = "open" => ServerEnd(j))' /\ (client_end[j] = "none" => ~ServerEnd(j))'
    BY <1>1, <1>2, <1>3, <2>1 DEF ServerEndsRight
  <2> QED BY <2>2 DEF ServerEndsRight
<1>9. EndsKnown'
  <2>1. ASSUME NEW g \in read_fds' PROVE Readable(g)'
    <3>1. g # f /\ Readable(g) /\ g \in OpenFds
      BY <1>0, <1>1, <1>2 DEF EndsKnown, FlagsRight
    <3>2. fd_table[g] \in Conn /\ fd_table'[g] = fd_table[g] /\ fd_table[g] # k
      BY <1>1, <1>2, <3>1 DEF OpenFds, OneServerEnd
    <3> QED BY <1>1, <3>1, <3>2 DEF Readable
  <2> QED BY <1>0, <1>1, <2>1 DEF EndsKnown
<1> QED BY <1>5, <1>6, <1>7, <1>8, <1>9 DEF DescriptorsConsistent

(* accept() moves the head of the backlog to a descriptor that was free. *)
LEMMA AcceptLinks ==
    ASSUME LinkInv, Accept, UNCHANGED clientVars
    PROVE  DescriptorsConsistent' /\ EndsKnown'
<1>0. SocketsTypeOK /\ DaemonTypeOK /\ DescriptorsConsistent /\ EndsKnown
  BY DEF LinkInv, TypeInv, TypeOK
<1>1. /\ Alive /\ Alive' /\ read_fds = {} /\ read_fds' = {} /\ ~accept_ready'
      /\ UNCHANGED <<client_end, down, reset>>
  BY DEF Accept, Alive
<1>2. /\ ChannelFdsRight /\ FlagsRight /\ OneServerEnd /\ ServerEndsRight
      /\ backlog # <<>>
  BY <1>0, <1>1 DEF DescriptorsConsistent, FlagsRight, Accept
<1>3. EndsKnown' /\ FlagsRight'
  BY <1>0, <1>1 DEF EndsKnown, FlagsRight
<1>4. CASE UNCHANGED <<fd_table, channel_fds, backlog>>
  <2>1. OpenFds' = OpenFds
    BY <1>4 DEF OpenFds
  <2>2. ChannelFdsRight' /\ OneServerEnd'
    BY <1>2, <1>4, <2>1 DEF ChannelFdsRight, OneServerEnd
  <2>3. ServerEndsRight'
    BY <1>1, <1>2, <1>4 DEF ServerEndsRight, ServerEnd, InBacklog
  <2> QED BY <1>3, <2>2, <2>3 DEF DescriptorsConsistent
<1>5. CASE /\ FreeFds # {}
           /\ fd_table' = [fd_table EXCEPT ![LowestFree] = Head(backlog)]
           /\ channel_fds' = Append(channel_fds, LowestFree)
           /\ backlog' = Tail(backlog)
  <2> DEFINE new == LowestFree
             k == Head(backlog)
  <2>1. new \in Fd /\ new \notin OpenFds /\ fd_table[new] = NoConn
    <3>1. \E g \in FreeFds : \A h \in FreeFds : g <= h
      <4>1. FreeFds \subseteq Nat
        BY SocketsAssumption DEF FreeFds, Fd
      <4> QED BY <1>5, <4>1, MinExists
    <3>2. new \in FreeFds
      BY <3>1 DEF LowestFree
    <3> QED BY <3>2 DEF FreeFds, OpenFds
  <2> HIDE DEF new
  <2>2. /\ backlog \in Seq(Conn) /\ fd_table \in [Fd -> Conn \cup {NoConn}]
        /\ channel_fds \in Seq(Fd)
    BY <1>0 DEF SocketsTypeOK, DaemonTypeOK
  <2>3. /\ k \in Conn /\ k = backlog[1] /\ 1 \in DOMAIN backlog
        /\ \A i \in DOMAIN backlog' : i + 1 \in DOMAIN backlog /\ backlog'[i] = backlog[i + 1]
        /\ \A i \in DOMAIN backlog : i # 1 => i - 1 \in DOMAIN backlog' /\ backlog'[i - 1] = backlog[i]
        /\ DOMAIN backlog \subseteq Nat /\ DOMAIN backlog' \subseteq Nat \ {0}
    BY <1>2, <1>5, <2>2
  <2> HIDE DEF k
  <2>4. fd_table' = [fd_table EXCEPT ![new] = k] /\ channel_fds' = Append(channel_fds, new)
    BY <1>5 DEF new, k
  <2>5. OpenFds' = OpenFds \cup {new} /\ k # NoConn
    BY <2>1, <2>2, <2>3, <2>4, NoConnNotConn DEF OpenFds
  <2>6. ChannelFdsRight'
    <3>1. \A i \in DOMAIN channel_fds : channel_fds[i] \in OpenFds /\ channel_fds[i] # new
      BY <1>2, <2>1 DEF ChannelFdsRight
    <3>2. /\ DOMAIN channel_fds' = DOMAIN channel_fds \cup {Len(channel_fds) + 1}
          /\ \A i \in DOMAIN channel_fds : channel_fds'[i] = channel_fds[i]
          /\ channel_fds'[Len(channel_fds) + 1] = new
      BY <2>1, <2>2, <2>4
    <3> QED BY <1>2, <2>5, <3>1, <3>2 DEF ChannelFdsRight
  <2>7. OneServerEnd'
    <3>1. \A g \in OpenFds : fd_table'[g] = fd_table[g] /\ g \in Fd
      BY <2>1, <2>2, <2>4 DEF OpenFds
    <3>2. fd_table'[new] = k /\ \A g \in OpenFds : fd_table[g] # k
      BY <1>2, <2>1, <2>2, <2>3, <2>4 DEF OneServerEnd, OpenFds
    <3>3. \A g, h \in OpenFds' : fd_table'[g] = fd_table'[h] => g = h
      BY <1>2, <2>5, <3>1, <3>2 DEF OneServerEnd
    <3>4. \A i, j \in DOMAIN backlog' : backlog'[i] = backlog'[j] => i = j
      BY <1>2, <2>3 DEF OneServerEnd
    <3>5. ASSUME NEW i \in DOMAIN backlog', NEW g \in Fd PROVE fd_table'[g] # backlog'[i]
      <4>1. i + 1 \in DOMAIN backlog /\ backlog'[i] = backlog[i + 1] /\ i + 1 # 1
        BY <2>3
      <4>2. backlog[i + 1] # k
        BY <1>2, <2>3, <4>1 DEF OneServerEnd
      <4> QED BY <1>2, <2>2, <2>4, <4>1, <4>2 DEF OneServerEnd
    <3> QED BY <3>3, <3>4, <3>5 DEF OneServerEnd
  <2>8. ServerEndsRight'
    <3>1. ASSUME NEW j \in Conn PROVE ServerEnd(j)' <=> ServerEnd(j)
      <4>1. InBacklog(j) <=> InBacklog(j)' \/ j = k
        BY <2>3 DEF InBacklog
      <4>2. (\E g \in Fd : fd_table'[g] = j) <=> (\E g \in Fd : fd_table[g] = j) \/ j = k
        BY <2>1, <2>2, <2>4, NoConnNotConn
      <4> QED BY <4>1, <4>2 DEF ServerEnd
    <3> QED BY <1>1, <1>2, <3>1 DEF ServerEndsRight
  <2> QED BY <1>3, <2>6, <2>7, <2>8 DEF DescriptorsConsistent
<1> QED BY <1>4, <1>5 DEF Accept

(* LinkInv is inductive. *)
LEMMA LinkInvStep == LinkInv /\ [Next]_vars => LinkInv'
<1> SUFFICES ASSUME LinkInv, [Next]_vars PROVE DescriptorsConsistent' /\ EndsKnown'
  BY TypeInvStep DEF LinkInv
<1>0. DescriptorsConsistent /\ EndsKnown
  BY DEF LinkInv
<1>1. ASSUME DaemonNext, UNCHANGED clientVars PROVE DescriptorsConsistent' /\ EndsKnown'
  <2>1. CASE Select
    <3>1. /\ UNCHANGED <<status, channel_fds, client_end, backlog, fd_table, up, down, reset>>
          /\ read_fds' \subseteq {f \in OpenFds : Readable(f)}
          /\ accept_ready' => backlog # <<>>
      BY <2>1 DEF Select, socketVars
    <3>2. OpenFds' = OpenFds /\ (Alive' <=> Alive)
      BY <3>1 DEF OpenFds, Alive
    <3>3. EndsKnown'
      BY <1>0, <3>1 DEF EndsKnown, Readable
    <3>4. FlagsRight'
      BY <3>1, <3>2 DEF FlagsRight
    <3>5. Alive => ChannelFdsRight' /\ OneServerEnd' /\ ServerEndsRight'
      BY <1>0, <3>1, <3>2 DEF DescriptorsConsistent, ChannelFdsRight, OneServerEnd,
                              ServerEndsRight, ServerEnd, InBacklog
    <3> QED BY <3>2, <3>3, <3>4, <3>5 DEF DescriptorsConsistent
  <2>2. CASE \E f \in read_fds \cap OpenFds : \E n \in 1 .. Len(up[fd_table[f]]) : Handle(f, n)
    BY <1>1, <2>2, HandlerLinks
  <2>3. CASE \E f \in read_fds \cap OpenFds : Disconnect(f)
    BY <1>1, <2>3, DisconnectLinks
  <2>4. CASE Accept
    BY <1>1, <2>4, AcceptLinks
  <2>5. CASE Shutdown
    BY <1>0, <2>5 DEF Shutdown, Alive, DescriptorsConsistent, EndsKnown
  <2> QED BY <1>1, <2>1, <2>2, <2>3, <2>4, <2>5 DEF DaemonNext
<1>2. ASSUME NEW c \in Client, ClientNext(c) PROVE DescriptorsConsistent' /\ EndsKnown'
  BY <1>2, ConnectLinks, ClientEffects, EffectKeepsLinks
<1>3. CASE UNCHANGED vars
  <2>1. ClientEffect
    BY <1>3 DEF vars, ClientEffect, socketVars
  <2> QED BY <2>1, EffectKeepsLinks
<1> QED BY <1>1, <1>2, <1>3 DEF Next

(* LinkInv holds at the start. *)
LEMMA LinkInvInit == Init => LinkInv
<1> SUFFICES ASSUME Init PROVE DescriptorsConsistent /\ EndsKnown
  BY TypeInvInit DEF LinkInv
<1>1. /\ backlog = <<>> /\ channel_fds = <<>> /\ read_fds = {} /\ ~accept_ready
      /\ \A f \in Fd : fd_table[f] = NoConn
      /\ \A k \in Conn : client_end[k] = "none" /\ down[k] = <<>> /\ ~reset[k]
  BY DEF Init, SocketsInit, DaemonInit
<1>2. OpenFds = {}
  BY <1>1 DEF OpenFds
<1>3. ChannelFdsRight /\ FlagsRight /\ OneServerEnd
  BY <1>1, <1>2 DEF ChannelFdsRight, FlagsRight, OneServerEnd
<1>4. ServerEndsRight
  BY <1>1, NoConnNotConn DEF ServerEndsRight, ServerEnd, InBacklog
<1>5. EndsKnown
  BY <1>1 DEF EndsKnown
<1> QED BY <1>3, <1>4, <1>5 DEF DescriptorsConsistent

(* LinkInv holds throughout. *)
LEMMA LinkInvariant == Spec => []LinkInv
  BY LinkInvInit, LinkInvStep, PTL DEF Spec

(* start_server's channel_fds, the descriptors it flags and the kernel's   *)
(* table agree in every behaviour, for any number of clients, descriptors  *)
(* and ports and in both modes: no descriptor is lost, read after its      *)
(* close, or dropped while its client holds it open.                       *)
THEOREM DescriptorsSafe == Spec => []DescriptorsConsistent
  BY LinkInvariant, PTL DEF LinkInv

-----------------------------------------------------------------------------
(* A client has all its channels open from initialize() until it closes. *)
EndsFollowPc ==
    \A c \in Client :
        /\ \A ch \in Channel :
              /\ pc[c] \notin {"connect", "closed"} => client_end[<<c, ch>>] = "open"
              /\ pc[c] = "connect" => client_end[<<c, ch>>] # "closed"
        /\ client_end[<<c, "SEND">>] # "none" => client_end[<<c, "CTRL">>] # "none"

(* Which operations a client writes on which channel. *)
OpsOf(ch) == CASE ch = "CTRL" -> {"INIT", "PING", "EXIT"}
               [] ch = "SEND" -> {"SEND", "POST"}
               [] ch = "RECV" -> {"FETCH", "RECEIVE"}
ChannelDiscipline ==
    \A c \in Client : \A ch \in Channel : \A i \in DOMAIN up[<<c, ch>>] :
        up[<<c, ch>>][i].op \in OpsOf(ch)

PullConfig == \A c \in Client : cfg[c].system_mode = "PULL"

LockInv == LinkInv /\ EndsFollowPc /\ ChannelDiscipline /\ PullConfig /\ Lockstep

-----------------------------------------------------------------------------
(* A step of client c leaves the others alone. *)
OthersKept(c) ==
    \A d \in Client \ {c} :
        /\ pc'[d] = pc[d] /\ cfg'[d] = cfg[d]
        /\ \A ch \in Channel : client_end'[<<d, ch>>] = client_end[<<d, ch>>]
        /\ up'[<<d, "RECV">>] = up[<<d, "RECV">>]
        /\ down'[<<d, "RECV">>] = down[<<d, "RECV">>]

Load(c) == Len(up[<<c, "RECV">>]) + Len(down[<<c, "RECV">>])
Due(c) == IF pc[c] \in {"recvWait", "fetchWait"} THEN 1 ELSE 0

(* The counts of a request and of a read. *)
LEMMA Counts ==
    /\ \A a, b \in Nat : a + b = 0 => a + 1 + b = 1
    /\ \A a, b \in Nat : a + b = 1 => \A n \in 1 .. b : a + (b - n) = 0 /\ n = 1
  OBVIOUS

(* What a client step must show of its own client. *)
LEMMA OwnPart ==
    ASSUME LockInv, NEW c \in Client, OthersKept(c), Alive' => Alive,
           Alive' => pc'[c] = "closed" \/ Load(c)' = Due(c)',
           cfg'[c].system_mode = "PULL",
           \A ch \in Channel :
              /\ pc'[c] \notin {"connect", "closed"} => client_end'[<<c, ch>>] = "open"
              /\ pc'[c] = "connect" => client_end'[<<c, ch>>] # "closed",
           client_end'[<<c, "SEND">>] # "none" => client_end'[<<c, "CTRL">>] # "none"
    PROVE  EndsFollowPc' /\ PullConfig' /\ Lockstep'
<1>0. EndsFollowPc
  BY DEF LockInv
<1>1. EndsFollowPc'
  <2> SUFFICES ASSUME NEW d \in Client, d # c
               PROVE  /\ \A ch \in Channel :
                            /\ pc'[d] \notin {"connect", "closed"} => client_end'[<<d, ch>>] = "open"
                            /\ pc'[d] = "connect" => client_end'[<<d, ch>>] # "closed"
                      /\ client_end'[<<d, "SEND">>] # "none" => client_end'[<<d, "CTRL">>] # "none"
    BY DEF EndsFollowPc
  <2>1. pc'[d] = pc[d] /\ \A ch \in Channel : client_end'[<<d, ch>>] = client_end[<<d, ch>>]
    BY DEF OthersKept
  <2>2. client_end'[<<d, "SEND">>] = client_end[<<d, "SEND">>]
        /\ client_end'[<<d, "CTRL">>] = client_end[<<d, "CTRL">>]
    BY <2>1 DEF Channel
  <2> QED BY <1>0, <2>1, <2>2 DEF EndsFollowPc
<1>2. PullConfig'
  BY DEF LockInv, OthersKept, PullConfig
<1>3. Lockstep'
  BY DEF LockInv, OthersKept, Lockstep, Load, Due
<1> QED BY <1>1, <1>2, <1>3

(* A send() of a client on its channel ch. *)
LEMMA SendDiscipline ==
    ASSUME LockInv, NEW c \in Client, NEW ch \in Channel, NEW m,
           m.op \in OpsOf(ch), SendMessage(c, ch, m)
    PROVE  /\ ChannelDiscipline'
           /\ \A k \in Conn : k # <<c, ch>> => up'[k] = up[k]
           /\ ServerEnd(<<c, ch>>) => Len(up'[<<c, ch>>]) = Len(up[<<c, ch>>]) + 1
<1> DEFINE k0 == <<c, ch>>
<1>0. ChannelDiscipline /\ up \in [Conn -> Seq(nsbm)] /\ k0 \in Conn
  BY ConnFacts DEF LockInv, LinkInv, TypeInv, TypeOK, SocketsTypeOK
<1>1. up' = up \/ up' = [up EXCEPT ![k0] = Append(@, m)]
  BY DEF SendMessage, UpAfterSend
<1>2. \A k \in Conn : k # k0 => up'[k] = up[k]
  BY <1>0, <1>1
<1>3. ServerEnd(k0) => up'[k0] = Append(up[k0], m)
  BY <1>0 DEF SendMessage, UpAfterSend
<1>4. /\ up[k0] \in Seq(nsbm \cup {m}) /\ Append(up[k0], m) \in Seq(nsbm \cup {m})
      /\ Len(Append(up[k0], m)) = Len(up[k0]) + 1
  <2>1. up[k0] \in Seq(nsbm \cup {m})
    BY <1>0
  <2> QED BY <2>1
<1>5. ASSUME NEW d \in Client, NEW h \in Channel, NEW i \in DOMAIN up'[<<d, h>>]
      PROVE up'[<<d, h>>][i].op \in OpsOf(h)
  <2>1. CASE up'[<<d, h>>] = up[<<d, h>>]
    BY <1>0, <2>1 DEF ChannelDiscipline
  <2>2. CASE <<d, h>> = k0 /\ up'[k0] = Append(up[k0], m)
    <3>1. d = c /\ h = ch
      BY <2>2
    <3>2. i = Len(up[k0]) + 1 \/ i \in DOMAIN up[k0]
      BY <1>4, <2>2
    <3>3. i \in DOMAIN up[k0] => up'[k0][i] = up[k0][i]
      BY <1>4, <2>2
    <3>4. up'[k0][Len(up[k0]) + 1] = m
      BY <1>4, <2>2
    <3> QED BY <1>0, <3>1, <3>2, <3>3, <3>4 DEF ChannelDiscipline
  <2> QED BY <1>0, <1>1, <1>2, <2>1, <2>2, ConnFacts
<1> QED BY <1>2, <1>3, <1>4, <1>5 DEF ChannelDiscipline

(* A client that ends leaves its streams out of Lockstep. *)
LEMMA CloseLock ==
    ASSUME LockInv, NEW c \in Client, NEW unread, CloseConnections(c, unread),
           UNCHANGED <<cfg, up, daemonVars>>
    PROVE  EndsFollowPc' /\ ChannelDiscipline' /\ PullConfig' /\ Lockstep'
<1>0. SocketsTypeOK /\ ClientTypeOK /\ EndsFollowPc /\ ChannelDiscipline /\ PullConfig
  BY DEF LockInv, LinkInv, TypeInv, TypeOK
<1>1. pc'[c] = "closed" /\ \A d \in Client \ {c} : pc'[d] = pc[d]
  BY <1>0 DEF CloseConnections, Goto, ClientTypeOK
<1>2. ASSUME NEW d \in Client \ {c}, NEW ch \in Channel
      PROVE /\ client_end'[<<d, ch>>] = client_end[<<d, ch>>]
            /\ down'[<<d, ch>>] = down[<<d, ch>>]
  <2>1. <<d, ch>> \in Conn /\ <<d, ch>>[1] = d
    BY ConnFacts
  <2> QED BY <2>1 DEF CloseConnections
<1>3. OthersKept(c)
  BY <1>1, <1>2 DEF OthersKept, Channel
<1>4. client_end'[<<c, "SEND">>] # "none" => client_end'[<<c, "CTRL">>] # "none"
  <2>1. <<c, "SEND">> \in Conn /\ <<c, "CTRL">> \in Conn
    BY ConnFacts DEF Channel
  <2> QED BY <1>0, <2>1 DEF CloseConnections, EndsFollowPc
<1>5. ChannelDiscipline'
  BY <1>0 DEF ChannelDiscipline
<1>6. (Alive' => Alive) /\ cfg'[c].system_mode = "PULL"
  BY <1>0 DEF Alive, daemonVars, PullConfig
<1> QED BY <1>1, <1>3, <1>4, <1>5, <1>6, OwnPart

(* A client that takes part in no RECV exchange: it writes on CTRL or SEND. *)
LEMMA WriteLock ==
    ASSUME LockInv, NEW c \in Client, NEW ch \in {"CTRL", "SEND"}, NEW m,
           m.op \in OpsOf(ch), SendMessage(c, ch, m),
           UNCHANGED <<socketsButUp, daemonVars, cfg>>,
           pc[c] \in {"init", "idle"},
           pc' = pc \/ Goto(c, "initWait") \/ Goto(c, "pingWait")
    PROVE  EndsFollowPc' /\ ChannelDiscipline' /\ PullConfig' /\ Lockstep'
<1>0. ClientTypeOK /\ EndsFollowPc /\ PullConfig /\ Lockstep
  BY DEF LockInv, LinkInv, TypeInv, TypeOK
<1>1. ChannelDiscipline' /\ \A k \in Conn : k # <<c, ch>> => up'[k] = up[k]
  BY SendDiscipline DEF Channel
<1>2. \A d \in Client : up'[<<d, "RECV">>] = up[<<d, "RECV">>]
  BY <1>1, ConnFacts DEF Channel
<1>3. pc'[c] \in {"init", "idle", "initWait", "pingWait"} /\ \A d \in Client \ {c} : pc'[d] = pc[d]
  BY <1>0 DEF Goto, ClientTypeOK
<1>4. UNCHANGED <<client_end, down>> /\ (Alive' => Alive)
  BY DEF socketsButUp, daemonVars, Alive
<1>5. OthersKept(c)
  BY <1>2, <1>3, <1>4 DEF OthersKept
<1>6. Alive' => Load(c)' = Due(c)'
  BY <1>0, <1>2, <1>3, <1>4 DEF Lockstep, Load, Due
<1>7. \A h \in Channel : client_end'[<<c, h>>] = "open"
  BY <1>0, <1>4 DEF EndsFollowPc
<1>8. cfg'[c].system_mode = "PULL"
  BY <1>0 DEF PullConfig
<1>9. client_end'[<<c, "CTRL">>] # "none"
  BY <1>7 DEF Channel
<1> QED BY <1>1, <1>3, <1>4, <1>5, <1>6, <1>7, <1>8, <1>9, OwnPart

(* A request of fetch() or receive(): the RECV channel was empty. *)
LEMMA RequestLock ==
    ASSUME LockInv, NEW c \in Client, NEW m, m.op \in OpsOf("RECV"), SendMessage(c, "RECV", m),
           UNCHANGED <<socketsButUp, daemonVars, cfg>>, pc[c] = "idle",
           Goto(c, "recvWait") \/ Goto(c, "fetchWait")
    PROVE  EndsFollowPc' /\ ChannelDiscipline' /\ PullConfig' /\ Lockstep'
<1> DEFINE k == <<c, "RECV">>
<1>0. ClientTypeOK /\ SocketsTypeOK /\ EndsFollowPc /\ PullConfig /\ Lockstep /\ DescriptorsConsistent
  BY DEF LockInv, LinkInv, TypeInv, TypeOK
<1>1. /\ ChannelDiscipline' /\ \A j \in Conn : j # k => up'[j] = up[j]
      /\ ServerEnd(k) => Len(up'[k]) = Len(up[k]) + 1
  BY SendDiscipline DEF Channel
<1>2. \A d \in Client \ {c} : up'[<<d, "RECV">>] = up[<<d, "RECV">>]
  <2>1. \A d \in Client \ {c} : <<d, "RECV">> \in Conn /\ <<d, "RECV">> # k
    BY ConnFacts DEF Channel
  <2> QED BY <1>1, <2>1
<1>3. pc'[c] \in {"recvWait", "fetchWait"} /\ \A d \in Client \ {c} : pc'[d] = pc[d]
  BY <1>0 DEF Goto, ClientTypeOK
<1>4. UNCHANGED <<client_end, down>> /\ (Alive' => Alive)
  BY DEF socketsButUp, daemonVars, Alive
<1>5. OthersKept(c)
  BY <1>2, <1>3, <1>4 DEF OthersKept
<1>6. \A h \in Channel : client_end'[<<c, h>>] = "open"
  BY <1>0, <1>4 DEF EndsFollowPc
<1>7. Alive' => Load(c)' = Due(c)'
  <2> SUFFICES ASSUME Alive' PROVE Load(c)' = Due(c)'
    OBVIOUS
  <2>1. k \in Conn /\ up[k] \in Seq(nsbm) /\ down[k] \in Seq(nsbm)
    BY <1>0, ConnFacts DEF SocketsTypeOK, Channel
  <2>2. ServerEnd(k)
    BY <1>0, <1>4, <1>6, <2>1 DEF DescriptorsConsistent, ServerEndsRight, Channel
  <2>3. Len(up[k]) + Len(down[k]) = 0
    BY <1>0, <1>4 DEF Lockstep
  <2>4. Len(up'[k]) = Len(up[k]) + 1 /\ down'[k] = down[k]
    BY <1>1, <1>4, <2>2
  <2>5. Len(up[k]) \in Nat /\ Len(down[k]) \in Nat
    BY <2>1
  <2>6. Len(up'[k]) + Len(down'[k]) = 1
    <3>1. Len(up[k]) + 1 + Len(down[k]) = 1
      BY <2>3, <2>5, Counts
    <3> QED BY <2>4, <3>1
  <2> QED BY <1>3, <2>6 DEF Load, Due
<1>8. cfg'[c].system_mode = "PULL" /\ client_end'[<<c, "CTRL">>] # "none"
  BY <1>0, <1>6 DEF PullConfig, Channel
<1> QED BY <1>1, <1>3, <1>4, <1>5, <1>6, <1>7, <1>8, OwnPart

(* A read of an answer: on RECV it takes the one message there is. *)
LEMMA AnswerLock ==
    ASSUME LockInv, NEW c \in Client, NEW ch \in {"CTRL", "RECV"}, NEW n, TakeFrom(c, ch, n),
           UNCHANGED <<client_end, up, daemonVars>>,
           cfg' \in [Client -> Config], \A d \in Client \ {c} : cfg'[d] = cfg[d],
           cfg'[c].system_mode = "PULL",
           ch = "CTRL" => pc[c] \in {"initWait", "pingWait"},
           ch = "RECV" => pc[c] \in {"recvWait", "fetchWait"},
           Goto(c, "idle")
    PROVE  EndsFollowPc' /\ ChannelDiscipline' /\ PullConfig' /\ Lockstep'
<1> DEFINE k == <<c, ch>>
           r == <<c, "RECV">>
<1>0. ClientTypeOK /\ SocketsTypeOK /\ EndsFollowPc /\ ChannelDiscipline /\ Lockstep
  BY DEF LockInv, LinkInv, TypeInv, TypeOK
<1>1. k \in Conn /\ r \in Conn /\ down \in [Conn -> Seq(nsbm)] /\ up \in [Conn -> Seq(nsbm)]
  BY <1>0, ConnFacts DEF SocketsTypeOK, Channel
<1>2. \A d \in Client \ {c} : down'[<<d, "RECV">>] = down[<<d, "RECV">>]
  <2>1. \A d \in Client \ {c} : <<d, "RECV">> \in Conn /\ <<d, "RECV">> # k
    BY ConnFacts DEF Channel
  <2> QED BY <1>1, <2>1 DEF TakeFrom
<1>3. pc'[c] = "idle" /\ \A d \in Client \ {c} : pc'[d] = pc[d]
  BY <1>0 DEF Goto, ClientTypeOK
<1>4. Alive' => Alive
  BY DEF daemonVars, Alive
<1>5. OthersKept(c)
  BY <1>2, <1>3 DEF OthersKept
<1>6. \A h \in Channel : client_end'[<<c, h>>] = "open"
  <2>1. pc[c] \notin {"connect", "closed"}
    OBVIOUS
  <2> QED BY <1>0, <2>1 DEF EndsFollowPc
<1>7. Alive' => Load(c)' = Due(c)'
  <2> SUFFICES ASSUME Alive PROVE Load(c)' = 0
    BY <1>3, <1>4 DEF Due
  <2>1. CASE ch = "CTRL"
    <3>1. down'[r] = down[r]
      BY <1>1, <2>1 DEF TakeFrom
    <3>2. Len(up[r]) + Len(down[r]) = 0
      BY <1>0, <2>1 DEF Lockstep
    <3> QED BY <3>1, <3>2 DEF Load
  <2>2. CASE ch = "RECV"
    <3>1. n \in 1 .. Len(down[r]) /\ down'[r] = Unread(down[r], n)
      BY <1>1, <2>2 DEF TakeFrom
    <3>2. Len(up[r]) + Len(down[r]) = 1
      BY <1>0, <2>2 DEF Lockstep
    <3>4. Len(up[r]) \in Nat /\ Len(down[r]) \in Nat
      BY <1>1
    <3>3. Len(down'[r]) = Len(down[r]) - n
      BY <1>1, <3>1, SplitType DEF Unread
    <3>5. Len(up[r]) + Len(down'[r]) = 0
      <4>1. Len(up[r]) + (Len(down[r]) - n) = 0
        BY <3>1, <3>2, <3>4, Counts
      <4> QED BY <3>3, <4>1
    <3> QED BY <3>5 DEF Load
  <2> QED BY <2>1, <2>2
<1>8. client_end'[<<c, "CTRL">>] # "none"
  BY <1>6 DEF Channel
<1>9. ChannelDiscipline'
  BY <1>0 DEF ChannelDiscipline
<1> QED BY <1>3, <1>4, <1>5, <1>6, <1>7, <1>8, <1>9, OwnPart

(* connect() of a channel: nothing has been written yet. *)
LEMMA ConnectLock ==
    ASSUME LockInv, NEW c \in Client, NEW ch \in Channel, ConnectChannel(c, ch)
    PROVE  EndsFollowPc' /\ ChannelDiscipline' /\ PullConfig' /\ Lockstep'
<1>0. /\ ClientTypeOK /\ SocketsTypeOK /\ EndsFollowPc /\ ChannelDiscipline /\ PullConfig
      /\ Lockstep
  BY DEF LockInv, LinkInv, TypeInv, TypeOK
<1>1. /\ pc[c] = "connect" /\ pc' = [pc EXCEPT ![c] = IF ch = "RECV" THEN "init" ELSE "connect"]
      /\ client_end' = [client_end EXCEPT ![<<c, ch>>] = "open"]
      /\ UNCHANGED <<up, down, cfg, status>>
      /\ client_end \in [Conn -> {"none", "open", "closed"}] /\ pc \in [Client -> PcState]
  BY <1>0 DEF ConnectChannel, Goto, daemonVars, SocketsTypeOK, ClientTypeOK
<1>2. /\ ch = "SEND" => client_end[<<c, "CTRL">>] # "none"
      /\ ch = "RECV" => client_end[<<c, "SEND">>] # "none"
  BY DEF ConnectChannel
<1>3. \A d \in Client, h \in Channel :
          /\ <<d, h>> \in Conn
          /\ client_end'[<<d, h>>] = IF d = c /\ h = ch THEN "open" ELSE client_end[<<d, h>>]
  BY <1>1, ConnFacts
<1>4. OthersKept(c)
  BY <1>1, <1>3 DEF OthersKept
<1>5. Alive' => Alive /\ Load(c)' = Due(c)'
  BY <1>0, <1>1 DEF Lockstep, Load, Due, Alive
<1>6. /\ client_end[<<c, "CTRL">>] \in {"none", "open"}
      /\ client_end[<<c, "SEND">>] \in {"none", "open"}
      /\ client_end[<<c, "RECV">>] \in {"none", "open"}
      /\ client_end[<<c, "SEND">>] # "none" => client_end[<<c, "CTRL">>] # "none"
  <2>1. \A h \in Channel : client_end[<<c, h>>] \in {"none", "open"}
    BY <1>0, <1>1, <1>3 DEF EndsFollowPc
  <2> QED BY <1>0, <2>1 DEF EndsFollowPc, Channel
<1>7. /\ client_end'[<<c, "CTRL">>] = IF ch = "CTRL" THEN "open" ELSE client_end[<<c, "CTRL">>]
      /\ client_end'[<<c, "SEND">>] = IF ch = "SEND" THEN "open" ELSE client_end[<<c, "SEND">>]
      /\ client_end'[<<c, "RECV">>] = IF ch = "RECV" THEN "open" ELSE client_end[<<c, "RECV">>]
  BY <1>3 DEF Channel
<1>8. /\ pc'[c] \in {"connect", "init"} /\ (pc'[c] = "init" => ch = "RECV")
      /\ cfg'[c].system_mode = "PULL"
  BY <1>0, <1>1 DEF PullConfig
<1>9. /\ \A h \in Channel : /\ pc'[c] \notin {"connect", "closed"} => client_end'[<<c, h>>] = "open"
                            /\ pc'[c] = "connect" => client_end'[<<c, h>>] # "closed"
      /\ client_end'[<<c, "SEND">>] # "none" => client_end'[<<c, "CTRL">>] # "none"
  BY <1>2, <1>6, <1>7, <1>8 DEF Channel
<1>10. ChannelDiscipline'
  BY <1>0, <1>1 DEF ChannelDiscipline
<1> QED BY <1>4, <1>5, <1>8, <1>9, <1>10, OwnPart

(* While the daemon lives no waiting client sees an end of file. *)
LEMMA EofLock ==
    ASSUME LockInv, NEW c \in Client, WaitEof(c)
    PROVE  EndsFollowPc' /\ ChannelDiscipline' /\ PullConfig' /\ Lockstep'
<1>0. /\ ClientTypeOK /\ SocketsTypeOK /\ EndsFollowPc /\ ChannelDiscipline /\ PullConfig
      /\ DescriptorsConsistent
  BY DEF LockInv, LinkInv, TypeInv, TypeOK
<1>1. /\ pc[c] \in WaitState /\ UNCHANGED <<up, daemonVars, cfg>>
      /\ ~ServerEnd(<<c, WaitChannel(c)>>)
  BY DEF WaitEof
<1>2. \A h \in Channel : client_end[<<c, h>>] = "open" /\ <<c, h>> \in Conn
  BY <1>0, <1>1, ConnFacts DEF EndsFollowPc, WaitState
<1>3. ~Alive /\ ~Alive'
  BY <1>0, <1>1, <1>2 DEF DescriptorsConsistent, ServerEndsRight, WaitChannel, Channel, Alive,
                          daemonVars
<1>4. CASE CloseConnections(c, down)
  BY <1>1, <1>4, CloseLock
<1>5. CASE (Goto(c, "spin") \/ Goto(c, "idle")) /\ UNCHANGED <<client_end, down, reset>>
  <2>1. pc'[c] \in {"spin", "idle"} /\ \A d \in Client \ {c} : pc'[d] = pc[d]
    BY <1>0, <1>5 DEF Goto, ClientTypeOK
  <2>2. OthersKept(c)
    BY <1>1, <1>5, <2>1 DEF OthersKept
  <2>3. cfg'[c].system_mode = "PULL" /\ client_end'[<<c, "CTRL">>] # "none"
    BY <1>0, <1>1, <1>2, <1>5 DEF PullConfig, Channel
  <2>4. ChannelDiscipline'
    BY <1>0, <1>1 DEF ChannelDiscipline
  <2> QED BY <1>2, <1>3, <1>5, <2>1, <2>2, <2>3, <2>4, OwnPart
<1> QED BY <1>4, <1>5 DEF WaitEof

(* The client steps keep the strengthening of Lockstep. *)
LEMMA ClientLock ==
    ASSUME LockInv, SystemMode = "PULL", MaxTimeouts = 0, NEW c \in Client, ClientNext(c)
    PROVE  EndsFollowPc' /\ ChannelDiscipline' /\ PullConfig' /\ Lockstep'
<1>0. ClientTypeOK /\ SocketsTypeOK /\ PullConfig
  BY DEF LockInv, LinkInv, TypeInv, TypeOK
<1>1. CASE \E ch \in Channel : ConnectChannel(c, ch)
  BY <1>1, ConnectLock
<1>2. CASE ConnectFails(c) \/ Close(c) \/ BrokenPipe(c)
  BY <1>2, CloseLock DEF ConnectFails, Close, BrokenPipe
<1>3. CASE InitTimeout(c) \/ WaitTimeout(c)
  <2>1. timeouts < MaxTimeouts
    BY <1>0, <1>3 DEF InitTimeout, WaitTimeout, PullConfig
  <2>2. timeouts \in 0 .. MaxTimeouts
    BY <1>0 DEF ClientTypeOK
  <2> QED BY <2>1, <2>2
<1>4. CASE WaitEof(c)
  BY <1>4, EofLock
<1>5. CASE \/ initialize(c) \/ ping(c) \/ exit(c)
           \/ \E d \in SendTo[c] : send(c, d)
           \/ \E e \in Network : post(c, e)
  <2>1. \E ch \in {"CTRL", "SEND"} : \E m : m.op \in OpsOf(ch) /\ SendMessage(c, ch, m)
    <3>1. CASE initialize(c) \/ ping(c) \/ exit(c)
      <4>1. \E m : m.op \in {"INIT", "PING", "EXIT"} /\ SendMessage(c, "CTRL", m)
        BY <3>1 DEF initialize, ping, exit, IntroMessage, Bare
      <4> QED BY <4>1 DEF OpsOf
    <3>2. CASE (\E d \in SendTo[c] : send(c, d)) \/ (\E e \in Network : post(c, e))
      <4>1. \E m : m.op \in {"SEND", "POST"} /\ SendMessage(c, "SEND", m)
        <5>1. ASSUME NEW d \in SendTo[c], send(c, d)
              PROVE  \E m : m.op = "SEND" /\ SendMessage(c, "SEND", m)
          <6>1. PICK v : SendMessage(c, "SEND", DataMessage(c, "SEND", Ident[c], d, StoredBody(c, v)))
            BY <5>1 DEF send
          <6>2. DataMessage(c, "SEND", Ident[c], d, StoredBody(c, v)).op = "SEND"
            BY DEF DataMessage
          <6> QED BY <6>1, <6>2
        <5>2. ASSUME NEW e \in Network, post(c, e)
              PROVE  \E m : m.op = "POST" /\ SendMessage(c, "SEND", m)
          <6> DEFINE m == DataMessage(c, "POST", e.source, e.destination, PostBody(c, e.payload_obj))
          <6>1. SendMessage(c, "SEND", m) /\ m.op = "POST"
            BY <5>2 DEF post, DataMessage
          <6> QED BY <6>1
        <5> QED BY <3>2, <5>1, <5>2
      <4> QED BY <4>1 DEF OpsOf
    <3> QED BY <1>5, <3>1, <3>2
  <2>2. /\ UNCHANGED <<socketsButUp, daemonVars, cfg>> /\ pc[c] \in {"init", "idle"}
        /\ pc' = pc \/ Goto(c, "initWait") \/ Goto(c, "pingWait")
    BY <1>5 DEF initialize, ping, exit, send, post
  <2> QED BY <2>1, <2>2, WriteLock
<1>6. CASE \/ \E d \in ReceiveAs \cup {Ident[c]} : receive(c, d)
           \/ \E s \in FetchFrom : fetch(c, s)
  <2>1. \E m : m.op \in {"FETCH", "RECEIVE"} /\ SendMessage(c, "RECV", m)
    <3>0. cfg[c].system_mode # "PUSH"
      BY <1>0 DEF PullConfig
    <3>1. ASSUME NEW d \in ReceiveAs \cup {Ident[c]}, receive(c, d)
          PROVE  \E m : m.op = "RECEIVE" /\ SendMessage(c, "RECV", m)
      <4> DEFINE m == [Bare("RECEIVE", Orig[c], "SUCCESS") EXCEPT !.metadata = Route("", d)]
      <4>1. SendMessage(c, "RECV", m)
        BY <3>0, <3>1 DEF receive
      <4>2. m.op = "RECEIVE"
        BY DEF Bare
      <4> QED BY <4>1, <4>2
    <3>2. ASSUME NEW s \in FetchFrom, fetch(c, s)
          PROVE  \E m : m.op = "FETCH" /\ SendMessage(c, "RECV", m)
      <4> DEFINE m == [Bare("FETCH", Orig[c], "SUCCESS") EXCEPT !.metadata = FetchMetadata(c, s)]
      <4>1. SendMessage(c, "RECV", m)
        BY <3>0, <3>2 DEF fetch
      <4>2. m.op = "FETCH"
        BY DEF Bare
      <4> QED BY <4>1, <4>2
    <3> QED BY <1>6, <3>1, <3>2
  <2>2. /\ UNCHANGED <<socketsButUp, daemonVars, cfg>> /\ pc[c] = "idle"
        /\ Goto(c, "recvWait") \/ Goto(c, "fetchWait")
    BY <1>6 DEF receive, fetch
  <2> QED BY <2>1, <2>2, RequestLock DEF OpsOf
<1>7. CASE Responded(c)
  <2>1. PICK n : InitReturn(c, n) \/ PingReturn(c, n) \/ ReceiveReturn(c, n) \/ FetchReturn(c, n)
    BY <1>7 DEF Responded
  <2>2. CASE InitReturn(c, n)
    <3>1. UNCHANGED <<up, daemonVars>> /\ pc[c] = "initWait"
      BY <2>2 DEF InitReturn
    <3>2. CASE /\ TakeFrom(c, "CTRL", n) /\ Goto(c, "idle") /\ UNCHANGED client_end
               /\ cfg' \in {cfg, [cfg EXCEPT ![c] = DaemonConfig]}
      <4>1. DaemonConfig \in Config /\ DaemonConfig.system_mode = "PULL"
        BY ConfigAssumption DEF DaemonConfig, Config
      <4>2. cfg' \in [Client -> Config] /\ \A d \in Client \ {c} : cfg'[d] = cfg[d]
        BY <1>0, <3>2, <4>1 DEF ClientTypeOK
      <4>3. cfg'[c].system_mode = "PULL"
        BY <1>0, <3>2, <4>1 DEF ClientTypeOK, PullConfig
      <4> QED BY <3>1, <3>2, <4>2, <4>3, AnswerLock
    <3>3. CASE /\ CloseConnections(c, [down EXCEPT ![<<c, "CTRL">>] = Unread(@, n)])
               /\ UNCHANGED cfg
      BY <3>1, <3>3, CloseLock
    <3> QED BY <2>2, <3>2, <3>3 DEF InitReturn
  <2>3. CASE PingReturn(c, n) \/ ReceiveReturn(c, n) \/ FetchReturn(c, n)
    <3>1. /\ UNCHANGED <<client_end, up, daemonVars, cfg>> /\ Goto(c, "idle")
          /\ \E ch \in {"CTRL", "RECV"} :
               /\ TakeFrom(c, ch, n)
               /\ ch = "CTRL" => pc[c] \in {"initWait", "pingWait"}
               /\ ch = "RECV" => pc[c] \in {"recvWait", "fetchWait"}
      BY <2>3 DEF PingReturn, ReceiveReturn, FetchReturn, socketsButDown
    <3>2. cfg' \in [Client -> Config] /\ cfg'[c].system_mode = "PULL"
      BY <1>0, <3>1 DEF ClientTypeOK, PullConfig
    <3> QED BY <3>1, <3>2, AnswerLock
  <2> QED BY <2>1, <2>2, <2>3
<1> QED BY <1>1, <1>2, <1>3, <1>4, <1>5, <1>6, <1>7 DEF ClientNext

-----------------------------------------------------------------------------
(* The daemon's steps and the RECV channels.                               *)

(* What a read gives the handler and leaves, on channel ch of client c. *)
LEMMA ReadDiscipline ==
    ASSUME LockInv, NEW f \in read_fds \cap OpenFds, NEW n \in 1 .. Len(up[fd_table[f]]),
           Receive(f, n), NEW c \in Client, NEW ch \in Channel, fd_table[f] = <<c, ch>>
    PROVE  /\ Incoming(f, n).op \in OpsOf(ch)
           /\ ChannelDiscipline'
           /\ \A k \in Conn : k # <<c, ch>> => up'[k] = up[k]
           /\ Len(up'[<<c, ch>>]) = Len(up[<<c, ch>>]) - n
<1> DEFINE k0 == <<c, ch>>
           s == up[k0]
<1>0. ChannelDiscipline /\ up \in [Conn -> Seq(nsbm)] /\ k0 \in Conn
  BY ConnFacts DEF LockInv, LinkInv, TypeInv, TypeOK, SocketsTypeOK
<1>1. s \in Seq(nsbm) /\ n \in 1 .. Len(s) /\ DOMAIN s = 1 .. Len(s)
  BY <1>0
<1>2. up' = [up EXCEPT ![k0] = Unread(s, n)]
  BY DEF Receive
<1>3. \A i \in DOMAIN s : s[i].op \in OpsOf(ch)
  BY <1>0 DEF ChannelDiscipline
<1> HIDE DEF s
<1>4. Incoming(f, n).op \in OpsOf(ch)
  <2>1. /\ Read(s, n) \in Seq(nsbm) /\ Read(s, n) # <<>>
        /\ \A i \in 1 .. n : Read(s, n)[i] = s[i]
    BY <1>1, SplitType DEF Read
  <2>2. \A i \in DOMAIN Read(s, n) : i \in 1 .. n /\ i \in DOMAIN s
    BY <1>1 DEF Read
  <2>3. OpsOf(ch) \in SUBSET Op
    BY DEF OpsOf, Op, Channel
  <2>4. \A i \in DOMAIN Read(s, n) : Read(s, n)[i].op \in OpsOf(ch)
    BY <1>3, <2>1, <2>2
  <2>5. Parse(Read(s, n)).op \in OpsOf(ch)
    BY <2>1, <2>3, <2>4, ParseOp
  <2> QED BY <2>5 DEF Incoming, s
<1>5. \A k \in Conn : k # k0 => up'[k] = up[k]
  BY <1>0, <1>2
<1>6. up'[k0] = Unread(s, n)
  BY <1>0, <1>2
<1>7. Len(Unread(s, n)) = Len(s) - n
  BY <1>1, SplitType DEF Unread
<1>8. \A i \in DOMAIN Unread(s, n) : i + n \in DOMAIN s /\ Unread(s, n)[i] = s[i + n]
  BY <1>1 DEF Unread
<1>9. ChannelDiscipline'
  <2> SUFFICES ASSUME NEW d \in Client, NEW h \in Channel, NEW i \in DOMAIN up'[<<d, h>>]
               PROVE  up'[<<d, h>>][i].op \in OpsOf(h)
    BY DEF ChannelDiscipline
  <2>1. CASE <<d, h>> # k0
    BY <1>0, <1>5, <2>1, ConnFacts DEF ChannelDiscipline
  <2>2. CASE <<d, h>> = k0
    BY <1>3, <1>6, <1>8, <2>2
  <2> QED BY <2>1, <2>2
<1> QED BY <1>4, <1>5, <1>6, <1>7, <1>9 DEF s

(* In PULL mode a handler writes, if at all, on the connection it read. *)
LEMMA HandlerWrites ==
    ASSUME TypeInv, SystemMode = "PULL",
           NEW f \in read_fds \cap OpenFds, NEW n \in 1 .. Len(up[fd_table[f]]), Handle(f, n),
           fd_table[f] \in Conn
    PROVE  /\ \A j \in Conn : j # fd_table[f] => down'[j] = down[j]
           /\ \/ Incoming(f, n).op \notin {"FETCH", "RECEIVE"}
              \/ \E m : SocketSend(fd_table[f], m)
<1> DEFINE op == Incoming(f, n).op
<1>0. down \in [Conn -> Seq(nsbm)]
  BY DEF TypeInv, TypeOK, SocketsTypeOK
<1>1. \/ UNCHANGED down /\ op \notin {"FETCH", "RECEIVE"}
      \/ \E m : SocketSend(fd_table[f], m)
  <2>1. CASE handle_send(f, n) \/ handle_post(f, n) \/ handle_exit(f, n)
    BY <2>1 DEF handle_send, handle_post, handle_exit, NoSend
  <2>2. CASE handle_init(f, n) \/ handle_ping(f, n)
    BY <2>2 DEF handle_init, handle_ping, Reply
  <2>3. CASE handle_fetch(f, n) \/ handle_receive(f, n)
    BY <2>3 DEF handle_fetch, handle_receive, Reply
  <2> QED BY <2>1, <2>2, <2>3 DEF Handle
<1>2. ASSUME NEW m, SocketSend(fd_table[f], m), NEW j \in Conn, j # fd_table[f]
      PROVE down'[j] = down[j]
  BY <1>0, <1>2 DEF SocketSend
<1> QED BY <1>1, <1>2

(* A handler of the RECV channel of a waiting client turns its request     *)
(* into the answer; any other handler leaves the RECV channels alone.      *)
LEMMA HandlerLock ==
    ASSUME LockInv, SystemMode = "PULL",
           NEW f \in read_fds \cap OpenFds, NEW n \in 1 .. Len(up[fd_table[f]]), Handle(f, n),
           UNCHANGED clientVars
    PROVE  EndsFollowPc' /\ ChannelDiscipline' /\ PullConfig' /\ Lockstep'
<1>0. /\ TypeInv /\ TypeOK /\ SocketsTypeOK /\ EndsFollowPc /\ PullConfig /\ Lockstep /\ EndsKnown
  BY DEF LockInv, LinkInv, TypeInv, TypeOK
<1>1. Receive(f, n)
  BY <1>0, HandlersTyped
<1>2. fd_table[f] \in Conn /\ UNCHANGED client_end /\ Alive /\ UNCHANGED <<pc, cfg>>
  BY <1>0, <1>1, ReadOutcome DEF clientVars
<1>3. PICK c \in Client, ch \in Channel : fd_table[f] = <<c, ch>>
  BY <1>2 DEF Conn
<1> DEFINE k0 == <<c, ch>>
<1>4. /\ Incoming(f, n).op \in OpsOf(ch) /\ ChannelDiscipline'
      /\ \A k \in Conn : k # k0 => up'[k] = up[k]
      /\ Len(up'[k0]) = Len(up[k0]) - n
  BY <1>1, <1>3, ReadDiscipline
<1>5. /\ \A j \in Conn : j # k0 => down'[j] = down[j]
      /\ Incoming(f, n).op \notin {"FETCH", "RECEIVE"} \/ \E m : SocketSend(k0, m)
  BY <1>0, <1>2, <1>3, HandlerWrites
<1>6. EndsFollowPc' /\ PullConfig'
  BY <1>0, <1>2 DEF EndsFollowPc, PullConfig
<1>7. ASSUME Alive', NEW d \in Client, pc[d] # "closed" PROVE Load(d)' = Due(d)
  <2> DEFINE r == <<d, "RECV">>
  <2>1. r \in Conn /\ up[r] \in Seq(nsbm) /\ down[r] \in Seq(nsbm)
    BY <1>0, ConnFacts DEF SocketsTypeOK, Channel
  <2>2. Len(up[r]) + Len(down[r]) = Due(d)
    BY <1>0, <1>2, <1>7 DEF Lockstep, Due
  <2>3. CASE r # k0
    BY <1>4, <1>5, <2>1, <2>2, <2>3 DEF Load
  <2>4. CASE r = k0
    <3>1. d = c /\ ch = "RECV" /\ Incoming(f, n).op \in {"FETCH", "RECEIVE"}
      BY <1>4, <2>4 DEF OpsOf
    <3>2. PICK m : SocketSend(r, m)
      BY <1>5, <2>4, <3>1
    <3>3. Len(up[r]) \in Nat /\ Len(down[r]) \in Nat /\ n \in 1 .. Len(up[r])
      BY <1>3, <2>1, <2>4
    <3>4. Due(d) = 1 /\ pc[d] \in {"recvWait", "fetchWait"}
      <4>1. \A a, b \in Nat : n \in 1 .. a => a + b # 0
        OBVIOUS
      <4>2. Due(d) # 0
        BY <2>2, <3>3, <4>1
      <4> QED BY <4>2 DEF Due
    <3>5. client_end[r] = "open" /\ ~reset[r]
      <4>1. client_end[r] = "open"
        BY <1>0, <3>4 DEF EndsFollowPc, Channel
      <4> QED BY <1>0, <2>1, <4>1 DEF EndsKnown
    <3>6. down' = [down EXCEPT ![r] = Append(@, m)]
      BY <3>2, <3>5 DEF SocketSend
    <3>7. Len(down'[r]) = Len(down[r]) + 1
      <4>1. down[r] \in Seq(nsbm \cup {m}) /\ down'[r] = Append(down[r], m)
        BY <1>0, <2>1, <3>6 DEF SocketsTypeOK
      <4> QED BY <4>1
    <3>8. Len(up'[r]) = Len(up[r]) - n
      BY <1>4, <2>4
    <3>9. \A a, b \in Nat : a + b = 1 => \A x \in 1 .. a : (a - x) + (b + 1) = 1
      OBVIOUS
    <3>10. (Len(up[r]) - n) + (Len(down[r]) + 1) = 1
      BY <2>2, <3>3, <3>4, <3>9
    <3> QED BY <3>4, <3>7, <3>8, <3>10 DEF Load
  <2> QED BY <2>3, <2>4
<1>8. Lockstep'
  BY <1>2, <1>7 DEF Lockstep, Load, Due
<1> QED BY <1>4, <1>6, <1>8

(* A connection the daemon drops belongs to a client that has closed. *)
LEMMA DisconnectLock ==
    ASSUME LockInv, NEW f \in read_fds \cap OpenFds, Disconnect(f), UNCHANGED clientVars
    PROVE  EndsFollowPc' /\ ChannelDiscipline' /\ PullConfig' /\ Lockstep'
<1>0. /\ SocketsTypeOK /\ EndsFollowPc /\ ChannelDiscipline /\ PullConfig /\ Lockstep /\ EndsKnown
  BY DEF LockInv, LinkInv, TypeInv, TypeOK
<1>1. /\ fd_table[f] \in Conn /\ UNCHANGED <<client_end, down, pc, cfg>> /\ Alive
      /\ up' = [up EXCEPT ![fd_table[f]] = <<>>] /\ up \in [Conn -> Seq(nsbm)]
  BY <1>0 DEF Disconnect, Visit, Alive, OpenFds, SocketsTypeOK, clientVars
<1>2. client_end[fd_table[f]] = "closed"
  BY <1>0, <1>1 DEF Disconnect, EndsKnown, Readable
<1>3. \A k \in Conn : k # fd_table[f] => up'[k] = up[k]
  BY <1>1
<1>4. ASSUME NEW d \in Client, pc[d] # "closed" PROVE up'[<<d, "RECV">>] = up[<<d, "RECV">>]
  <2>1. <<d, "RECV">> \in Conn /\ client_end[<<d, "RECV">>] # "closed"
    BY <1>0, <1>4, ConnFacts DEF EndsFollowPc, Channel
  <2> QED BY <1>2, <1>3, <2>1
<1>5. Lockstep'
  BY <1>0, <1>1, <1>4 DEF Lockstep
<1>6. ChannelDiscipline'
  <2>1. \A k \in Conn : up'[k] = up[k] \/ up'[k] = <<>>
    BY <1>1
  <2> SUFFICES ASSUME NEW d \in Client, NEW h \in Channel, NEW i \in DOMAIN up'[<<d, h>>]
               PROVE  up'[<<d, h>>][i].op \in OpsOf(h)
    BY DEF ChannelDiscipline
  <2>2. up'[<<d, h>>] = up[<<d, h>>]
    <3>1. up'[<<d, h>>] # <<>>
      OBVIOUS
    <3> QED BY <2>1, <3>1, ConnFacts
  <2> QED BY <1>0, <2>2 DEF ChannelDiscipline
<1>7. EndsFollowPc' /\ PullConfig'
  BY <1>0, <1>1 DEF EndsFollowPc, PullConfig
<1> QED BY <1>5, <1>6, <1>7

(* LockInv is inductive in PULL mode when no call is abandoned. *)
LEMMA LockInvStep ==
    ASSUME SystemMode = "PULL", MaxTimeouts = 0
    PROVE  LockInv /\ [Next]_vars => LockInv'
<1> SUFFICES ASSUME LockInv, [Next]_vars
             PROVE  EndsFollowPc' /\ ChannelDiscipline' /\ PullConfig' /\ Lockstep'
  BY LinkInvStep DEF LockInv
<1>0. EndsFollowPc /\ ChannelDiscipline /\ PullConfig /\ Lockstep
  BY DEF LockInv
<1>1. ASSUME UNCHANGED <<client_end, up, down, pc, cfg>>, Alive' => Alive
      PROVE  EndsFollowPc' /\ ChannelDiscipline' /\ PullConfig' /\ Lockstep'
  BY <1>0, <1>1 DEF EndsFollowPc, ChannelDiscipline, PullConfig, Lockstep
<1>2. ASSUME DaemonNext, UNCHANGED clientVars
      PROVE  EndsFollowPc' /\ ChannelDiscipline' /\ PullConfig' /\ Lockstep'
  <2>1. CASE Select \/ Accept \/ Shutdown
    BY <1>1, <1>2, <2>1 DEF Select, Accept, Shutdown, Alive, socketVars, clientVars
  <2>2. CASE \E f \in read_fds \cap OpenFds : \E n \in 1 .. Len(up[fd_table[f]]) : Handle(f, n)
    BY <1>2, <2>2, HandlerLock
  <2>3. CASE \E f \in read_fds \cap OpenFds : Disconnect(f)
    BY <1>2, <2>3, DisconnectLock
  <2> QED BY <1>2, <2>1, <2>2, <2>3 DEF DaemonNext
<1>3. CASE UNCHANGED vars
  BY <1>1, <1>3 DEF vars, socketVars, daemonVars, clientVars, Alive
<1> QED BY <1>2, <1>3, ClientLock DEF Next

(* LockInv holds at the start. *)
LEMMA LockInvInit == Init => LockInv
<1> SUFFICES ASSUME Init PROVE EndsFollowPc /\ ChannelDiscipline /\ PullConfig /\ Lockstep
  BY LinkInvInit DEF LockInv
<1>1. /\ \A c \in Client : pc[c] = "connect" /\ cfg[c] = DefaultConfig
      /\ \A k \in Conn : client_end[k] = "none" /\ up[k] = <<>> /\ down[k] = <<>>
  BY DEF Init, ClientInit, SocketsInit
<1>2. \A c \in Client : <<c, "RECV">> \in Conn /\ <<c, "SEND">> \in Conn
  BY ConnFacts DEF Channel
<1>3. \A c \in Client : Len(up[<<c, "RECV">>]) + Len(down[<<c, "RECV">>]) = 0
  <2> SUFFICES ASSUME NEW c \in Client
               PROVE  Len(up[<<c, "RECV">>]) + Len(down[<<c, "RECV">>]) = 0
    OBVIOUS
  <2>1. up[<<c, "RECV">>] = <<>> /\ down[<<c, "RECV">>] = <<>>
    BY <1>1, <1>2
  <2>2. Len(<<>>) = 0
    OBVIOUS
  <2>3. Len(up[<<c, "RECV">>]) = 0 /\ Len(down[<<c, "RECV">>]) = 0
    BY <2>1, <2>2, Zenon
  <2> QED BY <2>3
<1>4. Lockstep
  BY <1>1, <1>3 DEF Lockstep
<1>5. EndsFollowPc
  BY <1>1, <1>2, ConnFacts DEF EndsFollowPc
<1>6. ChannelDiscipline
  BY <1>1, ConnFacts DEF ChannelDiscipline
<1>7. PullConfig
  BY <1>1 DEF PullConfig, DefaultConfig
<1> QED BY <1>4, <1>5, <1>6, <1>7

(* In PULL mode, when no call of a client is abandoned by its timeout, a   *)
(* fetch() or receive() gets exactly one answer: its RECV channel carries  *)
(* one message while it waits and none otherwise, for any number of        *)
(* clients, however their steps interleave with the select() loop and with *)
(* the other clients' connects, disconnects and EXITs.                     *)
THEOREM LockstepSafe ==
    ASSUME SystemMode = "PULL", MaxTimeouts = 0
    PROVE  Spec => []Lockstep
<1>1. Init => LockInv
  BY LockInvInit
<1>2. LockInv /\ [Next]_vars => LockInv'
  BY LockInvStep
<1>3. LockInv => Lockstep
  BY DEF LockInv
<1> QED BY <1>1, <1>2, <1>3, PTL DEF Spec

-----------------------------------------------------------------------------
(* Who asks what.  The handlers do not look at who wrote a request; it is   *)
(* the clients that write on each channel only what is theirs to write.     *)

IsApp(c) == Orig[c] = "APP_CLIENT"
AskedOps(c, ch) ==
    IF ch = "CTRL" THEN {"INIT", "PING", "EXIT"}
    ELSE IF ch = "SEND" THEN (IF IsApp(c) THEN {"SEND"} ELSE {"POST"})
    ELSE (IF IsApp(c) THEN {"RECEIVE"} ELSE {"FETCH"})

Asked(c, ch, m) ==
    /\ m.op \in AskedOps(c, ch) /\ m.og = Orig[c]
    /\ m.op = "RECEIVE" => m.metadata.dest \in ReceiveAs \cup {Ident[c]}
    /\ m.body.kind = "intro" => m.body.val = <<c, 0>>

AsksRight ==
    \A c \in Client : \A ch \in Channel : \A i \in DOMAIN up[<<c, ch>>] : Asked(c, ch, up[<<c, ch>>][i])

CallsRight ==
    \A c \in Client : /\ pc[c] = "recvWait" => IsApp(c)
                      /\ pc[c] = "fetchWait" => ~IsApp(c)

KindInv == AsksRight /\ CallsRight

(* A client leaves its own streams and its own place to itself, and asks    *)
(* what it may.                                                             *)
LEMMA ClientAsks ==
    ASSUME TypeInv, NEW c \in Client, ClientNext(c)
    PROVE  /\ up' = up \/ \E ch \in Channel : \E m : Asked(c, ch, m) /\ SendMessage(c, ch, m)
           /\ \E to : /\ pc' = pc \/ pc' = [pc EXCEPT ![c] = to]
                      /\ to = "recvWait" => IsApp(c)
                      /\ to = "fetchWait" => ~IsApp(c)
<1>0. Orig[c] \in {"APP_CLIENT", "SIM_CLIENT"}
  BY ClientAssumption
<1>1. CASE \/ \E ch \in Channel : ConnectChannel(c, ch)
           \/ ConnectFails(c) \/ Close(c) \/ BrokenPipe(c) \/ InitTimeout(c) \/ WaitTimeout(c) \/ WaitEof(c)
           \/ Responded(c)
  <2>1. up' = up
    BY <1>1 DEF ConnectChannel, ConnectFails, Close, BrokenPipe, InitTimeout, WaitTimeout, WaitEof,
                Responded, InitReturn, PingReturn, ReceiveReturn, FetchReturn, socketsButDown, socketVars
  <2>2. \E to \in {"init", "connect", "closed", "idle", "spin"} : pc' = pc \/ pc' = [pc EXCEPT ![c] = to]
    BY <1>1 DEF ConnectChannel, ConnectFails, Close, BrokenPipe, InitTimeout, WaitTimeout, WaitEof,
                Responded, InitReturn, PingReturn, ReceiveReturn, FetchReturn, CloseConnections, Goto
  <2> QED BY <2>1, <2>2
<1>2. CASE initialize(c) \/ ping(c) \/ exit(c)
  <2>1. \E m \in {IntroMessage(c), Bare("PING", Orig[c], "SUCCESS"), Bare("EXIT", Orig[c], "SUCCESS")} :
            SendMessage(c, "CTRL", m)
    BY <1>2 DEF initialize, ping, exit
  <2>4. /\ Asked(c, "CTRL", IntroMessage(c)) /\ Asked(c, "CTRL", Bare("PING", Orig[c], "SUCCESS"))
        /\ Asked(c, "CTRL", Bare("EXIT", Orig[c], "SUCCESS"))
    BY DEF Asked, AskedOps, IntroMessage, Bare, NoBody
  <2>2. \E m : Asked(c, "CTRL", m) /\ SendMessage(c, "CTRL", m)
    BY <2>1, <2>4
  <2>3. \E to \in {"initWait", "pingWait"} : pc' = pc \/ pc' = [pc EXCEPT ![c] = to]
    BY <1>2 DEF initialize, ping, exit, Goto
  <2> QED BY <2>2, <2>3 DEF Channel
<1>3. ASSUME NEW d \in SendTo[c], send(c, d)
      PROVE  (\E m : Asked(c, "SEND", m) /\ SendMessage(c, "SEND", m)) /\ pc' = pc
  <2>1. PICK v : SendMessage(c, "SEND", DataMessage(c, "SEND", Ident[c], d, StoredBody(c, v)))
    BY <1>3 DEF send
  <2> DEFINE m == DataMessage(c, "SEND", Ident[c], d, StoredBody(c, v))
  <2>2. m.op = "SEND" /\ m.og = Orig[c] /\ m.body.kind # "intro"
    BY DEF DataMessage, StoredBody, PayloadBody
  <2>3. IsApp(c) /\ pc' = pc
    BY <1>3 DEF send, IsApp
  <2>4. SendMessage(c, "SEND", m)
    BY <2>1
  <2> HIDE DEF m
  <2> QED BY <2>2, <2>3, <2>4 DEF Asked, AskedOps
<1>4. ASSUME NEW e \in Network, post(c, e)
      PROVE  (\E m : Asked(c, "SEND", m) /\ SendMessage(c, "SEND", m)) /\ pc' = pc
  <2> DEFINE m == DataMessage(c, "POST", e.source, e.destination, PostBody(c, e.payload_obj))
  <2>1. SendMessage(c, "SEND", m)
    BY <1>4 DEF post
  <2>2. ~IsApp(c) /\ pc' = pc
    BY <1>4 DEF post, IsApp
  <2>3. m.op = "POST" /\ m.og = Orig[c] /\ m.body.kind # "intro"
    BY DEF DataMessage, PostBody, StoredBody, PayloadBody
  <2> HIDE DEF m
  <2> QED BY <2>1, <2>2, <2>3 DEF Asked, AskedOps
<1>5. ASSUME NEW d \in ReceiveAs \cup {Ident[c]}, receive(c, d)
      PROVE  /\ up' = up \/ \E m : Asked(c, "RECV", m) /\ SendMessage(c, "RECV", m)
             /\ IsApp(c) /\ pc' = [pc EXCEPT ![c] = "recvWait"]
  <2> DEFINE m == [Bare("RECEIVE", Orig[c], "SUCCESS") EXCEPT !.metadata = Route("", d)]
  <2>1. up' = up \/ SendMessage(c, "RECV", m)
    BY <1>5 DEF receive
  <2>2. m.op = "RECEIVE" /\ m.metadata.dest = d /\ m.og = Orig[c] /\ m.body.kind = "none"
    BY DEF Bare, Route, NoBody
  <2>3. IsApp(c) /\ pc' = [pc EXCEPT ![c] = "recvWait"]
    BY <1>5 DEF receive, IsApp, Goto
  <2> HIDE DEF m
  <2>4. Asked(c, "RECV", m)
    BY <2>2, <2>3 DEF Asked, AskedOps
  <2> QED BY <2>1, <2>3, <2>4
<1>6. ASSUME NEW s \in FetchFrom, fetch(c, s)
      PROVE  /\ up' = up \/ \E m : Asked(c, "RECV", m) /\ SendMessage(c, "RECV", m)
             /\ ~IsApp(c) /\ pc' = [pc EXCEPT ![c] = "fetchWait"]
  <2> DEFINE m == [Bare("FETCH", Orig[c], "SUCCESS") EXCEPT !.metadata = FetchMetadata(c, s)]
  <2>1. up' = up \/ SendMessage(c, "RECV", m)
    BY <1>6 DEF fetch
  <2>2. m.op = "FETCH" /\ m.og = Orig[c] /\ m.body.kind = "none"
    BY DEF Bare, NoBody
  <2>3. ~IsApp(c) /\ pc' = [pc EXCEPT ![c] = "fetchWait"]
    BY <1>6 DEF fetch, IsApp, Goto
  <2> HIDE DEF m
  <2>4. Asked(c, "RECV", m)
    BY <2>2, <2>3 DEF Asked, AskedOps
  <2> QED BY <2>1, <2>3, <2>4
<1>7. "SEND" \in Channel /\ "RECV" \in Channel
  BY DEF Channel
<1>8. ASSUME pc' = pc PROVE \E to : /\ pc' = pc \/ pc' = [pc EXCEPT ![c] = to]
                                    /\ to = "recvWait" => IsApp(c)
                                    /\ to = "fetchWait" => ~IsApp(c)
  <2> WITNESS "idle"
  <2> QED BY <1>8
<1> QED BY <1>1, <1>2, <1>3, <1>4, <1>5, <1>6, <1>7, <1>8 DEF ClientNext

(* A stream that stays, is emptied or is read leaves a suffix. *)
LEMMA SuffixFacts ==
    ASSUME NEW T, NEW s \in Seq(T)
    PROVE  /\ Suffix(s, s) /\ Suffix(s, <<>>)
           /\ \A n \in 0 .. Len(s) : Suffix(s, Unread(s, n))
BY SuffixSelf DEF Unread

(* What the daemon reads, or drops, leaves the end of a stream. *)
LEMMA DaemonTakes ==
    ASSUME TypeInv, DaemonNext
    PROVE  \A k \in Conn : Suffix(up[k], up'[k])
<1>0. TypeOK /\ up \in [Conn -> Seq(nsbm)]
  BY DEF TypeInv, TypeOK, SocketsTypeOK
<1>1. \A k \in Conn : Suffix(up[k], up[k]) /\ Suffix(up[k], <<>>)
  BY <1>0, SuffixFacts
<1>2. CASE Select \/ Accept \/ Shutdown
  BY <1>1, <1>2 DEF Select, Accept, Shutdown, socketVars
<1>3. ASSUME NEW f \in read_fds \cap OpenFds, NEW n \in 1 .. Len(up[fd_table[f]]), Handle(f, n)
      PROVE  \A k \in Conn : Suffix(up[k], up'[k])
  <2>1. Receive(f, n)
    BY <1>3 DEF Handle, handle_init, handle_ping, handle_send, handle_fetch, handle_post,
                handle_receive, handle_exit
  <2>2. up' = [up EXCEPT ![fd_table[f]] = Unread(@, n)] /\ fd_table[f] \in Conn
    BY <1>0, <2>1, ReadOutcome DEF Receive
  <2>3. n \in 0 .. Len(up[fd_table[f]]) /\ up[fd_table[f]] \in Seq(nsbm)
    BY <1>0, <2>2
  <2>4. Suffix(up[fd_table[f]], Unread(up[fd_table[f]], n))
    BY <2>3, SuffixFacts
  <2> QED BY <1>0, <1>1, <2>2, <2>4
<1>4. ASSUME NEW f \in read_fds \cap OpenFds, Disconnect(f)
      PROVE  \A k \in Conn : Suffix(up[k], up'[k])
  BY <1>0, <1>1, <1>4 DEF Disconnect
<1> QED BY <1>2, <1>3, <1>4 DEF DaemonNext

(* KindInv is inductive. *)
LEMMA KindInvStep ==
    ASSUME TypeInv, KindInv, [Next]_vars
    PROVE  KindInv'
<1>0. up \in [Conn -> Seq(nsbm)] /\ pc \in [Client -> PcState]
  BY DEF TypeInv, TypeOK, SocketsTypeOK, ClientTypeOK
<1>1. CASE UNCHANGED vars
  BY <1>1 DEF vars, socketVars, clientVars, KindInv, AsksRight, CallsRight
<1>2. CASE DaemonNext /\ UNCHANGED clientVars
  <2>1. ASSUME NEW c \in Client, NEW ch \in Channel, NEW i \in DOMAIN up'[<<c, ch>>]
        PROVE  Asked(c, ch, up'[<<c, ch>>][i])
    <3> DEFINE s == up[<<c, ch>>]
               t == up'[<<c, ch>>]
    <3>1. s \in Seq(nsbm) /\ <<c, ch>> \in Conn
      BY <1>0, ConnFacts
    <3>2. PICK n \in 0 .. Len(s) : t = SubSeq(s, n + 1, Len(s))
      BY <1>2, <3>1, DaemonTakes DEF Suffix
    <3>3. i + n \in DOMAIN s /\ t[i] = s[i + n]
      BY <2>1, <3>1, <3>2, SuffixElements
    <3> QED BY <3>3 DEF KindInv, AsksRight
  <2>2. CallsRight'
    BY <1>2 DEF KindInv, CallsRight, clientVars
  <2> QED BY <2>1, <2>2 DEF KindInv, AsksRight
<1>3. ASSUME NEW c \in Client, ClientNext(c) PROVE KindInv'
  <2>1. PICK to : /\ pc' = pc \/ pc' = [pc EXCEPT ![c] = to]
                  /\ to = "recvWait" => IsApp(c)
                  /\ to = "fetchWait" => ~IsApp(c)
    BY <1>3, ClientAsks
  <2>2. CallsRight'
    BY <1>0, <2>1 DEF KindInv, CallsRight
  <2>3. CASE up' = up
    BY <2>2, <2>3 DEF KindInv, AsksRight
  <2>4. ASSUME NEW ch \in Channel, NEW m, Asked(c, ch, m), SendMessage(c, ch, m)
        PROVE  AsksRight'
    <3>1. up' = up \/ up' = [up EXCEPT ![<<c, ch>>] = Append(@, m)]
      BY <2>4 DEF SendMessage, UpAfterSend
    <3>2. ASSUME NEW d \in Client, NEW h \in Channel, NEW i \in DOMAIN up'[<<d, h>>]
          PROVE  Asked(d, h, up'[<<d, h>>][i])
      <4>1. <<d, h>> \in Conn /\ <<c, ch>> \in Conn /\ up[<<d, h>>] \in Seq(nsbm)
        BY <1>0, ConnFacts
      <4>2. CASE up'[<<d, h>>] = up[<<d, h>>]
        BY <3>2, <4>2 DEF KindInv, AsksRight
      <4>3. CASE d = c /\ h = ch /\ up'[<<d, h>>] = Append(up[<<d, h>>], m)
        <5>1. PICK s : s = up[<<d, h>>]
          OBVIOUS
        <5>2. s \in Seq(nsbm \cup {m})
          BY <4>1, <5>1
        <5>3. i = Len(s) + 1 \/ i \in DOMAIN s
          BY <3>2, <4>3, <5>1, <5>2
        <5>4. /\ i \in DOMAIN s => Append(s, m)[i] = s[i]
              /\ Append(s, m)[Len(s) + 1] = m
          BY <5>2
        <5> QED BY <2>4, <4>3, <5>1, <5>3, <5>4 DEF KindInv, AsksRight
      <4>4. (d = c /\ h = ch) \/ <<d, h>> # <<c, ch>>
        OBVIOUS
      <4> QED BY <1>0, <3>1, <4>1, <4>2, <4>3, <4>4
    <3> QED BY <3>2 DEF AsksRight
  <2> QED BY <1>3, <2>2, <2>3, <2>4, ClientAsks DEF KindInv
<1> QED BY <1>1, <1>2, <1>3 DEF Next

(* At the start nothing was asked. *)
LEMMA KindInvInit == Init => KindInv
<1> SUFFICES ASSUME Init PROVE KindInv
  OBVIOUS
<1>1. \A c \in Client : \A ch \in Channel : up[<<c, ch>>] = <<>>
  BY ConnFacts DEF Init, SocketsInit
<1>2. AsksRight
  BY <1>1 DEF AsksRight
<1>3. CallsRight
  BY DEF Init, ClientInit, CallsRight
<1> QED BY <1>2, <1>3 DEF KindInv

-----------------------------------------------------------------------------
(* Registration.  A client that is not used before its INIT was answered    *)
(* has one request or one answer on its CTRL channel while it waits, so it  *)
(* runs on the daemon's configuration and only if it was not refused.       *)

(* No C++ client goes on without the answer to its INIT. *)
NoBlindStart == MaxTimeouts = 0 \/ \A c \in Client : Impl[c] = "py"

CtrlUp(c) == up[<<c, "CTRL">>]
CtrlDown(c) == down[<<c, "CTRL">>]

StartRight(c) ==
    /\ pc[c] \in {"connect", "init"} => CtrlUp(c) = <<>> /\ CtrlDown(c) = <<>>
    /\ pc[c] = "initWait" =>
          \/ CtrlUp(c) = <<>> /\ CtrlDown(c) \in {<<>>, <<InitReply(TRUE)>>, <<InitReply(FALSE)>>}
          \/ CtrlUp(c) = <<IntroMessage(c)>> /\ CtrlDown(c) = <<>>
    /\ Admitted(c) => cfg[c] = DaemonConfig

(* Let in by the daemon, whether the client knows it yet or not. *)
Granted(c) == Admitted(c) \/ (pc[c] = "initWait" /\ CtrlDown(c) = <<InitReply(TRUE)>>)

OneGrant ==
    SimulatorMode = "SYSTEM_WIDE" =>
          /\ \A c, d \in OfKind("SIM_CLIENT") : Granted(c) /\ Granted(d) => c = d
          /\ \A c \in OfKind("SIM_CLIENT") : Granted(c) => DOMAIN sim_client_lookup # {}

StartInv == TypeInv /\ (\A c \in Client : StartRight(c)) /\ OneGrant

(* A message that is read alone is parsed as it was written. *)
LEMMA ParseOne ==
    ASSUME NEW m \in nsbm
    PROVE  Parse(<<m>>) = m
<1>1. /\ [i \in DOMAIN <<m>> |-> <<m>>[i].op] = <<m.op>>
      /\ [i \in DOMAIN <<m>> |-> <<m>>[i].og] = <<m.og>>
      /\ [i \in DOMAIN <<m>> |-> <<m>>[i].code] = <<m.code>>
      /\ [i \in DOMAIN <<m>> |-> <<m>>[i].metadata.src] = <<m.metadata.src>>
      /\ [i \in DOMAIN <<m>> |-> <<m>>[i].metadata.dest] = <<m.metadata.dest>>
      /\ [i \in DOMAIN <<m>> |-> <<m>>[i].body] = <<m.body>>
  OBVIOUS
<1>2. (\E i \in DOMAIN <<m>> : <<m>>[i].metadata.has) = m.metadata.has
  <2>1. m.metadata.has \in BOOLEAN
    BY DEF nsbm, Metadata
  <2>2. \A i \in DOMAIN <<m>> : <<m>>[i] = m
    OBVIOUS
  <2>3. 1 \in DOMAIN <<m>>
    OBVIOUS
  <2> QED BY <2>1, <2>2, <2>3, Zenon
<1>3. Parse(<<m>>) = [op |-> m.op, og |-> m.og, code |-> m.code,
                      metadata |-> [has |-> m.metadata.has, src |-> m.metadata.src, dest |-> m.metadata.dest],
                      body |-> m.body]
  BY <1>1, <1>2, LastSetOne DEF Parse
<1>4. m.metadata = [has |-> m.metadata.has, src |-> m.metadata.src, dest |-> m.metadata.dest]
  BY DEF nsbm, Metadata
<1> QED BY <1>3, <1>4 DEF nsbm

(* A read of a stream of one message takes it. *)
LEMMA ReadOne ==
    ASSUME NEW m \in nsbm, NEW n \in 1 .. Len(<<m>>)
    PROVE  Parse(Read(<<m>>, n)) = m /\ Unread(<<m>>, n) = <<>>
<1>1. n = 1
  OBVIOUS
<1>2. Read(<<m>>, n) = <<m>>
  <2>1. Read(<<m>>, n) \in Seq(nsbm) /\ Len(Read(<<m>>, n)) = 1 /\ Read(<<m>>, n)[1] = m
    BY <1>1 DEF Read
  <2> HIDE DEF Read
  <2> QED BY <2>1
<1>3. Unread(<<m>>, n) = <<>>
  BY <1>1 DEF Unread
<1> QED BY <1>2, <1>3, ParseOne

(* The messages of a registration. *)
LEMMA StartMessages ==
    /\ InitReply(TRUE) \in nsbm /\ InitReply(FALSE) \in nsbm
    /\ \A b \in BOOLEAN : InitReply(b).op = "INIT" /\ InitReply(b).body.kind = "config"
    /\ InitReply(TRUE).code = "SUCCESS" /\ InitReply(FALSE).code = "FAILURE"
    /\ \A c \in Client : /\ IntroMessage(c) \in nsbm /\ IntroMessage(c).op = "INIT"
                         /\ IntroMessage(c).og = Orig[c] /\ IntroMessage(c).code = "SUCCESS"
<1>1. [kind |-> "config", val |-> NoValue] \in Body
  BY MessageTypes DEF Body
<1>2. Bare("INIT", "DAEMON", "SUCCESS") \in nsbm /\ Bare("INIT", "DAEMON", "FAILURE") \in nsbm
  BY MessageTypes DEF Op, Og, Code
<1>3. InitReply(TRUE) \in nsbm /\ InitReply(FALSE) \in nsbm
  BY <1>1, <1>2 DEF InitReply, nsbm
<1>4. /\ \A b \in BOOLEAN : InitReply(b).op = "INIT" /\ InitReply(b).body.kind = "config"
      /\ InitReply(TRUE).code = "SUCCESS" /\ InitReply(FALSE).code = "FAILURE"
  BY DEF InitReply, Bare
<1>5. \A c \in Client : IntroMessage(c) \in nsbm
  BY BareTypes DEF Op
<1>6. \A c \in Client : /\ IntroMessage(c).op = "INIT"
                        /\ IntroMessage(c).og = Orig[c] /\ IntroMessage(c).code = "SUCCESS"
  BY DEF IntroMessage, Bare
<1> QED BY <1>3, <1>4, <1>5, <1>6

(* A client step leaves the CTRL channels of the others alone. *)
CtrlKept(d) ==
      /\ CtrlUp(d)' = CtrlUp(d) /\ CtrlDown(d)' = CtrlDown(d)
      /\ pc'[d] = pc[d] /\ cfg'[d] = cfg[d]

LEMMA OtherCtrlKept ==
    ASSUME TypeInv, NEW c \in Client, ClientNext(c), NEW d \in Client, d # c
    PROVE  CtrlKept(d)
<1>0. /\ up \in [Conn -> Seq(nsbm)] /\ down \in [Conn -> Seq(nsbm)]
      /\ pc \in [Client -> PcState] /\ cfg \in [Client -> Config]
  BY DEF TypeInv, TypeOK, SocketsTypeOK, ClientTypeOK
<1>1. \A ch \in Channel : <<c, ch>> \in Conn /\ <<d, "CTRL">> \in Conn /\ <<d, "CTRL">> # <<c, ch>>
  BY ConnFacts DEF Channel
<1>2. up'[<<d, "CTRL">>] = up[<<d, "CTRL">>]
  <2>1. up' = up \/ \E ch \in Channel : \E m : SendMessage(c, ch, m)
    BY ClientAsks
  <2> QED BY <1>0, <1>1, <2>1 DEF SendMessage, UpAfterSend
<1>3. pc'[d] = pc[d]
  BY <1>0, ClientAsks
<1>4. cfg' = cfg \/ cfg' = [cfg EXCEPT ![c] = DaemonConfig]
  BY DEF ClientNext, ConnectChannel, ConnectFails, Close, BrokenPipe, initialize, InitTimeout, ping, exit,
         WaitTimeout, WaitEof, Responded, InitReturn, PingReturn, ReceiveReturn, FetchReturn,
         send, receive, fetch, post
<1>5. cfg'[d] = cfg[d]
  BY <1>0, <1>4
<1>6. \/ down' = down
      \/ \E ch \in Channel : \E n : TakeFrom(c, ch, n)
      \/ \E s : CloseConnections(c, s)
  <2>1. CASE Responded(c)
    BY <2>1 DEF Responded, InitReturn, PingReturn, ReceiveReturn, FetchReturn, Channel
  <2>2. CASE ConnectFails(c) \/ Close(c) \/ BrokenPipe(c)
    BY <2>2 DEF ConnectFails, Close, BrokenPipe
  <2>3. CASE InitTimeout(c) \/ WaitEof(c)
    BY <2>3 DEF InitTimeout, WaitEof
  <2>4. CASE \/ \E ch \in Channel : ConnectChannel(c, ch)
             \/ initialize(c) \/ ping(c) \/ exit(c) \/ WaitTimeout(c)
             \/ \E e \in SendTo[c] : send(c, e)
             \/ \E e \in ReceiveAs \cup {Ident[c]} : receive(c, e)
             \/ \E s \in FetchFrom : fetch(c, s)
             \/ \E e \in Network : post(c, e)
    BY <2>4 DEF ConnectChannel, initialize, ping, exit, WaitTimeout, send, receive, fetch, post,
                socketsButUp, socketVars
  <2> QED BY <2>1, <2>2, <2>3, <2>4 DEF ClientNext
<1>7. down'[<<d, "CTRL">>] = down[<<d, "CTRL">>]
  <2>1. ASSUME NEW ch \in Channel, NEW n, TakeFrom(c, ch, n) PROVE down'[<<d, "CTRL">>] = down[<<d, "CTRL">>]
    BY <1>0, <1>1, <2>1 DEF TakeFrom
  <2>2. ASSUME NEW s, CloseConnections(c, s) PROVE down'[<<d, "CTRL">>] = down[<<d, "CTRL">>]
    <3>1. <<d, "CTRL">> \in Conn /\ <<d, "CTRL">>[1] = d
      BY ConnFacts DEF Channel
    <3> QED BY <2>2, <3>1 DEF CloseConnections
  <2> QED BY <1>6, <2>1, <2>2
<1> QED BY <1>2, <1>3, <1>5, <1>7 DEF CtrlKept, CtrlUp, CtrlDown

(* The start of one client, over one step. *)
StartKept(c) == StartRight(c)' /\ (Granted(c)' => Granted(c))

(* A client that gives up. *)
LEMMA StartGone ==
    ASSUME NEW c \in Client, pc'[c] \in {"closed", "spin"}
    PROVE  StartKept(c)
  BY DEF StartKept, StartRight, Granted, Admitted

(* A client that was let in goes on. *)
LEMMA StartGoesOn ==
    ASSUME NEW c \in Client, StartRight(c), Admitted(c), Admitted(c)', cfg' = cfg
    PROVE  StartKept(c)
<1>1. cfg[c] = DaemonConfig
  BY DEF StartRight
<1>2. pc'[c] \notin {"connect", "init", "initWait"}
  BY DEF Admitted
<1>3. StartRight(c)'
  BY <1>1, <1>2 DEF StartRight
<1> QED BY <1>3 DEF StartKept, Granted

(* A client starts as it should, and lets itself in nowhere. *)
LEMMA ClientStart ==
    ASSUME NoBlindStart, TypeInv, NEW c \in Client, StartRight(c), ClientNext(c)
    PROVE  StartKept(c) /\ sim_client_lookup' = sim_client_lookup
<1> DEFINE k == <<c, "CTRL">>
           U == CtrlUp(c)
           D == CtrlDown(c)
<1>0. /\ up \in [Conn -> Seq(nsbm)] /\ down \in [Conn -> Seq(nsbm)] /\ k \in Conn
      /\ pc \in [Client -> PcState] /\ cfg \in [Client -> Config] /\ timeouts \in 0 .. MaxTimeouts
      /\ U \in Seq(nsbm) /\ D \in Seq(nsbm)
  BY ConnFacts DEF TypeInv, TypeOK, SocketsTypeOK, ClientTypeOK, Channel, CtrlUp, CtrlDown
<1>1. sim_client_lookup' = sim_client_lookup
  BY DEF ClientNext, ConnectChannel, ConnectFails, Close, BrokenPipe, initialize, InitTimeout, ping, exit,
         WaitTimeout, WaitEof, Responded, InitReturn, PingReturn, ReceiveReturn, FetchReturn,
         send, receive, fetch, post, daemonVars, lookupVars
<1> SUFFICES StartKept(c)
  BY <1>1
<1>2. CASE \E ch \in Channel : ConnectChannel(c, ch)
  <2>1. /\ pc[c] = "connect" /\ pc'[c] \in {"connect", "init"}
        /\ up' = up /\ down' = down
    BY <1>0, <1>2 DEF ConnectChannel, Goto
  <2> QED BY <2>1 DEF StartKept, StartRight, Granted, Admitted, CtrlUp, CtrlDown
<1>3. CASE ConnectFails(c) \/ Close(c) \/ BrokenPipe(c)
  <2>1. pc'[c] = "closed"
    BY <1>0, <1>3 DEF ConnectFails, Close, BrokenPipe, CloseConnections, Goto
  <2> QED BY <2>1, StartGone
<1>4. CASE initialize(c)
  <2>1. /\ pc[c] = "init" /\ pc'[c] = "initWait" /\ down' = down
        /\ SendMessage(c, "CTRL", IntroMessage(c))
    BY <1>0, <1>4 DEF initialize, Goto, socketsButUp
  <2>2. U = <<>> /\ D = <<>>
    BY <2>1 DEF StartRight
  <2>3. up'[k] = U \/ up'[k] = Append(U, IntroMessage(c))
    BY <1>0, <2>1 DEF SendMessage, UpAfterSend, CtrlUp
  <2>4. Append(<<>>, IntroMessage(c)) = <<IntroMessage(c)>>
    OBVIOUS
  <2>5. CtrlUp(c)' \in {<<>>, <<IntroMessage(c)>>} /\ CtrlDown(c)' = <<>>
    BY <2>1, <2>2, <2>3, <2>4 DEF CtrlUp, CtrlDown
  <2>6. <<>> # <<InitReply(TRUE)>>
    OBVIOUS
  <2> QED BY <2>1, <2>5, <2>6 DEF StartKept, StartRight, Granted, Admitted
<1>5. CASE InitTimeout(c)
  <2>1. Impl[c] = "py"
    BY <1>0, <1>5 DEF InitTimeout, NoBlindStart
  <2>2. pc'[c] = "closed"
    BY <1>0, <1>5, <2>1 DEF InitTimeout, CloseConnections, Goto
  <2> QED BY <2>2, StartGone
<1>6. CASE ping(c) \/ exit(c)
  <2>1. pc[c] = "idle" /\ pc'[c] \in {"idle", "pingWait"} /\ cfg' = cfg
    BY <1>0, <1>6 DEF ping, exit, Goto
  <2>2. Admitted(c) /\ Admitted(c)'
    BY <2>1 DEF Admitted
  <2> QED BY <2>1, <2>2, StartGoesOn
<1>7. CASE WaitTimeout(c)
  <2>1. Admitted(c) /\ pc'[c] = "idle" /\ cfg' = cfg /\ up' = up
    BY <1>0, <1>7 DEF WaitTimeout, Goto, socketVars, Admitted
  <2>2. Admitted(c)'
    BY <2>1 DEF Admitted
  <2> QED BY <2>1, <2>2, StartGoesOn
<1>8. CASE WaitEof(c)
  <2>1. CASE pc'[c] \in {"closed", "spin"}
    BY <2>1, StartGone
  <2>2. CASE pc'[c] \notin {"closed", "spin"}
    <3>1. Admitted(c) /\ pc'[c] = "idle" /\ cfg' = cfg /\ up' = up
      BY <1>0, <1>8, <2>2 DEF WaitEof, WaitState, CloseConnections, Goto, Admitted
    <3>2. Admitted(c)'
      BY <3>1 DEF Admitted
    <3> QED BY <3>1, <3>2, StartGoesOn
  <2> QED BY <2>1, <2>2
<1>9. ASSUME NEW n, InitReturn(c, n) PROVE StartKept(c)
  <2>1. pc[c] = "initWait" /\ n \in 1 .. Len(D) /\ up' = up
    BY <1>9 DEF InitReturn, CtrlDown
  <2>2. PICK b \in BOOLEAN : D = <<InitReply(b)>> /\ U = <<>>
    <3>1. D # <<>>
      BY <2>1
    <3>2. D \in {<<InitReply(TRUE)>>, <<InitReply(FALSE)>>} /\ U = <<>>
      BY <2>1, <3>1 DEF StartRight
    <3> QED BY <3>2
  <2>3. InitReply(b) \in nsbm
    <3>1. b = TRUE \/ b = FALSE
      OBVIOUS
    <3> QED BY <3>1, StartMessages
  <2>4. Response(c, "CTRL", n) = InitReply(b)
    BY <2>1, <2>2, <2>3, ReadOne DEF Response, CtrlDown
  <2>5. InitReply(b).op = "INIT" /\ InitReply(b).body.kind = "config"
    BY StartMessages
  <2>6. CASE pc'[c] = "closed"
    BY <2>6, StartGone
  <2>7. CASE pc'[c] # "closed"
    <3>1. /\ InitReply(b).code = "SUCCESS" /\ cfg' = [cfg EXCEPT ![c] = DaemonConfig] /\ pc'[c] = "idle"
      BY <1>0, <1>9, <2>4, <2>5, <2>7 DEF InitReturn, CloseConnections, Goto
    <3>2. b = TRUE
      BY <3>1, StartMessages
    <3>3. Granted(c)
      BY <2>1, <2>2, <3>2 DEF Granted
    <3>4. cfg'[c] = DaemonConfig
      BY <1>0, <3>1
    <3> QED BY <3>1, <3>3, <3>4 DEF StartKept, StartRight, Admitted
  <2> QED BY <2>6, <2>7
<1>10. ASSUME NEW n, PingReturn(c, n) \/ ReceiveReturn(c, n) \/ FetchReturn(c, n)
       PROVE  StartKept(c)
  <2>1. Admitted(c) /\ pc'[c] = "idle" /\ cfg' = cfg /\ up' = up
    BY <1>0, <1>10 DEF PingReturn, ReceiveReturn, FetchReturn, socketsButDown, Goto, Admitted
  <2>2. Admitted(c)'
    BY <2>1 DEF Admitted
  <2> QED BY <2>1, <2>2, StartGoesOn
<1>11. CASE \/ \E d \in SendTo[c] : send(c, d)
            \/ \E d \in ReceiveAs \cup {Ident[c]} : receive(c, d)
            \/ \E s \in FetchFrom : fetch(c, s)
            \/ \E e \in Network : post(c, e)
  <2>1. Admitted(c) /\ pc'[c] \in {"idle", "recvWait", "fetchWait"} /\ cfg' = cfg
    BY <1>0, <1>11 DEF send, receive, fetch, post, Goto, Admitted
  <2>2. Admitted(c)'
    BY <2>1 DEF Admitted
  <2> QED BY <2>1, <2>2, StartGoesOn
<1> QED BY <1>2, <1>3, <1>4, <1>5, <1>6, <1>7, <1>8, <1>9, <1>10, <1>11 DEF ClientNext, Responded

(* The daemon reads a CTRL channel, or drops it, without an answer. *)
LEMMA StartUnanswered ==
    ASSUME NEW c \in Client, StartRight(c), UNCHANGED clientVars,
           CtrlUp(c)' \in {CtrlUp(c), <<>>}, CtrlDown(c)' = CtrlDown(c)
    PROVE  StartKept(c)
<1>1. pc' = pc /\ cfg' = cfg
  BY DEF clientVars
<1>2. Admitted(c)' = Admitted(c) /\ (Granted(c)' => Granted(c))
  BY <1>1 DEF Granted, Admitted
<1>3. StartRight(c)'
  BY <1>1, <1>2 DEF StartRight
<1> QED BY <1>2, <1>3 DEF StartKept

(* The daemon answers a client that waits for its INIT with the reply to it. *)
StartAnswered(c, f, n) ==
    /\ Incoming(f, n) = IntroMessage(c) /\ handle_init(f, n) /\ fd_table[f] = <<c, "CTRL">>
    /\ CtrlDown(c) = <<>> /\ CtrlDown(c)' = <<InitReply(TRUE)>>

LEMMA HandlerStart ==
    ASSUME TypeInv, SystemMode = "PULL", UNCHANGED clientVars,
           NEW f \in read_fds \cap OpenFds, NEW n \in 1 .. Len(up[fd_table[f]]), Handle(f, n),
           NEW c \in Client, StartRight(c)
    PROVE  StartRight(c)' /\ (Granted(c)' => Granted(c) \/ StartAnswered(c, f, n))
<1> DEFINE k == <<c, "CTRL">>
<1>0. /\ TypeOK /\ k \in Conn /\ pc' = pc /\ cfg' = cfg
      /\ up \in [Conn -> Seq(nsbm)] /\ down \in [Conn -> Seq(nsbm)]
  BY ConnFacts DEF TypeInv, TypeOK, SocketsTypeOK, Channel, clientVars
<1>1. Receive(f, n)
  BY <1>0, HandlersTyped
<1>2. fd_table[f] \in Conn /\ up' = [up EXCEPT ![fd_table[f]] = Unread(@, n)]
  BY <1>0, <1>1, ReadOutcome DEF Receive
<1>3. CASE fd_table[f] # k
  <2>1. CtrlUp(c)' = CtrlUp(c)
    BY <1>0, <1>2, <1>3 DEF CtrlUp
  <2>2. CtrlDown(c)' = CtrlDown(c)
    BY <1>0, <1>2, <1>3, HandlerWrites DEF CtrlDown
  <2> QED BY <2>1, <2>2, StartUnanswered DEF StartKept
<1>4. CASE fd_table[f] = k /\ pc[c] # "initWait"
  <2>1. up[k] # <<>>
    BY <1>0, <1>4
  <2>2. pc[c] \notin {"connect", "init", "initWait"}
    BY <1>4, <2>1 DEF StartRight, CtrlUp
  <2>3. Admitted(c)' = Admitted(c)
    BY <1>0 DEF Admitted
  <2> QED BY <1>0, <2>2, <2>3 DEF StartRight, Granted
<1>5. CASE fd_table[f] = k /\ pc[c] = "initWait"
  <2>1. up[k] = <<IntroMessage(c)>> /\ down[k] = <<>>
    <3>1. up[k] # <<>>
      BY <1>0, <1>5
    <3> QED BY <1>5, <3>1 DEF StartRight, CtrlUp, CtrlDown
  <2>2. IntroMessage(c) \in nsbm /\ IntroMessage(c).op = "INIT"
    BY StartMessages
  <2>3. n \in 1 .. Len(<<IntroMessage(c)>>)
    BY <1>5, <2>1
  <2>4. Incoming(f, n) = IntroMessage(c) /\ Unread(up[k], n) = <<>>
    BY <1>5, <2>1, <2>2, <2>3, ReadOne DEF Incoming
  <2>5. CtrlUp(c)' = <<>>
    BY <1>0, <1>2, <1>5, <2>4 DEF CtrlUp
  <2>6. handle_init(f, n)
    BY <2>2, <2>4 DEF Handle, handle_ping, handle_send, handle_fetch, handle_post, handle_receive, handle_exit
  <2>7. PICK b \in BOOLEAN : SocketSend(k, InitReply(b))
    BY <1>5, <2>6 DEF handle_init, Reply
  <2>8. CtrlDown(c)' \in {<<>>, <<InitReply(TRUE)>>, <<InitReply(FALSE)>>}
    <3>1. down'[k] = down[k] \/ down'[k] = Append(down[k], InitReply(b))
      BY <1>0, <2>7 DEF SocketSend
    <3>2. Append(<<>>, InitReply(b)) = <<InitReply(b)>>
      OBVIOUS
    <3>3. down'[k] \in {<<>>, <<InitReply(b)>>}
      BY <2>1, <3>1, <3>2
    <3>4. b = TRUE \/ b = FALSE
      OBVIOUS
    <3> QED BY <3>3, <3>4 DEF CtrlDown
  <2>9. ~Admitted(c)'
    BY <1>0, <1>5 DEF Admitted
  <2>10. StartRight(c)'
    BY <1>0, <1>5, <2>5, <2>8, <2>9 DEF StartRight
  <2>11. Granted(c)' => StartAnswered(c, f, n)
    BY <1>5, <2>1, <2>4, <2>6, <2>9 DEF Granted, StartAnswered, CtrlDown
  <2> QED BY <2>10, <2>11
<1> QED BY <1>3, <1>4, <1>5

(* No step of the daemon takes a simulator off its map. *)
LEMMA SimulatorsStay ==
    ASSUME NEW f, NEW n, Handle(f, n)
    PROVE  DOMAIN sim_client_lookup \subseteq DOMAIN sim_client_lookup'
<1>1. CASE handle_init(f, n)
  BY <1>1 DEF handle_init, emplace, lookupVars
<1>2. CASE ~handle_init(f, n)
  <2>1. sim_client_lookup' = sim_client_lookup
    BY <1>2 DEF Handle, handle_ping, handle_send, handle_fetch, handle_post, handle_receive, handle_exit,
                lookupVars
  <2> QED BY <2>1
<1> QED BY <1>1, <1>2

(* The simulator that is let in is the first one. *)
LEMMA FirstSimulator ==
    ASSUME SimulatorMode = "SYSTEM_WIDE", TypeInv, NEW f, NEW n, NEW c \in OfKind("SIM_CLIENT"),
           StartAnswered(c, f, n)
    PROVE  DOMAIN sim_client_lookup = {} /\ DOMAIN sim_client_lookup' # {}
<1> DEFINE k == <<c, "CTRL">>
<1>1. IntroMessage(c).og = "SIM_CLIENT" /\ down \in [Conn -> Seq(nsbm)] /\ k \in Conn
  BY StartMessages, ConnFacts DEF OfKind, TypeInv, TypeOK, SocketsTypeOK, Channel
<1>2. down[k] = <<>> /\ down'[k] = <<InitReply(TRUE)>>
  BY DEF StartAnswered, CtrlDown
<1>3. ~SocketSend(k, InitReply(FALSE))
  <2>1. Append(<<>>, InitReply(FALSE)) = <<InitReply(FALSE)>>
    OBVIOUS
  <2>2. InitReply(TRUE) # InitReply(FALSE)
    BY StartMessages
  <2>3. \A x, y : <<x>> # <<>> /\ (<<x>> = <<y>> => x = y)
    OBVIOUS
  <2>4. down'[k] # <<>> /\ down'[k] # <<InitReply(FALSE)>>
    BY <1>2, <2>2, <2>3, Zenon
  <2> QED BY <1>1, <1>2, <2>1, <2>4 DEF SocketSend
<1>4. Incoming(f, n).og = "SIM_CLIENT" /\ handle_init(f, n) /\ fd_table[f] = k
  BY <1>1 DEF StartAnswered
<1>5. PICK d : sim_client_lookup' = emplace(sim_client_lookup, SimulatorKey(d), Details(d)) /\ SimulatorAllowed
  BY <1>3, <1>4 DEF handle_init, Reply
<1> QED BY <1>5 DEF SimulatorAllowed, emplace

(* StartInv is inductive, where no daemon forwards to a descriptor that a *)
(* CTRL channel may have taken over.                                      *)
LEMMA StartInvStep ==
    ASSUME SystemMode = "PULL", NoBlindStart, StartInv, [Next]_vars
    PROVE  StartInv'
<1>0. TypeInv /\ (\A c \in Client : StartRight(c)) /\ OneGrant
  BY DEF StartInv
<1>1. TypeInv'
  BY <1>0, TypeInvStep
<1>2. ASSUME \A c \in Client : StartKept(c), DOMAIN sim_client_lookup \subseteq DOMAIN sim_client_lookup'
      PROVE  (\A c \in Client : StartRight(c)') /\ OneGrant'
  BY <1>0, <1>2 DEF StartKept, OneGrant, OfKind
<1>3. CASE UNCHANGED vars
  BY <1>0, <1>1, <1>3 DEF vars, socketVars, clientVars, daemonVars, lookupVars, StartInv, StartRight, OneGrant,
                          Granted, Admitted, CtrlUp, CtrlDown
<1>4. ASSUME NEW c \in Client, ClientNext(c) PROVE StartInv'
  <2>1. StartKept(c) /\ sim_client_lookup' = sim_client_lookup
    BY <1>0, <1>4, ClientStart
  <2>2. ASSUME NEW d \in Client, d # c PROVE StartKept(d)
    <3>1. CtrlKept(d)
      BY <1>0, <1>4, <2>2, OtherCtrlKept
    <3> QED BY <1>0, <3>1 DEF CtrlKept, StartKept, StartRight, Granted, Admitted
  <2>3. \A d \in Client : StartKept(d)
    BY <2>1, <2>2
  <2> QED BY <1>1, <1>2, <2>1, <2>3 DEF StartInv
<1>5. CASE DaemonNext /\ UNCHANGED clientVars
  <2>0. up \in [Conn -> Seq(nsbm)] /\ \A c \in Client : <<c, "CTRL">> \in Conn
    BY <1>0, ConnFacts DEF TypeInv, TypeOK, SocketsTypeOK, Channel
  <2>1. ASSUME NEW f \in read_fds \cap OpenFds, NEW n \in 1 .. Len(up[fd_table[f]]), Handle(f, n)
        PROVE  StartInv'
    <3>1. \A c \in Client : StartRight(c)' /\ (Granted(c)' => Granted(c) \/ StartAnswered(c, f, n))
      BY <1>0, <1>5, <2>1, HandlerStart
    <3>2. DOMAIN sim_client_lookup \subseteq DOMAIN sim_client_lookup'
      BY <2>1, SimulatorsStay
    <3>3. ASSUME SimulatorMode = "SYSTEM_WIDE", NEW c \in OfKind("SIM_CLIENT"), Granted(c)'
          PROVE  DOMAIN sim_client_lookup' # {}
      <4>1. Granted(c) \/ StartAnswered(c, f, n)
        BY <3>1, <3>3 DEF OfKind
      <4>2. CASE Granted(c)
        BY <1>0, <3>2, <3>3, <4>2 DEF OneGrant
      <4>3. CASE StartAnswered(c, f, n)
        BY <1>0, <3>3, <4>3, FirstSimulator
      <4> QED BY <4>1, <4>2, <4>3
    <3>4. ASSUME SimulatorMode = "SYSTEM_WIDE",
                 NEW c \in OfKind("SIM_CLIENT"), NEW d \in OfKind("SIM_CLIENT"), Granted(c)', Granted(d)'
          PROVE  c = d
      <4>1. /\ Granted(c) \/ StartAnswered(c, f, n)
            /\ Granted(d) \/ StartAnswered(d, f, n)
        BY <3>1, <3>4 DEF OfKind
      <4>2. CASE Granted(c) /\ Granted(d)
        BY <1>0, <3>4, <4>2 DEF OneGrant
      <4>3. CASE StartAnswered(c, f, n) /\ StartAnswered(d, f, n)
        BY <4>3 DEF StartAnswered
      <4>4. ASSUME NEW x \in OfKind("SIM_CLIENT"), NEW y \in OfKind("SIM_CLIENT"),
                   Granted(x), StartAnswered(y, f, n)
            PROVE  FALSE
        <5>1. DOMAIN sim_client_lookup # {}
          BY <1>0, <3>4, <4>4 DEF OneGrant
        <5> QED BY <1>0, <3>4, <4>4, <5>1, FirstSimulator
      <4> QED BY <4>1, <4>2, <4>3, <4>4
    <3>5. OneGrant'
      BY <3>3, <3>4 DEF OneGrant, OfKind
    <3> QED BY <1>1, <3>1, <3>5 DEF StartInv
  <2>2. ASSUME NEW f \in read_fds \cap OpenFds, Disconnect(f) PROVE StartInv'
    <3>1. down' = down /\ sim_client_lookup' = sim_client_lookup
          /\ up' = [up EXCEPT ![fd_table[f]] = <<>>]
      BY <2>2 DEF Disconnect, lookupVars
    <3>2. ASSUME NEW c \in Client PROVE StartKept(c)
      <4>1. CtrlUp(c)' \in {CtrlUp(c), <<>>} /\ CtrlDown(c)' = CtrlDown(c)
        BY <2>0, <3>1 DEF CtrlUp, CtrlDown
      <4> QED BY <1>0, <1>5, <4>1, StartUnanswered
    <3> QED BY <1>1, <1>2, <3>1, <3>2 DEF StartInv
  <2>3. CASE Select \/ Accept \/ Shutdown
    <3>1. down' = down /\ sim_client_lookup' = sim_client_lookup /\ up' = up
      BY <2>3 DEF Select, Accept, Shutdown, socketVars, lookupVars
    <3>2. ASSUME NEW c \in Client PROVE StartKept(c)
      <4>1. CtrlUp(c)' \in {CtrlUp(c), <<>>} /\ CtrlDown(c)' = CtrlDown(c)
        BY <3>1 DEF CtrlUp, CtrlDown
      <4> QED BY <1>0, <1>5, <4>1, StartUnanswered
    <3> QED BY <1>1, <1>2, <3>1, <3>2 DEF StartInv
  <2> QED BY <1>5, <2>1, <2>2, <2>3 DEF DaemonNext
<1> QED BY <1>3, <1>4, <1>5 DEF Next

(* At the start nobody was let in. *)
LEMMA StartInvInit == Init => StartInv
<1> SUFFICES ASSUME Init PROVE StartInv
  OBVIOUS
<1>1. TypeInv
  BY TypeInvInit
<1>2. ASSUME NEW c \in Client PROVE StartRight(c) /\ ~Granted(c)
  <2>1. pc[c] = "connect"
    BY DEF Init, ClientInit
  <2>2. CtrlUp(c) = <<>> /\ CtrlDown(c) = <<>>
    BY ConnFacts DEF Init, SocketsInit, CtrlUp, CtrlDown, Channel
  <2> QED BY <2>1, <2>2 DEF StartRight, Granted, Admitted
<1>3. OneGrant
  BY <1>2 DEF OneGrant, OfKind
<1> QED BY <1>1, <1>2, <1>3 DEF StartInv

(* In SYSTEM_WIDE PULL mode no two simulator clients are in use at a time, *)
(* however connections, introductions and refusals interleave, provided    *)
(* that no C++ client goes on after an INIT that was not answered in time. *)
THEOREM PullOneSimulator ==
    ASSUME SystemMode = "PULL", NoBlindStart
    PROVE  Spec => []OneSimulator
<1>1. Init => StartInv
  BY StartInvInit
<1>2. StartInv /\ [Next]_vars => StartInv'
  BY StartInvStep
<1>3. StartInv => OneSimulator
  BY DEF StartInv, OneGrant, OneSimulator, Granted
<1> QED BY <1>1, <1>2, <1>3, PTL DEF Spec

-----------------------------------------------------------------------------
(* The lookups.  A port leads to the descriptor of the connection that has  *)
(* it, or had it until its client left, as long as no port comes back:      *)
(* fd_lookup keeps the first descriptor of a port for ever.                 *)

FreshPorts == \A j, k \in Conn : j # k => PortChoice[j] \cap PortChoice[k] = {}

Leads(f, k) == fd_table[f] = k \/ client_end[k] = "closed"
RegisteredAs(details, S) ==
    \A ch \in Channel : details[ch] # NoFd => \E c \in S : Leads(details[ch], <<c, ch>>)

PortsOwn == \A k \in Conn : port[k] \in PortChoice[k] \cup {NoPort}
PortsLead == Alive => \A p \in DOMAIN fd_lookup : \E k \in Conn : port[k] = p /\ Leads(fd_lookup[p], k)

AppsNamed(i) == {c \in OfKind("APP_CLIENT") : Ident[c] = i}
SimsNamed(i) == {c \in OfKind("SIM_CLIENT") : SimulatorKey(c) = i}

RegInv == LinkInv /\ KindInv /\ PortsOwn /\ PortsLead /\ RegisteredRight

(* A descriptor that is dropped belonged to a client that has left. *)
LEMMA DroppedClosed ==
    ASSUME LinkInv, NEW f \in read_fds \cap OpenFds, Disconnect(f)
    PROVE  fd_table[f] \in Conn /\ client_end[fd_table[f]] = "closed"
<1>1. fd_table[f] \in Conn /\ Alive
  BY DEF LinkInv, TypeInv, TypeOK, SocketsTypeOK, OpenFds, Disconnect, Visit, Alive
<1>2. up[fd_table[f]] = <<>> \/ reset[fd_table[f]]
  BY DEF Disconnect
<1>3. up[fd_table[f]] # <<>> \/ client_end[fd_table[f]] = "closed" \/ reset[fd_table[f]]
  BY <1>1 DEF LinkInv, EndsKnown, Readable
<1> QED BY <1>1, <1>2, <1>3 DEF LinkInv, EndsKnown

(* accept() gives a descriptor that was free. *)
LEMMA LowestFreeIsFree ==
    ASSUME FreeFds # {}
    PROVE  LowestFree \in Fd /\ fd_table[LowestFree] = NoConn
<1>1. FreeFds \subseteq Nat
  BY SocketsAssumption DEF FreeFds, Fd
<1>2. \E g \in FreeFds : \A h \in FreeFds : g <= h
  BY <1>1, MinExists
<1>3. LowestFree \in FreeFds
  BY <1>2 DEF LowestFree
<1> QED BY <1>3 DEF FreeFds, OpenFds

(* While the daemon lives, a descriptor goes on leading where it led. *)
LEMMA LeadsOn ==
    ASSUME LinkInv, [Next]_vars, Alive'
    PROVE  /\ Alive
           /\ \A f \in Fd : \A k \in Conn : Leads(f, k) => Leads(f, k)'
<1>0. /\ TypeInv /\ SocketsTypeOK /\ fd_table \in [Fd -> Conn \cup {NoConn}]
      /\ client_end \in [Conn -> {"none", "open", "closed"}]
  BY DEF LinkInv, TypeInv, TypeOK, SocketsTypeOK
<1>1. CASE UNCHANGED vars
  BY <1>1 DEF vars, socketVars, daemonVars, Leads, Alive
<1>2. ASSUME NEW c \in Client, ClientNext(c)
      PROVE  Alive /\ \A f \in Fd : \A k \in Conn : Leads(f, k) => Leads(f, k)'
  <2>1. ASSUME NEW ch \in Channel, ConnectChannel(c, ch)
        PROVE  /\ UNCHANGED <<status, fd_table>>
               /\ \A k \in Conn : client_end[k] = "closed" => client_end'[k] = "closed"
    BY <1>0, <2>1, ConnFacts DEF ConnectChannel, daemonVars
  <2>2. CASE \A ch \in Channel : ~ConnectChannel(c, ch)
    <3>1. ClientEffect
      BY <1>2, <2>2, ClientEffects
    <3> QED BY <3>1 DEF ClientEffect, daemonVars, Leads, Alive
  <2> QED BY <2>1, <2>2 DEF Leads, Alive
<1>3. ASSUME DaemonNext, UNCHANGED clientVars
      PROVE  Alive /\ \A f \in Fd : \A k \in Conn : Leads(f, k) => Leads(f, k)'
  <2>1. CASE Select
    BY <2>1 DEF Select, socketVars, Leads, Alive
  <2>2. ASSUME NEW g \in read_fds \cap OpenFds, NEW n \in 1 .. Len(up[fd_table[g]]), Handle(g, n)
        PROVE  Alive /\ UNCHANGED <<fd_table, client_end>>
    <3>1. Receive(g, n) /\ SendOutcome
      BY <1>0, <1>3, <2>2, HandlersTyped
    <3>2. UNCHANGED client_end /\ Alive
      BY <1>0, <2>2, <3>1, ReadOutcome DEF TypeInv
    <3>3. fd_table' = fd_table
      BY <3>1 DEF SendOutcome, Alive
    <3> QED BY <3>2, <3>3
  <2>3. ASSUME NEW g \in read_fds \cap OpenFds, Disconnect(g)
        PROVE  Alive /\ \A f \in Fd : \A k \in Conn : Leads(f, k) => Leads(f, k)'
    <3>1. /\ fd_table' = [fd_table EXCEPT ![g] = NoConn] /\ client_end' = client_end /\ Alive
          /\ client_end[fd_table[g]] = "closed"
      BY <2>3, DroppedClosed DEF Disconnect, Visit, Alive
    <3> QED BY <1>0, <3>1 DEF Leads
  <2>4. CASE Accept
    <3>1. Alive /\ client_end' = client_end
      BY <2>4 DEF Accept, Alive
    <3>2. CASE fd_table' = fd_table
      BY <3>1, <3>2 DEF Leads
    <3>3. CASE FreeFds # {} /\ fd_table' = [fd_table EXCEPT ![LowestFree] = Head(backlog)]
      <4>1. PICK g : g = LowestFree
        OBVIOUS
      <4>2. g \in Fd /\ fd_table[g] = NoConn /\ fd_table' = [fd_table EXCEPT ![g] = Head(backlog)]
        BY <3>3, <4>1, LowestFreeIsFree
      <4> QED BY <1>0, <3>1, <4>2, NoConnNotConn DEF Leads
    <3> QED BY <2>4, <3>2, <3>3 DEF Accept
  <2>5. CASE Shutdown
    BY <2>5 DEF Shutdown, Alive
  <2> QED BY <1>3, <2>1, <2>2, <2>3, <2>4, <2>5 DEF DaemonNext, Leads
<1> QED BY <1>1, <1>2, <1>3 DEF Next

(* What is read of client c names c as its writer, also in an introduction. *)
LEMMA ParsedIntro ==
    ASSUME TypeOK, AsksRight, NEW c \in Client, NEW ch \in Channel, NEW n \in 1 .. Len(up[<<c, ch>>]),
           NEW m, m = Parse(Read(up[<<c, ch>>], n))
    PROVE  m.og = Orig[c] /\ (m.body.kind = "intro" => m.body.val = <<c, 0>>)
<1>1. PICK s : s = up[<<c, ch>>]
  OBVIOUS
<1>2. s \in Seq(nsbm) /\ n \in 1 .. Len(s)
  BY <1>1, ConnFacts DEF TypeOK, SocketsTypeOK
<1>3. \A i \in DOMAIN s : s[i].og = Orig[c] /\ (s[i].body.kind = "intro" => s[i].body.val = <<c, 0>>)
  BY <1>1 DEF AsksRight, Asked
<1>4. PICK r : r = Read(s, n)
  OBVIOUS
<1>5. r \in Seq(nsbm) /\ r # <<>> /\ \A i \in 1 .. n : r[i] = s[i]
  BY <1>2, <1>4, SplitType DEF Read
<1>6. \A i \in DOMAIN r : i \in 1 .. n /\ i \in DOMAIN s
  BY <1>2, <1>4 DEF Read
<1> DEFINE Intros == {b \in Body : b.kind = "intro" => b.val = <<c, 0>>}
<1>7. \A i \in DOMAIN r : r[i] \in nsbm /\ r[i].og \in {Orig[c]}
                          /\ (r[i].body.kind = "intro" => r[i].body.val = <<c, 0>>)
  BY <1>3, <1>5, <1>6
<1>8. \A i \in DOMAIN r : r[i].body \in Intros
  BY <1>7 DEF nsbm
<1>9. NoBody \in Intros
  BY MessageTypes DEF NoBody, Body
<1> HIDE DEF Intros
<1> DEFINE qo == [i \in DOMAIN r |-> r[i].og]
           qb == [i \in DOMAIN r |-> r[i].body]
<1>10. qo \in Seq({Orig[c]}) /\ qo # <<>>
  BY <1>5, <1>7
<1>11. qb \in Seq(Intros)
  BY <1>5, <1>8
<1>12. "DAEMON" \notin {Orig[c]}
  BY ClientAssumption
<1> HIDE DEF qo, qb
<1>13. LastSet(qo, "DAEMON") \in {Orig[c]} /\ LastSet(qb, NoBody) \in Intros
  BY <1>9, <1>10, <1>11, <1>12, LastSetNoDefault, LastSetType
<1>14. m.og = LastSet(qo, "DAEMON") /\ m.body = LastSet(qb, NoBody)
  BY <1>1, <1>4 DEF Parse, qo, qb
<1> QED BY <1>13, <1>14 DEF Intros

(* The only change to the lookups is handle_init, which enters the details  *)
(* of the client that wrote the INIT under that client's name.              *)
LEMMA Registrations ==
    ASSUME TypeInv, KindInv, [Next]_vars
    PROVE  \/ UNCHANGED lookupVars
           \/ \E c \in OfKind("APP_CLIENT") :
                 /\ app_client_lookup' = emplace(app_client_lookup, Ident[c], Details(c))
                 /\ UNCHANGED sim_client_lookup
           \/ \E c \in OfKind("SIM_CLIENT") :
                 /\ sim_client_lookup' = emplace(sim_client_lookup, SimulatorKey(c), Details(c))
                 /\ UNCHANGED app_client_lookup
<1>0. TypeOK /\ AsksRight
  BY DEF TypeInv, KindInv
<1>1. CASE UNCHANGED vars
  BY <1>1 DEF vars, daemonVars
<1>2. ASSUME NEW c \in Client, ClientNext(c) PROVE UNCHANGED lookupVars
  BY <1>2 DEF ClientNext, ConnectChannel, ConnectFails, Close, BrokenPipe, initialize, InitTimeout,
              ping, exit, WaitTimeout, WaitEof, Responded, InitReturn, PingReturn, ReceiveReturn,
              FetchReturn, send, receive, fetch, post, daemonVars
<1>3. CASE Select \/ Accept \/ Shutdown \/ \E f \in read_fds \cap OpenFds : Disconnect(f)
  BY <1>3 DEF Select, Accept, Shutdown, Disconnect, lookupVars
<1>4. ASSUME NEW f \in read_fds \cap OpenFds, NEW n \in 1 .. Len(up[fd_table[f]]), Handle(f, n),
             ~handle_init(f, n)
      PROVE  UNCHANGED lookupVars
  BY <1>4 DEF Handle, handle_ping, handle_send, handle_fetch, handle_post, handle_receive, handle_exit
<1>5. ASSUME NEW f \in read_fds \cap OpenFds, NEW n \in 1 .. Len(up[fd_table[f]]), handle_init(f, n)
      PROVE  \/ UNCHANGED lookupVars
             \/ \E c \in OfKind("APP_CLIENT") :
                  /\ app_client_lookup' = emplace(app_client_lookup, Ident[c], Details(c))
                  /\ UNCHANGED sim_client_lookup
             \/ \E c \in OfKind("SIM_CLIENT") :
                  /\ sim_client_lookup' = emplace(sim_client_lookup, SimulatorKey(c), Details(c))
                  /\ UNCHANGED app_client_lookup
  <2>1. fd_table[f] \in Conn
    BY <1>0 DEF TypeOK, SocketsTypeOK, OpenFds
  <2>2. PICK c \in Client, ch \in Channel : fd_table[f] = <<c, ch>>
    BY <2>1 DEF Conn
  <2>3. PICK m : m = Incoming(f, n)
    OBVIOUS
  <2>4. m.body.kind = "intro"
    BY <1>5, <2>3 DEF handle_init
  <2>5. m.og = Orig[c] /\ m.body.val = <<c, 0>>
    BY <1>0, <2>2, <2>3, <2>4, ParsedIntro DEF Incoming
  <2>6. m.body.val[1] = c
    BY <2>5
  <2>7. \/ UNCHANGED lookupVars
        \/ /\ m.og = "APP_CLIENT"
           /\ app_client_lookup' = emplace(app_client_lookup, Ident[c], Details(c))
           /\ UNCHANGED sim_client_lookup
        \/ /\ m.og = "SIM_CLIENT"
           /\ sim_client_lookup' = emplace(sim_client_lookup, SimulatorKey(c), Details(c))
           /\ UNCHANGED app_client_lookup
    BY <1>5, <2>3, <2>6 DEF handle_init
  <2> QED BY <2>5, <2>7 DEF OfKind
<1> QED BY <1>1, <1>2, <1>3, <1>4, <1>5 DEF Next, DaemonNext

(* fd_lookup goes on leading to the connections of its ports. *)
LEMMA PortsStep ==
    ASSUME LinkInv, PortsOwn, PortsLead, [Next]_vars
    PROVE  PortsOwn' /\ PortsLead'
<1>0. /\ TypeInv /\ SocketsTypeOK /\ DaemonTypeOK /\ DescriptorsConsistent
      /\ port \in [Conn -> Port \cup {NoPort}] /\ IsMap(fd_lookup, Port, Fd)
      /\ fd_table \in [Fd -> Conn \cup {NoConn}]
  BY DEF LinkInv, TypeInv, TypeOK, SocketsTypeOK, DaemonTypeOK
<1>1. ASSUME UNCHANGED <<port, fd_lookup>> PROVE PortsOwn' /\ PortsLead'
  <2>1. ASSUME Alive', NEW p \in DOMAIN fd_lookup
        PROVE  \E k \in Conn : port'[k] = p /\ Leads(fd_lookup[p], k)'
    <3>1. Alive /\ \A f \in Fd : \A k \in Conn : Leads(f, k) => Leads(f, k)'
      BY <2>1, LeadsOn
    <3>2. PICK k \in Conn : port[k] = p /\ Leads(fd_lookup[p], k)
      BY <2>1, <3>1 DEF PortsLead
    <3>3. fd_lookup[p] \in Fd
      BY <1>0 DEF IsMap
    <3>4. PICK f : f = fd_lookup[p]
      OBVIOUS
    <3>5. Leads(f, k)'
      BY <3>1, <3>2, <3>3, <3>4
    <3> QED BY <1>1, <3>2, <3>4, <3>5 DEF Leads
  <2> QED BY <1>1, <2>1 DEF PortsOwn, PortsLead, Leads
<1>2. ASSUME NEW c \in Client, NEW ch \in Channel, ConnectChannel(c, ch) PROVE PortsOwn' /\ PortsLead'
  <2> DEFINE k0 == <<c, ch>>
  <2>1. PICK q \in PortChoice[k0] : port' = [port EXCEPT ![k0] = q]
    BY <1>2 DEF ConnectChannel
  <2>2. /\ UNCHANGED <<fd_lookup, fd_table, status>> /\ client_end[k0] = "none" /\ k0 \in Conn
        /\ \A k \in Conn : client_end[k] = "closed" => client_end'[k] = "closed"
    <3>1. client_end \in [Conn -> {"none", "open", "closed"}] /\ k0 \in Conn
      BY <1>0, ConnFacts DEF SocketsTypeOK
    <3> QED BY <1>2, <3>1 DEF ConnectChannel, daemonVars
  <2>3. PortsOwn'
    BY <1>0, <2>1, <2>2 DEF PortsOwn
  <2>4. ASSUME Alive', NEW p \in DOMAIN fd_lookup
        PROVE  \E k \in Conn : port'[k] = p /\ Leads(fd_lookup[p], k)'
    <3>1. Alive
      BY <2>2, <2>4 DEF Alive
    <3>2. PICK k \in Conn : port[k] = p /\ Leads(fd_lookup[p], k)
      BY <2>4, <3>1 DEF PortsLead
    <3>3. ~ServerEnd(k0) /\ fd_lookup[p] \in Fd
      BY <1>0, <2>2, <3>1 DEF DescriptorsConsistent, ServerEndsRight, IsMap
    <3>4. k # k0
      BY <2>2, <3>2, <3>3 DEF ServerEnd, Leads
    <3>5. port'[k] = p
      BY <1>0, <2>1, <3>2, <3>4
    <3> QED BY <2>2, <3>2, <3>5 DEF Leads
  <2> QED BY <2>2, <2>3, <2>4 DEF PortsLead, Leads
<1>3. ASSUME Accept PROVE PortsOwn' /\ PortsLead'
  <2>1. port' = port /\ Alive /\ (accept_ready => backlog # <<>>) /\ accept_ready
    BY <1>0, <1>3 DEF Accept, Alive, DescriptorsConsistent, FlagsRight
  <2>2. CASE fd_lookup' = fd_lookup
    BY <1>1, <2>1, <2>2
  <2>3. CASE /\ FreeFds # {}
             /\ fd_table' = [fd_table EXCEPT ![LowestFree] = Head(backlog)]
             /\ fd_lookup' = emplace(fd_lookup, port[Head(backlog)], LowestFree)
    <3>1. PICK g : g = LowestFree
      OBVIOUS
    <3>2. PICK h : h = Head(backlog)
      OBVIOUS
    <3>3. g \in Fd /\ h \in Conn
      <4>1. backlog \in Seq(Conn) /\ backlog # <<>>
        BY <1>0, <2>1 DEF SocketsTypeOK
      <4> QED BY <2>3, <3>1, <3>2, <4>1, LowestFreeIsFree
    <3>4. /\ fd_table' = [fd_table EXCEPT ![g] = h]
          /\ fd_lookup' = emplace(fd_lookup, port[h], g)
      BY <2>3, <3>1, <3>2
    <3>5. fd_table'[g] = h
      BY <1>0, <3>3, <3>4
    <3>6. ASSUME Alive', NEW p \in DOMAIN fd_lookup'
          PROVE  \E k \in Conn : port'[k] = p /\ Leads(fd_lookup[p], k)'
      <4>1. CASE p \in DOMAIN fd_lookup
        <5>1. fd_lookup'[p] = fd_lookup[p] /\ fd_lookup[p] \in Fd
          BY <1>0, <3>4, <4>1 DEF emplace, IsMap
        <5>2. PICK k \in Conn : port[k] = p /\ Leads(fd_lookup[p], k)
          BY <2>1, <4>1 DEF PortsLead
        <5>3. PICK f : f = fd_lookup[p]
          OBVIOUS
        <5>4. Leads(f, k)'
          BY <3>6, <5>1, <5>2, <5>3, LeadsOn
        <5> QED BY <2>1, <5>1, <5>2, <5>3, <5>4 DEF Leads
      <4>2. CASE p \notin DOMAIN fd_lookup
        <5>1. p = port[h] /\ fd_lookup'[p] = g
          BY <3>4, <3>6, <4>2 DEF emplace
        <5> QED BY <2>1, <3>3, <3>5, <5>1 DEF Leads
      <4> QED BY <4>1, <4>2
    <3>7. PortsLead'
      BY <3>6 DEF PortsLead, Leads
    <3> QED BY <2>1, <3>7 DEF PortsOwn
  <2> QED BY <1>3, <2>2, <2>3 DEF Accept
<1>4. CASE UNCHANGED vars
  BY <1>1, <1>4 DEF vars, socketVars, daemonVars
<1>5. CASE Select \/ Shutdown \/ \E f \in read_fds \cap OpenFds : Disconnect(f)
  <2>1. UNCHANGED <<port, fd_lookup>>
    BY <1>5 DEF Select, Shutdown, Disconnect, socketVars
  <2> QED BY <1>1, <2>1
<1>6. ASSUME NEW f \in read_fds \cap OpenFds, NEW n \in 1 .. Len(up[fd_table[f]]), Handle(f, n)
      PROVE  UNCHANGED <<port, fd_lookup>>
  BY <1>6 DEF Handle, handle_init, handle_ping, handle_send, handle_fetch, handle_post, handle_receive,
              handle_exit, Receive
<1>7. ASSUME NEW c \in Client, ClientNext(c), \A ch \in Channel : ~ConnectChannel(c, ch)
      PROVE  UNCHANGED <<port, fd_lookup>>
  BY <1>7 DEF ClientNext, ConnectFails, Close, BrokenPipe, initialize, InitTimeout,
              ping, exit, WaitTimeout, WaitEof, Responded, InitReturn, PingReturn, ReceiveReturn,
              FetchReturn, send, receive, fetch, post, daemonVars, socketVars, socketsButUp, socketsButDown
<1> QED BY <1>1, <1>2, <1>3, <1>4, <1>5, <1>6, <1>7 DEF Next, DaemonNext

(* The descriptors of ClientDetails lead to the channels of the client. *)
LEMMA DetailsLead ==
    ASSUME FreshPorts, TypeInv, PortsOwn, PortsLead, Alive, NEW c \in Client, NEW ch \in Channel,
           Details(c)[ch] # NoFd
    PROVE  Leads(Details(c)[ch], <<c, ch>>)
<1>1. PICK p : p = port[<<c, ch>>]
  OBVIOUS
<1>2. p \in DOMAIN fd_lookup /\ Details(c)[ch] = fd_lookup[p]
  BY <1>1 DEF Details
<1>3. p # NoPort /\ <<c, ch>> \in Conn
  <2>1. p \in Port
    BY <1>2 DEF TypeInv, TypeOK, DaemonTypeOK, IsMap
  <2> QED BY <2>1, SocketsAssumption, ConnFacts
<1>4. PICK k \in Conn : port[k] = p /\ Leads(fd_lookup[p], k)
  BY <1>2 DEF PortsLead
<1>5. p \in PortChoice[k] /\ p \in PortChoice[<<c, ch>>]
  BY <1>1, <1>3, <1>4 DEF PortsOwn
<1>6. k = <<c, ch>>
  BY <1>3, <1>5 DEF FreshPorts
<1> QED BY <1>2, <1>4, <1>6

(* A map that gets an entry with emplace. *)
LEMMA EmplaceKeeps ==
    ASSUME NEW M, NEW x, NEW v, NEW i \in DOMAIN emplace(M, x, v)
    PROVE  \/ i \in DOMAIN M /\ emplace(M, x, v)[i] = M[i]
           \/ i = x /\ emplace(M, x, v)[i] = v
  BY DEF emplace

(* What was registered right still is after the step. *)
LEMMA RegisteredOn ==
    ASSUME LinkInv, [Next]_vars, Alive', NEW details \in ClientDetails, NEW S \in SUBSET Client,
           RegisteredAs(details, S)
    PROVE  RegisteredAs(details, S)'
<1> SUFFICES ASSUME NEW ch \in Channel, details[ch] # NoFd
             PROVE  \E c \in S : Leads(details[ch], <<c, ch>>)'
  BY DEF RegisteredAs
<1>1. PICK f : f = details[ch]
  OBVIOUS
<1>2. f \in Fd
  BY <1>1 DEF ClientDetails
<1>3. PICK c \in S : Leads(f, <<c, ch>>)
  BY <1>1 DEF RegisteredAs
<1>4. <<c, ch>> \in Conn
  BY ConnFacts
<1>5. Leads(f, <<c, ch>>)'
  BY <1>2, <1>3, <1>4, LeadsOn
<1> QED BY <1>1, <1>5

(* RegInv is inductive. *)
LEMMA RegInvStep ==
    ASSUME FreshPorts, RegInv, [Next]_vars
    PROVE  RegInv'
<1>0. LinkInv /\ TypeInv /\ KindInv /\ PortsOwn /\ PortsLead /\ RegisteredRight
  BY DEF RegInv, LinkInv
<1>1. LinkInv' /\ TypeInv' /\ KindInv' /\ PortsOwn' /\ PortsLead'
  BY <1>0, LinkInvStep, KindInvStep, PortsStep DEF LinkInv
<1>2. ASSUME Alive'
      PROVE  /\ \A i \in DOMAIN app_client_lookup' : RegisteredAs(app_client_lookup[i], AppsNamed(i))'
             /\ \A i \in DOMAIN sim_client_lookup' : RegisteredAs(sim_client_lookup[i], SimsNamed(i))'
  <2>1. Alive
    BY <1>0, <1>2, LeadsOn
  <2>2. /\ \A i \in DOMAIN app_client_lookup : RegisteredAs(app_client_lookup[i], AppsNamed(i))
        /\ \A i \in DOMAIN sim_client_lookup : RegisteredAs(sim_client_lookup[i], SimsNamed(i))
    BY <1>0, <2>1 DEF RegisteredRight, RegisteredAs, AppsNamed, SimsNamed, Leads
  <2>3. /\ \A i \in DOMAIN app_client_lookup' : app_client_lookup'[i] \in ClientDetails
        /\ \A i \in DOMAIN sim_client_lookup' : sim_client_lookup'[i] \in ClientDetails
    BY <1>1 DEF TypeInv, TypeOK, DaemonTypeOK, IsMap
  <2>4. ASSUME NEW c \in Client, NEW S, c \in S PROVE RegisteredAs(Details(c), S)
    BY <1>0, <2>1, <2>4, DetailsLead DEF RegisteredAs
  <2>5. /\ \A i \in DOMAIN app_client_lookup' : RegisteredAs(app_client_lookup'[i], AppsNamed(i))
        /\ \A i \in DOMAIN sim_client_lookup' : RegisteredAs(sim_client_lookup'[i], SimsNamed(i))
    <3>1. CASE UNCHANGED lookupVars
      BY <2>2, <3>1 DEF lookupVars
    <3>2. ASSUME NEW c \in OfKind("APP_CLIENT"),
                 app_client_lookup' = emplace(app_client_lookup, Ident[c], Details(c)),
                 NEW i \in DOMAIN app_client_lookup'
          PROVE  RegisteredAs(app_client_lookup'[i], AppsNamed(i))
      <4>1. c \in Client /\ c \in AppsNamed(Ident[c])
        BY DEF OfKind, AppsNamed
      <4>2. \/ i \in DOMAIN app_client_lookup /\ app_client_lookup'[i] = app_client_lookup[i]
            \/ i = Ident[c] /\ app_client_lookup'[i] = Details(c)
        BY <3>2, EmplaceKeeps
      <4>3. RegisteredAs(Details(c), AppsNamed(Ident[c]))
        BY <2>4, <4>1
      <4> QED BY <2>2, <4>2, <4>3
    <3>3. ASSUME NEW c \in OfKind("SIM_CLIENT"),
                 sim_client_lookup' = emplace(sim_client_lookup, SimulatorKey(c), Details(c)),
                 NEW i \in DOMAIN sim_client_lookup'
          PROVE  RegisteredAs(sim_client_lookup'[i], SimsNamed(i))
      <4>1. c \in Client /\ c \in SimsNamed(SimulatorKey(c))
        BY DEF OfKind, SimsNamed
      <4>2. \/ i \in DOMAIN sim_client_lookup /\ sim_client_lookup'[i] = sim_client_lookup[i]
            \/ i = SimulatorKey(c) /\ sim_client_lookup'[i] = Details(c)
        BY <3>3, EmplaceKeeps
      <4>3. RegisteredAs(Details(c), SimsNamed(SimulatorKey(c)))
        BY <2>4, <4>1
      <4> QED BY <2>2, <4>2, <4>3
    <3> QED BY <1>0, <2>2, <3>1, <3>2, <3>3, Registrations
  <2>6. ASSUME NEW i \in DOMAIN app_client_lookup'
        PROVE  RegisteredAs(app_client_lookup[i], AppsNamed(i))'
    <3>1. PICK d : d = app_client_lookup'[i]
      OBVIOUS
    <3>2. AppsNamed(i) \in SUBSET Client /\ d \in ClientDetails /\ RegisteredAs(d, AppsNamed(i))
      BY <2>3, <2>5, <3>1 DEF AppsNamed, OfKind
    <3>3. RegisteredAs(d, AppsNamed(i))'
      BY <1>0, <1>2, <3>2, RegisteredOn
    <3> QED BY <3>1, <3>3
  <2>7. ASSUME NEW i \in DOMAIN sim_client_lookup'
        PROVE  RegisteredAs(sim_client_lookup[i], SimsNamed(i))'
    <3>1. PICK d : d = sim_client_lookup'[i]
      OBVIOUS
    <3>2. SimsNamed(i) \in SUBSET Client /\ d \in ClientDetails /\ RegisteredAs(d, SimsNamed(i))
      BY <2>3, <2>5, <3>1 DEF SimsNamed, OfKind
    <3>3. RegisteredAs(d, SimsNamed(i))'
      BY <1>0, <1>2, <3>2, RegisteredOn
    <3> QED BY <3>1, <3>3
  <2> QED BY <2>6, <2>7
<1>3. RegisteredRight'
  BY <1>2 DEF RegisteredRight, RegisteredAs, AppsNamed, SimsNamed, Leads
<1> QED BY <1>1, <1>3 DEF RegInv

(* At the start there are no lookups. *)
LEMMA RegInvInit == Init => RegInv
<1> SUFFICES ASSUME Init PROVE RegInv
  OBVIOUS
<1>1. LinkInv /\ KindInv
  BY LinkInvInit, KindInvInit
<1>2. /\ DOMAIN fd_lookup = {} /\ DOMAIN app_client_lookup = {} /\ DOMAIN sim_client_lookup = {}
      /\ \A k \in Conn : port[k] = NoPort
  BY DEF Init, DaemonInit, SocketsInit, EmptyMap
<1>3. PortsOwn /\ PortsLead
  BY <1>2 DEF PortsOwn, PortsLead
<1>4. RegisteredRight
  BY <1>2 DEF RegisteredRight
<1> QED BY <1>1, <1>3, <1>4 DEF RegInv

(* In both modes and for any order of INIT, accept() and disconnects, what   *)
(* ClientDetails of the daemon takes from fd_lookup are the descriptors of   *)
(* the client that introduced itself, unless the system hands out a port     *)
(* again while the daemon runs.                                              *)
THEOREM Registered ==
    ASSUME FreshPorts
    PROVE  Spec => []RegisteredRight
<1>1. RegInv /\ [Next]_vars => RegInv'
  BY RegInvStep
<1>2. RegInv => RegisteredRight
  BY DEF RegInv
<1> QED BY <1>1, <1>2, RegInvInit, PTL DEF Spec
=============================================================================
