----------------------------- MODULE NsbSystem -----------------------------
(***************************************************************************)
(* The socket version of NSB put together: the daemon, the clients, and    *)
(* the properties of the whole.                                            *)
(***************************************************************************)
EXTENDS NsbClient

vars == <<socketVars, daemonVars, clientVars>>

Init == SocketsInit /\ DaemonInit /\ ClientInit

Next ==
    \/ DaemonNext /\ UNCHANGED clientVars
    \/ \E c \in Client : ClientNext(c)

Spec == Init /\ [][Next]_vars

TypeOK == SocketsTypeOK /\ DaemonTypeOK /\ ClientTypeOK

OfKind(og) == {c \in Client : Orig[c] = og}

Alive == status \in {"running", "stopping"}

-----------------------------------------------------------------------------
(* Connections and registrations.                                          *)

ChannelFdsRight ==
    /\ \A i, j \in DOMAIN channel_fds : channel_fds[i] = channel_fds[j] => i = j
    /\ {channel_fds[i] : i \in DOMAIN channel_fds} = OpenFds

FlagsRight == read_fds \subseteq OpenFds /\ (accept_ready => backlog # <<>>)

OneServerEnd ==
    /\ \A f, g \in OpenFds : fd_table[f] = fd_table[g] => f = g
    /\ \A i, j \in DOMAIN backlog : backlog[i] = backlog[j] => i = j
    /\ \A i \in DOMAIN backlog : \A f \in Fd : fd_table[f] # backlog[i]

ServerEndsRight ==
    \A k \in Conn : /\ client_end[k] = "open" => ServerEnd(k)
                    /\ client_end[k] = "none" => ~ServerEnd(k)

(* The daemon's records of its channels agree with the kernel's, through   *)
(* every order of connects, disconnects and reuse of descriptor numbers:   *)
(* channel_fds lists the open descriptors, each once; a connection has one *)
(* descriptor or waits once for accept(); one that its client holds open   *)
(* is never dropped; start_server never reads a closed descriptor and      *)
(* never calls accept() on an empty backlog.                               *)
DescriptorsConsistent ==
    Alive => ChannelFdsRight /\ FlagsRight /\ OneServerEnd /\ ServerEndsRight

Admitted(c) == pc[c] \in {"idle", "pingWait", "recvWait", "fetchWait"}

(* In SYSTEM_WIDE mode no two simulator clients are ever in use at a time: *)
(* handle_init refuses the second, and initialize() ends it.               *)
OneSimulator ==
    SimulatorMode = "SYSTEM_WIDE" =>
        \A c, d \in OfKind("SIM_CLIENT") : Admitted(c) /\ Admitted(d) => c = d

(* A descriptor that handle_init registered leads to the channel of that   *)
(* name of a client with that identifier, however INIT and the accept() of *)
(* its channels interleave, unless that client has left: PUSH mode         *)
(* forwards by these descriptors.                                          *)
RegisteredRight ==
    LET LeadTo(details, S) ==
            \A ch \in Channel : details[ch] # NoFd =>
                \E c \in S : fd_table[details[ch]] = <<c, ch>> \/ client_end[<<c, ch>>] = "closed"
    IN  Alive =>
          /\ \A i \in DOMAIN app_client_lookup :
                LeadTo(app_client_lookup[i], {c \in OfKind("APP_CLIENT") : Ident[c] = i})
          /\ \A i \in DOMAIN sim_client_lookup :
                LeadTo(sim_client_lookup[i], {c \in OfKind("SIM_CLIENT") : SimulatorKey(c) = i})

(* After a successful initialize() the daemon knows all three channels of  *)
(* an application client.  It does not hold: INIT may be served before     *)
(* they are accepted (README, "Seen while modelling").                     *)
FullyRegistered ==
    Alive => \A c \in OfKind("APP_CLIENT") : Admitted(c) =>
        \A ch \in Channel : app_client_lookup[Ident[c]][ch] # NoFd

(* No message of a client crashes or hangs the daemon, and it never        *)
(* answers one whose connection was reset.  It does not hold in PUSH mode, *)
(* where a SEND without a simulator crashes or hangs it, nor when a client *)
(* is destroyed while it is owed answers (SIGPIPE).  In PULL mode a client *)
(* that is refused, which closes at once, is not enough.                   *)
DaemonSurvives == status \notin {"crashed", "hung"}

-----------------------------------------------------------------------------
(* Where a payload is.  Every payload is sent once, so between send() and  *)
(* receive() it should be in one place at a time.                          *)

(* The payload a value stands for: a database key stands for what it stores. *)
Names(v, p) == IF IsKey(v) THEN db[v[2]] = p ELSE v = p

Carries(m, p) == m.body.kind \in {"payload", "msg_key"} /\ Names(m.body.val, p)

InStream(name, s, p) ==
    UNION {{<<name, k, i>> : i \in {j \in DOMAIN s[k] : Carries(s[k][j], p)}} : k \in Conn}

InBuffer(name, b, p) ==
    {<<name, NoConn, i>> : i \in {j \in DOMAIN b : Names(b[j].payload_obj, p)}}

InNetwork(p) == {<<"network", e, 0>> : e \in {x \in Network : x.payload_obj = p}}

AtReceiver(p) ==
    UNION {{<<"received", c, i>> :
              i \in {j \in DOMAIN received[c] : received[c][j].payload_obj = p}} : c \in Client}

Places(p) == InStream("up", up, p) \cup InBuffer("tx", tx_buffer, p)
             \cup InStream("down", down, p) \cup InNetwork(p)
             \cup InBuffer("rx", rx_buffer, p) \cup AtReceiver(p)

Sent(p) == p[2] <= nsent[p[1]]

(* No payload is ever duplicated, in the buffers, on the channels or at a  *)
(* receiver, and none appears that no application sent: what the find and  *)
(* erase of handle_fetch and handle_receive, the forwarding of PUSH mode   *)
(* and the repeated requests of clients that timed out could break.        *)
OnePlace ==
    \A p \in Payload : /\ Cardinality(Places(p)) <= 1
                       /\ Places(p) # {} => Sent(p)

(* While clients stay connected, the only step that loses a payload is a   *)
(* read that takes two or more messages off one channel and parses them as *)
(* one, in the daemon (start_server) or in a client (receiveMessage).      *)
LossOnlyByMerging ==
    [][\A p \in Payload :
          Places(p) # {} /\ Places(p)' = {} =>
              \E k \in Conn : \/ Len(up'[k]) + 2 <= Len(up[k])
                              \/ Len(down'[k]) + 2 <= Len(down[k])]_vars

(* In PULL mode, when no call is abandoned, a RECV channel carries one     *)
(* message while its client waits in fetch() or receive() and none at any  *)
(* other time, as long as the daemon lives: the daemon answers each        *)
(* request once, on the channel it came from, and requests and answers are *)
(* never merged.                                                           *)
Lockstep ==
    Alive => \A c \in Client : pc[c] # "closed" =>
        Len(up[<<c, "RECV">>]) + Len(down[<<c, "RECV">>])
            = IF pc[c] \in {"recvWait", "fetchWait"} THEN 1 ELSE 0

(* A simulator client gets the payloads of one source in the order they    *)
(* were sent: the buffers and the RECV channel never reorder them, however *)
(* many requests are outstanding.                                          *)
FetchOrder ==
    \A c \in Client : \A i, j \in DOMAIN fetched[c] :
        (i < j /\ fetched[c][i].payload_obj[1] = fetched[c][j].payload_obj[1])
            => fetched[c][i].payload_obj[2] < fetched[c][j].payload_obj[2]

(* An application gets what one simulator client posted to it in the order *)
(* of the post() calls.                                                    *)
ReceiveOrder ==
    \A c, s \in Client : \A i, j \in DOMAIN received[c] : \A k, l \in DOMAIN posted[s] :
        (/\ i < j /\ received[c][i] = posted[s][k] /\ received[c][j] = posted[s][l]
         /\ posted[s][k].destination = posted[s][l].destination) => k < l

(* What receive() gives an application that asks for its own messages is   *)
(* addressed to it: neither a buffer search nor a descriptor the daemon    *)
(* forwards to leads to another client.                                    *)
OwnMail ==
    \A c \in Client : \A i \in DOMAIN received[c] : received[c][i].destination = Ident[c]

(* receive(d) returns a payload for d, and fetch(s) one of source s: the   *)
(* answer a call takes off the RECV channel is the answer to that call.    *)
AnswersMatch ==
    [][\A c \in Client :
          /\ received'[c] # received[c] =>
                 received'[c][Len(received'[c])].destination = asked[c]
          /\ fetched'[c] # fetched[c] =>
                 asked[c] \in {"", fetched'[c][Len(fetched'[c])].source}]_vars

(* In PER_NODE mode a simulator client gets the payloads of its own node   *)
(* only.                                                                   *)
OwnNode ==
    \A c \in Client : \A i \in DOMAIN fetched[c] : fetched[c][i].source = Ident[c]

(* The refinement mapping to NsbBridge: how far payload p has come. *)
StreamsOf(places, og) == {x \in places : x[2][1] \in OfKind(og)}
Outgoing(p) == StreamsOf(InStream("up", up, p), "APP_CLIENT") \cup InBuffer("tx", tx_buffer, p)
               \cup StreamsOf(InStream("down", down, p), "SIM_CLIENT")
StageOf(p) ==
    IF AtReceiver(p) # {} THEN "delivered"
    ELSE IF InNetwork(p) # {} THEN "network"
    ELSE IF Outgoing(p) # {} THEN "outgoing"
    ELSE IF Places(p) # {} THEN "returning"
    ELSE IF Sent(p) THEN "lost" ELSE "unsent"

Bridge == INSTANCE NsbBridge WITH stage <- [p \in Payload |-> StageOf(p)]

(* Daemon and clients implement NsbBridge: a payload reaches an application *)
(* only through a simulator client and the simulated network, it does not   *)
(* go round twice, and what is lost never turns up again.                   *)
CrossesNetwork == Bridge!Spec

(* No payload that was sent is lost between send() and receive(). *)
NoLoss == \A p \in Payload : Sent(p) => Places(p) # {}

(* With a database, every key under way names a payload that is stored and *)
(* has not been checked out: send() and post() store before they hand out  *)
(* the key, and checkOut() is called once per key.                         *)
KeysResolve ==
    LET Resolves(v) == IsKey(v) /\ db[v[2]] # NoValue
        StreamResolves(s) == \A k \in Conn : \A i \in DOMAIN s[k] :
                                s[k][i].body.kind = "msg_key" => Resolves(s[k][i].body.val)
        BufferResolves(b) == \A i \in DOMAIN b : Resolves(b[i].payload_obj)
    IN  /\ StreamResolves(up) /\ StreamResolves(down)
        /\ BufferResolves(tx_buffer) /\ BufferResolves(rx_buffer)

-----------------------------------------------------------------------------
(* Liveness.  The daemon keeps running its loop, and what was sent to it   *)
(* arrives, so again and again a select() sees all of it.  A client that   *)
(* waits takes the answer when it is there.                                *)

SelectAll ==
    /\ Select
    /\ read_fds' = {f \in OpenFds : Readable(f)}
    /\ accept_ready' = (backlog # <<>>)

DaemonFairness ==
    /\ WF_vars(DaemonNext /\ UNCHANGED clientVars)
    /\ SF_vars(SelectAll /\ UNCHANGED clientVars)

WaitFairness == \A c \in Client : WF_vars(Responded(c)) /\ WF_vars(WaitEof(c))

(* The programs around the clients: applications call receive(), simulator *)
(* clients call fetch(), and the simulated network delivers all it gets.   *)
UseFairness ==
    /\ \A c \in OfKind("APP_CLIENT") : WF_vars(receive(c, Ident[c]))
    /\ \A c \in OfKind("SIM_CLIENT") : WF_vars(\E s \in FetchFrom : fetch(c, s))
                                        /\ SF_vars(\E e \in Network : post(c, e))

(* A payload that is not lost reaches an application, unless the daemon    *)
(* ends: no answer, no descriptor and no buffer entry is left behind by    *)
(* the select() loop.                                                      *)
Delivery ==
    \A p \in Payload : Sent(p) ~> (Places(p) = {} \/ AtReceiver(p) # {} \/ ~Alive)

(* A call that waits for the daemon returns. *)
WaitsEnd ==
    \A c \in Client : pc[c] \in WaitState \cup {"spin"} ~> pc[c] \notin WaitState \cup {"spin"}

(* An EXIT stops the daemon, whatever it is merged with on the CTRL        *)
(* channel, unless its client's host reset the connection.                 *)
ExitHeeded ==
    \A c \in Client :
        LET k == <<c, "CTRL">>
        IN  (status = "running" /\ \E i \in DOMAIN up[k] : up[k][i].op = "EXIT")
                ~> (status # "running" \/ reset[k])
=============================================================================
