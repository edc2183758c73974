----------------------------- MODULE NsbRabbit -----------------------------
(***************************************************************************)
(* The RabbitMQ version of NSB: its daemon, its broker and its clients.    *)
(* There are three client libraries (Impl):                                *)
(*   rmq      cpp/rabbit/src/NSB{,App,Sim}ClientRMQ.cpp, RabbitMQInterface *)
(*   unified  cpp/rabbit/src/NSBUnified.cpp with Backend::RABBITMQ         *)
(*   py       rabbit/nsb_rabbitmq.py                                       *)
(* A payload goes from send() to the RECV queue of its destination, and    *)
(* from post() to the RECV queue of the identifier the simulator names.    *)
(*                                                                         *)
(* The C++ libraries receive through a consumer without acknowledgement,   *)
(* which they cancel once they have a message.  What the broker delivered  *)
(* to the consumer by then has left the queue.  SimpleAmqpClient (external)*)
(* may hand it out at the next recv(), of whatever channel, or never.      *)
(***************************************************************************)
EXTENDS NsbRabbitDaemon

CONSTANTS
    Orig,           \* Orig[c]: APP_CLIENT or SIM_CLIENT
    Impl,           \* Impl[c]: rmq, unified or py
    UseDB,          \* the use_db of the daemon's configuration
    SendTo,         \* SendTo[c]: identifiers application c sends to
    PostTo,         \* PostTo[c]: identifiers simulator c posts to
    MayListen,      \* rmq clients that use listen()
    MaxStarts,      \* bound: MaxStarts[c], how often client c is started
    MaxTimeouts,    \* bound: waits that end by their timeout
    MaxPings        \* bound: ping() calls

ASSUME RabbitAssumption ==
    /\ Orig \in [Client -> {"APP_CLIENT", "SIM_CLIENT"}]
    /\ Impl \in [Client -> {"rmq", "unified", "py"}]
    /\ UseDB \in BOOLEAN
    /\ SendTo \in [Client -> SUBSET Identifier]
    /\ PostTo \in [Client -> SUBSET Identifier]
    /\ MayListen \subseteq {c \in Client : Impl[c] = "rmq"}
    /\ MaxStarts \in [Client -> Nat]
    /\ MaxTimeouts \in Nat /\ MaxPings \in Nat

VARIABLES
    pc,         \* where each client is
    step,       \* the next declaration of connect()
    inbox,      \* deliveries the client's AMQP library holds
    dead,       \* channels of Python clients that the broker closed
    nstarts, nsent, npings, timeouts,
    db,         \* the payload database: db[i] is stored under key <<"#", i>>
    got,        \* what receive(), fetch() or listen() gave each client
    posted      \* the payloads that simulators have posted

countVars == <<nstarts, nsent, npings, timeouts>>
clientVars == <<pc, step, inbox, dead, countVars, db, got, posted>>
vars == <<brokerVars, daemonVars, clientVars>>

WaitState == {"initWait", "pingWait", "recvWait"}
InUse == {"idle", "pingWait", "recvWait", "listening"}

(* What a receiving call hands to its caller, with the operation it came by. *)
Mail == [op : Op, source : Id, destination : Id, payload_obj : Value]

TypeOK ==
    /\ BrokerTypeOK /\ DaemonTypeOK
    /\ pc \in [Client -> {"off", "declare", "init", "failed"} \cup WaitState \cup InUse]
    /\ step \in [Client -> 0 .. 4]
    /\ inbox \in [Client -> Seq(nsbm)]
    /\ dead \in SUBSET (Client \X {"CTRL", "SEND"})
    /\ nstarts \in [Client -> Nat] /\ \A c \in Client : nstarts[c] <= MaxStarts[c]
    /\ nsent \in [Client -> 0 .. MaxSends]
    /\ npings \in 0 .. MaxPings
    /\ timeouts \in 0 .. MaxTimeouts
    /\ db \in Seq(Value)
    /\ got \in [Client -> Seq(Mail)]
    /\ posted \in SUBSET Value

Init ==
    /\ BrokerInit /\ DaemonInit
    /\ pc = [c \in Client |-> "off"]
    /\ step = [c \in Client |-> 0]
    /\ inbox = [c \in Client |-> <<>>]
    /\ dead = {}
    /\ nstarts = [c \in Client |-> 0]
    /\ nsent = [c \in Client |-> 0]
    /\ npings = 0
    /\ timeouts = 0
    /\ db = <<>>
    /\ got = [c \in Client |-> <<>>]
    /\ posted = {}

Goto(c, to) == pc' = [pc EXCEPT ![c] = to]

-----------------------------------------------------------------------------
(* RabbitMQInterface: send and recv.                                       *)

(* Faulty: the payload goes to the queue of its own client. *)
RoutingKeyFaulty(c, ch, d) ==
    IF ch = "CTRL" THEN RequestQueue ELSE IF ch = "SEND" /\ d # "" THEN RecvQueue(Ident[c])
    ELSE SendQueue(Ident[c])

RoutingKey(c, ch, d) ==
    IF ch = "CTRL" THEN RequestQueue ELSE IF ch = "SEND" /\ d # "" THEN RecvQueue(d)
    ELSE SendQueue(Ident[c])

(* send / _send_msg.  Without the exchange nothing is published: the C++     *)
(* call throws, and the broker closes the channel of the Python client, for  *)
(* good.                                                                     *)
Publish(c, ch, d, m) ==
    /\ queue' = IF exchange /\ <<c, ch>> \notin dead
                THEN Routed(queue, RoutingKey(c, ch, d), m) ELSE queue
    /\ dead' = IF ~exchange /\ Impl[c] = "py" THEN dead \cup {<<c, ch>>} ELSE dead
Published(c, ch) == IF Impl[c] = "py" THEN <<c, ch>> \notin dead' ELSE exchange

(* The queue a waiting call receives from. *)
WaitQueue(c) == IF pc[c] = "recvWait" THEN RecvQueue(Ident[c]) ELSE ResponseQueue(Ident[c])

(* The consumer of q is cancelled: n messages had been delivered to it and  *)
(* the first taken of all deliveries are consumed.  Faulty: the rest goes   *)
(* back to the end of the queue.                                            *)
CancelFaulty(c, q, n, taken) ==
    LET held == inbox[c] \o SubSeq(queue[q], 1, n)
    IN  /\ queue' = [queue EXCEPT ![q] = SubSeq(@, n + 1, Len(@)) \o SubSeq(held, taken + 1, Len(held))]
        /\ inbox' = [inbox EXCEPT ![c] = <<>>]

(* Faulty: what the consumer was given is still in the queue. *)
CancelRedelivers(c, q, n, taken) ==
    LET held == inbox[c] \o SubSeq(queue[q], 1, n)
    IN  /\ inbox' = [inbox EXCEPT ![c] = SubSeq(held, taken + 1, Len(held))]
        /\ UNCHANGED queue

Cancel(c, q, n, taken) ==
    LET held == inbox[c] \o SubSeq(queue[q], 1, n)
    IN  /\ queue' = [queue EXCEPT ![q] = SubSeq(@, n + 1, Len(@))]
        /\ \E rest \in {SubSeq(held, taken + 1, Len(held)), <<>>} :
              inbox' = [inbox EXCEPT ![c] = rest]

(* recv / _recv_msg returns m. *)
Recv(c, m) ==
    LET q == WaitQueue(c)
    IN  \/ /\ Impl[c] # "py"
           /\ \E n \in 0 .. Len(queue[q]) :
                 LET held == inbox[c] \o SubSeq(queue[q], 1, n)
                 IN  held # <<>> /\ m = Head(held) /\ Cancel(c, q, n, 1)
        \/ /\ Impl[c] = "py"                                   \* basic_get
           /\ queue[q] # <<>> /\ m = Head(queue[q])
           /\ queue' = [queue EXCEPT ![q] = Tail(@)]
           /\ UNCHANGED inbox
NextFor(c) == LET held == inbox[c] \o queue[WaitQueue(c)] IN IF held = <<>> THEN {} ELSE {Head(held)}

(* It gives up: a message may still reach the consumer before it is cancelled. *)
GiveUp(c) ==
    LET q == WaitQueue(c)
    IN  \/ /\ Impl[c] # "py" /\ inbox[c] = <<>>
           /\ \E n \in 0 .. Len(queue[q]) : Cancel(c, q, n, 0)
        \/ /\ Impl[c] = "py"
           /\ UNCHANGED <<queue, inbox>>

-----------------------------------------------------------------------------
(* NSBClient: connect, initialize, ping, exit.                             *)

(* A new client object, or a new process; its connection starts afresh. *)
Start(c) ==
    /\ pc[c] = "off" /\ nstarts[c] < MaxStarts[c]
    /\ nstarts' = [nstarts EXCEPT ![c] = @ + 1]
    /\ step' = [step EXCEPT ![c] = 0]
    /\ dead' = {x \in dead : x[1] # c}
    /\ Goto(c, "declare")
    /\ UNCHANGED <<brokerVars, daemonVars, inbox, nsent, npings, timeouts, db, got, posted>>

(* declare_exchange_and_queues, one declaration at a time. *)
DeclaredQueues(c) ==
    <<ResponseQueue(Ident[c]), SendQueue(Ident[c]), RecvQueue(Ident[c]), RequestQueue>>

Declare(c) ==
    /\ pc[c] = "declare"
    /\ \/ /\ step[c] = 0
          /\ exchange' = TRUE
          /\ UNCHANGED <<bound, queue>>
       \/ /\ step[c] > 0
          /\ DeclareAndBind(DeclaredQueues(c)[step[c]])
    /\ step' = [step EXCEPT ![c] = IF @ = 4 THEN 0 ELSE @ + 1]
    /\ Goto(c, IF step[c] = 4 THEN "init" ELSE "declare")
    /\ UNCHANGED <<daemonVars, inbox, dead, countVars, db, got, posted>>

(* The exchange is gone before a queue is bound.  C++ begins again, on a new *)
(* channel, until its timeout; Python retries failed connections only.       *)
DeclareFails(c) ==
    /\ pc[c] = "declare" /\ step[c] > 0 /\ ~exchange
    /\ \/ /\ Impl[c] # "py"
          /\ step' = [step EXCEPT ![c] = 0]
          /\ UNCHANGED <<pc, timeouts>>
       \/ /\ Impl[c] # "py" /\ timeouts < MaxTimeouts
          /\ timeouts' = timeouts + 1
          /\ Goto(c, "off")
          /\ UNCHANGED step
       \/ /\ Impl[c] = "py"
          /\ Goto(c, "off")
          /\ UNCHANGED <<step, timeouts>>
    /\ UNCHANGED <<brokerVars, daemonVars, inbox, dead, nstarts, nsent, npings, db, got, posted>>

(* Faulty: the operation is given for the code. *)
RequestCodeFaulty(c) == "INIT"

RequestCode(c) == IF Impl[c] = "rmq" THEN "CLIENT_REQUEST" ELSE "SUCCESS"
IntroMessage(c) ==
    [Bare("INIT", Orig[c], RequestCode(c)) EXCEPT !.body = [kind |-> "intro", val |-> <<c, 0>>]]

initialize(c) ==
    /\ pc[c] = "init"
    /\ Publish(c, "CTRL", "", IntroMessage(c))
    /\ Goto(c, IF Published(c, "CTRL") THEN "initWait" ELSE "failed")
    /\ UNCHANGED <<exchange, bound, daemonVars, step, inbox, countVars, db, got, posted>>

(* The response codes initialize() takes for a success. *)
AcceptedCodes(c) ==
    CASE Impl[c] = "rmq" -> {"DAEMON_RESPONSE"}
      [] Impl[c] = "unified" -> {"SUCCESS", "DAEMON_RESPONSE"}
      [] Impl[c] = "py" -> Code

InitReturn(c) ==
    /\ pc[c] = "initWait"
    /\ \E m \in NextFor(c) :
          /\ Recv(c, m)
          /\ Goto(c, IF /\ m.op = "INIT" /\ m.code \in AcceptedCodes(c)
                        /\ (Impl[c] = "py" => m.body.kind = "config")
                     THEN "idle" ELSE "failed")
    /\ UNCHANGED <<exchange, bound, daemonVars, step, dead, countVars, db, got, posted>>

(* The constructor or initialize() has thrown: the destructor of C++ sends  *)
(* EXIT, the connection closes.                                             *)
Destroy(c) ==
    /\ pc[c] = "failed"
    /\ IF Impl[c] = "py" THEN UNCHANGED <<queue, dead>>
                         ELSE Publish(c, "CTRL", "", Bare("EXIT", Orig[c], RequestCode(c)))
    /\ inbox' = [inbox EXCEPT ![c] = <<>>]
    /\ Goto(c, "off")
    /\ UNCHANGED <<exchange, bound, daemonVars, step, countVars, db, got, posted>>

exit(c) ==
    /\ pc[c] = "idle"
    /\ Publish(c, "CTRL", "", Bare("EXIT", Orig[c], RequestCode(c)))
    /\ inbox' = [inbox EXCEPT ![c] = <<>>]
    /\ Goto(c, "off")
    /\ UNCHANGED <<exchange, bound, daemonVars, step, countVars, db, got, posted>>

(* ping() of rmq does not wait for the answer. *)
ping(c) ==
    /\ pc[c] = "idle" /\ npings < MaxPings
    /\ npings' = npings + 1
    /\ Publish(c, "CTRL", "", Bare("PING", Orig[c], RequestCode(c)))
    /\ Goto(c, IF Impl[c] # "rmq" /\ Published(c, "CTRL") THEN "pingWait" ELSE "idle")
    /\ UNCHANGED <<exchange, bound, daemonVars, step, inbox, nstarts, nsent, timeouts, db, got, posted>>

(* Whatever comes is taken for the answer. *)
PingReturn(c) ==
    /\ pc[c] = "pingWait"
    /\ \E m \in NextFor(c) : Recv(c, m)
    /\ Goto(c, "idle")
    /\ UNCHANGED <<exchange, bound, daemonVars, step, dead, countVars, db, got, posted>>

WaitTimeout(c) ==
    /\ pc[c] \in WaitState
    /\ timeouts < MaxTimeouts
    /\ timeouts' = timeouts + 1
    /\ GiveUp(c)
    /\ Goto(c, IF pc[c] = "initWait" THEN "failed" ELSE "idle")
    /\ UNCHANGED <<exchange, bound, daemonVars, step, dead, nstarts, nsent, npings, db, got, posted>>

-----------------------------------------------------------------------------
(* NSBAppClient and NSBSimClient.                                          *)

(* setPayload: rmq knows no database; Python's post() puts the payload      *)
(* where the key belongs.                                                   *)
Stores(c, op) == UseDB /\ (Impl[c] = "unified" \/ (Impl[c] = "py" /\ op = "SEND"))
DataMessage(c, op, s, d, v) ==
    [op |-> op, og |-> Orig[c], code |-> "MESSAGE", metadata |-> Route(s, d),
     body |-> PayloadBody(UseDB /\ Impl[c] # "rmq",
                          IF Stores(c, op) THEN <<"#", Len(db) + 1>> ELSE v)]

send(c, d) ==
    LET v == <<c, nsent[c] + 1>>
    IN  /\ Orig[c] = "APP_CLIENT" /\ pc[c] = "idle" /\ nsent[c] < MaxSends
        /\ nsent' = [nsent EXCEPT ![c] = @ + 1]
        /\ Publish(c, "SEND", d, DataMessage(c, "SEND", Ident[c], d, v))
        /\ db' = IF Stores(c, "SEND") THEN Append(db, v) ELSE db
        /\ UNCHANGED <<exchange, bound, daemonVars, pc, step, inbox, nstarts, npings, timeouts, got, posted>>

(* The simulated network (external): what a simulator got, it may post.    *)
post(c, d) ==
    /\ Orig[c] = "SIM_CLIENT" /\ pc[c] = "idle"
    /\ \E i \in DOMAIN got[c] :
          LET e == got[c][i]
          IN  /\ e.payload_obj \notin posted
              /\ posted' = posted \cup {e.payload_obj}
              /\ Publish(c, "SEND", d, DataMessage(c, "POST", e.source, d, e.payload_obj))
              /\ db' = IF Stores(c, "POST") THEN Append(db, e.payload_obj) ELSE db
    /\ UNCHANGED <<exchange, bound, daemonVars, pc, step, inbox, countVars, got>>

(* receive() and fetch() only wait; there is no request. *)
receive(c) ==
    /\ pc[c] = "idle"
    /\ Goto(c, "recvWait")
    /\ UNCHANGED <<brokerVars, daemonVars, step, inbox, dead, countVars, db, got, posted>>

(* The operations the call lets through. *)
AcceptedOps(c) ==
    CASE Impl[c] = "rmq" -> Op
      [] Impl[c] = "unified" -> IF Orig[c] = "APP_CLIENT" THEN {"SEND", "RECEIVE", "FORWARD", "POST"}
                                                          ELSE {"SEND", "FETCH", "FORWARD"}
      [] Impl[c] = "py" -> {"SEND", "FORWARD"}

(* getPayload: a key is checked out of the database. *)
IsKey(v) == v[1] = "#" /\ v[2] \in DOMAIN db
ContentOf(c, m) ==
    LET v == PayloadOf(UseDB /\ Impl[c] # "rmq", m)
    IN  IF UseDB /\ Impl[c] # "rmq" THEN (IF IsKey(v) THEN db[v[2]] ELSE NoValue) ELSE v

(* m is handed to the caller, unless it is refused; it is gone either way. *)
HandOver(c, m) ==
    LET accepted == m.code = "MESSAGE" /\ m.op \in AcceptedOps(c)
        e == [op |-> m.op, source |-> m.metadata.src, destination |-> m.metadata.dest,
              payload_obj |-> ContentOf(c, m)]
        key == m.body.val
    IN  /\ got' = IF accepted /\ e.payload_obj # NoValue THEN [got EXCEPT ![c] = Append(@, e)] ELSE got
        /\ db' = IF accepted /\ UseDB /\ Impl[c] # "rmq" /\ m.body.kind = "msg_key" /\ IsKey(key)
                 THEN [db EXCEPT ![key[2]] = NoValue] ELSE db

RecvReturn(c) ==
    /\ pc[c] = "recvWait"
    /\ \E m \in NextFor(c) : Recv(c, m) /\ HandOver(c, m)
    /\ Goto(c, "idle")
    /\ UNCHANGED <<exchange, bound, daemonVars, step, dead, countVars, posted>>

(* listen(): a thread keeps a consumer on the RECV queue and calls back with *)
(* each message, until stop_listen() joins it.                               *)
listen(c) ==
    /\ c \in MayListen /\ pc[c] = "idle"
    /\ Goto(c, "listening")
    /\ UNCHANGED <<brokerVars, daemonVars, step, inbox, dead, countVars, db, got, posted>>

Callback(c) ==
    LET q == RecvQueue(Ident[c])
    IN  /\ pc[c] = "listening"
        /\ \/ /\ inbox[c] # <<>>
              /\ HandOver(c, Head(inbox[c]))
              /\ inbox' = [inbox EXCEPT ![c] = Tail(@)]
              /\ UNCHANGED queue
           \/ /\ inbox[c] = <<>> /\ queue[q] # <<>>
              /\ HandOver(c, Head(queue[q]))
              /\ queue' = [queue EXCEPT ![q] = Tail(@)]
              /\ UNCHANGED inbox
        /\ UNCHANGED <<exchange, bound, daemonVars, pc, step, dead, countVars, posted>>

stop_listen(c) ==
    LET q == RecvQueue(Ident[c])
    IN  /\ pc[c] = "listening"
        /\ \E n \in 0 .. Len(queue[q]) : Cancel(c, q, n, 0)
        /\ Goto(c, "idle")
        /\ UNCHANGED <<exchange, bound, daemonVars, step, dead, countVars, db, got, posted>>

-----------------------------------------------------------------------------
ClientNext(c) ==
    \/ Start(c) \/ Declare(c) \/ DeclareFails(c)
    \/ initialize(c) \/ InitReturn(c) \/ Destroy(c)
    \/ exit(c) \/ ping(c) \/ PingReturn(c) \/ WaitTimeout(c)
    \/ \E d \in SendTo[c] : send(c, d)
    \/ \E d \in PostTo[c] : post(c, d)
    \/ receive(c) \/ RecvReturn(c)
    \/ listen(c) \/ Callback(c) \/ stop_listen(c)

Next ==
    \/ DaemonNext /\ UNCHANGED clientVars
    \/ \E c \in Client : ClientNext(c)

Spec == Init /\ [][Next]_vars
-----------------------------------------------------------------------------
(* Properties.                                                             *)

Names(v, p) == IF IsKey(v) THEN db[v[2]] = p ELSE v = p
Carries(m, p) == m.body.kind \in {"payload", "msg_key"} /\ Names(m.body.val, p)
Carrying(s, p) == {i \in DOMAIN s : Carries(s[i], p)}

(* Where payload p is: in a queue, held by an AMQP library, or with a       *)
(* program; a simulator that posted it has handed it back.                  *)
InQueues(p) == UNION {{<<q, i>> : i \in Carrying(queue[q], p)} : q \in Queue}
InLibraries(p) == UNION {{<<c, "inbox", i>> : i \in Carrying(inbox[c], p)} : c \in Client}
AtPrograms(p) ==
    UNION {{<<c, "got", i>> : i \in {j \in DOMAIN got[c] : got[c][j].payload_obj = p}} :
           c \in {d \in Client : Orig[d] = "APP_CLIENT" \/ p \notin posted}}
Places(p) == InQueues(p) \cup InLibraries(p) \cup AtPrograms(p)

(* No payload is duplicated and none is invented, though nothing is         *)
(* acknowledged, consumers are cancelled with deliveries under way, and     *)
(* daemon and clients stop and start again.                                 *)
OneCopy ==
    \A p \in Payload : /\ Cardinality(Places(p)) <= 1
                       /\ Places(p) # {} => p[2] <= nsent[p[1]]

(* What one client sends to another with send() arrives in that order, also *)
(* when recv() cancels a consumer that was given more than one message, and *)
(* across receive() and listen().                                           *)
MailOrder ==
    \A c \in Client : \A i, j \in DOMAIN got[c] :
        (/\ i < j /\ got[c][i].op = "SEND" /\ got[c][j].op = "SEND"
         /\ got[c][i].source = got[c][j].source)
            => got[c][i].payload_obj[2] < got[c][j].payload_obj[2]

(* A client is given only what was sent or posted to its identifier. *)
OwnQueue == \A c \in Client : \A i \in DOMAIN got[c] : got[c][i].destination = Ident[c]

(* An initialize() call is answered at most once: the INIT requests of a    *)
(* client that wait for the daemon, the answers that wait for the client,   *)
(* and the answer it runs on, come from as many calls, over all its starts. *)
Inits(s) == {i \in DOMAIN s : s[i].op = "INIT"}
AnsweredOnce ==
    \A c \in Client :
        Cardinality({i \in Inits(queue[RequestQueue]) : IntroId(queue[RequestQueue][i]) = Ident[c]})
        + Cardinality(Inits(queue[ResponseQueue(Ident[c])])) + Cardinality(Inits(inbox[c]))
        + (IF pc[c] \in InUse THEN 1 ELSE 0) <= nstarts[c]

(* A payload in a RECV queue stays there until a client of that identifier  *)
(* receives: neither the cleanup of a stopping daemon nor a client that     *)
(* declares the queue again loses it.                                       *)
QueuedSafe ==
    [][\A i \in Identifier :
          Len(queue'[RecvQueue(i)]) < Len(queue[RecvQueue(i)]) =>
              \E c \in Client : Ident[c] = i /\ pc[c] \in {"recvWait", "listening"}]_vars

(* A client in use can be sent to: its RECV queue is bound to the exchange. *)
(* It does not hold: stop() of the C++ daemon deletes the exchange, and a   *)
(* daemon that is started again binds no client's queues.                   *)
Reachable == \A c \in Client : pc[c] \in InUse => RecvQueue(Ident[c]) \in bound

(* The refinement mapping to NsbBridge: how far payload p has come.  A       *)
(* message that a simulator client posted is on its way back.                *)
Under(s, op, p) == \E i \in Carrying(s, p) : s[i].op = op
Travels(op, p) == \/ \E q \in Queue : Under(queue[q], op, p)
                  \/ \E c \in Client : Under(inbox[c], op, p)
HeldBy(og, p) ==
    \E c \in Client : Orig[c] = og /\ \E i \in DOMAIN got[c] : got[c][i].payload_obj = p
StageOf(p) ==
    IF HeldBy("APP_CLIENT", p) THEN "delivered"
    ELSE IF Travels("POST", p) THEN "returning"
    ELSE IF HeldBy("SIM_CLIENT", p) /\ p \notin posted THEN "network"
    ELSE IF Travels("SEND", p) THEN "outgoing"
    ELSE IF p[2] <= nsent[p[1]] THEN "lost" ELSE "unsent"

Bridge == INSTANCE NsbBridge WITH stage <- [p \in Payload |-> StageOf(p)]

(* With a simulator client in use, a payload reaches an application only    *)
(* through it: "Single simulator client fetches all messages".              *)
CrossesNetwork == Bridge!Spec

(* initialize() fails only when no answer comes in time, whichever daemon   *)
(* answers.  It does not hold: the rmq client refuses the code of the       *)
(* Python daemon.                                                           *)
ServedByEither ==
    [][\A c \in Client : pc[c] = "initWait" /\ pc'[c] = "failed" => timeouts' # timeouts]_vars

-----------------------------------------------------------------------------
(* Liveness: a daemon is started again, the worker's loop goes on, and a    *)
(* client that waits takes what is there.                                   *)
Fairness ==
    /\ WF_vars(StartDaemon /\ UNCHANGED clientVars)
    /\ WF_vars(HandleMessage /\ UNCHANGED clientVars)
    /\ \A c \in Client : WF_vars(InitReturn(c))

(* An INIT request that has reached the request queue is answered, also     *)
(* when it was sent before a daemon was started or after one was stopped,   *)
(* unless the daemon is stopped (once more) or the client's response queue  *)
(* has lost its binding.                                                    *)
Answered ==
    \A c \in Client : \A k \in 0 .. MaxStops :
        (/\ pc[c] = "initWait"
         /\ \E i \in Inits(queue[RequestQueue]) : queue[RequestQueue][i].body.val[1] = c
         /\ nstops = k /\ dstate \in {"off", "running"})
            ~> (pc[c] # "initWait" \/ nstops > k \/ ResponseQueue(Ident[c]) \notin bound)

FairSpec == Spec /\ Fairness
=============================================================================
