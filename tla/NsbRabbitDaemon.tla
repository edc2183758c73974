-------------------------- MODULE NsbRabbitDaemon --------------------------
(***************************************************************************)
(* The configuration daemon of the RabbitMQ version, in C++                *)
(* (cpp/rabbit/src/NSBDaemonRMQ.cpp) or in Python (rabbit/nsb_daemon.py).  *)
(* It answers INIT and PING, and no payload passes through it.  Either one *)
(* may be started, stopped and started again, as the other one too.        *)
(***************************************************************************)
EXTENDS NsbBroker

CONSTANTS
    DaemonImpls,    \* the daemons that are started: cpp, py
    MaxStops        \* bound: how often a daemon is stopped

ASSUME DaemonAssumption == DaemonImpls \subseteq {"cpp", "py"} /\ MaxStops \in Nat

VARIABLES
    dstate,     \* off; running; joined (worker ended); unqueued (queue deleted)
    dimpl,      \* which daemon was started last
    nstops      \* stop() calls so far

daemonVars == <<dstate, dimpl, nstops>>

DaemonTypeOK ==
    /\ dstate \in {"off", "running", "joined", "unqueued"}
    /\ dimpl \in {"cpp", "py"}
    /\ nstops \in 0 .. MaxStops

DaemonInit ==
    /\ dstate = "off"
    /\ dimpl \in DaemonImpls
    /\ nstops = 0

(* Faulty: the requests that wait are purged. *)
StartDaemonFaulty ==
    /\ dstate = "off"
    /\ dimpl' \in DaemonImpls
    /\ dstate' = "running"
    /\ exchange' = TRUE
    /\ bound' = bound \cup {RequestQueue}
    /\ queue' = [queue EXCEPT ![RequestQueue] = <<>>]
    /\ UNCHANGED nstops

(* start: declare the exchange and the request queue, then consume. *)
StartDaemon ==
    /\ dstate = "off"
    /\ dimpl' \in DaemonImpls
    /\ dstate' = "running"
    /\ exchange' = TRUE
    /\ bound' = bound \cup {RequestQueue}
    /\ UNCHANGED <<queue, nstops>>

-----------------------------------------------------------------------------
(* The manifest of a response: C++ and Python use different codes. *)
DaemonCode == IF dimpl = "cpp" THEN "DAEMON_RESPONSE" ELSE "SUCCESS"

(* The configuration of the daemon is a constant, so it has no value here. *)
InitResponse == [Bare("INIT", "DAEMON", DaemonCode) EXCEPT !.body = [kind |-> "config", val |-> NoValue]]
PingResponse == Bare("PING", "DAEMON", DaemonCode)

(* The identifier a response is routed by. *)
IntroId(m) == IF m.body.kind = "intro" THEN Ident[m.body.val[1]] ELSE ""
PingId(m) ==
    IF IntroId(m) = "" /\ dimpl = "cpp" /\ m.metadata.has THEN m.metadata.src ELSE IntroId(m)

(* Faulty: the response is published once more. *)
reply_initFaulty(qs, m) ==
    LET q == ResponseQueue(IntroId(m))
    IN  Routed(Routed(qs, q, InitResponse), q, InitResponse)

(* reply_init / _handle_init, and reply_ping / _handle_ping.  Without an     *)
(* identifier C++ sends nothing and Python publishes to a queue nobody has.  *)
reply_init(qs, m) ==
    IF IntroId(m) = "" THEN qs ELSE Routed(qs, ResponseQueue(IntroId(m)), InitResponse)
reply_ping(qs, m) ==
    IF PingId(m) = "" THEN qs ELSE Routed(qs, ResponseQueue(PingId(m)), PingResponse)

(* One turn of run_loop: a request is taken and handled.  EXIT and other     *)
(* operations are ignored.                                                   *)
HandleMessage ==
    /\ dstate = "running"
    /\ queue[RequestQueue] # <<>>
    /\ LET m == Head(queue[RequestQueue])
           rest == [queue EXCEPT ![RequestQueue] = Tail(@)]
       IN  queue' = CASE m.op = "INIT" -> reply_init(rest, m)
                      [] m.op = "PING" -> reply_ping(rest, m)
                      [] OTHER -> rest
    /\ UNCHANGED <<exchange, bound, daemonVars>>

-----------------------------------------------------------------------------
(* stop.  The worker is joined; the requests already delivered to its       *)
(* consumer are gone with it, as they need no acknowledgement.  Then C++    *)
(* deletes the request queue and the exchange.                              *)
StopDaemon ==
    /\ dstate = "running"
    /\ nstops < MaxStops
    /\ nstops' = nstops + 1
    /\ dstate' = IF dimpl = "cpp" THEN "joined" ELSE "off"
    /\ \E n \in 0 .. Len(queue[RequestQueue]) :
          queue' = [queue EXCEPT ![RequestQueue] = SubSeq(@, n + 1, Len(@))]
    /\ UNCHANGED <<exchange, bound, dimpl>>

DeleteRequestQueue ==
    /\ dstate = "joined"
    /\ dstate' = "unqueued"
    /\ queue' = [queue EXCEPT ![RequestQueue] = <<>>]
    /\ bound' = bound \ {RequestQueue}
    /\ UNCHANGED <<exchange, dimpl, nstops>>

(* Faulty: the client queues are deleted, too. *)
DeleteNsbExchangeFaulty ==
    /\ dstate = "unqueued"
    /\ dstate' = "off"
    /\ exchange' = FALSE
    /\ bound' = {}
    /\ queue' = [q \in Queue |-> <<>>]
    /\ UNCHANGED <<dimpl, nstops>>

DeleteNsbExchange ==
    /\ dstate = "unqueued"
    /\ dstate' = "off"
    /\ DeleteExchange
    /\ UNCHANGED <<dimpl, nstops>>

DaemonNext ==
    \/ StartDaemon
    \/ HandleMessage
    \/ StopDaemon
    \/ DeleteRequestQueue
    \/ DeleteNsbExchange
=============================================================================
