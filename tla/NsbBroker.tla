----------------------------- MODULE NsbBroker -----------------------------
(***************************************************************************)
(* The RabbitMQ broker as NSB uses it (external): one direct exchange,     *)
(* "nsb", and durable queues that are each bound to it under their own     *)
(* name, so that a routing key is the name of a queue.                     *)
(*                                                                         *)
(* A queue is <<kind, identifier>>: nsb.config.response.{id} is            *)
(* <<"config.response", id>>, and so on.                                   *)
(***************************************************************************)
EXTENDS NsbWire

VARIABLES
    exchange,   \* does the exchange exist?
    bound,      \* the queues bound to it
    queue       \* the messages in each queue

brokerVars == <<exchange, bound, queue>>

RequestQueue == <<"config.request", "">>
ResponseQueue(i) == <<"config.response", i>>
SendQueue(i) == <<"send", i>>
RecvQueue(i) == <<"recv", i>>
Queue == {RequestQueue} \cup ({"config.response", "send", "recv"} \X Id)

BrokerTypeOK ==
    /\ exchange \in BOOLEAN
    /\ bound \in SUBSET Queue
    /\ queue \in [Queue -> Seq(nsbm)]

BrokerInit ==
    /\ exchange = FALSE
    /\ bound = {}
    /\ queue = [q \in Queue |-> <<>>]

(* DeclareQueue and BindQueue; both need the exchange. *)
DeclareAndBind(q) ==
    /\ exchange
    /\ bound' = bound \cup {q}
    /\ UNCHANGED <<exchange, queue>>

(* The exchange goes with its bindings; queues and their messages stay. *)
DeleteExchange ==
    /\ exchange' = FALSE
    /\ bound' = {}
    /\ UNCHANGED queue

(* The contents qs of the queues after m is published under the routing key *)
(* q.  A message that no queue is bound for is dropped, and nobody is told. *)
Routed(qs, q, m) == IF q \in bound THEN [qs EXCEPT ![q] = Append(@, m)] ELSE qs
=============================================================================
