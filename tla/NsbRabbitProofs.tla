-------------------------- MODULE NsbRabbitProofs --------------------------
(***************************************************************************)
(* The RabbitMQ version, for every set of clients, every mix of the three  *)
(* client libraries and the two daemons, and every bound.                  *)
(*                                                                         *)
(* A recv(), a wait that gives up and a callback all do the same to a      *)
(* queue and to what the AMQP library of a client holds (Consumes): the    *)
(* broker delivers the first messages of the queue, the client takes one   *)
(* or none of all deliveries, and the others stay held or are gone.        *)
(* Every theorem follows one thing through these steps: types, addressees, *)
(* the one box a payload is in, the order of two payloads, and the number  *)
(* of INIT messages.                                                       *)
(***************************************************************************)
EXTENDS NsbRabbit, NsbWireProofs, FiniteSetTheorems

Held(c, q, n) == inbox[c] \o SubSeq(queue[q], 1, n)

Consumes(c, q, n, k) ==
    /\ n \in 0 .. Len(queue[q]) /\ k \in {0, 1} /\ k <= Len(inbox[c]) + n
    /\ queue' = [queue EXCEPT ![q] = SubSeq(@, n + 1, Len(@))]
    /\ \E rest \in {SubSeq(Held(c, q, n), k + 1, Len(Held(c, q, n))), <<>>} :
          inbox' = [inbox EXCEPT ![c] = rest]

(* basic_get of Python leaves nothing with the library. *)
PyHoldsNone == \A c \in Client : Impl[c] = "py" => inbox[c] = <<>>

Listeners == \A c \in Client : pc[c] = "listening" => Impl[c] = "rmq"

TypeInv == TypeOK /\ PyHoldsNone /\ Listeners

-----------------------------------------------------------------------------
(* Types.                                                                  *)

(* Two sequences in a row. *)
LEMMA ConcatElements ==
    ASSUME NEW T, NEW s \in Seq(T), NEW v \in Seq(T)
    PROVE  /\ s \o v \in Seq(T) /\ DOMAIN (s \o v) = 1 .. (Len(s) + Len(v))
           /\ Len(s \o v) = Len(s) + Len(v)
           /\ \A j \in 1 .. (Len(s) + Len(v)) : (s \o v)[j] = IF j <= Len(s) THEN s[j] ELSE v[j - Len(s)]
OBVIOUS

(* The queues have different names. *)
LEMMA QueueNames ==
    /\ RequestQueue \in Queue
    /\ \A i \in Id : ResponseQueue(i) \in Queue /\ SendQueue(i) \in Queue /\ RecvQueue(i) \in Queue
    /\ \A i, j : /\ ResponseQueue(i) # RequestQueue /\ ResponseQueue(i) # RecvQueue(j)
                 /\ RecvQueue(i) # RequestQueue /\ (RecvQueue(i) = RecvQueue(j) => i = j)
                 /\ (ResponseQueue(i) = ResponseQueue(j) => i = j)
    /\ \A c \in Client : Ident[c] \in Identifier /\ Ident[c] \in Id
    /\ Identifier \subseteq Id
BY DEF RequestQueue, ResponseQueue, SendQueue, RecvQueue, Queue, Id, Identifier

LEMMA WaitQueueType == ASSUME NEW c \in Client PROVE WaitQueue(c) \in Queue
BY QueueNames DEF WaitQueue

(* A queue after a message was published. *)
LEMMA RoutedType ==
    ASSUME NEW qs \in [Queue -> Seq(nsbm)], NEW q, NEW m \in nsbm
    PROVE  Routed(qs, q, m) \in [Queue -> Seq(nsbm)]
<1>1. CASE q \in Queue
  BY <1>1 DEF Routed
<1>2. CASE q \notin Queue
  <2>1. [qs EXCEPT ![q] = Append(@, m)] = qs
    BY <1>2
  <2> QED BY <2>1 DEF Routed
<1> QED BY <1>1, <1>2

(* The messages of daemon and clients are messages of nsb.proto. *)
LEMMA RabbitMessages ==
    ASSUME dimpl \in {"cpp", "py"}
    PROVE  /\ InitResponse \in nsbm /\ PingResponse \in nsbm
           /\ \A c \in Client : /\ IntroMessage(c) \in nsbm
                                /\ \A op \in Op : Bare(op, Orig[c], RequestCode(c)) \in nsbm
<1>1. DaemonCode \in Code /\ \A c \in Client : RequestCode(c) \in Code
  BY DEF DaemonCode, RequestCode, Code
<1>2. \A c \in Client : Orig[c] \in Og
  BY RabbitAssumption DEF Og
<1>3. "INIT" \in Op /\ "PING" \in Op /\ "DAEMON" \in Og
  BY DEF Op, Og
<1>4. Bare("INIT", "DAEMON", DaemonCode) \in nsbm /\ PingResponse \in nsbm
  BY <1>1, <1>3, MessageTypes DEF PingResponse
<1>5. [kind |-> "config", val |-> NoValue] \in Body
  BY MessageTypes DEF Body
<1>6. InitResponse \in nsbm
  BY <1>4, <1>5 DEF InitResponse, nsbm
<1>7. ASSUME NEW c \in Client
      PROVE  IntroMessage(c) \in nsbm /\ \A op \in Op : Bare(op, Orig[c], RequestCode(c)) \in nsbm
  <2>1. \A op \in Op : Bare(op, Orig[c], RequestCode(c)) \in nsbm
    BY <1>1, <1>2, MessageTypes
  <2>2. [kind |-> "intro", val |-> <<c, 0>>] \in Body
    BY DEF Body
  <2> QED BY <1>3, <2>1, <2>2 DEF IntroMessage, nsbm
<1> QED BY <1>4, <1>6, <1>7

(* Cancelling a consumer consumes. *)
LEMMA CancelConsumes ==
    ASSUME NEW c, NEW q, NEW n \in 0 .. Len(queue[q]), NEW k \in {0, 1}, k <= Len(inbox[c]) + n,
           Cancel(c, q, n, k)
    PROVE  Consumes(c, q, n, k)
BY DEF Cancel, Consumes, Held

(* What the library of client c holds once n messages of q were delivered. *)
LEMMA HeldIs ==
    ASSUME NEW c, NEW q, inbox[c] \in Seq(nsbm), queue[q] \in Seq(nsbm), NEW n \in 0 .. Len(queue[q])
    PROVE  /\ Held(c, q, n) \in Seq(nsbm) /\ DOMAIN Held(c, q, n) = 1 .. (Len(inbox[c]) + n)
           /\ Len(Held(c, q, n)) = Len(inbox[c]) + n
           /\ \A j \in DOMAIN Held(c, q, n) :
                Held(c, q, n)[j] = IF j <= Len(inbox[c]) THEN inbox[c][j] ELSE queue[q][j - Len(inbox[c])]
<1> DEFINE s == inbox[c]
           v == SubSeq(queue[q], 1, n)
<1>1. v \in Seq(nsbm) /\ Len(v) = n /\ \A j \in 1 .. n : v[j] = queue[q][j]
  OBVIOUS
<1>2. s \in Seq(nsbm) /\ Len(s) \in Nat /\ n \in Nat
  OBVIOUS
<1>3. Held(c, q, n) = s \o v
  BY DEF Held
<1> HIDE DEF s, v
<1>4. /\ s \o v \in Seq(nsbm) /\ DOMAIN (s \o v) = 1 .. (Len(s) + n) /\ Len(s \o v) = Len(s) + n
      /\ \A j \in 1 .. (Len(s) + n) : (s \o v)[j] = IF j <= Len(s) THEN s[j] ELSE v[j - Len(s)]
  BY <1>1, <1>2, ConcatElements
<1> DEFINE h == s \o v
<1> HIDE DEF h
<1>5. /\ h \in Seq(nsbm) /\ DOMAIN h = 1 .. (Len(s) + n) /\ Len(h) = Len(s) + n
      /\ \A j \in 1 .. (Len(s) + n) : h[j] = IF j <= Len(s) THEN s[j] ELSE v[j - Len(s)]
  BY <1>4 DEF h
<1>6. \A j \in 1 .. (Len(s) + n) : h[j] = IF j <= Len(s) THEN s[j] ELSE queue[q][j - Len(s)]
  BY <1>1, <1>2, <1>5
<1>7. Held(c, q, n) = h
  BY <1>3 DEF h
<1> QED BY <1>5, <1>6, <1>7 DEF s

(* What one step takes of a queue and of what a library holds are messages. *)
LEMMA ConsumesType ==
    ASSUME TypeOK, NEW c \in Client, NEW q \in Queue, NEW n, NEW k, Consumes(c, q, n, k)
    PROVE  /\ queue' \in [Queue -> Seq(nsbm)] /\ inbox' \in [Client -> Seq(nsbm)]
           /\ k = 1 => Held(c, q, n)[1] \in nsbm
<1>1. queue \in [Queue -> Seq(nsbm)] /\ inbox \in [Client -> Seq(nsbm)]
  BY DEF TypeOK, BrokerTypeOK
<1>2. queue[q] \in Seq(nsbm) /\ inbox[c] \in Seq(nsbm)
  BY <1>1
<1>3. n \in 0 .. Len(queue[q]) /\ k \in {0, 1} /\ k <= Len(inbox[c]) + n
  BY DEF Consumes
<1> DEFINE h == Held(c, q, n)
           r == SubSeq(h, k + 1, Len(h))
<1> HIDE DEF h, r
<1>4. h \in Seq(nsbm) /\ Len(h) = Len(inbox[c]) + n
  BY <1>2, <1>3, HeldIs DEF h
<1>4a. r \in Seq(nsbm)
  BY <1>2, <1>3, <1>4, SuffixElements DEF r
<1>5. SubSeq(queue[q], n + 1, Len(queue[q])) \in Seq(nsbm)
  BY <1>2, <1>3
<1>6. queue' \in [Queue -> Seq(nsbm)]
  BY <1>1, <1>5 DEF Consumes
<1>7. inbox' \in [Client -> Seq(nsbm)]
  <2>1. PICK rest \in {r, <<>>} : inbox' = [inbox EXCEPT ![c] = rest]
    BY DEF Consumes, h, r
  <2>2. rest = r \/ rest = <<>>
    BY <2>1
  <2>3. rest \in Seq(nsbm)
    <3>1. <<>> \in Seq(nsbm)
      OBVIOUS
    <3> QED BY <1>4a, <2>2, <3>1, Zenon
  <2> QED BY <1>1, <2>1, <2>3
<1>8. k = 1 => Held(c, q, n)[1] \in nsbm
  BY <1>2, <1>3, <1>4 DEF h
<1> QED BY <1>6, <1>7, <1>8

(* recv() takes the first delivery. *)
LEMMA RecvConsumes ==
    ASSUME TypeInv, NEW c \in Client, NEW m, Recv(c, m)
    PROVE  /\ \E n \in Nat : Consumes(c, WaitQueue(c), n, 1) /\ m = Held(c, WaitQueue(c), n)[1]
           /\ m \in nsbm /\ (Impl[c] = "py" => inbox' = inbox)
<1> DEFINE q == WaitQueue(c)
<1>1. q \in Queue
  BY WaitQueueType
<1>2. /\ queue \in [Queue -> Seq(nsbm)] /\ inbox \in [Client -> Seq(nsbm)]
      /\ queue[q] \in Seq(nsbm) /\ inbox[c] \in Seq(nsbm)
  BY <1>1 DEF TypeInv, TypeOK, BrokerTypeOK
<1>3. ASSUME NEW n \in Nat, Consumes(c, q, n, 1), m = Held(c, q, n)[1] PROVE m \in nsbm
  BY <1>1, <1>3, ConsumesType DEF TypeInv
<1> HIDE DEF q
<1>4. CASE Impl[c] # "py"
  <2>1. PICK n \in 0 .. Len(queue[q]) :
            Held(c, q, n) # <<>> /\ m = Head(Held(c, q, n)) /\ Cancel(c, q, n, 1)
    BY <1>4 DEF Recv, q, Held
  <2>2. Held(c, q, n) \in Seq(nsbm) /\ Len(Held(c, q, n)) = Len(inbox[c]) + n /\ n \in Nat
    <3>1. inbox[c] \in Seq(nsbm) /\ queue[q] \in Seq(nsbm)
      BY <1>2
    <3>2. Held(c, q, n) \in Seq(nsbm) /\ Len(Held(c, q, n)) = Len(inbox[c]) + n
      BY <3>1, HeldIs
    <3>3. n \in Nat
      BY <3>1
    <3> QED BY <3>2, <3>3
  <2>3. 1 <= Len(inbox[c]) + n /\ m = Held(c, q, n)[1]
    BY <1>2, <2>1, <2>2
  <2>4. Consumes(c, q, n, 1)
    BY <2>1, <2>3, CancelConsumes
  <2> QED BY <1>3, <1>4, <2>2, <2>3, <2>4 DEF q
<1>5. CASE Impl[c] = "py"
  <2>1. /\ queue[q] # <<>> /\ m = Head(queue[q]) /\ inbox' = inbox
        /\ queue' = [queue EXCEPT ![q] = Tail(@)]
    BY <1>5 DEF Recv, q
  <2>2. inbox[c] = <<>>
    BY <1>5 DEF TypeInv, PyHoldsNone
  <2>3. Len(queue[q]) >= 1 /\ Len(queue[q]) \in Nat /\ Tail(queue[q]) = SubSeq(queue[q], 2, Len(queue[q]))
    BY <1>2, <2>1
  <2>4. inbox' = [inbox EXCEPT ![c] = <<>>]
    BY <1>2, <2>1, <2>2
  <2>5. Consumes(c, q, 1, 1)
    <3>1. 1 \in 0 .. Len(queue[q]) /\ 1 <= Len(inbox[c]) + 1
      BY <1>2, <2>3
    <3>2. queue' = [queue EXCEPT ![q] = SubSeq(queue[q], 2, Len(queue[q]))]
      <4> DEFINE t == Tail(queue[q])
      <4>1. queue' = [queue EXCEPT ![q] = t]
        BY <2>1
      <4>2. t = SubSeq(queue[q], 2, Len(queue[q]))
        BY <2>3
      <4> HIDE DEF t
      <4> QED BY <4>1, <4>2
    <3> QED BY <2>4, <3>1, <3>2 DEF Consumes
  <2>6. m = Held(c, q, 1)[1]
    <3>1. 1 \in 0 .. Len(queue[q]) /\ 0 <= Len(inbox[c]) + 1
      BY <1>2, <2>3
    <3>2. /\ DOMAIN Held(c, q, 1) = 1 .. (Len(inbox[c]) + 1)
          /\ \A j \in DOMAIN Held(c, q, 1) :
                Held(c, q, 1)[j] = IF j <= Len(inbox[c]) THEN inbox[c][j] ELSE queue[q][j - Len(inbox[c])]
      BY <1>2, <3>1, HeldIs
    <3>3. Len(inbox[c]) = 0
      BY <2>2
    <3> QED BY <1>2, <2>1, <3>2, <3>3
  <2> QED BY <1>3, <2>1, <2>5, <2>6 DEF q
<1> QED BY <1>4, <1>5

(* A wait that gives up takes nothing, or only deliveries. *)
LEMMA GiveUpConsumes ==
    ASSUME TypeInv, NEW c \in Client, GiveUp(c)
    PROVE  /\ (\E n \in Nat : Consumes(c, WaitQueue(c), n, 0)) \/ UNCHANGED <<queue, inbox>>
           /\ Impl[c] = "py" => inbox' = inbox
<1> DEFINE q == WaitQueue(c)
<1>1. q \in Queue
  BY WaitQueueType
<1>2. queue[q] \in Seq(nsbm) /\ inbox[c] \in Seq(nsbm)
  BY <1>1 DEF TypeInv, TypeOK, BrokerTypeOK
<1> HIDE DEF q
<1>3. CASE Impl[c] # "py"
  <2>1. PICK n \in 0 .. Len(queue[q]) : Cancel(c, q, n, 0)
    BY <1>3 DEF GiveUp, q
  <2>2. 0 <= Len(inbox[c]) + n /\ n \in Nat
    BY <1>2
  <2> QED BY <1>3, <2>1, <2>2, CancelConsumes DEF q
<1>4. CASE Impl[c] = "py"
  BY <1>4 DEF GiveUp
<1> QED BY <1>3, <1>4

(* What is handed over is mail, and the database keeps values. *)
LEMMA HandOverType ==
    ASSUME TypeOK, NEW c \in Client, NEW m \in nsbm, HandOver(c, m)
    PROVE  got' \in [Client -> Seq(Mail)] /\ db' \in Seq(Value)
<1>1. db \in Seq(Value) /\ got \in [Client -> Seq(Mail)] /\ NoValue \in Value
  BY MessageTypes DEF TypeOK
<1>2. (UseDB /\ Impl[c] # "rmq") \in BOOLEAN
  OBVIOUS
<1>3. PayloadOf(UseDB /\ Impl[c] # "rmq", m) \in Value
  BY <1>2, MessageTypes
<1>4. ContentOf(c, m) \in Value
  BY <1>1, <1>3 DEF ContentOf, IsKey
<1> DEFINE e == [op |-> m.op, source |-> m.metadata.src, destination |-> m.metadata.dest,
                 payload_obj |-> ContentOf(c, m)]
<1>5. m.op \in Op /\ m.metadata.src \in Id /\ m.metadata.dest \in Id
  BY DEF nsbm, Metadata
<1>6. e \in Mail
  BY <1>4, <1>5 DEF Mail
<1>7. got' = got \/ got' = [got EXCEPT ![c] = Append(@, e)]
  BY DEF HandOver
<1> HIDE DEF e
<1>8. got' \in [Client -> Seq(Mail)]
  <2>1. Append(got[c], e) \in Seq(Mail)
    BY <1>1, <1>6
  <2> QED BY <1>1, <1>7, <2>1
<1>9. db' = db \/ \E i \in DOMAIN db : db' = [db EXCEPT ![i] = NoValue]
  BY DEF HandOver, IsKey
<1>10. db' \in Seq(Value)
  BY <1>1, <1>9
<1> QED BY <1>8, <1>10

(* A published message is a message. *)
LEMMA PublishType ==
    ASSUME TypeOK, NEW c \in Client, NEW ch \in {"CTRL", "SEND"}, NEW d, NEW m \in nsbm,
           Publish(c, ch, d, m)
    PROVE  queue' \in [Queue -> Seq(nsbm)] /\ dead' \in SUBSET (Client \X {"CTRL", "SEND"})
<1>1. queue \in [Queue -> Seq(nsbm)] /\ dead \in SUBSET (Client \X {"CTRL", "SEND"})
  BY DEF TypeOK, BrokerTypeOK
<1>2. Routed(queue, RoutingKey(c, ch, d), m) \in [Queue -> Seq(nsbm)]
  BY <1>1, RoutedType
<1> QED BY <1>1, <1>2 DEF Publish

(* A message with a payload, its own or a key. *)
LEMMA RabbitDataType ==
    ASSUME TypeOK, NEW c \in Client, NEW op \in Op, NEW s \in Id, NEW d \in Id, NEW v \in Value
    PROVE  DataMessage(c, op, s, d, v) \in nsbm
<1>1. db \in Seq(Value) /\ Len(db) + 1 \in Nat
  BY DEF TypeOK
<1>2. <<"#", Len(db) + 1>> \in Value
  BY <1>1 DEF Value
<1> DEFINE w == IF Stores(c, op) THEN <<"#", Len(db) + 1>> ELSE v
           b == UseDB /\ Impl[c] # "rmq"
<1>3. w \in Value /\ b \in BOOLEAN
  BY <1>2
<1>4. PayloadBody(b, w) \in Body /\ Route(s, d) \in Metadata
  BY <1>3, MessageTypes
<1>5. Orig[c] \in Og /\ "MESSAGE" \in Code
  BY RabbitAssumption DEF Og, Code
<1> QED BY <1>4, <1>5 DEF DataMessage, nsbm

-----------------------------------------------------------------------------
(* The type invariant.                                                     *)

LEMMA TypeInvInit == Init => TypeInv
<1> SUFFICES ASSUME Init PROVE TypeInv
  OBVIOUS
<1>1. BrokerTypeOK
  <2>1. <<>> \in Seq(nsbm)
    OBVIOUS
  <2> QED BY <2>1 DEF Init, BrokerInit, BrokerTypeOK
<1>2. DaemonTypeOK
  BY DaemonAssumption DEF Init, DaemonInit, DaemonTypeOK
<1>3. TypeOK
  <2>1. nstarts \in [Client -> Nat] /\ \A c \in Client : nstarts[c] <= MaxStarts[c]
    BY RabbitAssumption DEF Init
  <2>2. nsent \in [Client -> 0 .. MaxSends]
    <3>1. MaxSends \in Nat
      BY WireAssumption
    <3>2. 0 \in 0 .. MaxSends
      BY <3>1
    <3> QED BY <3>2 DEF Init
  <2>3. npings \in 0 .. MaxPings /\ timeouts \in 0 .. MaxTimeouts
    BY RabbitAssumption DEF Init
  <2>4. inbox \in [Client -> Seq(nsbm)] /\ got \in [Client -> Seq(Mail)] /\ db \in Seq(Value)
    BY DEF Init
  <2>5. /\ pc \in [Client -> {"off", "declare", "init", "failed"} \cup WaitState \cup InUse]
        /\ step \in [Client -> 0 .. 4]
        /\ dead \in SUBSET (Client \X {"CTRL", "SEND"}) /\ posted \in SUBSET Value
    BY DEF Init
  <2> QED BY <1>1, <1>2, <2>1, <2>2, <2>3, <2>4, <2>5 DEF TypeOK
<1>4. PyHoldsNone /\ Listeners
  BY DEF Init, PyHoldsNone, Listeners
<1> QED BY <1>3, <1>4 DEF TypeInv

LEMMA DaemonTyped == TypeInv /\ DaemonNext /\ UNCHANGED clientVars => TypeInv'
<1> SUFFICES ASSUME TypeInv, DaemonNext, UNCHANGED clientVars PROVE TypeInv'
  OBVIOUS
<1>1. /\ exchange \in BOOLEAN /\ bound \in SUBSET Queue /\ queue \in [Queue -> Seq(nsbm)]
      /\ dstate \in {"off", "running", "joined", "unqueued"} /\ dimpl \in {"cpp", "py"}
      /\ nstops \in 0 .. MaxStops /\ MaxStops \in Nat /\ DaemonImpls \subseteq {"cpp", "py"}
  BY DaemonAssumption DEF TypeInv, TypeOK, BrokerTypeOK, DaemonTypeOK
<1>2. RequestQueue \in Queue /\ queue[RequestQueue] \in Seq(nsbm)
  BY <1>1, QueueNames
<1>3. BrokerTypeOK' /\ DaemonTypeOK'
  <2>1. CASE StartDaemon
    BY <1>1, <1>2, <2>1 DEF StartDaemon, BrokerTypeOK, DaemonTypeOK
  <2>2. CASE HandleMessage
    <3> DEFINE m == Head(queue[RequestQueue])
               rest == [queue EXCEPT ![RequestQueue] = Tail(@)]
    <3>1. m \in nsbm /\ Tail(queue[RequestQueue]) \in Seq(nsbm)
      BY <1>2, <2>2 DEF HandleMessage
    <3>2. rest \in [Queue -> Seq(nsbm)]
      BY <1>1, <1>2, <3>1
    <3>3. queue' \in {rest, reply_init(rest, m), reply_ping(rest, m)}
      BY <2>2 DEF HandleMessage
    <3> HIDE DEF m, rest
    <3>4. reply_init(rest, m) \in [Queue -> Seq(nsbm)] /\ reply_ping(rest, m) \in [Queue -> Seq(nsbm)]
      BY <1>1, <3>2, RoutedType, RabbitMessages DEF reply_init, reply_ping
    <3> QED BY <1>1, <2>2, <3>2, <3>3, <3>4 DEF HandleMessage, daemonVars, BrokerTypeOK, DaemonTypeOK
  <2>3. CASE StopDaemon
    <3>1. PICK n \in 0 .. Len(queue[RequestQueue]) :
              queue' = [queue EXCEPT ![RequestQueue] = SubSeq(@, n + 1, Len(@))]
      BY <2>3 DEF StopDaemon
    <3>2. SubSeq(queue[RequestQueue], n + 1, Len(queue[RequestQueue])) \in Seq(nsbm)
      BY <1>2
    <3>3. queue' \in [Queue -> Seq(nsbm)]
      BY <1>1, <3>1, <3>2
    <3>4. nstops' \in 0 .. MaxStops
      BY <1>1, <2>3 DEF StopDaemon
    <3> QED BY <1>1, <2>3, <3>3, <3>4 DEF StopDaemon, BrokerTypeOK, DaemonTypeOK
  <2>4. CASE DeleteRequestQueue
    <3>1. <<>> \in Seq(nsbm)
      OBVIOUS
    <3> QED BY <1>1, <2>4, <3>1 DEF DeleteRequestQueue, BrokerTypeOK, DaemonTypeOK
  <2>5. CASE DeleteNsbExchange
    BY <1>1, <2>5 DEF DeleteNsbExchange, DeleteExchange, BrokerTypeOK, DaemonTypeOK
  <2> QED BY <2>1, <2>2, <2>3, <2>4, <2>5 DEF DaemonNext
<1>4. TypeOK'
  BY <1>3 DEF TypeInv, TypeOK, clientVars, countVars
<1>5. PyHoldsNone' /\ Listeners'
  BY DEF TypeInv, PyHoldsNone, Listeners, clientVars
<1> QED BY <1>4, <1>5 DEF TypeInv

LEMMA ClientTyped ==
    ASSUME TypeInv, NEW c \in Client, ClientNext(c)
    PROVE  TypeInv'
<1> DEFINE Pc == {"off", "declare", "init", "failed"} \cup WaitState \cup InUse
<1>1. /\ exchange \in BOOLEAN /\ bound \in SUBSET Queue /\ queue \in [Queue -> Seq(nsbm)]
      /\ DaemonTypeOK /\ dimpl \in {"cpp", "py"} /\ PyHoldsNone /\ TypeOK /\ Listeners
      /\ pc \in [Client -> Pc] /\ step \in [Client -> 0 .. 4] /\ inbox \in [Client -> Seq(nsbm)]
      /\ dead \in SUBSET (Client \X {"CTRL", "SEND"})
      /\ nstarts \in [Client -> Nat] /\ \A d \in Client : nstarts[d] <= MaxStarts[d]
      /\ nsent \in [Client -> 0 .. MaxSends] /\ npings \in 0 .. MaxPings
      /\ timeouts \in 0 .. MaxTimeouts /\ db \in Seq(Value) /\ got \in [Client -> Seq(Mail)]
      /\ posted \in SUBSET Value
  BY DEF TypeInv, TypeOK, BrokerTypeOK, DaemonTypeOK
<1>2. MaxSends \in Nat /\ MaxPings \in Nat /\ MaxTimeouts \in Nat /\ MaxStarts \in [Client -> Nat]
  <2>1. MaxSends \in Nat
    BY WireAssumption
  <2> QED BY <2>1, RabbitAssumption
<1>3. {"off", "declare", "init", "failed", "idle", "initWait", "pingWait", "recvWait", "listening"} \subseteq Pc
  BY DEF WaitState, InUse
<1>4. \A to \in Pc \ {"listening"} : Goto(c, to) => pc' \in [Client -> Pc] /\ Listeners'
  BY <1>1 DEF Goto, Listeners
<1>4a. pc' = pc => Listeners'
  BY <1>1 DEF Listeners
<1>5. \A m : Recv(c, m) => /\ queue' \in [Queue -> Seq(nsbm)] /\ inbox' \in [Client -> Seq(nsbm)]
                           /\ m \in nsbm /\ PyHoldsNone'
  <2> SUFFICES ASSUME NEW m, Recv(c, m)
               PROVE  /\ queue' \in [Queue -> Seq(nsbm)] /\ inbox' \in [Client -> Seq(nsbm)]
                      /\ m \in nsbm /\ PyHoldsNone'
    OBVIOUS
  <2>1. PICK n \in Nat : Consumes(c, WaitQueue(c), n, 1)
    BY RecvConsumes
  <2>2. m \in nsbm /\ (Impl[c] = "py" => inbox' = inbox)
    BY RecvConsumes
  <2>3. queue' \in [Queue -> Seq(nsbm)] /\ inbox' \in [Client -> Seq(nsbm)]
    BY <1>1, <2>1, ConsumesType, WaitQueueType
  <2>4. \A d \in Client \ {c} : inbox'[d] = inbox[d]
    BY <1>1, <2>1 DEF Consumes
  <2>5. PyHoldsNone'
    BY <1>1, <2>2, <2>4 DEF PyHoldsNone
  <2> QED BY <2>2, <2>3, <2>5
<1>6. \A ch \in {"CTRL", "SEND"}, m \in nsbm : \A d : Publish(c, ch, d, m) =>
          queue' \in [Queue -> Seq(nsbm)] /\ dead' \in SUBSET (Client \X {"CTRL", "SEND"})
  BY <1>1, PublishType
<1>7. ASSUME inbox' = [inbox EXCEPT ![c] = <<>>]
      PROVE  inbox' \in [Client -> Seq(nsbm)] /\ PyHoldsNone'
  <2>1. <<>> \in Seq(nsbm)
    OBVIOUS
  <2>2. inbox' \in [Client -> Seq(nsbm)] /\ inbox'[c] = <<>>
    BY <1>1, <1>7, <2>1
  <2>3. \A d \in Client \ {c} : inbox'[d] = inbox[d]
    BY <1>1, <1>7
  <2> QED BY <1>1, <2>2, <2>3 DEF PyHoldsNone
<1>8. inbox' = inbox => PyHoldsNone'
  BY <1>1 DEF PyHoldsNone
<1>9. /\ IntroMessage(c) \in nsbm /\ Bare("EXIT", Orig[c], RequestCode(c)) \in nsbm
      /\ Bare("PING", Orig[c], RequestCode(c)) \in nsbm
  BY <1>1, RabbitMessages DEF Op
<1>10. \A q \in Queue : \A n \in 0 .. Len(queue[q]) : Cancel(c, q, n, 0) =>
           queue' \in [Queue -> Seq(nsbm)] /\ inbox' \in [Client -> Seq(nsbm)]
  <2> SUFFICES ASSUME NEW q \in Queue, NEW n \in 0 .. Len(queue[q]), Cancel(c, q, n, 0)
               PROVE  queue' \in [Queue -> Seq(nsbm)] /\ inbox' \in [Client -> Seq(nsbm)]
    OBVIOUS
  <2>1. inbox[c] \in Seq(nsbm) /\ queue[q] \in Seq(nsbm)
    BY <1>1
  <2>2. 0 <= Len(inbox[c]) + n
    BY <2>1
  <2> QED BY <1>1, <2>2, CancelConsumes, ConsumesType
<1> USE DEF brokerVars, daemonVars, countVars, BrokerTypeOK, DaemonTypeOK
<1> HIDE DEF Pc
<1>11. CASE Start(c)
  <2>1. nstarts' \in [Client -> Nat] /\ \A d \in Client : nstarts'[d] <= MaxStarts[d]
    BY <1>1, <1>2, <1>11 DEF Start
  <2>2. pc' \in [Client -> Pc] /\ Listeners' /\ step' \in [Client -> 0 .. 4] /\ PyHoldsNone'
    BY <1>1, <1>3, <1>4, <1>8, <1>11 DEF Start
  <2>3. dead' \in SUBSET (Client \X {"CTRL", "SEND"})
    BY <1>1, <1>11 DEF Start
  <2> QED BY <1>1, <1>11, <2>1, <2>2, <2>3 DEF Start, TypeInv, TypeOK, Pc
<1>12. CASE Declare(c)
  <2>1. DeclaredQueues(c) \in Seq(Queue) /\ Len(DeclaredQueues(c)) = 4
    BY QueueNames DEF DeclaredQueues
  <2>2. step[c] > 0 => DeclaredQueues(c)[step[c]] \in Queue
    <3>1. step[c] \in 0 .. 4
      BY <1>1
    <3>2. \A i \in 1 .. Len(DeclaredQueues(c)) : DeclaredQueues(c)[i] \in Queue
      BY <2>1
    <3> QED BY <2>1, <3>1, <3>2
  <2>3. bound' \in SUBSET Queue /\ exchange' \in BOOLEAN /\ queue' = queue
    BY <1>1, <1>12, <2>2 DEF Declare, DeclareAndBind
  <2>4. step' \in [Client -> 0 .. 4]
    <3>0. step[c] \in 0 .. 4
      BY <1>1
    <3>1. (IF step[c] = 4 THEN 0 ELSE step[c] + 1) \in 0 .. 4
      BY <3>0
    <3> QED BY <1>1, <1>12, <3>1 DEF Declare
  <2>5. pc' \in [Client -> Pc] /\ Listeners' /\ PyHoldsNone'
    BY <1>3, <1>4, <1>8, <1>12 DEF Declare
  <2> QED BY <1>1, <1>12, <2>3, <2>4, <2>5 DEF Declare, TypeInv, TypeOK, Pc
<1>13. CASE DeclareFails(c)
  <2>1. step' \in [Client -> 0 .. 4]
    BY <1>1, <1>13 DEF DeclareFails
  <2>2. timeouts' \in 0 .. MaxTimeouts
    BY <1>1, <1>2, <1>13 DEF DeclareFails
  <2>3. pc' \in [Client -> Pc] /\ Listeners' /\ PyHoldsNone'
    BY <1>1, <1>3, <1>4, <1>4a, <1>8, <1>13 DEF DeclareFails
  <2> QED BY <1>1, <1>13, <2>1, <2>2, <2>3 DEF DeclareFails, TypeInv, TypeOK, Pc
<1>14. CASE initialize(c)
  <2>1. queue' \in [Queue -> Seq(nsbm)] /\ dead' \in SUBSET (Client \X {"CTRL", "SEND"})
    BY <1>6, <1>9, <1>14 DEF initialize
  <2>2. pc' \in [Client -> Pc] /\ Listeners' /\ PyHoldsNone'
    BY <1>3, <1>4, <1>8, <1>14 DEF initialize
  <2> QED BY <1>1, <1>14, <2>1, <2>2 DEF initialize, TypeInv, TypeOK, Pc
<1>15. CASE InitReturn(c)
  <2>1. queue' \in [Queue -> Seq(nsbm)] /\ inbox' \in [Client -> Seq(nsbm)] /\ PyHoldsNone'
    BY <1>5, <1>15 DEF InitReturn
  <2>2. pc' \in [Client -> Pc] /\ Listeners'
    BY <1>3, <1>4, <1>15 DEF InitReturn
  <2> QED BY <1>1, <1>15, <2>1, <2>2 DEF InitReturn, TypeInv, TypeOK, Pc
<1>16. CASE Destroy(c)
  <2>1. queue' \in [Queue -> Seq(nsbm)] /\ dead' \in SUBSET (Client \X {"CTRL", "SEND"})
    BY <1>1, <1>6, <1>9, <1>16 DEF Destroy
  <2>2. pc' \in [Client -> Pc] /\ Listeners' /\ inbox' \in [Client -> Seq(nsbm)] /\ PyHoldsNone'
    BY <1>3, <1>4, <1>7, <1>16 DEF Destroy
  <2> QED BY <1>1, <1>16, <2>1, <2>2 DEF Destroy, TypeInv, TypeOK, Pc
<1>17. CASE exit(c)
  <2>1. queue' \in [Queue -> Seq(nsbm)] /\ dead' \in SUBSET (Client \X {"CTRL", "SEND"})
    BY <1>6, <1>9, <1>17 DEF exit
  <2>2. pc' \in [Client -> Pc] /\ Listeners' /\ inbox' \in [Client -> Seq(nsbm)] /\ PyHoldsNone'
    BY <1>3, <1>4, <1>7, <1>17 DEF exit
  <2> QED BY <1>1, <1>17, <2>1, <2>2 DEF exit, TypeInv, TypeOK, Pc
<1>18. CASE ping(c)
  <2>1. queue' \in [Queue -> Seq(nsbm)] /\ dead' \in SUBSET (Client \X {"CTRL", "SEND"})
    BY <1>6, <1>9, <1>18 DEF ping
  <2>2. pc' \in [Client -> Pc] /\ Listeners' /\ PyHoldsNone'
    BY <1>3, <1>4, <1>8, <1>18 DEF ping
  <2>3. npings' \in 0 .. MaxPings
    <3>1. npings < MaxPings /\ npings' = npings + 1
      BY <1>18 DEF ping
    <3> QED BY <1>1, <1>2, <3>1
  <2> QED BY <1>1, <1>18, <2>1, <2>2, <2>3 DEF ping, TypeInv, TypeOK, Pc
<1>19. CASE PingReturn(c)
  <2>1. queue' \in [Queue -> Seq(nsbm)] /\ inbox' \in [Client -> Seq(nsbm)] /\ PyHoldsNone'
    BY <1>5, <1>19 DEF PingReturn
  <2>2. pc' \in [Client -> Pc] /\ Listeners'
    BY <1>3, <1>4, <1>19 DEF PingReturn
  <2> QED BY <1>1, <1>19, <2>1, <2>2 DEF PingReturn, TypeInv, TypeOK, Pc
<1>20. CASE WaitTimeout(c)
  <2>1. /\ (\E n \in Nat : Consumes(c, WaitQueue(c), n, 0)) \/ UNCHANGED <<queue, inbox>>
        /\ Impl[c] = "py" => inbox' = inbox
    BY <1>20, GiveUpConsumes DEF WaitTimeout
  <2>2. queue' \in [Queue -> Seq(nsbm)] /\ inbox' \in [Client -> Seq(nsbm)]
    BY <1>1, <2>1, ConsumesType, WaitQueueType
  <2>3. \A d \in Client \ {c} : inbox'[d] = inbox[d]
    BY <1>1, <2>1 DEF Consumes
  <2>4. PyHoldsNone'
    BY <1>1, <2>1, <2>3 DEF PyHoldsNone
  <2>5. pc' \in [Client -> Pc] /\ Listeners' /\ timeouts' \in 0 .. MaxTimeouts
    <3>1. pc' \in [Client -> Pc] /\ Listeners'
      BY <1>3, <1>4, <1>20 DEF WaitTimeout
    <3> QED BY <1>1, <1>2, <1>20, <3>1 DEF WaitTimeout
  <2> QED BY <1>1, <1>20, <2>2, <2>4, <2>5 DEF WaitTimeout, TypeInv, TypeOK, Pc
<1>21. ASSUME NEW d \in SendTo[c], send(c, d) PROVE TypeInv'
  <2>1. nsent[c] + 1 \in 0 .. MaxSends
    BY <1>1, <1>2, <1>21 DEF send
  <2>2. <<c, nsent[c] + 1>> \in Value /\ Ident[c] \in Id /\ d \in Id /\ "SEND" \in Op
    <3>0. nsent[c] + 1 \in Nat
      BY <1>2, <2>1
    <3>1. <<c, nsent[c] + 1>> \in Value /\ "SEND" \in Op
      BY <3>0 DEF Value, Op
    <3>2. Ident[c] \in Id /\ d \in Id
      BY QueueNames, RabbitAssumption
    <3> QED BY <3>1, <3>2
  <2>3. DataMessage(c, "SEND", Ident[c], d, <<c, nsent[c] + 1>>) \in nsbm
    BY <1>1, <2>2, RabbitDataType
  <2>4. queue' \in [Queue -> Seq(nsbm)] /\ dead' \in SUBSET (Client \X {"CTRL", "SEND"})
    BY <1>6, <1>21, <2>3 DEF send
  <2>5. nsent' \in [Client -> 0 .. MaxSends]
    BY <1>1, <1>21, <2>1 DEF send
  <2>6. db' \in Seq(Value)
    BY <1>1, <1>21, <2>2 DEF send
  <2>7. PyHoldsNone' /\ Listeners'
    BY <1>4a, <1>8, <1>21 DEF send
  <2> QED BY <1>1, <1>21, <2>4, <2>5, <2>6, <2>7 DEF send, TypeInv, TypeOK, Pc
<1>22. ASSUME NEW d \in PostTo[c], post(c, d) PROVE TypeInv'
  <2>1. PICK i \in DOMAIN got[c] :
          LET e == got[c][i]
          IN  /\ posted' = posted \cup {e.payload_obj}
              /\ Publish(c, "SEND", d, DataMessage(c, "POST", e.source, d, e.payload_obj))
              /\ db' = IF Stores(c, "POST") THEN Append(db, e.payload_obj) ELSE db
    BY <1>22 DEF post
  <2>2. got[c][i] \in Mail
    BY <1>1, <2>1
  <2>3. got[c][i].source \in Id /\ got[c][i].payload_obj \in Value /\ d \in Id /\ "POST" \in Op
    BY <2>2, QueueNames, RabbitAssumption DEF Mail, Op
  <2>4. DataMessage(c, "POST", got[c][i].source, d, got[c][i].payload_obj) \in nsbm
    BY <1>1, <2>3, RabbitDataType
  <2>5. queue' \in [Queue -> Seq(nsbm)] /\ dead' \in SUBSET (Client \X {"CTRL", "SEND"})
    BY <1>6, <2>1, <2>4
  <2>6. db' \in Seq(Value)
    BY <1>1, <2>1, <2>3
  <2>7. PyHoldsNone' /\ Listeners' /\ posted' \in SUBSET Value
    BY <1>1, <1>4a, <1>8, <1>22, <2>1, <2>3 DEF post
  <2> QED BY <1>1, <1>22, <2>5, <2>6, <2>7 DEF post, TypeInv, TypeOK, Pc
<1>23. CASE receive(c) \/ listen(c)
  <2>1. pc' \in [Client -> Pc] /\ PyHoldsNone'
    BY <1>1, <1>3, <1>8, <1>23 DEF receive, listen, Goto
  <2>2. listen(c) => Impl[c] = "rmq"
    BY RabbitAssumption DEF listen
  <2>3. Listeners'
    BY <1>1, <1>23, <2>2 DEF receive, listen, Goto, Listeners
  <2> QED BY <1>1, <1>23, <2>1, <2>3 DEF receive, listen, TypeInv, TypeOK, Pc
<1>24. CASE RecvReturn(c)
  <2>1. PICK m \in NextFor(c) : Recv(c, m) /\ HandOver(c, m)
    BY <1>24 DEF RecvReturn
  <2>2. /\ queue' \in [Queue -> Seq(nsbm)] /\ inbox' \in [Client -> Seq(nsbm)] /\ PyHoldsNone'
        /\ m \in nsbm
    BY <1>5, <2>1
  <2>3. got' \in [Client -> Seq(Mail)] /\ db' \in Seq(Value)
    BY <1>1, <2>1, <2>2, HandOverType
  <2>4. pc' \in [Client -> Pc] /\ Listeners'
    BY <1>3, <1>4, <1>24 DEF RecvReturn
  <2> QED BY <1>1, <1>24, <2>2, <2>3, <2>4 DEF RecvReturn, TypeInv, TypeOK, Pc
<1>25. CASE Callback(c)
  <2> DEFINE q == RecvQueue(Ident[c])
  <2>1. q \in Queue /\ queue[q] \in Seq(nsbm) /\ inbox[c] \in Seq(nsbm)
    BY <1>1, QueueNames
  <2>2. /\ queue[q] # <<>> => Head(queue[q]) \in nsbm /\ Tail(queue[q]) \in Seq(nsbm)
        /\ inbox[c] # <<>> => Head(inbox[c]) \in nsbm /\ Tail(inbox[c]) \in Seq(nsbm)
    BY <2>1
  <2>3. \/ /\ inbox[c] # <<>> /\ HandOver(c, Head(inbox[c])) /\ queue' = queue
           /\ inbox' = [inbox EXCEPT ![c] = Tail(@)]
        \/ /\ queue[q] # <<>> /\ HandOver(c, Head(queue[q])) /\ inbox' = inbox
           /\ queue' = [queue EXCEPT ![q] = Tail(@)]
    BY <1>25 DEF Callback
  <2> HIDE DEF q
  <2>4. queue' \in [Queue -> Seq(nsbm)] /\ inbox' \in [Client -> Seq(nsbm)]
    BY <1>1, <2>1, <2>2, <2>3
  <2>5. got' \in [Client -> Seq(Mail)] /\ db' \in Seq(Value)
    BY <1>1, <2>2, <2>3, HandOverType
  <2>6. PyHoldsNone'
    <3>1. Impl[c] = "py" => inbox' = inbox
      BY <1>1, <2>3 DEF PyHoldsNone
    <3>2. \A d \in Client \ {c} : inbox'[d] = inbox[d]
      BY <1>1, <2>3
    <3> QED BY <1>1, <3>1, <3>2 DEF PyHoldsNone
  <2>7. Listeners'
    BY <1>4a, <1>25 DEF Callback
  <2> QED BY <1>1, <1>25, <2>7, <2>4, <2>5, <2>6 DEF Callback, TypeInv, TypeOK, Pc
<1>26. CASE stop_listen(c)
  <2>1. RecvQueue(Ident[c]) \in Queue
    BY QueueNames
  <2>2. PICK n \in 0 .. Len(queue[RecvQueue(Ident[c])]) : Cancel(c, RecvQueue(Ident[c]), n, 0)
    BY <1>26 DEF stop_listen
  <2>3. queue' \in [Queue -> Seq(nsbm)] /\ inbox' \in [Client -> Seq(nsbm)]
    BY <1>10, <2>1, <2>2
  <2>4. \A d \in Client \ {c} : inbox'[d] = inbox[d]
    BY <1>1, <2>2 DEF Cancel
  <2>5. Impl[c] # "py"
    BY <1>1, <1>26 DEF stop_listen, Listeners
  <2>6. PyHoldsNone' /\ pc' \in [Client -> Pc] /\ Listeners'
    BY <1>1, <1>3, <1>4, <1>26, <2>4, <2>5 DEF PyHoldsNone, stop_listen
  <2> QED BY <1>1, <1>26, <2>3, <2>6 DEF stop_listen, TypeInv, TypeOK, Pc
<1> QED BY <1>11, <1>12, <1>13, <1>14, <1>15, <1>16, <1>17, <1>18, <1>19, <1>20, <1>21, <1>22,
           <1>23, <1>24, <1>25, <1>26 DEF ClientNext

LEMMA TypeInvStep == TypeInv /\ [Next]_vars => TypeInv'
<1> SUFFICES ASSUME TypeInv, [Next]_vars PROVE TypeInv'
  OBVIOUS
<1>1. CASE UNCHANGED vars
  BY <1>1 DEF TypeInv, TypeOK, BrokerTypeOK, DaemonTypeOK, PyHoldsNone, Listeners, vars,
              brokerVars, daemonVars, clientVars, countVars
<1> QED BY <1>1, DaemonTyped, ClientTyped DEF Next

LEMMA TypeInvariant == Spec => []TypeInv
BY TypeInvInit, TypeInvStep, PTL DEF Spec

(* Every queue, every AMQP library, the database and what the programs got *)
(* keep their types, whatever daemons and clients stop, fail and start     *)
(* again: no queue is used that was never named, no declaration is skipped *)
(* and no counter leaves its bound.                                        *)
THEOREM RabbitTypeCorrect == Spec => []TypeOK
<1>1. TypeInv => TypeOK
  BY DEF TypeInv
<1> QED BY <1>1, TypeInvariant, PTL

-----------------------------------------------------------------------------
(* The kinds of steps.                                                     *)

mailVars == <<db, got, nsent, posted>>

Bears(m) == m.body.kind \in {"payload", "msg_key"}

(* A queue loses its beginning, or gets a message that is no mail. *)
Quiet(s, t) ==
    Suffix(s, t) \/ \E m \in nsbm : ~Bears(m) /\ m.code # "MESSAGE" /\ t = Append(s, m)

QuietStep ==
    /\ \A q \in Queue : Quiet(queue[q], queue'[q])
    /\ \A i \in Identifier : queue'[RecvQueue(i)] = queue[RecvQueue(i)]
    /\ \A c \in Client : Suffix(inbox[c], inbox'[c])
    /\ UNCHANGED mailVars

Receiving(c) == pc[c] \in {"recvWait", "listening"}

(* Client c consumes, and hands nothing to its program. *)
TakeStep(c) ==
    /\ \E n \in Nat, k \in {0, 1} :
          \/ Consumes(c, ResponseQueue(Ident[c]), n, k)
          \/ Receiving(c) /\ Consumes(c, RecvQueue(Ident[c]), n, k)
    /\ UNCHANGED mailVars

OverStep(c, n, m) ==
    /\ Receiving(c)
    /\ Consumes(c, RecvQueue(Ident[c]), n, 1)
    /\ m = Held(c, RecvQueue(Ident[c]), n)[1]
    /\ HandOver(c, m)
    /\ UNCHANGED <<nsent, posted>>

(* A message with a payload is published for d, or is not. *)
Mails(d, m) == queue' = queue \/ queue' = [queue EXCEPT ![RecvQueue(d)] = Append(@, m)]

SendStep(c, d, m) ==
    /\ Orig[c] = "APP_CLIENT" /\ nsent[c] < MaxSends
    /\ m = DataMessage(c, "SEND", Ident[c], d, <<c, nsent[c] + 1>>)
    /\ Mails(d, m)
    /\ nsent' = [nsent EXCEPT ![c] = @ + 1]
    /\ db' = IF Stores(c, "SEND") THEN Append(db, <<c, nsent[c] + 1>>) ELSE db
    /\ UNCHANGED <<inbox, got, posted>>

PostStep(c, d, e, m) ==
    /\ Orig[c] = "SIM_CLIENT" /\ (\E i \in DOMAIN got[c] : e = got[c][i])
    /\ e.payload_obj \notin posted
    /\ m = DataMessage(c, "POST", e.source, d, e.payload_obj)
    /\ Mails(d, m)
    /\ posted' = posted \cup {e.payload_obj}
    /\ db' = IF Stores(c, "POST") THEN Append(db, e.payload_obj) ELSE db
    /\ UNCHANGED <<inbox, got, nsent>>

MailStep(c) ==
    \/ TakeStep(c)
    \/ \E n \in Nat, m \in nsbm : OverStep(c, n, m)
    \/ \E d \in SendTo[c], m \in nsbm : SendStep(c, d, m)
    \/ \E d \in PostTo[c], e \in Mail, m \in nsbm : PostStep(c, d, e, m)

(* Nothing happens to a queue that is not written or read. *)
LEMMA QuietSame ==
    ASSUME TypeOK
    PROVE  /\ \A q \in Queue : Suffix(queue[q], queue[q]) /\ Suffix(queue[q], <<>>)
           /\ \A c \in Client : Suffix(inbox[c], inbox[c]) /\ Suffix(inbox[c], <<>>)
<1>1. \A q \in Queue : queue[q] \in Seq(nsbm)
  BY DEF TypeOK, BrokerTypeOK
<1>2. \A c \in Client : inbox[c] \in Seq(nsbm)
  BY DEF TypeOK
<1> QED BY <1>1, <1>2, SuffixSelf

(* The messages of INIT, PING and EXIT are no mail. *)
LEMMA PlainRabbitMessages ==
    /\ \A op, og, code : ~Bears(Bare(op, og, code)) /\ Bare(op, og, code).code = code
    /\ \A c : ~Bears(IntroMessage(c)) /\ IntroMessage(c).code # "MESSAGE" /\ RequestCode(c) # "MESSAGE"
    /\ ~Bears(InitResponse) /\ InitResponse.code # "MESSAGE"
    /\ ~Bears(PingResponse) /\ PingResponse.code # "MESSAGE"
BY DEF Bears, Bare, NoBody, IntroMessage, RequestCode, InitResponse, PingResponse, DaemonCode

LEMMA DaemonQuiet ==
    ASSUME TypeInv, DaemonNext, UNCHANGED clientVars
    PROVE  QuietStep
<1>1. queue \in [Queue -> Seq(nsbm)] /\ TypeOK /\ dimpl \in {"cpp", "py"}
  BY DEF TypeInv, TypeOK, BrokerTypeOK, DaemonTypeOK
<1>2. RequestQueue \in Queue /\ queue[RequestQueue] \in Seq(nsbm)
  BY <1>1, QueueNames
<1>3. UNCHANGED mailVars /\ UNCHANGED inbox
  BY DEF clientVars, countVars, mailVars
<1>4. \A i \in Identifier : RecvQueue(i) # RequestQueue /\ RecvQueue(i) \in Queue
  BY QueueNames
<1>5. ASSUME \E t : queue' = [queue EXCEPT ![RequestQueue] = t] /\ Suffix(queue[RequestQueue], t)
      PROVE  QuietStep
  <2>1. \A q \in Queue : Suffix(queue[q], queue'[q])
    BY <1>1, <1>2, <1>5, QuietSame
  <2>2. \A i \in Identifier : queue'[RecvQueue(i)] = queue[RecvQueue(i)]
    BY <1>1, <1>4, <1>5
  <2> QED BY <1>1, <1>3, <2>1, <2>2, QuietSame DEF QuietStep, Quiet
<1>6. CASE UNCHANGED queue
  BY <1>1, <1>3, <1>6, QuietSame DEF QuietStep, Quiet
<1>7. CASE HandleMessage
  <2> DEFINE m == Head(queue[RequestQueue])
             rest == [queue EXCEPT ![RequestQueue] = Tail(@)]
  <2>1. queue' \in {rest, reply_init(rest, m), reply_ping(rest, m)} /\ queue[RequestQueue] # <<>>
    BY <1>7 DEF HandleMessage
  <2>2. Suffix(queue[RequestQueue], Tail(queue[RequestQueue]))
    <3>1. Len(queue[RequestQueue]) \in Nat /\ Len(queue[RequestQueue]) >= 1
      BY <1>2, <2>1
    <3>2. 1 \in 0 .. Len(queue[RequestQueue])
      BY <3>1
    <3>3. Tail(queue[RequestQueue]) = SubSeq(queue[RequestQueue], 1 + 1, Len(queue[RequestQueue]))
      BY <1>2, <2>1
    <3> QED BY <3>2, <3>3 DEF Suffix
  <2>3. CASE queue' = rest
    BY <1>5, <2>2, <2>3
  <2>4. CASE queue' # rest
    <3>1. PICK i, r : /\ r \in nsbm /\ ~Bears(r) /\ r.code # "MESSAGE"
                      /\ queue' = [rest EXCEPT ![ResponseQueue(i)] = Append(@, r)]
      <4>1. InitResponse \in nsbm /\ PingResponse \in nsbm
        BY <1>1, RabbitMessages
      <4>2. \/ queue' = [rest EXCEPT ![ResponseQueue(IntroId(m))] = Append(@, InitResponse)]
            \/ queue' = [rest EXCEPT ![ResponseQueue(PingId(m))] = Append(@, PingResponse)]
        BY <2>1, <2>4 DEF reply_init, reply_ping, Routed
      <4> QED BY <4>1, <4>2, PlainRabbitMessages
    <3>2. ResponseQueue(i) # RequestQueue /\ \A j \in Identifier : RecvQueue(j) # ResponseQueue(i)
      BY QueueNames
    <3>3. \A q \in Queue : \/ q = RequestQueue /\ queue'[q] = Tail(queue[q])
                           \/ q = ResponseQueue(i) /\ queue'[q] = Append(queue[q], r)
                           \/ q # RequestQueue /\ q # ResponseQueue(i) /\ queue'[q] = queue[q]
      BY <1>1, <3>1, <3>2
    <3>4. \A q \in Queue : Quiet(queue[q], queue'[q])
      BY <1>1, <2>2, <3>1, <3>3, QuietSame DEF Quiet
    <3>5. \A j \in Identifier : queue'[RecvQueue(j)] = queue[RecvQueue(j)]
      BY <1>4, <3>2, <3>3
    <3> QED BY <1>1, <1>3, <3>4, <3>5, QuietSame DEF QuietStep
  <2> QED BY <2>3, <2>4
<1>8. CASE StopDaemon
  BY <1>2, <1>5, <1>8 DEF StopDaemon, Suffix
<1>9. CASE DeleteRequestQueue
  BY <1>1, <1>2, <1>5, <1>9, QuietSame DEF DeleteRequestQueue
<1> QED BY <1>6, <1>7, <1>8, <1>9 DEF DaemonNext, StartDaemon, DeleteNsbExchange, DeleteExchange

(* A control message reaches the request queue, or nothing. *)
LEMMA ControlQuiet ==
    ASSUME TypeInv, NEW c \in Client, NEW m \in nsbm, ~Bears(m), m.code # "MESSAGE",
           Publish(c, "CTRL", "", m), UNCHANGED mailVars,
           inbox' = inbox \/ inbox' = [inbox EXCEPT ![c] = <<>>]
    PROVE  QuietStep
<1>1. queue \in [Queue -> Seq(nsbm)] /\ TypeOK /\ inbox \in [Client -> Seq(nsbm)]
  BY DEF TypeInv, TypeOK, BrokerTypeOK
<1>2. queue' = queue \/ queue' = [queue EXCEPT ![RequestQueue] = Append(@, m)]
  BY DEF Publish, RoutingKey, Routed
<1>3. \A q \in Queue : queue'[q] = queue[q] \/ queue'[q] = Append(queue[q], m)
  BY <1>1, <1>2
<1>4. \A i \in Identifier : queue'[RecvQueue(i)] = queue[RecvQueue(i)]
  BY <1>1, <1>2, QueueNames
<1>5. \A d \in Client : inbox'[d] = inbox[d] \/ inbox'[d] = <<>>
  BY <1>1
<1> QED BY <1>1, <1>3, <1>4, <1>5, QuietSame DEF QuietStep, Quiet

(* A message with a payload goes to the RECV queue of d. *)
LEMMA DataMails ==
    ASSUME NEW c \in Client, NEW d \in Identifier, NEW m, Publish(c, "SEND", d, m)
    PROVE  Mails(d, m)
<1>1. d # ""
  BY WireAssumption
<1> QED BY <1>1 DEF Publish, RoutingKey, Routed, Mails

LEMMA ClientKinds ==
    ASSUME TypeInv, NEW c \in Client, ClientNext(c)
    PROVE  QuietStep \/ MailStep(c)
<1>1. /\ queue \in [Queue -> Seq(nsbm)] /\ TypeOK /\ inbox \in [Client -> Seq(nsbm)]
      /\ dimpl \in {"cpp", "py"} /\ got \in [Client -> Seq(Mail)] /\ PyHoldsNone
  BY DEF TypeInv, TypeOK, BrokerTypeOK, DaemonTypeOK
<1>2. ASSUME UNCHANGED <<queue, inbox>>, UNCHANGED mailVars PROVE QuietStep
  BY <1>1, <1>2, QuietSame DEF QuietStep, Quiet
<1>3. /\ IntroMessage(c) \in nsbm /\ ~Bears(IntroMessage(c)) /\ IntroMessage(c).code # "MESSAGE"
      /\ \A op \in {"EXIT", "PING"} : LET m == Bare(op, Orig[c], RequestCode(c))
                                      IN  m \in nsbm /\ ~Bears(m) /\ m.code # "MESSAGE"
  BY <1>1, RabbitMessages, PlainRabbitMessages DEF Op
<1>4. RecvQueue(Ident[c]) \in Queue /\ queue[RecvQueue(Ident[c])] \in Seq(nsbm) /\ inbox[c] \in Seq(nsbm)
  BY <1>1, QueueNames
<1>5. /\ pc[c] = "recvWait" => WaitQueue(c) = RecvQueue(Ident[c]) /\ Receiving(c)
      /\ pc[c] # "recvWait" => WaitQueue(c) = ResponseQueue(Ident[c])
  BY DEF WaitQueue, Receiving
<1>6. CASE Start(c) \/ Declare(c) \/ DeclareFails(c) \/ receive(c) \/ listen(c)
  BY <1>2, <1>6 DEF Start, Declare, DeclareAndBind, DeclareFails, receive, listen, brokerVars,
                    countVars, mailVars
<1>7. CASE initialize(c)
  BY <1>3, <1>7, ControlQuiet DEF initialize, countVars, mailVars
<1>8. CASE Destroy(c)
  <2>1. UNCHANGED mailVars /\ inbox' = [inbox EXCEPT ![c] = <<>>]
    BY <1>8 DEF Destroy, countVars, mailVars
  <2>2. CASE Impl[c] = "py"
    <3>1. queue' = queue /\ inbox[c] = <<>>
      BY <1>1, <1>8, <2>2 DEF Destroy, PyHoldsNone
    <3>2. inbox' = inbox
      BY <1>1, <2>1, <3>1
    <3> QED BY <1>2, <2>1, <3>1, <3>2
  <2>3. CASE Impl[c] # "py"
    <3>1. Publish(c, "CTRL", "", Bare("EXIT", Orig[c], RequestCode(c)))
      BY <1>8, <2>3 DEF Destroy
    <3> QED BY <1>3, <2>1, <3>1, ControlQuiet
  <2> QED BY <2>2, <2>3
<1>9. CASE exit(c)
  <2>1. UNCHANGED mailVars /\ inbox' = [inbox EXCEPT ![c] = <<>>]
    BY <1>9 DEF exit, countVars, mailVars
  <2> QED BY <1>3, <1>9, <2>1, ControlQuiet DEF exit
<1>10. CASE ping(c)
  <2>1. UNCHANGED mailVars /\ inbox' = inbox
    BY <1>10 DEF ping, mailVars
  <2> QED BY <1>3, <1>10, <2>1, ControlQuiet DEF ping
<1>11. CASE InitReturn(c) \/ PingReturn(c)
  <2>1. PICK m : Recv(c, m)
    BY <1>11 DEF InitReturn, PingReturn
  <2>2. UNCHANGED mailVars /\ pc[c] # "recvWait"
    BY <1>11 DEF InitReturn, PingReturn, countVars, mailVars
  <2>3. PICK n \in Nat : Consumes(c, WaitQueue(c), n, 1)
    BY <2>1, RecvConsumes
  <2> QED BY <1>5, <2>2, <2>3 DEF MailStep, TakeStep
<1>12. CASE WaitTimeout(c)
  <2>1. UNCHANGED mailVars
    BY <1>12 DEF WaitTimeout, mailVars
  <2>2. (\E n \in Nat : Consumes(c, WaitQueue(c), n, 0)) \/ UNCHANGED <<queue, inbox>>
    BY <1>12, GiveUpConsumes DEF WaitTimeout
  <2> QED BY <1>2, <1>5, <2>1, <2>2 DEF MailStep, TakeStep
<1>13. ASSUME NEW d \in SendTo[c], send(c, d) PROVE MailStep(c)
  <2> DEFINE m == DataMessage(c, "SEND", Ident[c], d, <<c, nsent[c] + 1>>)
  <2>1. d \in Identifier /\ Publish(c, "SEND", d, m)
    BY <1>13, RabbitAssumption DEF send
  <2>2. Mails(d, m)
    BY <2>1, DataMails
  <2>3. m \in nsbm
    <3>1. nsent \in [Client -> 0 .. MaxSends]
      BY <1>1 DEF TypeOK
    <3>2. MaxSends \in Nat
      BY WireAssumption
    <3>3. nsent[c] + 1 \in Nat
      BY <3>1, <3>2
    <3>4. <<c, nsent[c] + 1>> \in Value /\ "SEND" \in Op
      BY <3>3 DEF Value, Op
    <3> QED BY <1>1, <2>1, <3>4, QueueNames, RabbitDataType
  <2>4. SendStep(c, d, m)
    BY <1>13, <2>2 DEF SendStep, send
  <2> QED BY <2>3, <2>4 DEF MailStep
<1>14. ASSUME NEW d \in PostTo[c], post(c, d) PROVE MailStep(c)
  <2>1. PICK i \in DOMAIN got[c] :
          LET e == got[c][i]
          IN  /\ e.payload_obj \notin posted
              /\ posted' = posted \cup {e.payload_obj}
              /\ Publish(c, "SEND", d, DataMessage(c, "POST", e.source, d, e.payload_obj))
              /\ db' = IF Stores(c, "POST") THEN Append(db, e.payload_obj) ELSE db
    BY <1>14 DEF post
  <2> DEFINE e == got[c][i]
             m == DataMessage(c, "POST", e.source, d, e.payload_obj)
  <2>2. d \in Identifier /\ e \in Mail
    BY <1>1, <2>1, RabbitAssumption
  <2>3. Mails(d, m)
    BY <2>1, <2>2, DataMails
  <2>4. m \in nsbm
    <3>1. e.source \in Id /\ e.payload_obj \in Value /\ "POST" \in Op
      BY <2>2 DEF Mail, Op
    <3> QED BY <1>1, <2>2, <3>1, QueueNames, RabbitDataType
  <2>5. PostStep(c, d, e, m)
    BY <1>14, <2>1, <2>3 DEF PostStep, post, countVars
  <2> QED BY <2>2, <2>4, <2>5 DEF MailStep
<1>15. CASE RecvReturn(c)
  <2>1. PICK m : Recv(c, m) /\ HandOver(c, m)
    BY <1>15 DEF RecvReturn
  <2>2. m \in nsbm
    BY <2>1, RecvConsumes
  <2>3. PICK n \in Nat : Consumes(c, WaitQueue(c), n, 1) /\ m = Held(c, WaitQueue(c), n)[1]
    BY <2>1, RecvConsumes
  <2>4. pc[c] = "recvWait" /\ UNCHANGED <<nsent, posted>>
    BY <1>15 DEF RecvReturn, countVars
  <2> QED BY <1>5, <2>1, <2>2, <2>3, <2>4 DEF MailStep, OverStep
<1>16. CASE Callback(c)
  <2> DEFINE q == RecvQueue(Ident[c])
  <2>1. Receiving(c) /\ UNCHANGED <<nsent, posted>>
    BY <1>16 DEF Callback, Receiving, countVars
  <2>2. CASE inbox[c] # <<>>
    <3>1. HandOver(c, Head(inbox[c])) /\ queue' = queue /\ inbox' = [inbox EXCEPT ![c] = Tail(@)]
      BY <1>16, <2>2 DEF Callback
    <3>2. Len(inbox[c]) >= 1 /\ Len(inbox[c]) \in Nat /\ Head(inbox[c]) = inbox[c][1] /\ Head(inbox[c]) \in nsbm
      BY <1>4, <2>2
    <3>3. 0 \in 0 .. Len(queue[q]) /\ 1 <= Len(inbox[c]) + 0
      BY <1>4, <3>2
    <3>4. Held(c, q, 0) = inbox[c]
      <4>1. SubSeq(queue[q], 1, 0) = <<>>
        BY <1>4
      <4>2. inbox[c] \o <<>> = inbox[c]
        BY <1>4
      <4> QED BY <4>1, <4>2 DEF Held
    <3>5. queue' = [queue EXCEPT ![q] = SubSeq(queue[q], 0 + 1, Len(queue[q]))]
      <4>1. SubSeq(queue[q], 0 + 1, Len(queue[q])) = queue[q]
        BY <1>4
      <4>2. queue = [queue EXCEPT ![q] = queue[q]]
        BY <1>1
      <4> QED BY <3>1, <4>1, <4>2
    <3>6. Tail(inbox[c]) = SubSeq(inbox[c], 1 + 1, Len(inbox[c]))
      BY <1>4, <2>2
    <3>7. inbox' = [inbox EXCEPT ![c] = SubSeq(Held(c, q, 0), 1 + 1, Len(Held(c, q, 0)))]
      BY <3>1, <3>4, <3>6
    <3>8. Consumes(c, q, 0, 1)
      BY <3>3, <3>5, <3>7 DEF Consumes
    <3>9. Held(c, q, 0)[1] = Head(inbox[c])
      BY <3>2, <3>4
    <3>10. OverStep(c, 0, Head(inbox[c]))
      BY <2>1, <3>1, <3>8, <3>9 DEF OverStep
    <3> QED BY <3>2, <3>10 DEF MailStep
  <2>3. CASE inbox[c] = <<>>
    <3>1. /\ queue[q] # <<>> /\ HandOver(c, Head(queue[q])) /\ inbox' = inbox
          /\ queue' = [queue EXCEPT ![q] = Tail(@)]
      BY <1>16, <2>3 DEF Callback
    <3>2. /\ Len(queue[q]) >= 1 /\ Len(queue[q]) \in Nat /\ Head(queue[q]) = queue[q][1]
          /\ Head(queue[q]) \in nsbm
      BY <1>4, <3>1
    <3>3. 1 \in 0 .. Len(queue[q]) /\ 1 <= Len(inbox[c]) + 1
      BY <1>4, <3>2
    <3>4. Tail(queue[q]) = SubSeq(queue[q], 1 + 1, Len(queue[q]))
      BY <1>4, <3>1
    <3>5. queue' = [queue EXCEPT ![q] = SubSeq(queue[q], 1 + 1, Len(queue[q]))]
      BY <3>1, <3>4
    <3>6. inbox' = [inbox EXCEPT ![c] = <<>>]
      BY <1>1, <2>3, <3>1
    <3>7. Consumes(c, q, 1, 1)
      BY <3>3, <3>5, <3>6 DEF Consumes
    <3>8. Held(c, q, 1)[1] = Head(queue[q])
      <4>1. Len(inbox[c]) = 0 /\ 1 \in 1 .. (Len(inbox[c]) + 1)
        BY <2>3
      <4>2. /\ DOMAIN Held(c, q, 1) = 1 .. (Len(inbox[c]) + 1)
            /\ \A j \in DOMAIN Held(c, q, 1) :
                  Held(c, q, 1)[j] = IF j <= Len(inbox[c]) THEN inbox[c][j] ELSE queue[q][j - Len(inbox[c])]
        BY <1>4, <3>3, HeldIs
      <4>3. Held(c, q, 1)[1] = queue[q][1 - 0]
        BY <4>1, <4>2
      <4> QED BY <3>2, <4>3
    <3>9. OverStep(c, 1, Head(queue[q]))
      BY <2>1, <3>1, <3>7, <3>8 DEF OverStep
    <3> QED BY <3>2, <3>9 DEF MailStep
  <2> QED BY <2>2, <2>3
<1>17. CASE stop_listen(c)
  <2>1. PICK n \in 0 .. Len(queue[RecvQueue(Ident[c])]) : Cancel(c, RecvQueue(Ident[c]), n, 0)
    BY <1>17 DEF stop_listen
  <2>2. 0 <= Len(inbox[c]) + n /\ n \in Nat
    BY <1>4
  <2>3. Consumes(c, RecvQueue(Ident[c]), n, 0)
    BY <2>1, <2>2, CancelConsumes
  <2>4. Receiving(c) /\ UNCHANGED mailVars
    BY <1>17 DEF stop_listen, Receiving, countVars, mailVars
  <2> QED BY <2>2, <2>3, <2>4 DEF MailStep, TakeStep
<1> QED BY <1>6, <1>7, <1>8, <1>9, <1>10, <1>11, <1>12, <1>13, <1>14, <1>15, <1>16, <1>17 DEF ClientNext

(* Every step of the system is quiet or moves mail. *)
LEMMA MailSteps ==
    ASSUME TypeInv, [Next]_vars
    PROVE  QuietStep \/ \E c \in Client : MailStep(c)
<1>1. CASE UNCHANGED vars
  <2>1. UNCHANGED <<queue, inbox>> /\ UNCHANGED mailVars
    BY <1>1 DEF vars, brokerVars, clientVars, countVars, mailVars
  <2> QED BY <2>1, QuietSame DEF QuietStep, Quiet, TypeInv
<1> QED BY <1>1, DaemonQuiet, ClientKinds DEF Next

(* A payload in a RECV queue stays there until a client of that identifier  *)
(* receives: stop() of a daemon, a client that declares its queues again    *)
(* and the control messages leave the RECV queues alone.                    *)
LEMMA QueuedStep ==
    ASSUME TypeInv, [Next]_vars, NEW i \in Identifier,
           Len(queue'[RecvQueue(i)]) < Len(queue[RecvQueue(i)])
    PROVE  \E c \in Client : Ident[c] = i /\ Receiving(c)
<1>1. queue \in [Queue -> Seq(nsbm)] /\ RecvQueue(i) \in Queue /\ Len(queue[RecvQueue(i)]) \in Nat
  BY QueueNames DEF TypeInv, TypeOK, BrokerTypeOK
<1>2. queue'[RecvQueue(i)] # queue[RecvQueue(i)]
  BY <1>1
<1>3. ~QuietStep
  BY <1>2 DEF QuietStep
<1>4. PICK c \in Client : MailStep(c)
  BY <1>3, MailSteps
<1>5. CASE \E n, k : \/ Consumes(c, ResponseQueue(Ident[c]), n, k)
                     \/ Receiving(c) /\ Consumes(c, RecvQueue(Ident[c]), n, k)
  <2>1. PICK n, k : \/ Consumes(c, ResponseQueue(Ident[c]), n, k)
                    \/ Receiving(c) /\ Consumes(c, RecvQueue(Ident[c]), n, k)
    BY <1>5
  <2>2. CASE Consumes(c, ResponseQueue(Ident[c]), n, k)
    BY <1>1, <1>2, <2>2, QueueNames DEF Consumes
  <2>3. CASE Receiving(c) /\ Consumes(c, RecvQueue(Ident[c]), n, k)
    <3>1. Ident[c] = i
      BY <1>1, <1>2, <2>3, QueueNames DEF Consumes
    <3> QED BY <2>3, <3>1
  <2> QED BY <2>1, <2>2, <2>3
<1>6. ASSUME NEW d, NEW m \in nsbm, Mails(d, m) PROVE FALSE
  <2>1. queue'[RecvQueue(i)] = queue[RecvQueue(i)] \/ queue'[RecvQueue(i)] = Append(queue[RecvQueue(i)], m)
    BY <1>1, <1>6 DEF Mails
  <2>2. Len(Append(queue[RecvQueue(i)], m)) = Len(queue[RecvQueue(i)]) + 1
    BY <1>1
  <2> QED BY <1>1, <2>1, <2>2
<1> QED BY <1>4, <1>5, <1>6 DEF MailStep, TakeStep, OverStep, SendStep, PostStep

(* Neither the cleanup of a stopping daemon, which deletes the request     *)
(* queue and the exchange, nor a client that starts again loses a payload  *)
(* that waits for a client: only a receiving client shortens a RECV queue. *)
THEOREM RabbitQueuedSafe == Spec => QueuedSafe
<1> DEFINE Safe == \A i \in Identifier :
                      Len(queue'[RecvQueue(i)]) < Len(queue[RecvQueue(i)]) =>
                          \E c \in Client : Ident[c] = i /\ pc[c] \in {"recvWait", "listening"}
<1>1. TypeInv /\ [Next]_vars => [Safe]_vars
  BY QueuedStep DEF Receiving
<1>2. Spec => [][Safe]_vars
  BY <1>1, TypeInvariant, PTL DEF Spec
<1> QED BY <1>2 DEF QueuedSafe

-----------------------------------------------------------------------------
(* What is in a RECV queue is addressed to its identifier, and what is in  *)
(* a response queue is no mail.                                            *)

For(i) == {m \in nsbm : m.metadata.dest = i}
NoMail == {m \in nsbm : m.code # "MESSAGE"}

OwnInv ==
    /\ TypeInv
    /\ \A i \in Identifier : /\ queue[RecvQueue(i)] \in Seq(For(i))
                             /\ queue[ResponseQueue(i)] \in Seq(NoMail)
    /\ \A c \in Client : inbox[c] \in Seq(NoMail \cup For(Ident[c]))
    /\ OwnQueue

(* What a step consumes of a queue of T stays T. *)
LEMMA ConsumesKind ==
    ASSUME TypeOK, NEW c \in Client, NEW q \in Queue, NEW n, NEW k, Consumes(c, q, n, k),
           NEW T \in SUBSET nsbm, NEW S \in SUBSET T, queue[q] \in Seq(S), inbox[c] \in Seq(T)
    PROVE  /\ queue'[q] \in Seq(S) /\ inbox'[c] \in Seq(T) /\ (k = 1 => Held(c, q, n)[1] \in T)
           /\ \A x \in Queue \ {q} : queue'[x] = queue[x]
           /\ \A d \in Client \ {c} : inbox'[d] = inbox[d]
<1>1. /\ queue \in [Queue -> Seq(nsbm)] /\ inbox \in [Client -> Seq(nsbm)]
      /\ queue[q] \in Seq(nsbm) /\ inbox[c] \in Seq(nsbm)
  BY DEF TypeOK, BrokerTypeOK
<1>2. n \in 0 .. Len(queue[q]) /\ k \in {0, 1} /\ k <= Len(inbox[c]) + n
  BY DEF Consumes
<1> DEFINE h == Held(c, q, n)
           r == SubSeq(h, k + 1, Len(h))
           a == Len(inbox[c])
<1>3. /\ h \in Seq(nsbm) /\ DOMAIN h = 1 .. (a + n) /\ Len(h) = a + n
      /\ \A j \in DOMAIN h : h[j] = IF j <= a THEN inbox[c][j] ELSE queue[q][j - a]
  BY <1>1, <1>2, HeldIs
<1>4. /\ queue' = [queue EXCEPT ![q] = SubSeq(@, n + 1, Len(@))]
      /\ inbox' = [inbox EXCEPT ![c] = r] \/ inbox' = [inbox EXCEPT ![c] = <<>>]
  BY DEF Consumes
<1> HIDE DEF h, r
<1>5. a \in Nat /\ Len(queue[q]) \in Nat /\ n \in Nat
  BY <1>1, <1>2
<1>6. \A j \in 1 .. (a + n) : h[j] \in T
  <2>1. \A j \in 1 .. a : inbox[c][j] \in T
    OBVIOUS
  <2>2. \A j \in 1 .. Len(queue[q]) : queue[q][j] \in T
    OBVIOUS
  <2> HIDE DEF a
  <2>3. \A j \in 1 .. (a + n) : j <= a \/ j - a \in 1 .. Len(queue[q])
    BY <1>2, <1>5
  <2> QED BY <1>3, <1>5, <2>1, <2>2, <2>3
<1>7. h \in Seq(T)
  BY <1>3, <1>6
<1>8. r \in Seq(T)
  BY <1>2, <1>3, <1>7, SuffixElements DEF r
<1>9. SubSeq(queue[q], n + 1, Len(queue[q])) \in Seq(S)
  BY <1>2, SuffixElements
<1>10. inbox'[c] = r \/ inbox'[c] = <<>>
  BY <1>1, <1>4
<1>11. <<>> \in Seq(T)
  OBVIOUS
<1>12. inbox'[c] \in Seq(T)
  BY <1>8, <1>10, <1>11, Zenon
<1>13. queue'[q] \in Seq(S)
  BY <1>1, <1>4, <1>9
<1>14. k = 1 => h[1] \in T
  BY <1>2, <1>5, <1>6
<1>15. \A x \in Queue \ {q} : queue'[x] = queue[x]
  BY <1>1, <1>4
<1>16. \A d \in Client \ {c} : inbox'[d] = inbox[d]
  BY <1>1, <1>4
<1> QED BY <1>12, <1>13, <1>14, <1>15, <1>16 DEF h

(* A quiet step leaves a queue as it was, or adds no mail. *)
LEMMA QuietKind ==
    ASSUME NEW T \in SUBSET nsbm, NEW s \in Seq(T), NEW t, Quiet(s, t), NoMail \subseteq T
    PROVE  t \in Seq(T)
<1>1. CASE Suffix(s, t)
  BY <1>1, HitsSuffix
<1>2. CASE \E m \in nsbm : ~Bears(m) /\ m.code # "MESSAGE" /\ t = Append(s, m)
  BY <1>2 DEF NoMail
<1> QED BY <1>1, <1>2 DEF Quiet

LEMMA OwnInvInit == Init => OwnInv
<1> SUFFICES ASSUME Init PROVE OwnInv
  OBVIOUS
<1>1. \A i \in Identifier : queue[RecvQueue(i)] = <<>> /\ queue[ResponseQueue(i)] = <<>>
  BY QueueNames DEF Init, BrokerInit
<1>2. \A T : <<>> \in Seq(T)
  OBVIOUS
<1>3. OwnQueue
  BY DEF Init, OwnQueue
<1>4. \A c \in Client : inbox[c] = <<>>
  BY DEF Init
<1> QED BY <1>1, <1>2, <1>3, <1>4, TypeInvInit DEF OwnInv

LEMMA OwnInvStep == OwnInv /\ [Next]_vars => OwnInv'
<1> SUFFICES ASSUME OwnInv, [Next]_vars PROVE OwnInv'
  OBVIOUS
<1>1. TypeInv /\ TypeOK /\ TypeInv'
  BY TypeInvStep DEF OwnInv, TypeInv
<1>2. /\ queue \in [Queue -> Seq(nsbm)] /\ inbox \in [Client -> Seq(nsbm)]
      /\ got \in [Client -> Seq(Mail)]
  BY <1>1 DEF TypeOK, BrokerTypeOK
<1>3. /\ \A i \in Identifier : /\ queue[RecvQueue(i)] \in Seq(For(i))
                               /\ queue[ResponseQueue(i)] \in Seq(NoMail)
      /\ \A c \in Client : inbox[c] \in Seq(NoMail \cup For(Ident[c]))
      /\ OwnQueue
  BY DEF OwnInv
<1>4. /\ \A i \in Identifier : RecvQueue(i) \in Queue /\ ResponseQueue(i) \in Queue
      /\ \A c \in Client : Ident[c] \in Identifier
  BY QueueNames
<1>5. NoMail \in SUBSET nsbm /\ \A i : For(i) \in SUBSET nsbm /\ NoMail \cup For(i) \in SUBSET nsbm
  BY DEF NoMail, For
<1>6. CASE QuietStep
  <2>1. \A i \in Identifier : queue'[RecvQueue(i)] \in Seq(For(i))
    BY <1>3, <1>6 DEF QuietStep
  <2>2. \A i \in Identifier : queue'[ResponseQueue(i)] \in Seq(NoMail)
    BY <1>3, <1>4, <1>5, <1>6, QuietKind DEF QuietStep
  <2>3. \A c \in Client : inbox'[c] \in Seq(NoMail \cup For(Ident[c]))
    BY <1>3, <1>6, HitsSuffix DEF QuietStep
  <2>4. OwnQueue'
    BY <1>3, <1>6 DEF QuietStep, mailVars, OwnQueue
  <2> QED BY <1>1, <2>1, <2>2, <2>3, <2>4 DEF OwnInv
<1>7. ASSUME NEW c \in Client, NEW n, NEW k,
             \/ Consumes(c, ResponseQueue(Ident[c]), n, k)
             \/ Consumes(c, RecvQueue(Ident[c]), n, k)
      PROVE  /\ \A i \in Identifier : /\ queue'[RecvQueue(i)] \in Seq(For(i))
                                      /\ queue'[ResponseQueue(i)] \in Seq(NoMail)
             /\ \A d \in Client : inbox'[d] \in Seq(NoMail \cup For(Ident[d]))
  <2> DEFINE T == NoMail \cup For(Ident[c])
  <2>0. /\ NoMail \in SUBSET T /\ For(Ident[c]) \in SUBSET T /\ T \in SUBSET nsbm
        /\ inbox[c] \in Seq(T)
    BY <1>3, <1>5
  <2>a. /\ ResponseQueue(Ident[c]) \in Queue /\ queue[ResponseQueue(Ident[c])] \in Seq(NoMail)
        /\ RecvQueue(Ident[c]) \in Queue /\ queue[RecvQueue(Ident[c])] \in Seq(For(Ident[c]))
    BY <1>3, <1>4
  <2> HIDE DEF T
  <2>1. CASE Consumes(c, ResponseQueue(Ident[c]), n, k)
    <3>1. /\ queue'[ResponseQueue(Ident[c])] \in Seq(NoMail) /\ inbox'[c] \in Seq(T)
          /\ \A x \in Queue \ {ResponseQueue(Ident[c])} : queue'[x] = queue[x]
          /\ \A d \in Client \ {c} : inbox'[d] = inbox[d]
      BY <1>1, <2>0, <2>a, <2>1, ConsumesKind
    <3>2. \A i \in Identifier : queue'[RecvQueue(i)] = queue[RecvQueue(i)]
      BY <1>4, <3>1, QueueNames
    <3> QED BY <1>3, <1>4, <3>1, <3>2, QueueNames DEF T
  <2>2. CASE Consumes(c, RecvQueue(Ident[c]), n, k)
    <3>1. /\ queue'[RecvQueue(Ident[c])] \in Seq(For(Ident[c])) /\ inbox'[c] \in Seq(T)
          /\ \A x \in Queue \ {RecvQueue(Ident[c])} : queue'[x] = queue[x]
          /\ \A d \in Client \ {c} : inbox'[d] = inbox[d]
      BY <1>1, <2>0, <2>a, <2>2, ConsumesKind
    <3>2. \A i \in Identifier : queue'[ResponseQueue(i)] = queue[ResponseQueue(i)]
      BY <1>4, <3>1, QueueNames
    <3> QED BY <1>3, <1>4, <3>1, <3>2, QueueNames DEF T
  <2> QED BY <1>7, <2>1, <2>2
<1>8. ASSUME NEW d \in Identifier, NEW m \in For(d), Mails(d, m), inbox' = inbox, got' = got
      PROVE  OwnInv'
  <2>1. Append(queue[RecvQueue(d)], m) \in Seq(For(d))
    BY <1>3
  <2>2. \A x \in Queue : x # RecvQueue(d) => queue'[x] = queue[x]
    BY <1>2, <1>8 DEF Mails
  <2>3. queue'[RecvQueue(d)] = queue[RecvQueue(d)] \/ queue'[RecvQueue(d)] = Append(queue[RecvQueue(d)], m)
    BY <1>2, <1>4, <1>8 DEF Mails
  <2>4. \A i \in Identifier : queue'[ResponseQueue(i)] = queue[ResponseQueue(i)]
    BY <1>4, <2>2, QueueNames
  <2>5. \A i \in Identifier : queue'[RecvQueue(i)] \in Seq(For(i))
    BY <1>3, <1>4, <2>1, <2>2, <2>3, QueueNames
  <2>6. OwnQueue'
    BY <1>3, <1>8 DEF OwnQueue
  <2> QED BY <1>1, <1>3, <1>8, <2>4, <2>5, <2>6 DEF OwnInv
<1>9. ASSUME NEW c \in Client, TakeStep(c) PROVE OwnInv'
  <2>1. PICK n \in Nat, k \in {0, 1} : \/ Consumes(c, ResponseQueue(Ident[c]), n, k)
                                       \/ Consumes(c, RecvQueue(Ident[c]), n, k)
    BY <1>9 DEF TakeStep
  <2>2. OwnQueue'
    BY <1>3, <1>9 DEF TakeStep, mailVars, OwnQueue
  <2> QED BY <1>1, <1>7, <2>1, <2>2 DEF OwnInv
<1>10. ASSUME NEW c \in Client, NEW n \in Nat, NEW m \in nsbm, OverStep(c, n, m) PROVE OwnInv'
  <2> DEFINE T == NoMail \cup For(Ident[c])
  <2>0. For(Ident[c]) \in SUBSET T /\ T \in SUBSET nsbm
    BY <1>5
  <2>1. m \in T
    BY <1>1, <1>3, <1>4, <1>10, <2>0, ConsumesKind DEF OverStep
  <2>2. m.code = "MESSAGE" => m.metadata.dest = Ident[c]
    BY <2>1 DEF NoMail, For
  <2> DEFINE e == [op |-> m.op, source |-> m.metadata.src, destination |-> m.metadata.dest,
                   payload_obj |-> ContentOf(c, m)]
  <2>3. got' = got \/ (m.code = "MESSAGE" /\ got' = [got EXCEPT ![c] = Append(@, e)])
    BY <1>10 DEF OverStep, HandOver
  <2>4. m.code = "MESSAGE" => e.destination = Ident[c]
    BY <2>2
  <2> HIDE DEF e
  <2>5. OwnQueue'
    <3>1. CASE got' = got
      BY <1>3, <3>1 DEF OwnQueue
    <3>2. CASE m.code = "MESSAGE" /\ got' = [got EXCEPT ![c] = Append(@, e)]
      <4>1. got'[c] = Append(got[c], e) /\ \A d \in Client \ {c} : got'[d] = got[d]
        BY <1>2, <3>2
      <4>2. \A j \in DOMAIN Append(got[c], e) :
               (j \in DOMAIN got[c] /\ Append(got[c], e)[j] = got[c][j]) \/ Append(got[c], e)[j] = e
        BY <1>2
      <4>3. \A j \in DOMAIN got'[c] : got'[c][j].destination = Ident[c]
        BY <1>3, <2>4, <3>2, <4>1, <4>2 DEF OwnQueue
      <4> QED BY <1>3, <4>1, <4>3 DEF OwnQueue
    <3> QED BY <2>3, <3>1, <3>2
  <2> QED BY <1>1, <1>7, <1>10, <2>5 DEF OwnInv, OverStep
<1>11. ASSUME NEW c \in Client, NEW d \in SendTo[c], NEW m \in nsbm, SendStep(c, d, m) PROVE OwnInv'
  <2>1. d \in Identifier /\ m \in For(d)
    BY <1>11, RabbitAssumption DEF SendStep, DataMessage, Route, For
  <2> QED BY <1>8, <1>11, <2>1 DEF SendStep
<1>12. ASSUME NEW c \in Client, NEW d \in PostTo[c], NEW e \in Mail, NEW m \in nsbm, PostStep(c, d, e, m)
       PROVE OwnInv'
  <2>1. d \in Identifier /\ m \in For(d)
    BY <1>12, RabbitAssumption DEF PostStep, DataMessage, Route, For
  <2> QED BY <1>8, <1>12, <2>1 DEF PostStep
<1> QED BY <1>1, <1>6, <1>9, <1>10, <1>11, <1>12, MailSteps DEF MailStep

(* A client of the RabbitMQ version is given only what was sent or posted  *)
(* to its identifier, by receive(), fetch() or a listen() callback, though *)
(* its AMQP library mixes deliveries of two queues.                        *)
THEOREM RabbitOwnQueue == Spec => []OwnQueue
<1>1. OwnInv => OwnQueue
  BY DEF OwnInv
<1> QED BY <1>1, OwnInvInit, OwnInvStep, PTL DEF Spec

-----------------------------------------------------------------------------
(* Keys.  No key is under way that the database has not given out, so a     *)
(* payload that is stored is not named by an older message.                 *)

Plain(v) == v[1] # "#"
KnownMessage ==
    {m \in nsbm : /\ m.body.kind = "payload" => Plain(m.body.val)
                  /\ m.body.kind = "msg_key" => Plain(m.body.val) \/ m.body.val[2] \in DOMAIN db}
PlainMail == {e \in Mail : Plain(e.payload_obj)}
PlainValue == {v \in Value : Plain(v)}

KeysKnown ==
    /\ \A q \in Queue : queue[q] \in Seq(KnownMessage)
    /\ \A c \in Client : inbox[c] \in Seq(KnownMessage) /\ got[c] \in Seq(PlainMail)
    /\ db \in Seq(PlainValue)

(* Nothing that is known is forgotten. *)
LEMMA KnownGrows ==
    ASSUME DOMAIN db \subseteq DOMAIN db'
    PROVE  /\ KnownMessage \subseteq KnownMessage' /\ KnownMessage \subseteq nsbm
           /\ \A s : s \in Seq(KnownMessage) => s \in Seq(KnownMessage')
<1>1. KnownMessage \subseteq KnownMessage' /\ KnownMessage \subseteq nsbm
  BY DEF KnownMessage
<1> QED BY <1>1, SeqMono

(* What a client hands over is plain. *)
LEMMA ContentPlain ==
    ASSUME TypeOK, db \in Seq(PlainValue), NEW c \in Client, NEW m \in KnownMessage
    PROVE  ContentOf(c, m) \in PlainValue
<1>1. NoValue \in PlainValue
  BY MessageTypes DEF NoValue, PlainValue, Plain
<1>2. CASE UseDB /\ Impl[c] # "rmq"
  <2>1. ContentOf(c, m) = NoValue \/ \E i \in DOMAIN db : ContentOf(c, m) = db[i]
    BY <1>2 DEF ContentOf, IsKey
  <2> QED BY <1>1, <2>1
<1>3. CASE ~(UseDB /\ Impl[c] # "rmq")
  <2>1. ContentOf(c, m) = IF m.body.kind = "payload" THEN m.body.val ELSE NoValue
    BY <1>3 DEF ContentOf, PayloadOf
  <2>2. m.body.kind = "payload" => m.body.val \in PlainValue
    BY DEF KnownMessage, nsbm, Body, PlainValue
  <2> QED BY <1>1, <2>1, <2>2
<1> QED BY <1>2, <1>3

(* A message made for a plain payload is known once its key is. *)
LEMMA DataKnown ==
    ASSUME TypeOK, NEW c \in Client, NEW op, NEW s, NEW d, NEW v \in PlainValue, NEW m \in nsbm,
           m = DataMessage(c, op, s, d, v), db \in Seq(PlainValue),
           db' = IF Stores(c, op) THEN Append(db, v) ELSE db
    PROVE  m \in KnownMessage' /\ db' \in Seq(PlainValue) /\ DOMAIN db \subseteq DOMAIN db'
<1>1. m.body = PayloadBody(UseDB /\ Impl[c] # "rmq", IF Stores(c, op) THEN <<"#", Len(db) + 1>> ELSE v)
  BY DEF DataMessage
<1>2. Stores(c, op) => UseDB /\ Impl[c] # "rmq"
  BY DEF Stores
<1>3. db' \in Seq(PlainValue) /\ DOMAIN db \subseteq DOMAIN db' /\ (Stores(c, op) => Len(db) + 1 \in DOMAIN db')
  OBVIOUS
<1>4. Plain(v)
  BY DEF PlainValue
<1>5. CASE Stores(c, op)
  <2>1. m.body = [kind |-> "msg_key", val |-> <<"#", Len(db) + 1>>]
    BY <1>1, <1>2, <1>5 DEF PayloadBody
  <2> QED BY <1>3, <1>5, <2>1 DEF KnownMessage
<1>6. CASE ~Stores(c, op)
  <2>1. m.body.val = v
    BY <1>1, <1>6 DEF PayloadBody
  <2> QED BY <1>3, <1>4, <2>1 DEF KnownMessage
<1> QED BY <1>5, <1>6

LEMMA KeysKnownInit == Init => KeysKnown
<1> SUFFICES ASSUME Init PROVE KeysKnown
  OBVIOUS
<1>1. \A T : <<>> \in Seq(T)
  OBVIOUS
<1>2. (\A q \in Queue : queue[q] = <<>>) /\ (\A c \in Client : inbox[c] = <<>> /\ got[c] = <<>>) /\ db = <<>>
  BY DEF Init, BrokerInit
<1> QED BY <1>1, <1>2 DEF KeysKnown

LEMMA KeysKnownStep ==
    ASSUME TypeInv, KeysKnown, [Next]_vars
    PROVE  KeysKnown'
<1>1. TypeOK /\ TypeInv'
  BY TypeInvStep DEF TypeInv
<1>2. /\ queue \in [Queue -> Seq(nsbm)] /\ inbox \in [Client -> Seq(nsbm)]
      /\ got \in [Client -> Seq(Mail)]
  BY <1>1 DEF TypeOK, BrokerTypeOK
<1>3. /\ \A q \in Queue : queue[q] \in Seq(KnownMessage)
      /\ \A c \in Client : inbox[c] \in Seq(KnownMessage) /\ got[c] \in Seq(PlainMail)
      /\ db \in Seq(PlainValue)
  BY DEF KeysKnown
<1>4. KnownMessage \in SUBSET nsbm /\ NoMail \cap {m \in nsbm : ~Bears(m)} \subseteq KnownMessage
  BY DEF KnownMessage, Bears, NoMail
<1>5. CASE QuietStep
  <2>1. KnownMessage' = KnownMessage
    BY <1>5 DEF QuietStep, mailVars, KnownMessage
  <2>2. \A q \in Queue : queue'[q] \in Seq(KnownMessage)
    <3> SUFFICES ASSUME NEW q \in Queue PROVE queue'[q] \in Seq(KnownMessage)
      OBVIOUS
    <3>1. queue[q] \in Seq(KnownMessage) /\ Quiet(queue[q], queue'[q])
      BY <1>3, <1>5 DEF QuietStep
    <3>2. CASE Suffix(queue[q], queue'[q])
      BY <3>1, <3>2, HitsSuffix
    <3>3. CASE \E m \in nsbm : ~Bears(m) /\ queue'[q] = Append(queue[q], m)
      <4>1. PICK m \in nsbm : ~Bears(m) /\ queue'[q] = Append(queue[q], m)
        BY <3>3
      <4>2. m \in KnownMessage
        BY <4>1 DEF KnownMessage, Bears
      <4> QED BY <3>1, <4>1, <4>2
    <3> QED BY <3>1, <3>2, <3>3 DEF Quiet
  <2>3. \A c \in Client : inbox'[c] \in Seq(KnownMessage)
    BY <1>3, <1>5, HitsSuffix DEF QuietStep
  <2> QED BY <1>3, <1>5, <2>1, <2>2, <2>3 DEF QuietStep, mailVars, KeysKnown
<1>6. ASSUME NEW c \in Client, NEW q \in Queue, NEW n, NEW k, Consumes(c, q, n, k)
      PROVE  /\ \A x \in Queue : queue'[x] \in Seq(KnownMessage)
             /\ \A d \in Client : inbox'[d] \in Seq(KnownMessage)
             /\ k = 1 => Held(c, q, n)[1] \in KnownMessage
  <2>1. KnownMessage \in SUBSET KnownMessage
    OBVIOUS
  <2>2. /\ queue'[q] \in Seq(KnownMessage) /\ inbox'[c] \in Seq(KnownMessage)
        /\ (k = 1 => Held(c, q, n)[1] \in KnownMessage)
        /\ \A x \in Queue \ {q} : queue'[x] = queue[x]
        /\ \A d \in Client \ {c} : inbox'[d] = inbox[d]
    BY <1>1, <1>3, <1>4, <1>6, <2>1, ConsumesKind
  <2> QED BY <1>3, <2>2
<1>7. ASSUME NEW c \in Client, TakeStep(c) PROVE KeysKnown'
  <2>1. PICK n \in Nat, k \in {0, 1} : \/ Consumes(c, ResponseQueue(Ident[c]), n, k)
                                       \/ Consumes(c, RecvQueue(Ident[c]), n, k)
    BY <1>7 DEF TakeStep
  <2>2. /\ \A x \in Queue : queue'[x] \in Seq(KnownMessage)
        /\ \A d \in Client : inbox'[d] \in Seq(KnownMessage)
    BY <1>6, <2>1, QueueNames
  <2>3. KnownMessage' = KnownMessage
    BY <1>7 DEF TakeStep, mailVars, KnownMessage
  <2> QED BY <1>3, <1>7, <2>2, <2>3 DEF TakeStep, mailVars, KeysKnown
<1>8. ASSUME NEW c \in Client, NEW n \in Nat, NEW m \in nsbm, OverStep(c, n, m) PROVE KeysKnown'
  <2>1. /\ \A x \in Queue : queue'[x] \in Seq(KnownMessage)
        /\ \A d \in Client : inbox'[d] \in Seq(KnownMessage)
        /\ m \in KnownMessage
    BY <1>6, <1>8, QueueNames DEF OverStep
  <2>2. HandOver(c, m)
    BY <1>8 DEF OverStep
  <2>3. db' = db \/ \E i \in DOMAIN db : db' = [db EXCEPT ![i] = NoValue]
    BY <2>2 DEF HandOver, IsKey
  <2>4. NoValue \in PlainValue
    BY MessageTypes DEF NoValue, PlainValue, Plain
  <2>5. db' \in Seq(PlainValue) /\ DOMAIN db' = DOMAIN db
    BY <1>3, <2>3, <2>4
  <2>6. KnownMessage' = KnownMessage
    BY <2>5 DEF KnownMessage
  <2> DEFINE e == [op |-> m.op, source |-> m.metadata.src, destination |-> m.metadata.dest,
                   payload_obj |-> ContentOf(c, m)]
  <2>7. got' = got \/ got' = [got EXCEPT ![c] = Append(@, e)]
    BY <2>2 DEF HandOver
  <2>8. e \in PlainMail
    <3>1. ContentOf(c, m) \in PlainValue
      BY <1>1, <1>3, <2>1, ContentPlain
    <3>2. m.op \in Op /\ m.metadata.src \in Id /\ m.metadata.dest \in Id
      BY DEF nsbm, Metadata
    <3> QED BY <3>1, <3>2 DEF PlainMail, Mail, PlainValue
  <2> HIDE DEF e
  <2>9. \A d \in Client : got'[d] \in Seq(PlainMail)
    <3>1. \A d \in Client : got'[d] = got[d] \/ got'[d] = Append(got[d], e)
      BY <1>2, <2>7
    <3>2. \A s \in Seq(PlainMail) : Append(s, e) \in Seq(PlainMail)
      BY <2>8
    <3> QED BY <1>3, <3>1, <3>2
  <2> QED BY <2>1, <2>5, <2>6, <2>9 DEF KeysKnown
<1>9. ASSUME NEW c \in Client, NEW d \in Identifier, NEW op, NEW s, NEW v \in PlainValue, NEW m \in nsbm,
             m = DataMessage(c, op, s, d, v), Mails(d, m), inbox' = inbox, got' = got,
             db' = IF Stores(c, op) THEN Append(db, v) ELSE db
      PROVE  KeysKnown'
  <2>1. m \in KnownMessage' /\ db' \in Seq(PlainValue) /\ DOMAIN db \subseteq DOMAIN db'
    BY <1>1, <1>3, <1>9, DataKnown
  <2>2. \A t : t \in Seq(KnownMessage) => t \in Seq(KnownMessage')
    BY <2>1, KnownGrows
  <2>3. \A x \in Queue : queue'[x] = queue[x] \/ queue'[x] = Append(queue[x], m)
    BY <1>2, <1>9 DEF Mails
  <2>4. \A x \in Queue : queue'[x] \in Seq(KnownMessage')
    <3> SUFFICES ASSUME NEW x \in Queue PROVE queue'[x] \in Seq(KnownMessage')
      OBVIOUS
    <3>1. queue[x] \in Seq(KnownMessage')
      BY <1>3, <2>2
    <3>2. Append(queue[x], m) \in Seq(KnownMessage')
      BY <2>1, <3>1
    <3> QED BY <2>3, <3>1, <3>2
  <2> QED BY <1>3, <1>9, <2>1, <2>2, <2>4 DEF KeysKnown
<1>10. ASSUME NEW c \in Client, NEW d \in SendTo[c], NEW m \in nsbm, SendStep(c, d, m) PROVE KeysKnown'
  <2>1. d \in Identifier
    BY RabbitAssumption
  <2>2. <<c, nsent[c] + 1>> \in PlainValue
    <3>1. nsent \in [Client -> 0 .. MaxSends]
      BY <1>1 DEF TypeOK
    <3>2. MaxSends \in Nat
      BY WireAssumption
    <3>3. nsent[c] + 1 \in Nat
      BY <3>1, <3>2
    <3> QED BY <3>3, WireAssumption DEF PlainValue, Plain, Value
  <2> QED BY <1>9, <1>10, <2>1, <2>2 DEF SendStep
<1>11. ASSUME NEW c \in Client, NEW d \in PostTo[c], NEW e \in Mail, NEW m \in nsbm, PostStep(c, d, e, m)
       PROVE  KeysKnown'
  <2>1. d \in Identifier
    BY RabbitAssumption
  <2>2. e \in PlainMail
    BY <1>3, <1>11 DEF PostStep
  <2>3. e.payload_obj \in PlainValue
    BY <2>2 DEF PlainMail, PlainValue, Mail
  <2> QED BY <1>9, <1>11, <2>1, <2>3 DEF PostStep
<1> QED BY <1>5, <1>7, <1>8, <1>10, <1>11, MailSteps DEF MailStep

-----------------------------------------------------------------------------
(* One copy.  Places(p) is split into boxes: the queues, what each AMQP      *)
(* library holds, and what each program got.                                *)

Bearers(p) == {m \in nsbm : Carries(m, p)}
MailOf(p) == {e \in Mail : e.payload_obj = p}
Shown(c, p) == Orig[c] = "APP_CLIENT" \/ p \notin posted
SentFact(p) == p[2] <= nsent[p[1]]

Box == ({"queue"} \X Queue) \cup ({"inbox", "got"} \X Client)
Boxes(p) ==
    [x \in Box |-> CASE x[1] = "queue" -> Hits(queue[x[2]], Bearers(p))
                     [] x[1] = "inbox" -> Hits(inbox[x[2]], Bearers(p))
                     [] OTHER -> IF Shown(x[2], p) THEN Hits(got[x[2]], MailOf(p)) ELSE {}]

(* One box at most holds something, and holds it once. *)
Unique(H, sent) ==
    /\ \A x \in Box : Single(H[x])
    /\ \A x, y \in Box : H[x] # {} /\ H[y] # {} => x = y
    /\ (\E x \in Box : H[x] # {}) => sent

(* Only the boxes of S exchange what they hold. *)
Reboxed(H, G, S) ==
    /\ S \subseteq Box
    /\ \A x \in Box \ S : Fewer(H[x], G[x])
    /\ \A x \in S : Single(G[x])
    /\ \A x, y \in S : G[x] # {} /\ G[y] # {} => x = y
    /\ \A x \in S : G[x] # {} => \E y \in S : H[y] # {}

CopyInv ==
    /\ TypeInv /\ KeysKnown
    /\ \A p \in Payload : Unique(Boxes(p), SentFact(p))

(* Then there is still one box at most. *)
LEMMA UniqueReboxed ==
    ASSUME NEW H, NEW G, NEW a \in BOOLEAN, NEW b \in BOOLEAN, Unique(H, a), a => b,
           NEW S, Reboxed(H, G, S)
    PROVE  Unique(G, b)
<1>1. \A x \in Box \ S : G[x] # {} => H[x] # {}
  BY DEF Reboxed, Fewer
<1>2. \A x \in Box : G[x] # {} => \E y \in Box : H[y] # {} /\ (y \in S <=> x \in S) /\ (x \notin S => y = x)
  BY <1>1 DEF Reboxed
<1>3. \A x, y \in Box : G[x] # {} /\ G[y] # {} => x = y
  <2> SUFFICES ASSUME NEW x \in Box, NEW y \in Box, G[x] # {}, G[y] # {} PROVE x = y
    OBVIOUS
  <2>1. x \in S <=> y \in S
    BY <1>2 DEF Unique
  <2>2. CASE x \in S
    BY <2>1, <2>2 DEF Reboxed
  <2>3. CASE x \notin S
    BY <1>1, <2>1, <2>3 DEF Unique
  <2> QED BY <2>2, <2>3
<1>4. \A x \in Box : Single(G[x])
  BY DEF Unique, Reboxed, Fewer
<1>5. (\E x \in Box : G[x] # {}) => b
  BY <1>2 DEF Unique
<1> QED BY <1>3, <1>4, <1>5 DEF Unique

(* What was nowhere may be put into one box. *)
LEMMA UniqueNew ==
    ASSUME NEW H, NEW G, Unique(H, FALSE), NEW dst \in Box, Single(G[dst]),
           \A x \in Box \ {dst} : Fewer(H[x], G[x])
    PROVE  Unique(G, TRUE)
<1>1. \A x \in Box : H[x] = {}
  BY DEF Unique
<1>2. \A x \in Box : x # dst => G[x] = {}
  BY <1>1 DEF Fewer
<1>3. \A x \in Box : Single(G[x])
  BY <1>2 DEF Single
<1> QED BY <1>2, <1>3 DEF Unique

LEMMA BoxKinds ==
    /\ \A q \in Queue : <<"queue", q>> \in Box
    /\ \A c \in Client : <<"inbox", c>> \in Box /\ <<"got", c>> \in Box
    /\ \A x \in Box : \/ \E q \in Queue : x = <<"queue", q>>
                      \/ \E c \in Client : x = <<"inbox", c>> \/ x = <<"got", c>>
BY DEF Box

LEMMA BoxesAre ==
    ASSUME NEW p
    PROVE  /\ \A q \in Queue : Boxes(p)[<<"queue", q>>] = Hits(queue[q], Bearers(p))
           /\ \A c \in Client : /\ Boxes(p)[<<"inbox", c>>] = Hits(inbox[c], Bearers(p))
                                /\ Boxes(p)[<<"got", c>>] = IF Shown(c, p) THEN Hits(got[c], MailOf(p)) ELSE {}
BY BoxKinds DEF Boxes

LEMMA BoxesAfter ==
    ASSUME NEW p
    PROVE  /\ \A q \in Queue : Boxes(p)'[<<"queue", q>>] = Hits(queue'[q], Bearers(p)')
           /\ \A c \in Client : /\ Boxes(p)'[<<"inbox", c>>] = Hits(inbox'[c], Bearers(p)')
                                /\ Boxes(p)'[<<"got", c>>] = IF Shown(c, p)' THEN Hits(got'[c], MailOf(p)) ELSE {}
BY BoxKinds DEF Boxes, MailOf

LEMMA NoValueNoPayload ==
    ASSUME NEW p \in Payload
    PROVE  NoValue # p /\ p \in Value /\ p[1] \in Client /\ p[2] \in Nat /\ p = <<p[1], p[2]>> /\ Plain(p)
<1>0. MaxSends \in Nat
  BY WireAssumption
<1>1. p[1] \in Client /\ p[2] \in 1 .. MaxSends /\ p = <<p[1], p[2]>>
  BY DEF Payload
<1>2. p[1] # "" /\ p[1] # "#"
  BY <1>1, WireAssumption
<1>3. NoValue[1] = ""
  BY DEF NoValue
<1>4. p[2] \in Nat
  BY <1>0, <1>1
<1> QED BY <1>1, <1>2, <1>3, <1>4 DEF Value, Plain

(* No known message bears p that did not before, unless its key is new. *)
LEMMA NamesShrink ==
    ASSUME NEW p \in Payload, DOMAIN db \subseteq DOMAIN db',
           \A i \in DOMAIN db : db'[i] = db[i] \/ db'[i] = NoValue
    PROVE  KnownMessage \cap Bearers(p)' \subseteq Bearers(p)
<1>1. NoValue # p
  BY NoValueNoPayload
<1>2. ASSUME NEW m \in KnownMessage, m \in Bearers(p)' PROVE m \in Bearers(p)
  <2>1. m \in nsbm /\ m.body.kind \in {"payload", "msg_key"} /\ Names(m.body.val, p)'
    BY <1>2 DEF Bearers, Carries
  <2>2. CASE m.body.val[1] # "#"
    BY <2>1, <2>2 DEF Names, IsKey, Bearers, Carries
  <2>3. CASE m.body.val[1] = "#"
    <3>1. m.body.val[2] \in DOMAIN db
      BY <2>1, <2>3 DEF KnownMessage, Plain
    <3>2. IsKey(m.body.val) /\ IsKey(m.body.val)'
      BY <2>3, <3>1 DEF IsKey
    <3>3. db'[m.body.val[2]] = p
      BY <2>1, <3>2 DEF Names
    <3>4. db[m.body.val[2]] = p
      BY <1>1, <3>1, <3>3
    <3> QED BY <2>1, <3>2, <3>4 DEF Names, Bearers, Carries
  <2> QED BY <2>2, <2>3
<1> QED BY <1>2

(* What is consumed of a queue and of what a library holds is not there any *)
(* more, and what is delivered is not in both.                              *)
LEMMA ConsumesHits ==
    ASSUME TypeOK, NEW c \in Client, NEW q \in Queue, NEW n, NEW k, Consumes(c, q, n, k), NEW C,
           Single(Hits(queue[q], C)), Single(Hits(inbox[c], C)),
           Hits(queue[q], C) = {} \/ Hits(inbox[c], C) = {}
    PROVE  LET A == Hits(inbox'[c], C)
               B == Hits(queue'[q], C)
               some == Hits(queue[q], C) # {} \/ Hits(inbox[c], C) # {}
           IN  /\ Single(A) /\ Single(B) /\ (A = {} \/ B = {})
               /\ A # {} \/ B # {} => some
               /\ k = 1 /\ Held(c, q, n)[1] \in C => A = {} /\ B = {} /\ some
<1>1. /\ queue \in [Queue -> Seq(nsbm)] /\ inbox \in [Client -> Seq(nsbm)]
      /\ queue[q] \in Seq(nsbm) /\ inbox[c] \in Seq(nsbm)
  BY DEF TypeOK, BrokerTypeOK
<1>2. n \in 0 .. Len(queue[q]) /\ k \in {0, 1} /\ k <= Len(inbox[c]) + n
  BY DEF Consumes
<1> DEFINE h == Held(c, q, n)
           r == SubSeq(h, k + 1, Len(h))
           t == SubSeq(queue[q], n + 1, Len(queue[q]))
           a == Len(inbox[c])
           z == Len(queue[q])
           Tot == Hits(inbox[c], C) \cup {a + j : j \in Hits(queue[q], C)}
<1>3. /\ h \in Seq(nsbm) /\ DOMAIN h = 1 .. (a + n) /\ Len(h) = a + n
      /\ \A j \in DOMAIN h : h[j] = IF j <= a THEN inbox[c][j] ELSE queue[q][j - a]
  BY <1>1, <1>2, HeldIs
<1>4. /\ queue' = [queue EXCEPT ![q] = t]
      /\ inbox' = [inbox EXCEPT ![c] = r] \/ inbox' = [inbox EXCEPT ![c] = <<>>]
  BY DEF Consumes
<1>5. /\ a \in Nat /\ z \in Nat /\ n \in Nat /\ k \in Nat /\ n <= z /\ k <= a + n
      /\ DOMAIN inbox[c] = 1 .. a /\ DOMAIN queue[q] = 1 .. z
  BY <1>1, <1>2
<1>6. DOMAIN t = 1 .. (z - n) /\ \A j \in DOMAIN t : t[j] = queue[q][j + n]
  BY <1>1, <1>2, SuffixElements
<1>7. DOMAIN r = 1 .. ((a + n) - k) /\ \A j \in DOMAIN r : r[j] = h[j + k]
  <2>1. k \in 0 .. Len(h)
    BY <1>3, <1>5
  <2> HIDE DEF h, a
  <2>2. /\ DOMAIN SubSeq(h, k + 1, Len(h)) = 1 .. (Len(h) - k)
        /\ \A j \in DOMAIN SubSeq(h, k + 1, Len(h)) : SubSeq(h, k + 1, Len(h))[j] = h[j + k]
    BY <1>3, <2>1, SuffixElements
  <2>3. DOMAIN r = 1 .. (Len(h) - k) /\ \A j \in DOMAIN r : r[j] = h[j + k]
    BY <2>2
  <2> HIDE DEF r
  <2>4. Len(h) = a + n
    BY <1>3
  <2> QED BY <2>3, <2>4
<1>8. queue'[q] = t /\ (inbox'[c] = r \/ inbox'[c] = <<>>)
  BY <1>1, <1>4
<1> HIDE DEF h, r, t, a, z
<1>9. \A j \in Hits(t, C) : j \in Nat /\ j >= 1 /\ j + n \in Hits(queue[q], C)
  BY <1>5, <1>6 DEF Hits
<1>10. \A j \in 1 .. (a + n) : h[j] \in C => j \in Tot
  <2>1. \A j \in 1 .. (a + n) : h[j] = IF j <= a THEN inbox[c][j] ELSE queue[q][j - a]
    BY <1>3
  <2>2. ASSUME NEW j \in 1 .. (a + n), h[j] \in C PROVE j \in Tot
    <3>1. CASE j <= a
      BY <1>5, <2>1, <2>2, <3>1 DEF Hits
    <3>2. CASE ~(j <= a)
      <4>1. j - a \in 1 .. z /\ j = a + (j - a)
        BY <1>5, <3>2
      <4>2. j - a \in Hits(queue[q], C)
        BY <1>5, <2>1, <2>2, <3>2, <4>1 DEF Hits
      <4> QED BY <4>1, <4>2
    <3> QED BY <3>1, <3>2
  <2> QED BY <2>2
<1>11. \A j \in Hits(r, C) : j \in Nat /\ j >= 1 /\ j + k <= a + n /\ j + k \in Tot
  BY <1>5, <1>7, <1>10 DEF Hits
<1>12. \A j \in Hits(t, C) : j \in Nat /\ j >= 1 /\ j + n + a \in Tot
  BY <1>5, <1>9
<1>13. Single(Tot) /\ (Tot # {} => Hits(queue[q], C) # {} \/ Hits(inbox[c], C) # {})
  <2>1. Hits(queue[q], C) \subseteq Int /\ Hits(inbox[c], C) \subseteq Int
    BY <1>5 DEF Hits
  <2> QED BY <1>5, <2>1 DEF Single
<1> HIDE DEF Tot
<1>14. /\ Single(Hits(r, C)) /\ Single(Hits(t, C)) /\ (Hits(r, C) = {} \/ Hits(t, C) = {})
       /\ Hits(r, C) # {} \/ Hits(t, C) # {} => Tot # {}
  BY <1>5, <1>11, <1>12, <1>13 DEF Single
<1>15. ASSUME k = 1, h[1] \in C PROVE Hits(r, C) = {} /\ Hits(t, C) = {} /\ Tot # {}
  <2>1. 1 \in Tot
    BY <1>5, <1>10, <1>15
  <2> QED BY <1>5, <1>11, <1>12, <1>13, <1>15, <2>1 DEF Single
<1>16. Hits(<<>>, C) = {} /\ Single({})
  BY DEF Hits, Single
<1> QED BY <1>8, <1>13, <1>14, <1>15, <1>16 DEF h

(* What programs got stays, and what simulators posted is shown no more. *)
LEMMA GotStays ==
    ASSUME NEW p, got' = got, posted \subseteq posted'
    PROVE  \A d \in Client : /\ Fewer(Boxes(p)[<<"got", d>>], Boxes(p)'[<<"got", d>>])
                             /\ Orig[d] # "APP_CLIENT" /\ p \in posted' => Boxes(p)'[<<"got", d>>] = {}
<1>1. \A d \in Client : Shown(d, p)' => Shown(d, p)
  BY DEF Shown
<1>2. \A d \in Client : Orig[d] # "APP_CLIENT" /\ p \in posted' => ~Shown(d, p)'
  BY DEF Shown
<1>3. \A A : Fewer(A, A) /\ Fewer(A, {})
  BY DEF Fewer, Single
<1> QED BY <1>1, <1>2, <1>3, BoxesAre, BoxesAfter

(* A quiet step moves no payload. *)
LEMMA QuietCopies ==
    ASSUME TypeOK, NEW p \in Payload, QuietStep
    PROVE  Reboxed(Boxes(p), Boxes(p)', {}) /\ UNCHANGED nsent
<1> DEFINE H == Boxes(p)
           G == Boxes(p)'
           C == Bearers(p)
<1>1. UNCHANGED <<db, got, nsent, posted>>
  BY DEF QuietStep, mailVars
<1>2. Bearers(p)' = C
  BY <1>1 DEF Bearers, Carries, Names, IsKey
<1>3. /\ \A q \in Queue : G[<<"queue", q>>] = Hits(queue'[q], C) /\ H[<<"queue", q>>] = Hits(queue[q], C)
      /\ \A d \in Client : G[<<"inbox", d>>] = Hits(inbox'[d], C) /\ H[<<"inbox", d>>] = Hits(inbox[d], C)
  BY <1>2, BoxesAre, BoxesAfter
<1>4. ASSUME NEW s \in Seq(nsbm), NEW t, Quiet(s, t) PROVE Fewer(Hits(s, C), Hits(t, C))
  <2>1. CASE Suffix(s, t)
    BY <2>1, HitsSuffix
  <2>2. ASSUME NEW m \in nsbm, ~Bears(m), t = Append(s, m) PROVE Fewer(Hits(s, C), Hits(t, C))
    <3>1. m \notin C
      BY <2>2 DEF Bears, Bearers, Carries
    <3>2. Fewer(Hits(s, C), Hits(Append(s, m), C))
      BY <3>1, AppendFewer
    <3> QED BY <2>2, <3>2
  <2> QED BY <1>4, <2>1, <2>2 DEF Quiet
<1>5. \A d \in Client : Fewer(H[<<"got", d>>], G[<<"got", d>>])
  BY <1>1, GotStays
<1> HIDE DEF H, G, C
<1>6. \A q \in Queue : Fewer(H[<<"queue", q>>], G[<<"queue", q>>])
  <2>1. \A q \in Queue : queue[q] \in Seq(nsbm) /\ Quiet(queue[q], queue'[q])
    BY DEF TypeOK, BrokerTypeOK, QuietStep
  <2> QED BY <1>3, <1>4, <2>1
<1>7. \A d \in Client : Fewer(H[<<"inbox", d>>], G[<<"inbox", d>>])
  <2>1. \A d \in Client : inbox[d] \in Seq(nsbm) /\ Suffix(inbox[d], inbox'[d])
    BY DEF TypeOK, QuietStep
  <2>2. \A d \in Client : Fewer(Hits(inbox[d], C), Hits(inbox'[d], C))
    BY <2>1, HitsSuffix
  <2> QED BY <1>3, <2>2
<1>8. \A x \in Box : Fewer(H[x], G[x])
  BY <1>5, <1>6, <1>7, BoxKinds
<1> QED BY <1>1, <1>8 DEF H, G, Reboxed

(* What a step that consumes does to the boxes of p. *)
Consumed(p, c, q, taken) ==
    LET H == Boxes(p)
        G == Boxes(p)'
        u == <<"queue", q>>
        v == <<"inbox", c>>
    IN  /\ \A x \in Box \ {u, v} : x[1] # "got" => Fewer(H[x], G[x])
        /\ Single(G[u]) /\ Single(G[v]) /\ (G[u] = {} \/ G[v] = {})
        /\ G[u] # {} \/ G[v] # {} => H[u] # {} \/ H[v] # {}
        /\ taken => G[u] = {} /\ G[v] = {} /\ (H[u] # {} \/ H[v] # {})

LEMMA ConsumeCopies ==
    ASSUME TypeOK, KeysKnown, NEW p \in Payload, Unique(Boxes(p), SentFact(p)),
           NEW c \in Client, NEW q \in Queue, NEW n, NEW k, Consumes(c, q, n, k),
           KnownMessage \cap Bearers(p)' \subseteq Bearers(p)
    PROVE  Consumed(p, c, q, k = 1 /\ Held(c, q, n)[1] \in Bearers(p))
<1> DEFINE H == Boxes(p)
           G == Boxes(p)'
           C == Bearers(p)
           D == Bearers(p)'
           u == <<"queue", q>>
           v == <<"inbox", c>>
<1>1. /\ \A x \in Queue : queue[x] \in Seq(KnownMessage)
      /\ \A d \in Client : inbox[d] \in Seq(KnownMessage)
  BY DEF KeysKnown
<1>2. KnownMessage \in SUBSET nsbm /\ KnownMessage \in SUBSET KnownMessage
  BY DEF KnownMessage
<1>3. /\ queue'[q] \in Seq(KnownMessage) /\ inbox'[c] \in Seq(KnownMessage)
      /\ \A x \in Queue \ {q} : queue'[x] = queue[x]
      /\ \A d \in Client \ {c} : inbox'[d] = inbox[d]
  BY <1>1, <1>2, ConsumesKind
<1>4. /\ \A x \in Queue : G[<<"queue", x>>] = Hits(queue'[x], D) /\ H[<<"queue", x>>] = Hits(queue[x], C)
      /\ \A d \in Client : G[<<"inbox", d>>] = Hits(inbox'[d], D) /\ H[<<"inbox", d>>] = Hits(inbox[d], C)
  BY BoxesAre, BoxesAfter
<1>5. Single(H[u]) /\ Single(H[v]) /\ (H[u] = {} \/ H[v] = {})
  BY BoxKinds DEF Unique
<1>6. H[u] = Hits(queue[q], C) /\ H[v] = Hits(inbox[c], C)
  BY <1>4
<1> HIDE DEF H, G, C, D
<1>7. \A s \in Seq(KnownMessage) : Hits(s, D) \subseteq Hits(s, C)
  <2>1. \A s \in Seq(KnownMessage) : \A j \in DOMAIN s : s[j] \in KnownMessage
    OBVIOUS
  <2> QED BY <2>1 DEF Hits, C, D
<1>8. \A A, B : A \subseteq B => (Single(B) => Single(A)) /\ (B = {} => A = {}) /\ Fewer(B, A)
  BY DEF Single, Fewer
<1>9. /\ \A x \in Queue \ {q} : Fewer(H[<<"queue", x>>], G[<<"queue", x>>])
      /\ \A d \in Client \ {c} : Fewer(H[<<"inbox", d>>], G[<<"inbox", d>>])
  BY <1>1, <1>3, <1>4, <1>7, <1>8
<1>10. \A x \in Box \ {u, v} : x[1] # "got" => Fewer(H[x], G[x])
  BY <1>9, BoxKinds
<1> DEFINE A == Hits(inbox'[c], C)
           B == Hits(queue'[q], C)
           some == H[u] # {} \/ H[v] # {}
<1>11. /\ Single(A) /\ Single(B) /\ (A = {} \/ B = {})
       /\ A # {} \/ B # {} => some
       /\ k = 1 /\ Held(c, q, n)[1] \in C => A = {} /\ B = {} /\ some
  BY <1>5, <1>6, ConsumesHits
<1>12. G[v] \subseteq A /\ G[u] \subseteq B
  BY <1>3, <1>4, <1>7
<1> HIDE DEF A, B
<1>13. /\ Single(G[u]) /\ Single(G[v]) /\ (G[u] = {} \/ G[v] = {})
       /\ G[u] # {} \/ G[v] # {} => some
       /\ k = 1 /\ Held(c, q, n)[1] \in C => G[u] = {} /\ G[v] = {} /\ some
  BY <1>8, <1>11, <1>12
<1> QED BY <1>10, <1>13 DEF Consumed, H, G, C

(* A step that consumes and hands nothing over. *)
LEMMA TakeCopies ==
    ASSUME TypeOK, KeysKnown, NEW p \in Payload, Unique(Boxes(p), SentFact(p)),
           NEW c \in Client, TakeStep(c)
    PROVE  (\E S : Reboxed(Boxes(p), Boxes(p)', S)) /\ UNCHANGED nsent
<1>1. PICK q \in Queue : \E n, k : Consumes(c, q, n, k)
  BY QueueNames DEF TakeStep
<1>2. PICK n, k : Consumes(c, q, n, k)
  BY <1>1
<1>3. UNCHANGED <<db, got, nsent, posted>>
  BY DEF TakeStep, mailVars
<1>4. Bearers(p)' = Bearers(p)
  BY <1>3 DEF Bearers, Carries, Names, IsKey
<1>5. Consumed(p, c, q, k = 1 /\ Held(c, q, n)[1] \in Bearers(p))
  BY <1>2, <1>4, ConsumeCopies
<1> DEFINE H == Boxes(p)
           G == Boxes(p)'
           u == <<"queue", q>>
           v == <<"inbox", c>>
<1>6. \A d \in Client : Fewer(H[<<"got", d>>], G[<<"got", d>>])
  BY <1>3, GotStays
<1>7. /\ \A x \in Box \ {u, v} : x[1] # "got" => Fewer(H[x], G[x])
      /\ Single(G[u]) /\ Single(G[v]) /\ (G[u] = {} \/ G[v] = {})
      /\ G[u] # {} \/ G[v] # {} => H[u] # {} \/ H[v] # {}
  BY <1>5 DEF Consumed
<1> HIDE DEF H, G
<1>8. \A x \in Box \ {u, v} : Fewer(H[x], G[x])
  BY <1>6, <1>7, BoxKinds
<1>9. Reboxed(H, G, {u, v})
  BY <1>7, <1>8, BoxKinds DEF Reboxed
<1> QED BY <1>3, <1>9 DEF H, G

(* What is handed over as p bears p. *)
LEMMA ContentBears ==
    ASSUME NEW p \in Payload, NEW c \in Client, NEW m \in KnownMessage, ContentOf(c, m) = p
    PROVE  m \in Bearers(p)
<1>1. p # NoValue /\ m \in nsbm
  BY NoValueNoPayload DEF KnownMessage
<1>2. CASE UseDB /\ Impl[c] # "rmq"
  <2> DEFINE w == PayloadOf(TRUE, m)
  <2>1. ContentOf(c, m) = IF IsKey(w) THEN db[w[2]] ELSE NoValue
    BY <1>2 DEF ContentOf
  <2>2. IsKey(w) /\ db[w[2]] = p
    BY <1>1, <2>1
  <2>3. ~IsKey(NoValue)
    BY DEF IsKey, NoValue
  <2>4. m.body.kind = "msg_key" /\ w = m.body.val
    BY <2>2, <2>3 DEF PayloadOf
  <2> QED BY <1>1, <2>2, <2>4 DEF Bearers, Carries, Names
<1>3. CASE ~(UseDB /\ Impl[c] # "rmq")
  <2>1. ContentOf(c, m) = PayloadOf(FALSE, m)
    BY <1>3 DEF ContentOf, PayloadOf
  <2>2. m.body.kind = "payload" /\ m.body.val = p
    BY <1>1, <2>1 DEF PayloadOf
  <2>3. ~IsKey(m.body.val)
    BY <2>2 DEF KnownMessage, Plain, IsKey
  <2> QED BY <1>1, <2>2, <2>3 DEF Bearers, Carries, Names
<1> QED BY <1>2, <1>3

(* A step that hands something over. *)
LEMMA OverCopies ==
    ASSUME TypeOK, KeysKnown, NEW p \in Payload, Unique(Boxes(p), SentFact(p)),
           NEW c \in Client, NEW n \in Nat, NEW m \in nsbm, OverStep(c, n, m)
    PROVE  (\E S : Reboxed(Boxes(p), Boxes(p)', S)) /\ UNCHANGED nsent
<1> DEFINE H == Boxes(p)
           G == Boxes(p)'
           q == RecvQueue(Ident[c])
           u == <<"queue", q>>
           v == <<"inbox", c>>
           g == <<"got", c>>
           e == [op |-> m.op, source |-> m.metadata.src, destination |-> m.metadata.dest,
                 payload_obj |-> ContentOf(c, m)]
<1>1. /\ Consumes(c, q, n, 1) /\ m = Held(c, q, n)[1] /\ HandOver(c, m) /\ UNCHANGED <<nsent, posted>>
  BY DEF OverStep
<1>2. q \in Queue
  BY QueueNames
<1>3. /\ \A x \in Queue : queue[x] \in Seq(KnownMessage)
      /\ \A d \in Client : inbox[d] \in Seq(KnownMessage)
      /\ db \in Seq(PlainValue) /\ got \in [Client -> Seq(Mail)]
  BY DEF KeysKnown, TypeOK
<1>4. m \in KnownMessage
  <2>1. KnownMessage \in SUBSET nsbm /\ KnownMessage \in SUBSET KnownMessage
    BY DEF KnownMessage
  <2>2. queue[q] \in Seq(KnownMessage) /\ inbox[c] \in Seq(KnownMessage)
    BY <1>2, <1>3
  <2>3. Held(c, q, n)[1] \in KnownMessage
    BY <1>1, <1>2, <2>1, <2>2, ConsumesKind
  <2> QED BY <1>1, <2>3
<1>5. db' = db \/ \E i \in DOMAIN db : db' = [db EXCEPT ![i] = NoValue]
  BY <1>1 DEF HandOver, IsKey
<1>6. DOMAIN db \subseteq DOMAIN db' /\ \A i \in DOMAIN db : db'[i] = db[i] \/ db'[i] = NoValue
  BY <1>3, <1>5
<1>7. KnownMessage \cap Bearers(p)' \subseteq Bearers(p)
  BY <1>6, NamesShrink
<1>8. Consumed(p, c, q, m \in Bearers(p))
  <2>1. Consumed(p, c, q, 1 = 1 /\ Held(c, q, n)[1] \in Bearers(p))
    BY <1>1, <1>2, <1>7, ConsumeCopies
  <2> QED BY <1>1, <2>1
<1>9. got' = got \/ got' = [got EXCEPT ![c] = Append(@, e)]
  BY <1>1 DEF HandOver
<1>10. \A d \in Client : Shown(d, p)' = Shown(d, p)
  BY <1>1 DEF Shown
<1>11. \A d \in Client : /\ H[<<"got", d>>] = IF Shown(d, p) THEN Hits(got[d], MailOf(p)) ELSE {}
                         /\ G[<<"got", d>>] = IF Shown(d, p) THEN Hits(got'[d], MailOf(p)) ELSE {}
  BY <1>10, BoxesAre, BoxesAfter
<1>12. /\ \A x \in Box \ {u, v} : x[1] # "got" => Fewer(H[x], G[x])
       /\ Single(G[u]) /\ Single(G[v]) /\ (G[u] = {} \/ G[v] = {})
       /\ G[u] # {} \/ G[v] # {} => H[u] # {} \/ H[v] # {}
       /\ m \in Bearers(p) => G[u] = {} /\ G[v] = {} /\ (H[u] # {} \/ H[v] # {})
  BY <1>8 DEF Consumed
<1>13. u \in Box /\ v \in Box /\ g \in Box /\ u # v /\ u # g /\ v # g
  BY <1>2, BoxKinds
<1>14. ContentOf(c, m) = p => m \in Bearers(p)
  BY <1>4, ContentBears
<1>15. \A x \in Box : Single(H[x]) /\ \A y \in Box : H[x] # {} /\ H[y] # {} => x = y
  BY DEF Unique
<1>16. ContentOf(c, m) # p => e \notin MailOf(p)
  BY DEF MailOf
<1> HIDE DEF H, G, e
<1>17. \A d \in Client \ {c} : got'[d] = got[d]
  BY <1>3, <1>9
<1>18. got'[c] = got[c] \/ got'[c] = Append(got[c], e)
  BY <1>3, <1>9
<1>19. \A d \in Client \ {c} : Fewer(H[<<"got", d>>], G[<<"got", d>>])
  BY <1>11, <1>17, FewerSame
<1>20. /\ e \notin MailOf(p) => Fewer(Hits(got[c], MailOf(p)), Hits(Append(got[c], e), MailOf(p)))
       /\ Hits(got[c], MailOf(p)) = {} => Single(Hits(Append(got[c], e), MailOf(p)))
  <2>1. got[c] \in Seq(Mail)
    BY <1>3
  <2> QED BY <2>1, AppendFewer
<1>21. ContentOf(c, m) # p => Fewer(H[g], G[g])
  BY <1>11, <1>16, <1>18, <1>20, FewerSame DEF Fewer
<1>22. H[g] = {} => Single(G[g])
  BY <1>11, <1>18, <1>20 DEF Single
<1>23. \A x \in Box \ {u, v, g} : Fewer(H[x], G[x])
  BY <1>12, <1>19, BoxKinds
<1>24. CASE ContentOf(c, m) = p
  <2>1. G[u] = {} /\ G[v] = {} /\ (H[u] # {} \/ H[v] # {})
    BY <1>12, <1>14, <1>24
  <2>2. H[g] = {}
    BY <1>13, <1>15, <2>1
  <2>3. Reboxed(H, G, {u, v, g})
    BY <1>12, <1>13, <1>22, <1>23, <2>1, <2>2 DEF Reboxed
  <2> QED BY <1>1, <2>3 DEF H, G
<1>25. CASE ContentOf(c, m) # p
  <2>1. \A x \in Box \ {u, v} : Fewer(H[x], G[x])
    BY <1>21, <1>23, <1>25
  <2>2. Reboxed(H, G, {u, v})
    BY <1>12, <1>13, <2>1 DEF Reboxed
  <2> QED BY <1>1, <2>2 DEF H, G
<1> QED BY <1>24, <1>25

(* A message made for v bears v only. *)
LEMMA DataBears ==
    ASSUME TypeOK, NEW c \in Client, NEW op, NEW s, NEW d, NEW v \in PlainValue, NEW m \in nsbm,
           m = DataMessage(c, op, s, d, v), NEW p \in Payload,
           db' = IF Stores(c, op) THEN Append(db, v) ELSE db
    PROVE  m \in Bearers(p)' => v = p
<1> SUFFICES ASSUME m \in Bearers(p)' PROVE v = p
  OBVIOUS
<1>1. m.body.val = IF Stores(c, op) THEN <<"#", Len(db) + 1>> ELSE v
  BY DEF DataMessage, PayloadBody
<1>2. Names(m.body.val, p)'
  BY DEF Bearers, Carries
<1>3. CASE Stores(c, op)
  <2>1. db \in Seq(Value)
    BY DEF TypeOK
  <2>2. Len(db) + 1 \in DOMAIN db' /\ db'[Len(db) + 1] = v
    BY <1>3, <2>1
  <2>3. m.body.val[1] = "#" /\ m.body.val[2] = Len(db) + 1
    BY <1>1, <1>3
  <2> QED BY <1>2, <2>2, <2>3 DEF Names, IsKey
<1>4. CASE ~Stores(c, op)
  <2>1. m.body.val = v /\ v[1] # "#"
    BY <1>1, <1>4 DEF PlainValue, Plain
  <2> QED BY <1>2, <2>1 DEF Names, IsKey
<1> QED BY <1>3, <1>4

(* What publishing a message made for v does to the boxes of p. *)
LEMMA MailCopies ==
    ASSUME TypeOK, KeysKnown, NEW p \in Payload, NEW c \in Client, NEW op, NEW s, NEW d \in Identifier,
           NEW v \in PlainValue, NEW m \in nsbm, m = DataMessage(c, op, s, d, v), Mails(d, m),
           db' = IF Stores(c, op) THEN Append(db, v) ELSE db,
           inbox' = inbox, got' = got, posted \subseteq posted'
    PROVE  LET H == Boxes(p)
               G == Boxes(p)'
               dst == <<"queue", RecvQueue(d)>>
           IN  /\ dst \in Box
               /\ \A x \in Box \ {dst} : Fewer(H[x], G[x])
               /\ H[dst] = {} => Single(G[dst])
               /\ v # p => Fewer(H[dst], G[dst])
               /\ p \in posted' => \A x \in Client : Orig[x] # "APP_CLIENT" => G[<<"got", x>>] = {}
<1> DEFINE H == Boxes(p)
           G == Boxes(p)'
           C == Bearers(p)
           D == Bearers(p)'
           q == RecvQueue(d)
           dst == <<"queue", q>>
<1>1. q \in Queue /\ dst \in Box
  BY QueueNames, BoxKinds
<1>2. /\ \A x \in Queue : queue[x] \in Seq(KnownMessage)
      /\ \A x \in Client : inbox[x] \in Seq(KnownMessage)
      /\ db \in Seq(PlainValue) /\ queue \in [Queue -> Seq(nsbm)]
  BY DEF KeysKnown, TypeOK, BrokerTypeOK
<1>3. DOMAIN db \subseteq DOMAIN db' /\ \A i \in DOMAIN db : db'[i] = db[i] \/ db'[i] = NoValue
  BY <1>2
<1>4. KnownMessage \cap D \subseteq C
  BY <1>3, NamesShrink
<1>5. m \in D => v = p
  BY DataBears
<1>6. /\ \A x \in Queue : G[<<"queue", x>>] = Hits(queue'[x], D) /\ H[<<"queue", x>>] = Hits(queue[x], C)
      /\ \A x \in Client : G[<<"inbox", x>>] = Hits(inbox'[x], D) /\ H[<<"inbox", x>>] = Hits(inbox[x], C)
  BY BoxesAre, BoxesAfter
<1>7. \A x \in Client : /\ Fewer(H[<<"got", x>>], G[<<"got", x>>])
                        /\ Orig[x] # "APP_CLIENT" /\ p \in posted' => G[<<"got", x>>] = {}
  BY GotStays
<1> HIDE DEF H, G, C, D
<1>8. \A t \in Seq(KnownMessage) : Fewer(Hits(t, C), Hits(t, D))
  <2>1. \A t \in Seq(KnownMessage) : Suffix(t, t)
    BY SuffixSelf
  <2> QED BY <1>4, <2>1, StreamFewer
<1>9. /\ \A x \in Queue \ {q} : queue'[x] = queue[x]
      /\ queue'[q] = queue[q] \/ queue'[q] = Append(queue[q], m)
  BY <1>1, <1>2 DEF Mails
<1>10. /\ m \notin D => Fewer(Hits(queue[q], C), Hits(Append(queue[q], m), D))
       /\ Hits(queue[q], C) = {} => Single(Hits(Append(queue[q], m), D))
  BY <1>1, <1>2, <1>4, AppendFewer
<1>11. /\ \A x \in Queue \ {q} : Fewer(H[<<"queue", x>>], G[<<"queue", x>>])
       /\ \A x \in Client : Fewer(H[<<"inbox", x>>], G[<<"inbox", x>>])
  BY <1>2, <1>6, <1>8, <1>9
<1>12. \A x \in Box \ {dst} : Fewer(H[x], G[x])
  BY <1>7, <1>11, BoxKinds
<1>13. Fewer(Hits(queue[q], C), Hits(queue[q], D))
  BY <1>1, <1>2, <1>8
<1>14. H[dst] = Hits(queue[q], C) /\ G[dst] = Hits(queue'[q], D)
  BY <1>1, <1>6
<1>15. H[dst] = {} => Single(G[dst])
  BY <1>9, <1>10, <1>13, <1>14 DEF Fewer, Single
<1>16. v # p => Fewer(H[dst], G[dst])
  BY <1>5, <1>9, <1>10, <1>13, <1>14
<1> QED BY <1>1, <1>7, <1>12, <1>15, <1>16 DEF H, G

LEMMA SendCopies ==
    ASSUME TypeOK, KeysKnown, NEW p \in Payload, Unique(Boxes(p), SentFact(p)),
           NEW c \in Client, NEW d \in SendTo[c], NEW m \in nsbm, SendStep(c, d, m)
    PROVE  Unique(Boxes(p)', SentFact(p)')
<1> DEFINE H == Boxes(p)
           G == Boxes(p)'
           dst == <<"queue", RecvQueue(d)>>
<1>1. d \in Identifier
  BY RabbitAssumption
<1>2. nsent \in [Client -> 0 .. MaxSends] /\ MaxSends \in Nat
  BY WireAssumption DEF TypeOK
<1>3. nsent[c] \in Nat /\ \A x \in Client : nsent[x] \in Nat
  BY <1>2
<1>4. PICK v \in PlainValue : v = <<c, nsent[c] + 1>>
  <2>1. nsent[c] + 1 \in Nat
    BY <1>3
  <2> QED BY <2>1, WireAssumption DEF PlainValue, Plain, Value
<1>5. /\ m = DataMessage(c, "SEND", Ident[c], d, v) /\ Mails(d, m)
      /\ db' = IF Stores(c, "SEND") THEN Append(db, v) ELSE db
      /\ inbox' = inbox /\ got' = got
  BY <1>4 DEF SendStep
<1>6. posted \subseteq posted' /\ nsent' = [nsent EXCEPT ![c] = @ + 1]
  BY DEF SendStep
<1>7. /\ dst \in Box
      /\ \A x \in Box \ {dst} : Fewer(H[x], G[x])
      /\ H[dst] = {} => Single(G[dst])
      /\ v # p => Fewer(H[dst], G[dst])
      /\ p \in posted' => \A x \in Client : Orig[x] # "APP_CLIENT" => G[<<"got", x>>] = {}
  BY <1>1, <1>5, <1>6, MailCopies
<1>8. p[1] \in Client /\ p[2] \in Nat /\ p = <<p[1], p[2]>>
  BY NoValueNoPayload
<1>9. SentFact(p) => SentFact(p)'
  BY <1>2, <1>3, <1>6, <1>8 DEF SentFact
<1>10. v = p => ~SentFact(p) /\ SentFact(p)'
  <2> SUFFICES ASSUME v = p PROVE ~SentFact(p) /\ SentFact(p)'
    OBVIOUS
  <2>1. p[1] = c /\ p[2] = nsent[c] + 1
    BY <1>4
  <2>2. nsent'[c] = nsent[c] + 1
    BY <1>2, <1>6
  <2> QED BY <1>3, <2>1, <2>2 DEF SentFact
<1>11. SentFact(p) \in BOOLEAN /\ SentFact(p)' \in BOOLEAN
  BY DEF SentFact
<1> HIDE DEF H, G
<1>12. CASE v = p
  <2>1. Unique(H, FALSE)
    BY <1>10, <1>12 DEF Unique, H
  <2>2. H[dst] = {}
    BY <1>7, <2>1 DEF Unique
  <2>3. Unique(G, TRUE)
    BY <1>7, <2>1, <2>2, UniqueNew
  <2> QED BY <1>10, <1>12, <2>3 DEF Unique, G
<1>13. CASE v # p
  <2>1. Reboxed(H, G, {})
    BY <1>7, <1>13 DEF Reboxed
  <2> QED BY <1>9, <1>11, <2>1, UniqueReboxed DEF H, G
<1> QED BY <1>12, <1>13

LEMMA PostCopies ==
    ASSUME TypeOK, KeysKnown, NEW p \in Payload, Unique(Boxes(p), SentFact(p)),
           NEW c \in Client, NEW d \in PostTo[c], NEW e \in Mail, NEW m \in nsbm, PostStep(c, d, e, m)
    PROVE  (\E S : Reboxed(Boxes(p), Boxes(p)', S)) /\ UNCHANGED nsent
<1> DEFINE H == Boxes(p)
           G == Boxes(p)'
           v == e.payload_obj
           dst == <<"queue", RecvQueue(d)>>
           src == <<"got", c>>
<1>1. d \in Identifier
  BY RabbitAssumption
<1>2. /\ Orig[c] = "SIM_CLIENT" /\ (\E i \in DOMAIN got[c] : e = got[c][i]) /\ v \notin posted
      /\ m = DataMessage(c, "POST", e.source, d, v) /\ Mails(d, m)
      /\ posted' = posted \cup {v}
      /\ db' = IF Stores(c, "POST") THEN Append(db, v) ELSE db
      /\ inbox' = inbox /\ got' = got /\ UNCHANGED nsent
  BY DEF PostStep
<1>3. got[c] \in Seq(PlainMail)
  BY DEF KeysKnown
<1>4. e \in PlainMail
  BY <1>2, <1>3
<1>5. v \in PlainValue
  BY <1>4 DEF PlainMail, PlainValue, Mail
<1>6. posted \subseteq posted'
  BY <1>2
<1>7. /\ dst \in Box
      /\ \A x \in Box \ {dst} : Fewer(H[x], G[x])
      /\ H[dst] = {} => Single(G[dst])
      /\ v # p => Fewer(H[dst], G[dst])
      /\ p \in posted' => \A x \in Client : Orig[x] # "APP_CLIENT" => G[<<"got", x>>] = {}
  <2> HIDE DEF v
  <2> QED BY <1>1, <1>2, <1>5, <1>6, MailCopies
<1>8. v = p => H[src] # {}
  <2> SUFFICES ASSUME v = p PROVE H[src] # {}
    OBVIOUS
  <2>1. PICK i \in DOMAIN got[c] : e = got[c][i]
    BY <1>2
  <2>2. i \in Hits(got[c], MailOf(p))
    BY <2>1 DEF Hits, MailOf
  <2>3. Shown(c, p)
    BY <1>2 DEF Shown
  <2>4. H[src] = IF Shown(c, p) THEN Hits(got[c], MailOf(p)) ELSE {}
    BY BoxesAre
  <2> HIDE DEF H
  <2> QED BY <2>2, <2>3, <2>4
<1>9. \A x, y \in Box : H[x] # {} /\ H[y] # {} => x = y
  BY DEF Unique
<1>10. src \in Box /\ src # dst
  BY BoxKinds
<1> HIDE DEF H, G, v
<1>11. CASE v = p
  <2>1. H[src] # {} /\ G[src] = {} /\ H[dst] = {}
    BY <1>2, <1>7, <1>8, <1>9, <1>10, <1>11
  <2>2. Reboxed(H, G, {src, dst})
    BY <1>7, <1>10, <2>1 DEF Reboxed, Single
  <2> QED BY <1>2, <2>2 DEF H, G
<1>12. CASE v # p
  <2>1. Reboxed(H, G, {})
    BY <1>7, <1>12 DEF Reboxed
  <2> QED BY <1>2, <2>1 DEF H, G
<1> QED BY <1>11, <1>12

(* No step makes a second copy. *)
LEMMA CopyInvStep == CopyInv /\ [Next]_vars => CopyInv'
<1> SUFFICES ASSUME CopyInv, [Next]_vars PROVE CopyInv'
  OBVIOUS
<1>1. TypeInv' /\ KeysKnown' /\ TypeInv /\ TypeOK /\ KeysKnown
  BY TypeInvStep, KeysKnownStep DEF CopyInv, TypeInv
<1>2. ASSUME NEW p \in Payload PROVE Unique(Boxes(p)', SentFact(p)')
  <2>1. Unique(Boxes(p), SentFact(p)) /\ SentFact(p) \in BOOLEAN /\ SentFact(p)' \in BOOLEAN
    BY DEF CopyInv, SentFact
  <2>2. ASSUME UNCHANGED nsent, \E S : Reboxed(Boxes(p), Boxes(p)', S)
        PROVE  Unique(Boxes(p)', SentFact(p)')
    <3>1. SentFact(p) => SentFact(p)'
      BY <2>2 DEF SentFact
    <3> QED BY <2>1, <2>2, <3>1, UniqueReboxed
  <2>3. CASE QuietStep
    BY <1>1, <2>2, <2>3, QuietCopies
  <2>4. ASSUME NEW c \in Client, MailStep(c) PROVE Unique(Boxes(p)', SentFact(p)')
    <3>1. CASE TakeStep(c)
      BY <1>1, <2>1, <2>2, <3>1, TakeCopies
    <3>2. CASE \E n \in Nat, m \in nsbm : OverStep(c, n, m)
      BY <1>1, <2>1, <2>2, <3>2, OverCopies
    <3>3. CASE \E d \in SendTo[c], m \in nsbm : SendStep(c, d, m)
      BY <1>1, <2>1, <3>3, SendCopies
    <3>4. CASE \E d \in PostTo[c], e \in Mail, m \in nsbm : PostStep(c, d, e, m)
      BY <1>1, <2>1, <2>2, <3>4, PostCopies
    <3> QED BY <2>4, <3>1, <3>2, <3>3, <3>4 DEF MailStep
  <2> QED BY <1>1, <2>3, <2>4, MailSteps
<1>3. (\A p \in Payload : Unique(Boxes(p), SentFact(p)))'
  BY <1>2 DEF Unique
<1> QED BY <1>1, <1>3 DEF CopyInv

LEMMA CopyInvInit == Init => CopyInv
<1> SUFFICES ASSUME Init PROVE CopyInv
  OBVIOUS
<1>1. TypeInv /\ KeysKnown
  BY TypeInvInit, KeysKnownInit
<1>2. (\A q \in Queue : queue[q] = <<>>) /\ (\A c \in Client : inbox[c] = <<>> /\ got[c] = <<>>)
  BY DEF Init, BrokerInit
<1>3. \A C : Hits(<<>>, C) = {}
  BY DEF Hits
<1>4. ASSUME NEW p \in Payload PROVE \A x \in Box : Boxes(p)[x] = {}
  <2>1. \A q \in Queue : Boxes(p)[<<"queue", q>>] = {}
    <3> SUFFICES ASSUME NEW q \in Queue PROVE Boxes(p)[<<"queue", q>>] = {}
      OBVIOUS
    <3>1. Boxes(p)[<<"queue", q>>] = Hits(queue[q], Bearers(p))
      BY BoxesAre
    <3>2. Hits(queue[q], Bearers(p)) = {}
      BY <1>2, <1>3
    <3> QED BY <3>1, <3>2
  <2>2. \A c \in Client : Boxes(p)[<<"inbox", c>>] = {}
    BY <1>2, <1>3, BoxesAre
  <2>3. \A c \in Client : Boxes(p)[<<"got", c>>] = {}
    BY <1>2, <1>3, BoxesAre
  <2> QED BY <2>1, <2>2, <2>3, BoxKinds
<1>5. \A p \in Payload : Unique(Boxes(p), SentFact(p))
  BY <1>4 DEF Unique, Single
<1> QED BY <1>1, <1>5 DEF CopyInv

Place(x, i) == IF x[1] = "queue" THEN <<x[2], i>> ELSE <<x[2], x[1], i>>

(* A place is something in a box. *)
LEMMA PlaceInBox ==
    ASSUME TypeOK, NEW p, NEW a \in Places(p)
    PROVE  \E x \in Box : \E i \in Boxes(p)[x] : a = Place(x, i)
<1>1. /\ queue \in [Queue -> Seq(nsbm)] /\ inbox \in [Client -> Seq(nsbm)] /\ got \in [Client -> Seq(Mail)]
  BY DEF TypeOK, BrokerTypeOK
<1>2. CASE \E q \in Queue : \E i \in Carrying(queue[q], p) : a = <<q, i>>
  <2>1. PICK q \in Queue : \E i \in Carrying(queue[q], p) : a = <<q, i>>
    BY <1>2
  <2>2. PICK i \in Carrying(queue[q], p) : a = <<q, i>>
    BY <2>1
  <2>3. i \in DOMAIN queue[q] /\ Carries(queue[q][i], p)
    BY DEF Carrying
  <2>4. queue[q][i] \in nsbm
    BY <1>1, <2>3
  <2>5. i \in Hits(queue[q], Bearers(p))
    BY <2>3, <2>4 DEF Hits, Bearers
  <2>6. Place(<<"queue", q>>, i) = a
    BY <2>2 DEF Place
  <2> QED BY <2>5, <2>6, BoxKinds, BoxesAre
<1>3. CASE \E c \in Client : \E i \in Carrying(inbox[c], p) : a = <<c, "inbox", i>>
  <2>1. PICK c \in Client : \E i \in Carrying(inbox[c], p) : a = <<c, "inbox", i>>
    BY <1>3
  <2>2. PICK i \in Carrying(inbox[c], p) : a = <<c, "inbox", i>>
    BY <2>1
  <2>3. i \in DOMAIN inbox[c] /\ Carries(inbox[c][i], p)
    BY DEF Carrying
  <2>4. inbox[c][i] \in nsbm
    BY <1>1, <2>3
  <2>5. i \in Hits(inbox[c], Bearers(p))
    BY <2>3, <2>4 DEF Hits, Bearers
  <2>6. Place(<<"inbox", c>>, i) = a
    BY <2>2 DEF Place
  <2> QED BY <2>5, <2>6, BoxKinds, BoxesAre
<1>4. CASE \E c \in Client : /\ Shown(c, p)
                             /\ \E i \in DOMAIN got[c] : got[c][i].payload_obj = p /\ a = <<c, "got", i>>
  <2>1. PICK c \in Client : /\ Shown(c, p)
                            /\ \E i \in DOMAIN got[c] : got[c][i].payload_obj = p /\ a = <<c, "got", i>>
    BY <1>4
  <2>2. PICK i \in DOMAIN got[c] : got[c][i].payload_obj = p /\ a = <<c, "got", i>>
    BY <2>1
  <2>3. got[c][i] \in Mail
    BY <1>1
  <2>4. i \in Hits(got[c], MailOf(p))
    BY <2>2, <2>3 DEF Hits, MailOf
  <2>5. Place(<<"got", c>>, i) = a
    BY <2>2 DEF Place
  <2>6. Boxes(p)[<<"got", c>>] = Hits(got[c], MailOf(p))
    BY <2>1, BoxesAre
  <2> QED BY <2>4, <2>5, <2>6, BoxKinds
<1>5. a \in AtPrograms(p) =>
        \E c \in Client : /\ Shown(c, p)
                          /\ \E i \in DOMAIN got[c] : got[c][i].payload_obj = p /\ a = <<c, "got", i>>
  BY DEF Shown, AtPrograms
<1>6. /\ a \in InQueues(p) => \E q \in Queue : \E i \in Carrying(queue[q], p) : a = <<q, i>>
      /\ a \in InLibraries(p) => \E c \in Client : \E i \in Carrying(inbox[c], p) : a = <<c, "inbox", i>>
  BY DEF InQueues, InLibraries
<1>7. a \in InQueues(p) \/ a \in InLibraries(p) \/ a \in AtPrograms(p)
  BY DEF Places
<1> QED BY <1>2, <1>3, <1>4, <1>5, <1>6, <1>7

(* One box, one place. *)
LEMMA CopyInvOneCopy == CopyInv => OneCopy
<1> SUFFICES ASSUME CopyInv, NEW p \in Payload
             PROVE  Cardinality(Places(p)) <= 1 /\ (Places(p) # {} => p[2] <= nsent[p[1]])
  BY DEF OneCopy
<1>1. TypeOK /\ Unique(Boxes(p), SentFact(p))
  BY DEF CopyInv, TypeInv
<1>2. \A a \in Places(p) : \E x \in Box : \E i \in Boxes(p)[x] : a = Place(x, i)
  BY <1>1, PlaceInBox
<1>3. Places(p) # {} => SentFact(p)
  BY <1>1, <1>2 DEF Unique
<1>4. ASSUME NEW a \in Places(p), NEW b \in Places(p) PROVE a = b
  <2>1. PICK x \in Box : \E i \in Boxes(p)[x] : a = Place(x, i)
    BY <1>2
  <2>2. PICK y \in Box : \E i \in Boxes(p)[y] : b = Place(y, i)
    BY <1>2
  <2>3. x = y
    BY <1>1, <2>1, <2>2 DEF Unique
  <2> QED BY <1>1, <2>1, <2>2, <2>3 DEF Unique, Single
<1>5. Cardinality(Places(p)) <= 1
  <2>1. CASE Places(p) = {}
    BY <2>1, FS_EmptySet
  <2>2. CASE Places(p) # {}
    <3>1. PICK a : Places(p) = {a}
      BY <1>4, <2>2
    <3>2. Cardinality({a}) = 1
      BY FS_Singleton
    <3> QED BY <3>1, <3>2
  <2> QED BY <2>1, <2>2
<1> QED BY <1>3, <1>5 DEF SentFact

(* In every state of the RabbitMQ version a payload is in one place at most, *)
(* and only if it was sent: consumers without acknowledgement that Cancel    *)
(* leaves with deliveries, callbacks, database keys that one library writes  *)
(* and another does not read, and restarts lose payloads, but none is        *)
(* handed out twice.                                                         *)
THEOREM RabbitOneCopy == Spec => []OneCopy
<1> QED BY CopyInvInit, CopyInvStep, CopyInvOneCopy, PTL DEF Spec

-----------------------------------------------------------------------------
(* Order of mail.  For two payloads of one sender, of which r was sent no   *)
(* later than p: wherever p has got to with its SEND message, r is ahead.   *)

SendOf(p) == {m \in nsbm : m.op = "SEND" /\ Carries(m, p)}
SentMail(p) == {e \in Mail : e.op = "SEND" /\ e.payload_obj = p}
NoLater(r, p) == r[1] = p[1] /\ r[2] <= p[2]

(* No member of B comes after one of A: in s, and in s followed by u. *)
Sorted(s, A, B) == \A i \in Hits(s, A), j \in Hits(s, B) : j <= i
InOrder(s, u, A, B) == Sorted(s, A, B) /\ Sorted(u, A, B) /\ (Hits(s, A) = {} \/ Hits(u, B) = {})

Orderly(c, p, r) ==
    LET u == queue[RecvQueue(Ident[c])]
    IN  /\ InOrder(inbox[c], u, SendOf(p), SendOf(r))
        /\ Sorted(got[c], SentMail(p), SentMail(r))
        /\ Hits(got[c], SentMail(p)) # {} => Hits(inbox[c], SendOf(r)) = {} /\ Hits(u, SendOf(r)) = {}

(* The message of a send() names its sender, and no payload is there before *)
(* it was sent.                                                             *)
From(s, p) == s = Ident[p[1]] /\ Orig[p[1]] = "APP_CLIENT" /\ SentFact(p)
Signed ==
    {m \in nsbm : /\ m.body.kind = "payload" => m.body.val \in Payload
                  /\ \A p \in Payload : m \in SendOf(p) => From(m.metadata.src, p)}
SignedMail ==
    {e \in Mail : e.payload_obj \in Payload /\ (e.op = "SEND" => From(e.source, e.payload_obj))}

SignedInv ==
    /\ TypeInv /\ KeysKnown
    /\ db \in Seq(Payload \cup {NoValue})
    /\ \A q \in Queue : queue[q] \in Seq(Signed)
    /\ \A c \in Client : inbox[c] \in Seq(Signed) /\ got[c] \in Seq(SignedMail)
    /\ \A i \in Identifier : \A p \in Payload : Hits(queue[ResponseQueue(i)], SendOf(p)) = {}

OrderInv ==
    /\ SignedInv
    /\ \A c \in Client : \A p, r \in Payload : NoLater(r, p) => Orderly(c, p, r)

(* What is left of a sorted sequence is sorted. *)
LEMMA SortedSuffix ==
    ASSUME NEW T, NEW s \in Seq(T), NEW t, Suffix(s, t), NEW A, NEW B
    PROVE  /\ Sorted(s, A, B) => Sorted(t, A, B)
           /\ Hits(t, A) # {} => Hits(s, A) # {}
           /\ Hits(t, B) # {} => Hits(s, B) # {}
<1>1. PICK n \in 0 .. Len(s) : t = SubSeq(s, n + 1, Len(s))
  BY DEF Suffix
<1>2. /\ t \in Seq(T) /\ DOMAIN t = 1 .. (Len(s) - n) /\ Len(s) \in Nat /\ DOMAIN s = 1 .. Len(s)
      /\ \A j \in DOMAIN t : j + n \in DOMAIN s /\ t[j] = s[j + n]
  BY <1>1, SuffixElements
<1>3. n \in Int
  OBVIOUS
<1>4. \A C : \A j \in Hits(t, C) : j + n \in Hits(s, C) /\ j \in Int
  BY <1>2 DEF Hits
<1>5. Sorted(s, A, B) => Sorted(t, A, B)
  <2> SUFFICES ASSUME Sorted(s, A, B), NEW i \in Hits(t, A), NEW j \in Hits(t, B) PROVE j <= i
    BY DEF Sorted
  <2>1. j + n <= i + n /\ i \in Int /\ j \in Int
    BY <1>4 DEF Sorted
  <2> QED BY <1>3, <2>1
<1> QED BY <1>4, <1>5

(* A sequence stays sorted when what it gets may come last. *)
LEMMA SortedAppend ==
    ASSUME NEW T, NEW s \in Seq(T), NEW x \in T, NEW A, NEW B, Sorted(s, A, B), x \notin B \/ Hits(s, A) = {}
    PROVE  Sorted(Append(s, x), A, B)
<1>1. /\ Hits(Append(s, x), A) = Hits(s, A) \cup (IF x \in A THEN {Len(s) + 1} ELSE {})
      /\ Hits(Append(s, x), B) = Hits(s, B) \cup (IF x \in B THEN {Len(s) + 1} ELSE {})
  BY HitsAppend
<1>2. /\ Len(s) \in Nat /\ DOMAIN s = 1 .. Len(s)
      /\ \A C : \A j \in Hits(s, C) : j \in Nat /\ j <= Len(s)
  BY DEF Hits
<1>3. ASSUME NEW i \in Hits(Append(s, x), A), NEW j \in Hits(Append(s, x), B) PROVE j <= i
  <2>1. i \in Hits(s, A) \/ i = Len(s) + 1
    BY <1>1
  <2>2. j \in Hits(s, B) \/ (j = Len(s) + 1 /\ Hits(s, A) = {})
    BY <1>1
  <2> QED BY <1>2, <2>1, <2>2 DEF Sorted
<1> QED BY <1>3 DEF Sorted

(* Smaller sets have fewer hits. *)
LEMMA HitsSubset ==
    ASSUME NEW T, NEW s \in Seq(T), NEW A, NEW D, T \cap D \subseteq A
    PROVE  Hits(s, D) \subseteq Hits(s, A)
<1>1. \A j \in DOMAIN s : s[j] \in T
  OBVIOUS
<1> QED BY <1>1 DEF Hits

(* What is left with a library and in a queue after deliveries: in order if *)
(* it was, and nothing new of B.                                            *)
LeftInOrder(s, u, t, w, A, B) ==
    /\ InOrder(s, u, A, B) => InOrder(t, w, A, B)
    /\ Hits(t, B) # {} \/ Hits(w, B) # {} => Hits(s, B) # {} \/ Hits(u, B) # {}

LEMMA LeftIfSuffix ==
    ASSUME NEW T, NEW s \in Seq(T), NEW u \in Seq(T), NEW t, NEW w, Suffix(s, t), Suffix(u, w), NEW A, NEW B
    PROVE  LeftInOrder(s, u, t, w, A, B)
<1>1. /\ Sorted(s, A, B) => Sorted(t, A, B)
      /\ Hits(t, A) # {} => Hits(s, A) # {}
      /\ Hits(t, B) # {} => Hits(s, B) # {}
  BY SortedSuffix
<1>2. /\ Sorted(u, A, B) => Sorted(w, A, B)
      /\ Hits(w, B) # {} => Hits(u, B) # {}
  BY SortedSuffix
<1> QED BY <1>1, <1>2 DEF LeftInOrder, InOrder

(* The queue that is consumed from delivers in order, and what the client   *)
(* takes is the first.                                                      *)
LEMMA ConsumesOrder ==
    ASSUME TypeOK, NEW c \in Client, NEW q \in Queue, NEW n, NEW k, Consumes(c, q, n, k), NEW A, NEW B
    PROVE  /\ LeftInOrder(inbox[c], queue[q], inbox'[c], queue'[q], A, B)
           /\ k = 1 /\ Held(c, q, n)[1] \in A /\ InOrder(inbox[c], queue[q], A, B)
                => Hits(inbox'[c], B) = {} /\ Hits(queue'[q], B) = {}
           /\ k = 1 /\ Held(c, q, n)[1] \in B => Hits(inbox[c], B) # {} \/ Hits(queue[q], B) # {}
<1>1. /\ queue \in [Queue -> Seq(nsbm)] /\ inbox \in [Client -> Seq(nsbm)]
      /\ queue[q] \in Seq(nsbm) /\ inbox[c] \in Seq(nsbm)
  BY DEF TypeOK, BrokerTypeOK
<1>2. n \in 0 .. Len(queue[q]) /\ k \in {0, 1} /\ k <= Len(inbox[c]) + n
  BY DEF Consumes
<1> DEFINE h == Held(c, q, n)
           r == SubSeq(h, k + 1, Len(h))
           t == SubSeq(queue[q], n + 1, Len(queue[q]))
           a == Len(inbox[c])
           z == Len(queue[q])
           Tot(C) == Hits(inbox[c], C) \cup {a + j : j \in Hits(queue[q], C)}
<1>3. /\ h \in Seq(nsbm) /\ DOMAIN h = 1 .. (a + n) /\ Len(h) = a + n
      /\ \A j \in DOMAIN h : h[j] = IF j <= a THEN inbox[c][j] ELSE queue[q][j - a]
  BY <1>1, <1>2, HeldIs
<1>4. /\ queue' = [queue EXCEPT ![q] = t]
      /\ inbox' = [inbox EXCEPT ![c] = r] \/ inbox' = [inbox EXCEPT ![c] = <<>>]
  BY DEF Consumes
<1>5. /\ a \in Nat /\ z \in Nat /\ n \in Nat /\ k \in Nat /\ n <= z /\ k <= a + n
      /\ DOMAIN inbox[c] = 1 .. a /\ DOMAIN queue[q] = 1 .. z
  BY <1>1, <1>2
<1>6. DOMAIN t = 1 .. (z - n) /\ \A j \in DOMAIN t : t[j] = queue[q][j + n]
  BY <1>1, <1>2, SuffixElements
<1>7. DOMAIN r = 1 .. ((a + n) - k) /\ \A j \in DOMAIN r : r[j] = h[j + k]
  <2>1. k \in 0 .. Len(h)
    BY <1>3, <1>5
  <2> HIDE DEF h, a
  <2>2. /\ DOMAIN SubSeq(h, k + 1, Len(h)) = 1 .. (Len(h) - k)
        /\ \A j \in DOMAIN SubSeq(h, k + 1, Len(h)) : SubSeq(h, k + 1, Len(h))[j] = h[j + k]
    BY <1>3, <2>1, SuffixElements
  <2>3. DOMAIN r = 1 .. (Len(h) - k) /\ \A j \in DOMAIN r : r[j] = h[j + k]
    BY <2>2
  <2> HIDE DEF r
  <2>4. Len(h) = a + n
    BY <1>3
  <2> QED BY <2>3, <2>4
<1>8. queue'[q] = t /\ (inbox'[c] = r \/ inbox'[c] = <<>>)
  BY <1>1, <1>4
<1> HIDE DEF h, r, t, a, z
<1>9. \A C : \A j \in Hits(t, C) : j \in Nat /\ j >= 1 /\ a + (j + n) \in Tot(C)
  BY <1>5, <1>6 DEF Hits
<1>10. \A C : \A j \in 1 .. (a + n) : h[j] \in C => j \in Tot(C)
  <2>1. \A j \in 1 .. (a + n) : h[j] = IF j <= a THEN inbox[c][j] ELSE queue[q][j - a]
    BY <1>3
  <2>2. ASSUME NEW C, NEW j \in 1 .. (a + n), h[j] \in C PROVE j \in Tot(C)
    <3>1. CASE j <= a
      BY <1>5, <2>1, <2>2, <3>1 DEF Hits
    <3>2. CASE ~(j <= a)
      <4>1. j - a \in 1 .. z /\ j = a + (j - a)
        BY <1>5, <3>2
      <4>2. j - a \in Hits(queue[q], C)
        BY <1>5, <2>1, <2>2, <3>2, <4>1 DEF Hits
      <4> QED BY <4>1, <4>2
    <3> QED BY <3>1, <3>2
  <2> QED BY <2>2
<1>11. \A C : \A j \in Hits(r, C) : j \in Nat /\ j >= 1 /\ j + k <= a + n /\ j + k \in Tot(C)
  BY <1>5, <1>7, <1>10 DEF Hits
<1>12. ASSUME InOrder(inbox[c], queue[q], A, B)
       PROVE  \A i \in Tot(A), j \in Tot(B) : i \in Nat /\ j \in Nat /\ j <= i
  <2>1. /\ \A C : \A j \in Hits(inbox[c], C) : j \in Nat /\ j <= a
        /\ \A C : \A j \in Hits(queue[q], C) : j \in Nat /\ j >= 1
    BY <1>5 DEF Hits
  <2>2. /\ Hits(inbox[c], A) = {} \/ Hits(queue[q], B) = {}
        /\ \A i \in Hits(inbox[c], A), j \in Hits(inbox[c], B) : j <= i
        /\ \A i \in Hits(queue[q], A), j \in Hits(queue[q], B) : j <= i
    BY <1>12 DEF InOrder, Sorted
  <2> SUFFICES ASSUME NEW i \in Tot(A), NEW j \in Tot(B) PROVE i \in Nat /\ j \in Nat /\ j <= i
    OBVIOUS
  <2>3. CASE i \in Hits(inbox[c], A)
    <3>1. j \in Hits(inbox[c], B)
      BY <2>2, <2>3
    <3> QED BY <2>1, <2>2, <2>3, <3>1
  <2>4. ASSUME NEW x \in Hits(queue[q], A), i = a + x PROVE i \in Nat /\ j \in Nat /\ j <= i
    <3>1. x \in Nat /\ i \in Nat /\ a <= i
      BY <1>5, <2>1, <2>4
    <3>2. CASE j \in Hits(inbox[c], B)
      BY <1>5, <2>1, <3>1, <3>2
    <3>3. ASSUME NEW y \in Hits(queue[q], B), j = a + y PROVE j \in Nat /\ j <= i
      BY <1>5, <2>1, <2>2, <2>4, <3>1, <3>3
    <3> QED BY <3>1, <3>2, <3>3
  <2> QED BY <2>3, <2>4
<1>13. \A C : Tot(C) # {} => Hits(queue[q], C) # {} \/ Hits(inbox[c], C) # {}
  OBVIOUS
<1> HIDE DEF Tot
<1>14. Hits(<<>>, A) = {} /\ Hits(<<>>, B) = {}
  BY DEF Hits
<1>15. ASSUME InOrder(inbox[c], queue[q], A, B)
       PROVE  InOrder(r, t, A, B) /\ InOrder(<<>>, t, A, B)
  <2>1. Sorted(r, A, B)
    BY <1>5, <1>11, <1>12, <1>15 DEF Sorted
  <2>2. Sorted(t, A, B)
    BY <1>5, <1>9, <1>12, <1>15 DEF Sorted
  <2>3. Hits(r, A) = {} \/ Hits(t, B) = {}
    BY <1>5, <1>9, <1>11, <1>12, <1>15
  <2>4. Sorted(<<>>, A, B)
    BY <1>14 DEF Sorted
  <2> QED BY <1>14, <2>1, <2>2, <2>3, <2>4 DEF InOrder
<1>16. Hits(r, B) # {} \/ Hits(t, B) # {} => Tot(B) # {}
  BY <1>9, <1>11
<1>17. ASSUME k = 1, h[1] \in A, InOrder(inbox[c], queue[q], A, B)
       PROVE  Hits(r, B) = {} /\ Hits(t, B) = {}
  <2>1. 1 \in Tot(A)
    BY <1>5, <1>10, <1>17
  <2>2. \A j \in Tot(B) : j \in Nat /\ j <= 1
    BY <1>12, <1>17, <2>1
  <2> QED BY <1>5, <1>9, <1>11, <1>17, <2>2
<1>18. k = 1 /\ h[1] \in B => Tot(B) # {}
  BY <1>5, <1>10
<1>19. LeftInOrder(inbox[c], queue[q], inbox'[c], queue'[q], A, B)
  BY <1>8, <1>13, <1>14, <1>15, <1>16 DEF LeftInOrder
<1> QED BY <1>8, <1>13, <1>14, <1>17, <1>18, <1>19 DEF h

(* Deliveries of another queue, that has nothing of A or B, leave the order *)
(* to u as it is.                                                           *)
LEMMA ConsumesAside ==
    ASSUME TypeOK, NEW c \in Client, NEW q \in Queue, NEW n, NEW k, Consumes(c, q, n, k), NEW A, NEW B,
           Hits(queue[q], A) = {}, Hits(queue[q], B) = {}, NEW u
    PROVE  LeftInOrder(inbox[c], u, inbox'[c], u, A, B)
<1>1. InOrder(inbox[c], queue[q], A, B) <=> Sorted(inbox[c], A, B)
  BY DEF InOrder, Sorted
<1>2. LeftInOrder(inbox[c], queue[q], inbox'[c], queue'[q], A, B)
  BY ConsumesOrder
<1>3. LeftInOrder(inbox[c], queue[q], inbox'[c], queue'[q], B, A)
  BY ConsumesOrder
<1>4. Hits(inbox'[c], A) # {} => Hits(inbox[c], A) # {}
  BY <1>3 DEF LeftInOrder
<1>5. Hits(inbox'[c], B) # {} => Hits(inbox[c], B) # {}
  BY <1>2 DEF LeftInOrder
<1>6. Sorted(inbox[c], A, B) => Sorted(inbox'[c], A, B)
  BY <1>1, <1>2 DEF LeftInOrder, InOrder
<1> QED BY <1>4, <1>5, <1>6 DEF LeftInOrder, InOrder

(* What a database does when nothing is stored. *)
Shrinks == DOMAIN db' = DOMAIN db /\ \A i \in DOMAIN db : db'[i] = db[i] \/ db'[i] = NoValue
Grows == DOMAIN db \subseteq DOMAIN db' /\ \A i \in DOMAIN db : db'[i] = db[i] \/ db'[i] = NoValue

LEMMA SendOfShrinks ==
    ASSUME Grows, NEW p \in Payload
    PROVE  KnownMessage \cap SendOf(p)' \subseteq SendOf(p)
<1>1. KnownMessage \cap Bearers(p)' \subseteq Bearers(p)
  BY NamesShrink DEF Grows
<1> QED BY <1>1 DEF SendOf, Bearers

(* What is signed stays signed. *)
LEMMA SignedStays ==
    ASSUME TypeOK, Grows, nsent' \in [Client -> Nat], \A c \in Client : nsent[c] <= nsent'[c]
    PROVE  /\ KnownMessage \cap Signed \subseteq Signed' /\ SignedMail \subseteq SignedMail'
           /\ \A s : s \in Seq(KnownMessage) /\ s \in Seq(Signed) => s \in Seq(Signed')
           /\ \A s : s \in Seq(SignedMail) => s \in Seq(SignedMail')
<1>1. \A p \in Payload : SentFact(p) => SentFact(p)'
  <2> SUFFICES ASSUME NEW p \in Payload, SentFact(p) PROVE SentFact(p)'
    OBVIOUS
  <2>1. nsent \in [Client -> 0 .. MaxSends] /\ MaxSends \in Nat
    BY WireAssumption DEF TypeOK
  <2>2. p[1] \in Client /\ p[2] \in Nat
    BY NoValueNoPayload
  <2>3. nsent[p[1]] \in Nat /\ nsent'[p[1]] \in Nat /\ nsent[p[1]] <= nsent'[p[1]]
    BY <2>1, <2>2
  <2> QED BY <2>2, <2>3 DEF SentFact
<1>2. \A s : \A p \in Payload : From(s, p) => From(s, p)'
  BY <1>1 DEF From
<1>3. KnownMessage \cap Signed \subseteq Signed'
  <2> SUFFICES ASSUME NEW m \in KnownMessage, m \in Signed PROVE m \in Signed'
    OBVIOUS
  <2>1. \A p \in Payload : m \in SendOf(p)' => From(m.metadata.src, p)'
    BY <1>2, SendOfShrinks DEF Signed
  <2> QED BY <2>1 DEF Signed
<1>4. SignedMail \subseteq SignedMail'
  BY <1>2 DEF SignedMail
<1>5. ASSUME NEW s, s \in Seq(KnownMessage), s \in Seq(Signed) PROVE s \in Seq(Signed')
  <2>1. \A i \in DOMAIN s : s[i] \in KnownMessage /\ s[i] \in Signed
    BY <1>5
  <2>2. \A i \in DOMAIN s : s[i] \in Signed'
    BY <1>3, <2>1
  <2> QED BY <1>5, <2>2
<1> QED BY <1>3, <1>4, <1>5, SeqMono

(* What send() and post() publish is signed, and what they store is a payload. *)
LEMMA DataSigned ==
    ASSUME TypeOK, NEW c \in Client, NEW op, NEW s, NEW d, NEW v \in Payload, NEW m \in nsbm,
           m = DataMessage(c, op, s, d, v), db \in Seq(Payload \cup {NoValue}),
           db' = IF Stores(c, op) THEN Append(db, v) ELSE db,
           op = "SEND" => From(s, v)'
    PROVE  /\ m \in Signed' /\ db' \in Seq(Payload \cup {NoValue}) /\ Grows
           /\ \A p \in Payload : m \in SendOf(p)' => op = "SEND" /\ v = p
<1>1. v \in PlainValue
  BY NoValueNoPayload DEF PlainValue
<1>2. \A p \in Payload : m \in Bearers(p)' => v = p
  BY <1>1, DataBears
<1>3. m.op = op /\ m.metadata.src = s
  BY DEF DataMessage, Route
<1>4. \A p \in Payload : m \in SendOf(p)' => op = "SEND" /\ v = p
  BY <1>2, <1>3 DEF SendOf, Bearers
<1>5. m.body.kind = "payload" => m.body.val = v
  BY DEF DataMessage, PayloadBody, Stores
<1>6. m \in Signed'
  BY <1>3, <1>4, <1>5 DEF Signed
<1>7. db' \in Seq(Payload \cup {NoValue}) /\ DOMAIN db \subseteq DOMAIN db' /\ \A i \in DOMAIN db : db'[i] = db[i]
  OBVIOUS
<1> QED BY <1>4, <1>6, <1>7 DEF Grows

(* What is handed over is signed. *)
LEMMA OverSigned ==
    ASSUME TypeOK, db \in Seq(Payload \cup {NoValue}), NEW c \in Client,
           NEW m \in KnownMessage, m \in Signed, HandOver(c, m)
    PROVE  /\ Shrinks /\ Grows /\ db' \in Seq(Payload \cup {NoValue})
           /\ \/ got' = got
              \/ \E e \in SignedMail : /\ got' = [got EXCEPT ![c] = Append(@, e)]
                                       /\ \A p \in Payload : e \in SentMail(p) => m \in SendOf(p)
<1> DEFINE e == [op |-> m.op, source |-> m.metadata.src, destination |-> m.metadata.dest,
                 payload_obj |-> ContentOf(c, m)]
<1>1. db' = db \/ \E i \in DOMAIN db : db' = [db EXCEPT ![i] = NoValue]
  BY DEF HandOver, IsKey
<1>2. Shrinks /\ Grows /\ db' \in Seq(Payload \cup {NoValue})
  BY <1>1 DEF Shrinks, Grows
<1>3. got' = got \/ (ContentOf(c, m) # NoValue /\ got' = [got EXCEPT ![c] = Append(@, e)])
  BY DEF HandOver
<1>4. ContentOf(c, m) \in Payload \cup {NoValue}
  <2>1. CASE UseDB /\ Impl[c] # "rmq"
    <3>1. ContentOf(c, m) = NoValue \/ \E i \in DOMAIN db : ContentOf(c, m) = db[i]
      BY <2>1 DEF ContentOf, IsKey
    <3> QED BY <3>1
  <2>2. CASE ~(UseDB /\ Impl[c] # "rmq")
    <3>1. ContentOf(c, m) = IF m.body.kind = "payload" THEN m.body.val ELSE NoValue
      BY <2>2 DEF ContentOf, PayloadOf
    <3> QED BY <3>1 DEF Signed
  <2> QED BY <2>1, <2>2
<1>5. ASSUME ContentOf(c, m) # NoValue
      PROVE  e \in SignedMail /\ \A p \in Payload : e \in SentMail(p) => m \in SendOf(p)
  <2>1. PICK p \in Payload : ContentOf(c, m) = p
    BY <1>4, <1>5
  <2>2. m \in Bearers(p)
    BY <2>1, ContentBears
  <2>3. m.op = "SEND" => m \in SendOf(p)
    BY <2>2 DEF Bearers, SendOf
  <2>4. m.op \in Op /\ m.metadata.src \in Id /\ m.metadata.dest \in Id /\ p \in Value
    BY NoValueNoPayload DEF Signed, nsbm, Metadata
  <2>5. e \in Mail /\ e.payload_obj = p /\ e.op = m.op /\ e.source = m.metadata.src
    BY <2>1, <2>4 DEF Mail
  <2> HIDE DEF e
  <2>6. e \in SignedMail
    BY <2>3, <2>5 DEF SignedMail, Signed
  <2>7. \A x \in Payload : e \in SentMail(x) => m \in SendOf(x)
    BY <2>3, <2>5 DEF SentMail
  <2> QED BY <2>6, <2>7
<1> QED BY <1>2, <1>3, <1>5

Stamped == KnownMessage \cap Signed

(* What SignedInv says of the streams, and of a step that stores nothing. *)
LEMMA StampedStreams ==
    ASSUME SignedInv
    PROVE  /\ TypeInv /\ TypeOK /\ KeysKnown /\ Stamped \in SUBSET nsbm
           /\ \A q \in Queue : queue[q] \in Seq(Stamped) /\ queue[q] \in Seq(nsbm)
           /\ \A c \in Client : inbox[c] \in Seq(Stamped) /\ inbox[c] \in Seq(nsbm) /\ got[c] \in Seq(SignedMail)
           /\ queue \in [Queue -> Seq(nsbm)] /\ inbox \in [Client -> Seq(nsbm)] /\ got \in [Client -> Seq(Mail)]
           /\ \A c \in Client : Ident[c] \in Identifier
           /\ \A i \in Identifier : RecvQueue(i) \in Queue /\ ResponseQueue(i) \in Queue
           /\ \A m \in nsbm : ~Bears(m) => m \in Stamped /\ \A p \in Payload : m \notin SendOf(p)
<1>1. TypeInv /\ TypeOK /\ KeysKnown
  BY DEF SignedInv, TypeInv
<1>2. queue \in [Queue -> Seq(nsbm)] /\ inbox \in [Client -> Seq(nsbm)] /\ got \in [Client -> Seq(Mail)]
  BY <1>1 DEF TypeOK, BrokerTypeOK
<1>3. ASSUME NEW s, s \in Seq(KnownMessage), s \in Seq(Signed) PROVE s \in Seq(Stamped)
  <2>1. \A i \in DOMAIN s : s[i] \in Stamped
    BY <1>3 DEF Stamped
  <2> QED BY <1>3, <2>1
<1>4. \A q \in Queue : queue[q] \in Seq(Stamped)
  BY <1>1, <1>3 DEF SignedInv, KeysKnown
<1>5. \A c \in Client : inbox[c] \in Seq(Stamped) /\ got[c] \in Seq(SignedMail)
  BY <1>1, <1>3 DEF SignedInv, KeysKnown
<1>6. \A m \in nsbm : ~Bears(m) => m \in Stamped /\ \A p \in Payload : m \notin SendOf(p)
  BY DEF Stamped, KnownMessage, Signed, Bears, SendOf, Carries
<1>7. Stamped \in SUBSET nsbm
  BY DEF Stamped, Signed
<1> QED BY <1>1, <1>2, <1>4, <1>5, <1>6, <1>7, QueueNames

(* What stays with a client stays in order. *)
LEMMA LeftOrderly ==
    ASSUME Grows, NEW d \in Client, NEW p \in Payload, NEW r \in Payload, Orderly(d, p, r), got'[d] = got[d],
           inbox'[d] \in Seq(KnownMessage), queue'[RecvQueue(Ident[d])] \in Seq(KnownMessage),
           LeftInOrder(inbox[d], queue[RecvQueue(Ident[d])], inbox'[d], queue'[RecvQueue(Ident[d])],
                       SendOf(p), SendOf(r))
    PROVE  Orderly(d, p, r)'
<1> DEFINE q == RecvQueue(Ident[d])
           A == SendOf(p)
           B == SendOf(r)
           t == inbox'[d]
           w == queue'[q]
<1>1. KnownMessage \cap A' \subseteq A /\ KnownMessage \cap B' \subseteq B
  BY SendOfShrinks
<1>2. /\ InOrder(inbox[d], queue[q], A, B)
      /\ Sorted(got[d], SentMail(p), SentMail(r))
      /\ Hits(got[d], SentMail(p)) # {} => Hits(inbox[d], B) = {} /\ Hits(queue[q], B) = {}
  BY DEF Orderly
<1>3. InOrder(t, w, A, B) /\ (Hits(t, B) # {} \/ Hits(w, B) # {} => Hits(inbox[d], B) # {} \/ Hits(queue[q], B) # {})
  BY <1>2 DEF LeftInOrder
<1>4. /\ Hits(t, A') \subseteq Hits(t, A) /\ Hits(t, B') \subseteq Hits(t, B)
      /\ Hits(w, A') \subseteq Hits(w, A) /\ Hits(w, B') \subseteq Hits(w, B)
  <2> HIDE DEF A, B
  <2>1. ASSUME NEW s \in Seq(KnownMessage)
        PROVE  Hits(s, A') \subseteq Hits(s, A) /\ Hits(s, B') \subseteq Hits(s, B)
    BY <1>1, HitsSubset
  <2> QED BY <2>1
<1>5. Orderly(d, p, r)' = /\ InOrder(t, w, A', B')
                          /\ Sorted(got'[d], SentMail(p), SentMail(r))
                          /\ Hits(got'[d], SentMail(p)) # {} => Hits(t, B') = {} /\ Hits(w, B') = {}
  BY DEF Orderly, InOrder, Sorted, SentMail
<1> HIDE DEF A, B, t, w, q
<1>6. InOrder(t, w, A', B')
  BY <1>3, <1>4 DEF InOrder, Sorted
<1> QED BY <1>2, <1>3, <1>4, <1>5, <1>6

(* A quiet step. *)
LEMMA QuietOrder ==
    ASSUME OrderInv, QuietStep, TypeInv', KeysKnown'
    PROVE  OrderInv'
<1>0. SignedInv /\ \A c \in Client : \A p, r \in Payload : NoLater(r, p) => Orderly(c, p, r)
  BY DEF OrderInv
<1>1. /\ Stamped \in SUBSET nsbm
      /\ \A q \in Queue : queue[q] \in Seq(Stamped) /\ queue[q] \in Seq(nsbm)
      /\ \A c \in Client : inbox[c] \in Seq(Stamped) /\ got[c] \in Seq(SignedMail)
      /\ \A c \in Client : Ident[c] \in Identifier
      /\ \A i \in Identifier : RecvQueue(i) \in Queue /\ ResponseQueue(i) \in Queue
      /\ \A m \in nsbm : ~Bears(m) => m \in Stamped /\ \A p \in Payload : m \notin SendOf(p)
  BY <1>0, StampedStreams
<1>2. UNCHANGED <<db, got, nsent, posted>>
  BY DEF QuietStep, mailVars
<1>3. /\ KnownMessage' = KnownMessage /\ Signed' = Signed /\ SignedMail' = SignedMail /\ Grows
      /\ \A p : SendOf(p)' = SendOf(p)
  BY <1>2 DEF KnownMessage, Signed, SignedMail, SendOf, From, SentFact, Carries, Names, IsKey, Grows
<1>4. /\ \A q \in Queue : Quiet(queue[q], queue'[q])
      /\ \A i \in Identifier : queue'[RecvQueue(i)] = queue[RecvQueue(i)]
      /\ \A c \in Client : Suffix(inbox[c], inbox'[c])
  BY DEF QuietStep
<1>5. ASSUME NEW T \in SUBSET nsbm, NEW s \in Seq(T), NEW t, Quiet(s, t), \A m \in nsbm : ~Bears(m) => m \in T
      PROVE  t \in Seq(T)
  <2>1. CASE Suffix(s, t)
    BY <1>5, <2>1, HitsSuffix
  <2>2. CASE \E m \in nsbm : ~Bears(m) /\ t = Append(s, m)
    BY <1>5, <2>2
  <2> QED BY <1>5, <2>1, <2>2 DEF Quiet
<1>6. \A q \in Queue : queue'[q] \in Seq(Stamped)
  BY <1>1, <1>4, <1>5
<1>7. \A c \in Client : inbox'[c] \in Seq(Stamped)
  BY <1>1, <1>4, HitsSuffix
<1>8. ASSUME NEW i \in Identifier, NEW p \in Payload PROVE Hits(queue'[ResponseQueue(i)], SendOf(p)) = {}
  <2>1. PICK s : s = queue[ResponseQueue(i)]
    OBVIOUS
  <2>2. PICK t : t = queue'[ResponseQueue(i)]
    OBVIOUS
  <2>3. s \in Seq(nsbm) /\ Quiet(s, t) /\ Hits(s, SendOf(p)) = {}
    BY <1>0, <1>1, <1>4, <2>1, <2>2 DEF SignedInv
  <2>4. CASE Suffix(s, t)
    BY <2>2, <2>3, <2>4, HitsSuffix DEF Fewer
  <2>5. ASSUME NEW m \in nsbm, ~Bears(m), t = Append(s, m) PROVE Hits(t, SendOf(p)) = {}
    <3>1. m \notin SendOf(p)
      BY <1>1, <2>5
    <3> QED BY <2>3, <2>5, <3>1, HitsAppend
  <2> QED BY <2>2, <2>3, <2>4, <2>5 DEF Quiet
<1>9. Seq(Stamped) \subseteq Seq(Signed) /\ Seq(Stamped) \subseteq Seq(KnownMessage)
  BY SeqMono DEF Stamped
<1>10. SignedInv'
  <2>1. \A i \in Identifier : \A p \in Payload : Hits(queue'[ResponseQueue(i)], SendOf(p)') = {}
    BY <1>3, <1>8
  <2>2. db' \in Seq(Payload \cup {NoValue})
    BY <1>0, <1>2 DEF SignedInv
  <2>3. \A q \in Queue : queue'[q] \in Seq(Signed')
    BY <1>3, <1>6, <1>9
  <2>4. \A c \in Client : inbox'[c] \in Seq(Signed') /\ got'[c] \in Seq(SignedMail')
    BY <1>1, <1>2, <1>3, <1>7, <1>9
  <2> QED BY <2>1, <2>2, <2>3, <2>4 DEF SignedInv
<1>11. ASSUME NEW c \in Client, NEW p \in Payload, NEW r \in Payload, NoLater(r, p) PROVE Orderly(c, p, r)'
  <2>1. PICK q \in Queue : q = RecvQueue(Ident[c])
    BY <1>1
  <2>2. queue'[q] = queue[q] /\ inbox'[c] \in Seq(KnownMessage) /\ queue'[q] \in Seq(KnownMessage)
    BY <1>1, <1>4, <1>6, <1>7, <1>9, <2>1
  <2>3. Suffix(queue[q], queue'[q])
    BY <1>1, <2>2, SuffixSelf
  <2>4. LeftInOrder(inbox[c], queue[q], inbox'[c], queue'[q], SendOf(p), SendOf(r))
    BY <1>1, <1>4, <2>3, LeftIfSuffix
  <2>5. Orderly(c, p, r) /\ got'[c] = got[c]
    BY <1>0, <1>2, <1>11
  <2> QED BY <1>3, <2>1, <2>2, <2>4, <2>5, LeftOrderly
<1> QED BY <1>10, <1>11 DEF OrderInv, NoLater

(* A client takes deliveries: what it leaves to every client is in order. *)
LEMMA ConsumesLeaves ==
    ASSUME SignedInv, NEW c \in Client, NEW n, NEW k, NEW q \in {ResponseQueue(Ident[c]), RecvQueue(Ident[c])},
           Consumes(c, q, n, k)
    PROVE  /\ \A x \in Queue : queue'[x] \in Seq(Stamped)
           /\ \A d \in Client : inbox'[d] \in Seq(Stamped)
           /\ \A x \in Queue : Suffix(queue[x], queue'[x])
           /\ k = 1 => Held(c, q, n)[1] \in Stamped
           /\ \A d \in Client : \A p, r \in Payload :
                LeftInOrder(inbox[d], queue[RecvQueue(Ident[d])], inbox'[d], queue'[RecvQueue(Ident[d])],
                            SendOf(p), SendOf(r))
<1>1. /\ TypeOK /\ Stamped \in SUBSET nsbm /\ Stamped \in SUBSET Stamped
      /\ \A x \in Queue : queue[x] \in Seq(Stamped) /\ queue[x] \in Seq(nsbm)
      /\ \A d \in Client : inbox[d] \in Seq(Stamped)
      /\ queue \in [Queue -> Seq(nsbm)]
      /\ \A d \in Client : Ident[d] \in Identifier
      /\ \A i \in Identifier : RecvQueue(i) \in Queue /\ ResponseQueue(i) \in Queue
  BY StampedStreams
<1>2. q \in Queue
  BY <1>1
<1>3. /\ queue'[q] \in Seq(Stamped) /\ inbox'[c] \in Seq(Stamped)
      /\ (k = 1 => Held(c, q, n)[1] \in Stamped)
      /\ \A x \in Queue \ {q} : queue'[x] = queue[x]
      /\ \A d \in Client \ {c} : inbox'[d] = inbox[d]
  BY <1>1, <1>2, ConsumesKind
<1>4. Suffix(queue[q], queue'[q])
  <2>1. n \in 0 .. Len(queue[q]) /\ queue'[q] = SubSeq(queue[q], n + 1, Len(queue[q]))
    BY <1>1, <1>2 DEF Consumes
  <2> QED BY <2>1 DEF Suffix
<1>5. \A x \in Queue : Suffix(queue[x], queue'[x])
  BY <1>1, <1>3, <1>4, SuffixSelf
<1>6. ASSUME NEW d \in Client, NEW p \in Payload, NEW r \in Payload
      PROVE  LeftInOrder(inbox[d], queue[RecvQueue(Ident[d])], inbox'[d], queue'[RecvQueue(Ident[d])],
                         SendOf(p), SendOf(r))
  <2>1. PICK x \in Queue : x = RecvQueue(Ident[d])
    BY <1>1
  <2>2. CASE d # c
    <3>1. Suffix(inbox[d], inbox'[d]) /\ Suffix(queue[x], queue'[x])
      BY <1>1, <1>3, <1>5, <2>2, SuffixSelf
    <3> QED BY <1>1, <2>1, <3>1, LeftIfSuffix
  <2>3. CASE d = c /\ q = x
    BY <1>1, <2>1, <2>3, ConsumesOrder
  <2>4. CASE d = c /\ q # x
    <3>1. q = ResponseQueue(Ident[c]) /\ queue'[x] = queue[x]
      BY <1>3, <2>1, <2>4
    <3>2. Hits(queue[q], SendOf(p)) = {} /\ Hits(queue[q], SendOf(r)) = {}
      BY <1>1, <3>1 DEF SignedInv
    <3>3. LeftInOrder(inbox[c], queue[x], inbox'[c], queue[x], SendOf(p), SendOf(r))
      BY <1>1, <1>2, <3>2, ConsumesAside
    <3> QED BY <2>1, <2>4, <3>1, <3>3
  <2> QED BY <2>2, <2>3, <2>4
<1>7. \A x \in Queue : queue'[x] \in Seq(Stamped)
  BY <1>1, <1>3
<1>8. \A d \in Client : inbox'[d] \in Seq(Stamped)
  BY <1>1, <1>3
<1> QED BY <1>3, <1>5, <1>6, <1>7, <1>8

(* What is signed is so after a step that only takes. *)
LEMMA TakenSigned ==
    ASSUME SignedInv, TypeInv', KeysKnown', Grows, UNCHANGED nsent, db' \in Seq(Payload \cup {NoValue}),
           \A x \in Queue : queue'[x] \in Seq(Stamped),
           \A d \in Client : inbox'[d] \in Seq(Stamped) /\ got'[d] \in Seq(SignedMail),
           \A x \in Queue : Suffix(queue[x], queue'[x])
    PROVE  SignedInv'
<1>1. /\ TypeOK /\ \A x \in Queue : queue[x] \in Seq(KnownMessage) /\ queue[x] \in Seq(nsbm)
      /\ \A i \in Identifier : ResponseQueue(i) \in Queue
  BY StampedStreams DEF SignedInv, KeysKnown
<1>2. nsent' \in [Client -> Nat] /\ \A c \in Client : nsent[c] <= nsent'[c]
  <2>1. nsent \in [Client -> 0 .. MaxSends] /\ MaxSends \in Nat
    BY <1>1, WireAssumption DEF TypeOK
  <2> QED BY <2>1
<1>3. /\ \A s : s \in Seq(KnownMessage) /\ s \in Seq(Signed) => s \in Seq(Signed')
      /\ \A s : s \in Seq(SignedMail) => s \in Seq(SignedMail')
  BY <1>1, <1>2, SignedStays
<1>4. Seq(Stamped) \subseteq Seq(Signed) /\ Seq(Stamped) \subseteq Seq(KnownMessage)
  BY SeqMono DEF Stamped
<1>5. \A x \in Queue : queue'[x] \in Seq(Signed')
  BY <1>3, <1>4
<1>6. \A d \in Client : inbox'[d] \in Seq(Signed') /\ got'[d] \in Seq(SignedMail')
  BY <1>3, <1>4
<1>7. ASSUME NEW i \in Identifier, NEW p \in Payload PROVE Hits(queue'[ResponseQueue(i)], SendOf(p)') = {}
  <2>1. PICK s : s = queue[ResponseQueue(i)]
    OBVIOUS
  <2>2. PICK t : t = queue'[ResponseQueue(i)]
    OBVIOUS
  <2>3. s \in Seq(KnownMessage) /\ Suffix(s, t) /\ Hits(s, SendOf(p)) = {}
    BY <1>1, <2>1, <2>2 DEF SignedInv
  <2>4. KnownMessage \cap SendOf(p)' \subseteq SendOf(p)
    BY SendOfShrinks
  <2>5. Fewer(Hits(s, SendOf(p)), Hits(t, SendOf(p)'))
    BY <2>3, <2>4, StreamFewer
  <2> QED BY <2>2, <2>3, <2>5 DEF Fewer
<1> QED BY <1>5, <1>6, <1>7 DEF SignedInv

(* A client takes deliveries, and hands nothing over. *)
LEMMA TakeOrder ==
    ASSUME OrderInv, NEW c \in Client, TakeStep(c), TypeInv', KeysKnown'
    PROVE  OrderInv'
<1>0. SignedInv /\ \A d \in Client : \A p, r \in Payload : NoLater(r, p) => Orderly(d, p, r)
  BY DEF OrderInv
<1>1. PICK n \in Nat, k \in {0, 1}, q \in {ResponseQueue(Ident[c]), RecvQueue(Ident[c])} : Consumes(c, q, n, k)
  BY DEF TakeStep
<1>2. /\ \A x \in Queue : queue'[x] \in Seq(Stamped)
      /\ \A d \in Client : inbox'[d] \in Seq(Stamped)
      /\ \A x \in Queue : Suffix(queue[x], queue'[x])
      /\ \A d \in Client : \A p, r \in Payload :
            LeftInOrder(inbox[d], queue[RecvQueue(Ident[d])], inbox'[d], queue'[RecvQueue(Ident[d])],
                        SendOf(p), SendOf(r))
  BY <1>0, <1>1, ConsumesLeaves
<1>3. UNCHANGED <<db, got, nsent, posted>> /\ Grows
  BY DEF TakeStep, mailVars, Grows
<1>4. db' \in Seq(Payload \cup {NoValue}) /\ \A d \in Client : got'[d] \in Seq(SignedMail)
  BY <1>0, <1>3 DEF SignedInv
<1>5. SignedInv'
  BY <1>0, <1>2, <1>3, <1>4, TakenSigned
<1>6. Seq(Stamped) \subseteq Seq(KnownMessage)
  BY SeqMono DEF Stamped
<1>7. ASSUME NEW d \in Client, NEW p \in Payload, NEW r \in Payload, NoLater(r, p) PROVE Orderly(d, p, r)'
  <2>1. inbox'[d] \in Seq(KnownMessage) /\ queue'[RecvQueue(Ident[d])] \in Seq(KnownMessage)
    BY <1>2, <1>6, QueueNames
  <2>2. Orderly(d, p, r) /\ got'[d] = got[d]
    BY <1>0, <1>3, <1>7
  <2> QED BY <1>2, <1>3, <2>1, <2>2, LeftOrderly
<1> QED BY <1>5, <1>7 DEF OrderInv, NoLater

(* A client takes a delivery and hands it over: nothing that was sent no    *)
(* later is still to come.                                                  *)
LEMMA OverOrder ==
    ASSUME OrderInv, NEW c \in Client, NEW n \in Nat, NEW m \in nsbm, OverStep(c, n, m), TypeInv', KeysKnown'
    PROVE  OrderInv'
<1> DEFINE q == RecvQueue(Ident[c])
<1>0. SignedInv /\ \A d \in Client : \A p, r \in Payload : NoLater(r, p) => Orderly(d, p, r)
  BY DEF OrderInv
<1>1. Consumes(c, q, n, 1) /\ m = Held(c, q, n)[1] /\ HandOver(c, m) /\ UNCHANGED nsent
  BY DEF OverStep
<1>2. /\ \A x \in Queue : queue'[x] \in Seq(Stamped)
      /\ \A d \in Client : inbox'[d] \in Seq(Stamped)
      /\ \A x \in Queue : Suffix(queue[x], queue'[x])
      /\ m \in Stamped
      /\ \A d \in Client : \A p, r \in Payload :
            LeftInOrder(inbox[d], queue[RecvQueue(Ident[d])], inbox'[d], queue'[RecvQueue(Ident[d])],
                        SendOf(p), SendOf(r))
  BY <1>0, <1>1, ConsumesLeaves
<1>3. /\ TypeOK /\ db \in Seq(Payload \cup {NoValue}) /\ q \in Queue
      /\ got \in [Client -> Seq(Mail)] /\ \A d \in Client : got[d] \in Seq(SignedMail)
  BY <1>0, StampedStreams, QueueNames DEF SignedInv
<1>4. /\ Grows /\ db' \in Seq(Payload \cup {NoValue})
      /\ \/ got' = got
         \/ \E e \in SignedMail : /\ got' = [got EXCEPT ![c] = Append(@, e)]
                                  /\ \A p \in Payload : e \in SentMail(p) => m \in SendOf(p)
  BY <1>1, <1>2, <1>3, OverSigned DEF Stamped
<1>5. \A d \in Client : got'[d] \in Seq(SignedMail)
  <2>1. CASE got' = got
    BY <1>3, <2>1
  <2>2. ASSUME NEW e \in SignedMail, got' = [got EXCEPT ![c] = Append(@, e)]
        PROVE  \A d \in Client : got'[d] \in Seq(SignedMail)
    <3>1. Append(got[c], e) \in Seq(SignedMail)
      BY <1>3
    <3>2. got'[c] = Append(got[c], e) /\ \A d \in Client \ {c} : got'[d] = got[d]
      BY <1>3, <2>2
    <3> QED BY <1>3, <3>1, <3>2
  <2> QED BY <1>4, <2>1, <2>2
<1>6. SignedInv'
  BY <1>0, <1>1, <1>2, <1>4, <1>5, TakenSigned
<1>7. Seq(Stamped) \subseteq Seq(KnownMessage)
  BY SeqMono DEF Stamped
<1>8. ASSUME NEW d \in Client PROVE inbox'[d] \in Seq(KnownMessage) /\ queue'[RecvQueue(Ident[d])] \in Seq(KnownMessage)
  BY <1>2, <1>7, QueueNames
<1>9. ASSUME NEW d \in Client, NEW p \in Payload, NEW r \in Payload, NoLater(r, p) PROVE Orderly(d, p, r)'
  <2>1. Orderly(d, p, r)
    BY <1>0, <1>9
  <2>2. CASE got'[d] = got[d]
    BY <1>2, <1>4, <1>8, <2>1, <2>2, LeftOrderly
  <2>3. ASSUME NEW e \in SignedMail, d = c, got' = [got EXCEPT ![c] = Append(@, e)],
               \A x \in Payload : e \in SentMail(x) => m \in SendOf(x)
        PROVE  Orderly(d, p, r)'
    <3> DEFINE A == SendOf(p)
               B == SendOf(r)
               GA == SentMail(p)
               GB == SentMail(r)
    <3>1. /\ InOrder(inbox[c], queue[q], A, B) /\ Sorted(got[c], GA, GB)
          /\ Hits(got[c], GA) # {} => Hits(inbox[c], B) = {} /\ Hits(queue[q], B) = {}
      BY <2>1, <2>3 DEF Orderly
    <3>2. (e \in GA => m \in A) /\ (e \in GB => m \in B)
      BY <2>3
    <3>3. KnownMessage \cap A' \subseteq A /\ KnownMessage \cap B' \subseteq B
      BY <1>4, SendOfShrinks
    <3>4. Orderly(c, p, r)' = /\ InOrder(inbox'[c], queue'[q], A', B')
                              /\ Sorted(got'[c], GA, GB)
                              /\ Hits(got'[c], GA) # {} => Hits(inbox'[c], B') = {} /\ Hits(queue'[q], B') = {}
      BY DEF Orderly, InOrder, Sorted, SentMail
    <3>5. inbox'[c] \in Seq(KnownMessage) /\ queue'[q] \in Seq(KnownMessage)
      BY <1>8
    <3>6. LeftInOrder(inbox[c], queue[q], inbox'[c], queue'[q], A, B)
      BY <1>2
    <3>7. /\ m \in A => Hits(inbox'[c], B) = {} /\ Hits(queue'[q], B) = {}
          /\ m \in B => Hits(inbox[c], B) # {} \/ Hits(queue[q], B) # {}
      <4>0. TypeOK /\ q \in Queue /\ Consumes(c, q, n, 1)
        BY <1>1, <1>3
      <4> HIDE DEF q
      <4>1. Held(c, q, n)[1] \in A /\ InOrder(inbox[c], queue[q], A, B)
                 => Hits(inbox'[c], B) = {} /\ Hits(queue'[q], B) = {}
        BY <4>0, ConsumesOrder
      <4>2. Held(c, q, n)[1] \in B => Hits(inbox[c], B) # {} \/ Hits(queue[q], B) # {}
        BY <4>0, ConsumesOrder
      <4> QED BY <1>1, <3>1, <4>1, <4>2
    <3> HIDE DEF A, B, GA, GB, q
    <3>8. /\ Hits(inbox'[c], A') \subseteq Hits(inbox'[c], A) /\ Hits(inbox'[c], B') \subseteq Hits(inbox'[c], B)
          /\ Hits(queue'[q], A') \subseteq Hits(queue'[q], A) /\ Hits(queue'[q], B') \subseteq Hits(queue'[q], B)
      <4>1. ASSUME NEW s \in Seq(KnownMessage)
            PROVE  Hits(s, A') \subseteq Hits(s, A) /\ Hits(s, B') \subseteq Hits(s, B)
        BY <3>3, HitsSubset
      <4> QED BY <3>5, <4>1
    <3>9. InOrder(inbox'[c], queue'[q], A', B')
      BY <3>1, <3>6, <3>8 DEF LeftInOrder, InOrder, Sorted
    <3>10. /\ got'[c] = Append(got[c], e) /\ got[c] \in Seq(SignedMail)
           /\ Hits(got'[c], GA) = Hits(got[c], GA) \cup (IF e \in GA THEN {Len(got[c]) + 1} ELSE {})
      <4>1. got'[c] = Append(got[c], e) /\ got[c] \in Seq(SignedMail)
        BY <1>3, <2>3
      <4> QED BY <4>1, HitsAppend
    <3>11. Sorted(got'[c], GA, GB)
      <4>1. e \notin GB \/ Hits(got[c], GA) = {}
        BY <3>1, <3>2, <3>7
      <4> QED BY <3>1, <3>10, <4>1, SortedAppend
    <3>12. Hits(got'[c], GA) # {} => Hits(inbox'[c], B') = {} /\ Hits(queue'[q], B') = {}
      <4>1. Hits(got'[c], GA) # {} => Hits(got[c], GA) # {} \/ m \in A
        BY <3>2, <3>10
      <4>2. Hits(got'[c], GA) # {} => Hits(inbox'[c], B) = {} /\ Hits(queue'[q], B) = {}
        BY <3>1, <3>6, <3>7, <4>1 DEF LeftInOrder
      <4> QED BY <3>8, <4>2
    <3> QED BY <2>3, <3>4, <3>9, <3>11, <3>12
  <2>4. \A e : d # c /\ got' = [got EXCEPT ![c] = Append(@, e)] => got'[d] = got[d]
    BY <1>3
  <2> QED BY <1>4, <2>2, <2>3, <2>4
<1> QED BY <1>6, <1>9 DEF OrderInv, NoLater

(* What is not sent is not there. *)
LEMMA UnsentAbsent ==
    ASSUME SignedInv, NEW p \in Payload, ~SentFact(p)
    PROVE  /\ \A q \in Queue : Hits(queue[q], SendOf(p)) = {}
           /\ \A c \in Client : Hits(inbox[c], SendOf(p)) = {} /\ Hits(got[c], SentMail(p)) = {}
<1>1. \A m \in Signed : m \notin SendOf(p)
  BY DEF Signed, From
<1>2. \A e \in SignedMail : e \notin SentMail(p)
  BY DEF SignedMail, SentMail, From
<1>3. ASSUME NEW T, NEW C, NEW s \in Seq(T), \A x \in T : x \notin C PROVE Hits(s, C) = {}
  <2>1. \A i \in DOMAIN s : s[i] \in T
    BY <1>3
  <2> QED BY <1>3, <2>1 DEF Hits
<1>4. \A q \in Queue : Hits(queue[q], SendOf(p)) = {}
  BY <1>1, <1>3 DEF SignedInv
<1>5. \A c \in Client : Hits(inbox[c], SendOf(p)) = {}
  BY <1>1, <1>3 DEF SignedInv
<1>6. \A c \in Client : Hits(got[c], SentMail(p)) = {}
  BY <1>2, <1>3 DEF SignedInv
<1> QED BY <1>4, <1>5, <1>6

(* A message is published: it is the last of its sender. *)
LEMMA MailedOrder ==
    ASSUME OrderInv, TypeInv', KeysKnown', NEW c \in Client, NEW op, NEW s, NEW d \in Identifier,
           NEW v \in Payload, NEW m \in nsbm, m = DataMessage(c, op, s, d, v), Mails(d, m),
           db' = IF Stores(c, op) THEN Append(db, v) ELSE db, inbox' = inbox, got' = got,
           nsent' \in [Client -> Nat], \A x \in Client : nsent[x] <= nsent'[x],
           op = "SEND" => From(s, v)' /\ ~SentFact(v)
    PROVE  OrderInv'
<1>0. SignedInv /\ \A x \in Client : \A p, r \in Payload : NoLater(r, p) => Orderly(x, p, r)
  BY DEF OrderInv
<1>1. /\ TypeOK /\ db \in Seq(Payload \cup {NoValue}) /\ queue \in [Queue -> Seq(nsbm)]
      /\ \A q \in Queue : queue[q] \in Seq(KnownMessage) /\ queue[q] \in Seq(Signed)
      /\ \A x \in Client : inbox[x] \in Seq(KnownMessage) /\ inbox[x] \in Seq(Signed)
      /\ \A x \in Client : got[x] \in Seq(SignedMail)
      /\ \A i \in Identifier : RecvQueue(i) \in Queue /\ ResponseQueue(i) \in Queue
      /\ \A x \in Client : Ident[x] \in Identifier
  BY <1>0, StampedStreams DEF SignedInv, KeysKnown
<1>2. /\ m \in Signed' /\ db' \in Seq(Payload \cup {NoValue}) /\ Grows
      /\ \A p \in Payload : m \in SendOf(p)' => op = "SEND" /\ v = p
  BY <1>1, DataSigned
<1>3. /\ \A t : t \in Seq(KnownMessage) /\ t \in Seq(Signed) => t \in Seq(Signed')
      /\ \A t : t \in Seq(SignedMail) => t \in Seq(SignedMail')
  BY <1>1, <1>2, SignedStays
<1>4. \A q \in Queue : queue'[q] = queue[q] \/ (q = RecvQueue(d) /\ queue'[q] = Append(queue[q], m))
  BY <1>1 DEF Mails
<1>5. \A q \in Queue : queue'[q] \in Seq(Signed')
  <2> SUFFICES ASSUME NEW q \in Queue PROVE queue'[q] \in Seq(Signed')
    OBVIOUS
  <2>1. queue[q] \in Seq(Signed')
    BY <1>1, <1>3
  <2>2. Append(queue[q], m) \in Seq(Signed')
    BY <1>2, <2>1
  <2> QED BY <1>4, <2>1, <2>2
<1>6. \A x \in Client : inbox'[x] \in Seq(Signed') /\ got'[x] \in Seq(SignedMail')
  BY <1>1, <1>3
<1>7. \A p \in Payload : KnownMessage \cap SendOf(p)' \subseteq SendOf(p)
  BY <1>2, SendOfShrinks
<1>8. ASSUME NEW p \in Payload, NEW t \in Seq(KnownMessage) PROVE Hits(t, SendOf(p)') \subseteq Hits(t, SendOf(p))
  <2>1. PICK D : D = SendOf(p)'
    OBVIOUS
  <2>2. PICK A : A = SendOf(p)
    OBVIOUS
  <2>3. KnownMessage \cap D \subseteq A
    BY <1>7, <2>1, <2>2
  <2> QED BY <2>1, <2>2, <2>3, HitsSubset
<1>9. SignedInv'
  <2>1. \A i \in Identifier : \A p \in Payload : Hits(queue'[ResponseQueue(i)], SendOf(p)') = {}
    <3> SUFFICES ASSUME NEW i \in Identifier, NEW p \in Payload
                 PROVE  Hits(queue'[ResponseQueue(i)], SendOf(p)') = {}
      OBVIOUS
    <3>1. queue'[ResponseQueue(i)] = queue[ResponseQueue(i)]
      BY <1>1, <1>4, QueueNames
    <3>2. Hits(queue[ResponseQueue(i)], SendOf(p)) = {} /\ queue[ResponseQueue(i)] \in Seq(KnownMessage)
      BY <1>0, <1>1 DEF SignedInv
    <3>3. Hits(queue[ResponseQueue(i)], SendOf(p)') \subseteq Hits(queue[ResponseQueue(i)], SendOf(p))
      BY <1>8, <3>2
    <3> QED BY <3>1, <3>2, <3>3
  <2> QED BY <1>2, <1>5, <1>6, <2>1 DEF SignedInv
<1>10. ASSUME NEW x \in Client, NEW p \in Payload, NEW r \in Payload, NoLater(r, p) PROVE Orderly(x, p, r)'
  <2> DEFINE q == RecvQueue(Ident[x])
             A == SendOf(p)
             B == SendOf(r)
             D == SendOf(p)'
             E == SendOf(r)'
             t == inbox[x]
             u == queue[q]
             w == queue'[q]
             g == got[x]
  <2>1. /\ InOrder(t, u, A, B) /\ Sorted(g, SentMail(p), SentMail(r))
        /\ Hits(g, SentMail(p)) # {} => Hits(t, B) = {} /\ Hits(u, B) = {}
    BY <1>0, <1>10 DEF Orderly
  <2>2. Orderly(x, p, r)' = /\ InOrder(t, w, D, E) /\ Sorted(g, SentMail(p), SentMail(r))
                            /\ Hits(g, SentMail(p)) # {} => Hits(t, E) = {} /\ Hits(w, E) = {}
    BY DEF Orderly, InOrder, Sorted, SentMail
  <2>3. u \in Seq(nsbm) /\ (w = u \/ w = Append(u, m))
    BY <1>1, <1>4
  <2>4. /\ Hits(t, D) \subseteq Hits(t, A) /\ Hits(t, E) \subseteq Hits(t, B)
        /\ Hits(u, D) \subseteq Hits(u, A) /\ Hits(u, E) \subseteq Hits(u, B)
    BY <1>1, <1>8
  <2>5. m \in E => Hits(t, A) = {} /\ Hits(u, A) = {} /\ Hits(g, SentMail(p)) = {}
    <3> SUFFICES ASSUME m \in E PROVE Hits(t, A) = {} /\ Hits(u, A) = {} /\ Hits(g, SentMail(p)) = {}
      OBVIOUS
    <3>1. v = r /\ ~SentFact(r)
      BY <1>2
    <3>2. ~SentFact(p)
      <4>1. nsent \in [Client -> 0 .. MaxSends] /\ MaxSends \in Nat
        BY <1>1, WireAssumption DEF TypeOK
      <4>2. p[1] \in Client /\ p[2] \in Nat /\ r[2] \in Nat /\ r[1] = p[1] /\ r[2] <= p[2]
        BY <1>10, NoValueNoPayload DEF NoLater
      <4>3. nsent[p[1]] \in Nat
        BY <4>1, <4>2
      <4> QED BY <3>1, <4>2, <4>3 DEF SentFact
    <3>3. q \in Queue
      BY <1>1
    <3> QED BY <1>0, <3>2, <3>3, UnsentAbsent
  <2> HIDE DEF A, B, D, E, t, u, w, g, q
  <2>6. Sorted(u, D, E) /\ Sorted(t, D, E)
    BY <2>1, <2>4 DEF InOrder, Sorted
  <2>7. m \notin E \/ Hits(u, D) = {}
    BY <2>4, <2>5
  <2>8. Sorted(w, D, E)
    <3>1. Sorted(Append(u, m), D, E)
      <4>1. PICK X : X = D
        OBVIOUS
      <4>2. PICK Y : Y = E
        OBVIOUS
      <4>3. Sorted(u, X, Y) /\ (m \notin Y \/ Hits(u, X) = {})
        BY <2>6, <2>7, <4>1, <4>2
      <4>4. Sorted(Append(u, m), X, Y)
        BY <2>3, <4>3, SortedAppend
      <4> QED BY <4>1, <4>2, <4>4
    <3> QED BY <2>3, <2>6, <3>1
  <2>9. m \notin E => Hits(w, E) \subseteq Hits(u, E)
    <3>1. ASSUME NEW Y, m \notin Y PROVE Hits(Append(u, m), Y) = Hits(u, Y)
      <4>1. Hits(Append(u, m), Y) = Hits(u, Y) \cup (IF m \in Y THEN {Len(u) + 1} ELSE {})
        BY <2>3, HitsAppend
      <4> QED BY <3>1, <4>1
    <3>2. ASSUME m \notin E PROVE Hits(Append(u, m), E) = Hits(u, E)
      <4>1. PICK Y : Y = E
        OBVIOUS
      <4> QED BY <3>1, <3>2, <4>1
    <3> QED BY <2>3, <3>2
  <2>10. CASE m \notin E
    <3>1. Hits(w, E) \subseteq Hits(u, B)
      BY <2>4, <2>9, <2>10
    <3>2. InOrder(t, w, D, E)
      BY <2>1, <2>4, <2>6, <2>8, <3>1 DEF InOrder
    <3> QED BY <2>1, <2>2, <2>4, <3>1, <3>2
  <2>11. CASE m \in E
    <3>1. InOrder(t, w, D, E)
      BY <2>4, <2>5, <2>6, <2>8, <2>11 DEF InOrder
    <3> QED BY <2>1, <2>2, <2>5, <2>11, <3>1
  <2> QED BY <2>10, <2>11
<1> QED BY <1>9, <1>10 DEF OrderInv, NoLater

LEMMA SentOrder ==
    ASSUME OrderInv, TypeInv', KeysKnown', NEW c \in Client, NEW d \in SendTo[c], NEW m \in nsbm,
           SendStep(c, d, m)
    PROVE  OrderInv'
<1>1. d \in Identifier
  BY RabbitAssumption
<1>2. nsent \in [Client -> 0 .. MaxSends] /\ MaxSends \in Nat
  BY WireAssumption DEF OrderInv, SignedInv, TypeInv, TypeOK
<1>3. \A x \in Client : nsent[x] \in Nat
  BY <1>2
<1>4. nsent[c] < MaxSends /\ nsent' = [nsent EXCEPT ![c] = @ + 1] /\ Orig[c] = "APP_CLIENT"
  BY DEF SendStep
<1>5. PICK v \in Payload : v = <<c, nsent[c] + 1>>
  <2>1. nsent[c] + 1 \in 1 .. MaxSends
    BY <1>2, <1>3, <1>4
  <2> QED BY <2>1 DEF Payload
<1>6. v[1] = c /\ v[2] = nsent[c] + 1
  BY <1>5
<1>7. /\ nsent' \in [Client -> Nat] /\ nsent'[c] = nsent[c] + 1
      /\ \A x \in Client : nsent[x] <= nsent'[x]
  BY <1>2, <1>3, <1>4
<1>8. From(Ident[c], v)' /\ ~SentFact(v)
  BY <1>3, <1>4, <1>6, <1>7 DEF From, SentFact
<1>9. /\ m = DataMessage(c, "SEND", Ident[c], d, v) /\ Mails(d, m)
      /\ db' = IF Stores(c, "SEND") THEN Append(db, v) ELSE db
      /\ inbox' = inbox /\ got' = got
  BY <1>5 DEF SendStep
<1> QED BY <1>1, <1>7, <1>8, <1>9, MailedOrder

LEMMA PostedOrder ==
    ASSUME OrderInv, TypeInv', KeysKnown', NEW c \in Client, NEW d \in PostTo[c], NEW e \in Mail,
           NEW m \in nsbm, PostStep(c, d, e, m)
    PROVE  OrderInv'
<1>1. d \in Identifier
  BY RabbitAssumption
<1>2. nsent \in [Client -> 0 .. MaxSends] /\ MaxSends \in Nat /\ got[c] \in Seq(SignedMail)
  BY WireAssumption DEF OrderInv, SignedInv, TypeInv, TypeOK
<1>3. \A x \in Client : nsent[x] \in Nat
  BY <1>2
<1>4. nsent' \in [Client -> Nat] /\ \A x \in Client : nsent[x] <= nsent'[x]
  <2>1. nsent' = nsent
    BY DEF PostStep
  <2> QED BY <1>2, <1>3, <2>1
<1>5. e \in SignedMail
  BY <1>2 DEF PostStep
<1>6. PICK v \in Payload : v = e.payload_obj
  BY <1>5 DEF SignedMail
<1>7. PICK s : s = e.source
  OBVIOUS
<1>8. /\ m = DataMessage(c, "POST", s, d, v) /\ Mails(d, m)
      /\ db' = IF Stores(c, "POST") THEN Append(db, v) ELSE db
      /\ inbox' = inbox /\ got' = got
  BY <1>6, <1>7 DEF PostStep
<1>9. PICK op : op = "POST"
  OBVIOUS
<1>10. op # "SEND"
  BY <1>9
<1>11. m = DataMessage(c, op, s, d, v) /\ db' = IF Stores(c, op) THEN Append(db, v) ELSE db
  BY <1>8, <1>9
<1> QED BY <1>1, <1>4, <1>8, <1>10, <1>11, MailedOrder

LEMMA OrderInvStep == OrderInv /\ [Next]_vars => OrderInv'
<1> SUFFICES ASSUME OrderInv, [Next]_vars PROVE OrderInv'
  OBVIOUS
<1>1. TypeInv /\ TypeInv' /\ KeysKnown'
  BY TypeInvStep, KeysKnownStep DEF OrderInv, SignedInv
<1>2. CASE QuietStep
  BY <1>1, <1>2, QuietOrder
<1>3. ASSUME NEW c \in Client, MailStep(c) PROVE OrderInv'
  <2>1. CASE TakeStep(c)
    BY <1>1, <2>1, TakeOrder
  <2>2. CASE \E n \in Nat, m \in nsbm : OverStep(c, n, m)
    BY <1>1, <2>2, OverOrder
  <2>3. CASE \E d \in SendTo[c], m \in nsbm : SendStep(c, d, m)
    BY <1>1, <2>3, SentOrder
  <2>4. CASE \E d \in PostTo[c], e \in Mail, m \in nsbm : PostStep(c, d, e, m)
    BY <1>1, <2>4, PostedOrder
  <2> QED BY <1>3, <2>1, <2>2, <2>3, <2>4 DEF MailStep
<1> QED BY <1>1, <1>2, <1>3, MailSteps

LEMMA OrderInvInit == Init => OrderInv
<1> SUFFICES ASSUME Init PROVE OrderInv
  OBVIOUS
<1>1. TypeInv /\ KeysKnown
  BY TypeInvInit, KeysKnownInit
<1>2. /\ \A q \in Queue : queue[q] = <<>>
      /\ \A c \in Client : inbox[c] = <<>> /\ got[c] = <<>>
      /\ db = <<>>
  BY DEF Init, BrokerInit
<1>3. /\ \A C : Hits(<<>>, C) = {}
      /\ \A C : <<>> \in Seq(C)
  BY DEF Hits
<1>4. \A i \in Identifier : RecvQueue(i) \in Queue /\ ResponseQueue(i) \in Queue
  BY QueueNames
<1>5. \A c \in Client : Ident[c] \in Identifier
  BY WireAssumption DEF Identifier
<1>6. SignedInv
  BY <1>1, <1>2, <1>3, <1>4 DEF SignedInv
<1>7. ASSUME NEW c \in Client, NEW p, NEW r PROVE Orderly(c, p, r)
  <2>1. queue[RecvQueue(Ident[c])] = <<>>
    BY <1>2, <1>4, <1>5
  <2> QED BY <1>2, <1>3, <2>1 DEF Orderly, InOrder, Sorted
<1> QED BY <1>6, <1>7 DEF OrderInv

(* Applications have identifiers of their own. *)
OneName ==
    \A c, d \in Client :
        Orig[c] = "APP_CLIENT" /\ Orig[d] = "APP_CLIENT" /\ Ident[c] = Ident[d] => c = d

LEMMA OrderInvMailOrder ==
    ASSUME OneName, OrderInv
    PROVE  MailOrder
<1> SUFFICES ASSUME NEW c \in Client, NEW i \in DOMAIN got[c], NEW j \in DOMAIN got[c], i < j,
                    got[c][i].op = "SEND", got[c][j].op = "SEND", got[c][i].source = got[c][j].source
             PROVE  got[c][i].payload_obj[2] < got[c][j].payload_obj[2]
  BY DEF MailOrder
<1>1. got[c] \in Seq(SignedMail)
  BY DEF OrderInv, SignedInv
<1>2. got[c][i] \in SignedMail /\ got[c][j] \in SignedMail /\ i \in Nat /\ j \in Nat
  BY <1>1
<1>3. PICK p \in Payload : p = got[c][i].payload_obj
  BY <1>2 DEF SignedMail
<1>4. PICK r \in Payload : r = got[c][j].payload_obj
  BY <1>2 DEF SignedMail
<1>5. From(got[c][i].source, p) /\ From(got[c][i].source, r)
  BY <1>2, <1>3, <1>4 DEF SignedMail
<1>6. p[1] \in Client /\ r[1] \in Client /\ p[2] \in Nat /\ r[2] \in Nat
  BY NoValueNoPayload
<1>7. r[1] = p[1]
  BY <1>5, <1>6 DEF From, OneName
<1>8. i \in Hits(got[c], SentMail(p)) /\ j \in Hits(got[c], SentMail(r))
  BY <1>2, <1>3, <1>4 DEF Hits, SentMail, SignedMail
<1>9. ASSUME r[2] <= p[2] PROVE FALSE
  <2>1. Sorted(got[c], SentMail(p), SentMail(r))
    BY <1>7, <1>9 DEF OrderInv, NoLater, Orderly
  <2>2. j <= i
    BY <1>8, <2>1 DEF Sorted
  <2> QED BY <1>2, <2>2
<1> QED BY <1>3, <1>4, <1>6, <1>9

(* What one application sends to another arrives in that order: through the *)
(* broker's queue, the deliveries that a cancelled consumer left with the   *)
(* AMQP library, and receive(), fetch() and listen() in any alternation,    *)
(* also when the key of a payload is checked out of the database on the     *)
(* way.  It needs applications that do not share an identifier: the mail    *)
(* itself names its sender by nothing else.                                 *)
THEOREM RabbitMailOrder ==
    ASSUME OneName
    PROVE  Spec => []MailOrder
<1>1. OrderInv => MailOrder
  BY OrderInvMailOrder
<1> QED BY <1>1, OrderInvInit, OrderInvStep, PTL DEF Spec

-----------------------------------------------------------------------------
(* One answer per initialize().  INIT messages are counted, so that a step  *)
(* that moves one from a queue to another is told from one that copies it.  *)

Count(s, C) == Cardinality(Hits(s, C))

LEMMA CountType ==
    ASSUME NEW T, NEW s \in Seq(T), NEW C
    PROVE  IsFiniteSet(Hits(s, C)) /\ Count(s, C) \in Nat /\ (Hits(s, C) = {} => Count(s, C) = 0)
<1>1. DOMAIN s = 1 .. Len(s) /\ Len(s) \in Nat
  OBVIOUS
<1>2. IsFiniteSet(1 .. Len(s))
  BY <1>1, FS_Interval
<1>3. Hits(s, C) \in SUBSET (1 .. Len(s))
  BY <1>1 DEF Hits
<1>4. IsFiniteSet(Hits(s, C))
  BY <1>2, <1>3, FS_Subset
<1> QED BY <1>4, FS_CardinalityType, FS_EmptySet DEF Count

LEMMA CountAppend ==
    ASSUME NEW T, NEW s \in Seq(T), NEW x \in T, NEW C
    PROVE  Count(Append(s, x), C) = Count(s, C) + (IF x \in C THEN 1 ELSE 0)
<1>1. Hits(Append(s, x), C) = Hits(s, C) \cup (IF x \in C THEN {Len(s) + 1} ELSE {})
  BY HitsAppend
<1>2. IsFiniteSet(Hits(s, C)) /\ Count(s, C) \in Nat
  BY CountType
<1>3. Len(s) + 1 \notin Hits(s, C)
  BY DEF Hits
<1>4. CASE x \in C
  <2>1. Hits(Append(s, x), C) = Hits(s, C) \cup {Len(s) + 1}
    BY <1>1, <1>4
  <2>2. Cardinality(Hits(s, C) \cup {Len(s) + 1}) = Cardinality(Hits(s, C)) + 1
    BY <1>2, <1>3, FS_AddElement
  <2> QED BY <1>4, <2>1, <2>2 DEF Count
<1>5. CASE x \notin C
  <2>1. Hits(Append(s, x), C) = Hits(s, C)
    BY <1>1, <1>5
  <2> QED BY <1>2, <1>5, <2>1 DEF Count
<1> QED BY <1>4, <1>5

(* Positions that are moved are as many. *)
LEMMA MovedCount ==
    ASSUME NEW A, IsFiniteSet(A), A \subseteq Nat, NEW n \in Nat
    PROVE  LET B == {n + j : j \in A} IN IsFiniteSet(B) /\ Cardinality(B) = Cardinality(A)
<1> DEFINE B == {n + j : j \in A}
           f == [j \in A |-> n + j]
<1>1. f \in [A -> B]
  OBVIOUS
<1>2. \A a, b \in A : f[a] = f[b] => a = b
  OBVIOUS
<1>3. \A b \in B : \E a \in A : f[a] = b
  OBVIOUS
<1> HIDE DEF B, f
<1>4. f \in Bijection(A, B)
  <2>1. f \in Injection(A, B)
    BY <1>1, <1>2 DEF Injection, IsInjective
  <2>2. f \in Surjection(A, B)
    BY <1>1, <1>3 DEF Surjection
  <2> QED BY <2>1, <2>2 DEF Bijection
<1>5. ExistsBijection(A, B)
  BY <1>4 DEF ExistsBijection
<1>6. IsFiniteSet(B) /\ Cardinality(B) = Cardinality(A)
  BY <1>5, FS_Bijection
<1> QED BY <1>6 DEF B

LEMMA CountConcat ==
    ASSUME NEW T, NEW s \in Seq(T), NEW v \in Seq(T), NEW C
    PROVE  Count(s \o v, C) = Count(s, C) + Count(v, C)
<1>1. /\ s \o v \in Seq(T) /\ DOMAIN (s \o v) = 1 .. (Len(s) + Len(v))
      /\ \A j \in 1 .. (Len(s) + Len(v)) : (s \o v)[j] = IF j <= Len(s) THEN s[j] ELSE v[j - Len(s)]
  BY ConcatElements
<1>2. DOMAIN s = 1 .. Len(s) /\ DOMAIN v = 1 .. Len(v) /\ Len(s) \in Nat /\ Len(v) \in Nat
  OBVIOUS
<1>3. PICK w : w = s \o v
  OBVIOUS
<1>4. PICK a : a = Len(s)
  OBVIOUS
<1>5. PICK z : z = Len(v)
  OBVIOUS
<1> DEFINE A == Hits(s, C)
           B == Hits(v, C)
           M == {a + j : j \in B}
<1>6. /\ DOMAIN w = 1 .. (a + z) /\ DOMAIN s = 1 .. a /\ DOMAIN v = 1 .. z /\ a \in Nat /\ z \in Nat
      /\ \A j \in 1 .. (a + z) : w[j] = IF j <= a THEN s[j] ELSE v[j - a]
  BY <1>1, <1>2, <1>3, <1>4, <1>5
<1>7. Hits(w, C) = A \cup M
  <2>1. ASSUME NEW j \in Hits(w, C) PROVE j \in A \cup M
    <3>1. j \in 1 .. (a + z) /\ w[j] \in C
      BY <1>6 DEF Hits
    <3>2. CASE j <= a
      BY <1>6, <3>1, <3>2 DEF Hits
    <3>3. CASE ~(j <= a)
      <4>1. j - a \in 1 .. z /\ j = a + (j - a)
        BY <1>6, <3>1, <3>3
      <4>2. j - a \in B
        BY <1>6, <3>1, <3>3, <4>1 DEF Hits
      <4> QED BY <4>1, <4>2
    <3> QED BY <3>2, <3>3
  <2>2. ASSUME NEW j \in A PROVE j \in Hits(w, C)
    BY <1>6 DEF Hits
  <2>3. ASSUME NEW j \in B PROVE a + j \in Hits(w, C)
    <3>1. j \in 1 .. z /\ v[j] \in C
      BY <1>6 DEF Hits
    <3>2. a + j \in 1 .. (a + z) /\ ~(a + j <= a) /\ (a + j) - a = j
      BY <1>6, <3>1
    <3> QED BY <1>6, <3>1, <3>2 DEF Hits
  <2> QED BY <2>1, <2>2, <2>3
<1>8. A \subseteq 1 .. a /\ B \subseteq 1 .. z
  BY <1>6 DEF Hits
<1>9. A \cap M = {} /\ B \subseteq Nat
  BY <1>6, <1>8
<1>10. IsFiniteSet(A) /\ IsFiniteSet(B) /\ Cardinality(A) \in Nat /\ Cardinality(B) \in Nat
  BY CountType DEF Count
<1> HIDE DEF A, B
<1>11. IsFiniteSet(M) /\ Cardinality(M) = Cardinality(B)
  BY <1>6, <1>9, <1>10, MovedCount
<1> HIDE DEF M
<1>12. Cardinality(A \cup M) = Cardinality(A) + Cardinality(M)
  <2>1. Cardinality(A \cup M) = Cardinality(A) + Cardinality(M) - Cardinality(A \cap M)
    BY <1>10, <1>11, FS_Union
  <2>2. Cardinality(A \cap M) = 0
    BY <1>9, FS_EmptySet
  <2> QED BY <1>10, <1>11, <2>1, <2>2
<1> QED BY <1>3, <1>7, <1>11, <1>12 DEF Count, A, B

(* The beginning and the rest of a sequence. *)
LEMMA CountSplit ==
    ASSUME NEW T, NEW s \in Seq(T), NEW C, NEW n \in 0 .. Len(s)
    PROVE  Count(s, C) = Count(SubSeq(s, 1, n), C) + Count(SubSeq(s, n + 1, Len(s)), C)
<1>1. SubSeq(s, 1, n) \in Seq(T) /\ SubSeq(s, n + 1, Len(s)) \in Seq(T)
  OBVIOUS
<1>2. PICK a : a = Len(s)
  OBVIOUS
<1>3. PICK u : u = SubSeq(s, 1, n)
  OBVIOUS
<1>4. PICK v : v = SubSeq(s, n + 1, Len(s))
  OBVIOUS
<1>5. /\ u \in Seq(T) /\ v \in Seq(T) /\ Len(u) = n /\ Len(v) = a - n
      /\ a \in Nat /\ n \in Nat /\ n <= a /\ DOMAIN s = 1 .. a
  BY <1>1, <1>2, <1>3, <1>4
<1>6. /\ \A j \in 1 .. n : u[j] = s[j]
      /\ \A j \in 1 .. (a - n) : v[j] = s[j + n]
  BY <1>2, <1>3, <1>4
<1>7. PICK w : w = u \o v
  OBVIOUS
<1>8. /\ DOMAIN w = 1 .. (n + (a - n))
      /\ \A j \in 1 .. (n + (a - n)) : w[j] = IF j <= n THEN u[j] ELSE v[j - n]
  BY <1>5, <1>7, ConcatElements
<1>9. DOMAIN w = 1 .. a /\ \A j \in 1 .. a : w[j] = s[j]
  <2>1. n + (a - n) = a
    BY <1>5
  <2>2. ASSUME NEW j \in 1 .. a, j <= n PROVE w[j] = s[j]
    BY <1>5, <1>6, <1>8, <2>1, <2>2
  <2>3. ASSUME NEW j \in 1 .. a, ~(j <= n) PROVE w[j] = s[j]
    <3>1. j - n \in 1 .. (a - n) /\ (j - n) + n = j
      BY <1>5, <2>3
    <3> QED BY <1>5, <1>6, <1>8, <2>1, <2>3, <3>1
  <2> QED BY <1>8, <2>1, <2>2, <2>3
<1>10. Hits(w, C) = Hits(s, C)
  BY <1>5, <1>9 DEF Hits
<1>11. Count(u \o v, C) = Count(u, C) + Count(v, C)
  BY <1>5, CountConcat
<1> QED BY <1>3, <1>4, <1>7, <1>10, <1>11 DEF Count

LEMMA CountSuffix ==
    ASSUME NEW T, NEW s \in Seq(T), NEW t, Suffix(s, t), NEW C
    PROVE  Count(t, C) <= Count(s, C) /\ Count(t, C) \in Nat /\ Count(s, C) \in Nat
<1>1. PICK n \in 0 .. Len(s) : t = SubSeq(s, n + 1, Len(s))
  BY DEF Suffix
<1>2. t \in Seq(T) /\ SubSeq(s, 1, n) \in Seq(T)
  BY <1>1
<1>3. Count(t, C) \in Nat /\ Count(s, C) \in Nat /\ Count(SubSeq(s, 1, n), C) \in Nat
  BY <1>2, CountType
<1>4. Count(s, C) = Count(SubSeq(s, 1, n), C) + Count(t, C)
  BY <1>1, CountSplit
<1> QED BY <1>3, <1>4

(* A sequence without its first element. *)
LEMMA CountFirst ==
    ASSUME NEW T, NEW s \in Seq(T), NEW C, Len(s) >= 1
    PROVE  Count(SubSeq(s, 1 + 1, Len(s)), C) + (IF s[1] \in C THEN 1 ELSE 0) = Count(s, C)
<1>1. Len(s) \in Nat /\ 1 \in 0 .. Len(s)
  OBVIOUS
<1>2. PICK u : u = SubSeq(s, 1, 1)
  OBVIOUS
<1>3. DOMAIN u = 1 .. 1 /\ u[1] = s[1]
  BY <1>1, <1>2
<1>4. Count(s, C) = Count(u, C) + Count(SubSeq(s, 1 + 1, Len(s)), C)
  BY <1>1, <1>2, CountSplit
<1>5. SubSeq(s, 1 + 1, Len(s)) \in Seq(T)
  BY <1>1
<1>6. Count(SubSeq(s, 1 + 1, Len(s)), C) \in Nat
  BY <1>5, CountType
<1>7. Count(u, C) = IF s[1] \in C THEN 1 ELSE 0
  <2>1. Hits(u, C) = IF s[1] \in C THEN {1} ELSE {}
    BY <1>3 DEF Hits
  <2>2. Cardinality({1}) = 1 /\ Cardinality({}) = 0
    BY FS_Singleton, FS_EmptySet
  <2> QED BY <2>1, <2>2 DEF Count
<1> QED BY <1>4, <1>6, <1>7

(* What a client consumes leaves its queue and its library with as many     *)
(* messages of a kind, or fewer, and with one less if it takes one.         *)
LEMMA ConsumesCount ==
    ASSUME TypeOK, NEW c \in Client, NEW q \in Queue, NEW n, NEW k, Consumes(c, q, n, k), NEW C
    PROVE  (Count(inbox'[c], C) + Count(queue'[q], C)) + (IF k = 1 /\ Held(c, q, n)[1] \in C THEN 1 ELSE 0)
              <= Count(inbox[c], C) + Count(queue[q], C)
<1>1. /\ queue \in [Queue -> Seq(nsbm)] /\ inbox \in [Client -> Seq(nsbm)]
      /\ queue[q] \in Seq(nsbm) /\ inbox[c] \in Seq(nsbm)
  BY DEF TypeOK, BrokerTypeOK
<1>2. n \in 0 .. Len(queue[q]) /\ k \in {0, 1} /\ k <= Len(inbox[c]) + n
  BY DEF Consumes
<1>3. PICK h : h = Held(c, q, n)
  OBVIOUS
<1>4. PICK u : u = SubSeq(queue[q], 1, n)
  OBVIOUS
<1>5. PICK t : t = SubSeq(queue[q], n + 1, Len(queue[q]))
  OBVIOUS
<1>6. h \in Seq(nsbm) /\ Len(h) = Len(inbox[c]) + n /\ k <= Len(h)
  BY <1>1, <1>2, <1>3, HeldIs
<1>7. u \in Seq(nsbm) /\ t \in Seq(nsbm) /\ h = inbox[c] \o u
  BY <1>1, <1>2, <1>3, <1>4, <1>5 DEF Held
<1>8. PICK r : r = SubSeq(h, k + 1, Len(h))
  OBVIOUS
<1>9. queue'[q] = t /\ (inbox'[c] = r \/ inbox'[c] = <<>>)
  BY <1>1, <1>3, <1>5, <1>8 DEF Consumes
<1>10. Count(h, C) = Count(inbox[c], C) + Count(u, C)
  BY <1>1, <1>7, CountConcat
<1>11. Count(queue[q], C) = Count(u, C) + Count(t, C)
  BY <1>1, <1>2, <1>4, <1>5, CountSplit
<1>12. Count(h, C) \in Nat /\ Count(u, C) \in Nat /\ Count(t, C) \in Nat /\ Count(inbox[c], C) \in Nat
  BY <1>1, <1>6, <1>7, CountType
<1>13. Count(r, C) + (IF k = 1 /\ h[1] \in C THEN 1 ELSE 0) = Count(h, C)
  <2>1. CASE k = 0
    <3>1. r = h
      BY <1>6, <1>8, <2>1
    <3> QED BY <1>12, <2>1, <3>1
  <2>2. CASE k = 1
    <3>1. Len(h) >= 1 /\ r = SubSeq(h, 1 + 1, Len(h))
      BY <1>6, <1>8, <2>2
    <3> QED BY <1>6, <2>2, <3>1, CountFirst
  <2> QED BY <1>2, <2>1, <2>2
<1>14. r \in Seq(nsbm)
  BY <1>2, <1>6, <1>8
<1>15. Count(r, C) \in Nat
  BY <1>14, CountType
<1>16. Count(<<>>, C) = 0
  <2>1. Hits(<<>>, C) = {}
    BY DEF Hits
  <2> QED BY <2>1, FS_EmptySet DEF Count
<1>17. Count(inbox'[c], C) \in Nat /\ Count(inbox'[c], C) <= Count(r, C)
  BY <1>9, <1>15, <1>16
<1> QED BY <1>3, <1>9, <1>10, <1>11, <1>12, <1>13, <1>15, <1>17

InitOp == {m \in nsbm : m.op = "INIT"}
AskOf(c) == {m \in nsbm : m.op = "INIT" /\ IntroId(m) = Ident[c]}

(* The INIT requests and answers of client c that are under way, and the    *)
(* one it is about to send or has been given.                               *)
Owed(c) ==
    (Count(queue[RequestQueue], AskOf(c)) + Count(queue[ResponseQueue(Ident[c])], InitOp))
    + Count(inbox[c], InitOp)
Turn(c) == IF pc[c] \in InUse \cup {"declare", "init"} THEN 1 ELSE 0

NoInitMail == \A i \in Identifier : Hits(queue[RecvQueue(i)], InitOp) = {}

OnceInv == TypeInv /\ NoInitMail /\ \A c \in Client : Owed(c) + Turn(c) <= nstarts[c]

(* Clients have identifiers of their own: two of one identifier share a     *)
(* response queue.                                                          *)
OwnName == \A c, d \in Client : Ident[c] = Ident[d] => c = d

LEMMA OwedType ==
    ASSUME TypeOK, NEW c \in Client
    PROVE  /\ Count(queue[RequestQueue], AskOf(c)) \in Nat
           /\ Count(queue[ResponseQueue(Ident[c])], InitOp) \in Nat
           /\ Count(inbox[c], InitOp) \in Nat
           /\ Owed(c) \in Nat
           /\ queue[RequestQueue] \in Seq(nsbm) /\ queue[ResponseQueue(Ident[c])] \in Seq(nsbm)
           /\ inbox[c] \in Seq(nsbm) /\ queue[RecvQueue(Ident[c])] \in Seq(nsbm)
           /\ RequestQueue \in Queue /\ ResponseQueue(Ident[c]) \in Queue /\ RecvQueue(Ident[c]) \in Queue
<1>1. queue \in [Queue -> Seq(nsbm)] /\ inbox \in [Client -> Seq(nsbm)]
  BY DEF TypeOK, BrokerTypeOK
<1>2. RequestQueue \in Queue /\ ResponseQueue(Ident[c]) \in Queue /\ RecvQueue(Ident[c]) \in Queue
  BY QueueNames
<1>3. /\ queue[RequestQueue] \in Seq(nsbm) /\ queue[ResponseQueue(Ident[c])] \in Seq(nsbm)
      /\ queue[RecvQueue(Ident[c])] \in Seq(nsbm) /\ inbox[c] \in Seq(nsbm)
  BY <1>1, <1>2
<1>4. Count(queue[RequestQueue], AskOf(c)) \in Nat
  BY <1>3, CountType
<1>5. Count(queue[ResponseQueue(Ident[c])], InitOp) \in Nat /\ Count(inbox[c], InitOp) \in Nat
  BY <1>3, CountType
<1> QED BY <1>2, <1>3, <1>4, <1>5 DEF Owed

(* A client consumes from one of its queues. *)
LEMMA ConsumesOwed ==
    ASSUME TypeOK, NoInitMail, OwnName, NEW c \in Client,
           NEW q \in {ResponseQueue(Ident[c]), RecvQueue(Ident[c])}, NEW n, NEW k, Consumes(c, q, n, k)
    PROVE  /\ NoInitMail'
           /\ Owed(c)' + (IF k = 1 /\ Held(c, q, n)[1] \in InitOp THEN 1 ELSE 0) <= Owed(c)
           /\ \A d \in Client \ {c} : Owed(d)' = Owed(d)
<1>1. queue \in [Queue -> Seq(nsbm)] /\ inbox \in [Client -> Seq(nsbm)] /\ q \in Queue
  BY QueueNames DEF TypeOK, BrokerTypeOK
<1>2. PICK t : queue' = [queue EXCEPT ![q] = t] /\ Suffix(queue[q], t)
  BY DEF Consumes, Suffix
<1>3. PICK r : inbox' = [inbox EXCEPT ![c] = r]
  BY DEF Consumes
<1>4. /\ queue'[RequestQueue] = queue[RequestQueue] /\ queue'[q] = t /\ inbox'[c] = r
      /\ \A x \in Queue \ {q} : queue'[x] = queue[x]
      /\ \A d \in Client \ {c} : inbox'[d] = inbox[d]
  BY <1>1, <1>2, <1>3, QueueNames
<1>5. NoInitMail'
  <2> SUFFICES ASSUME NEW i \in Identifier PROVE Hits(queue'[RecvQueue(i)], InitOp) = {}
    BY DEF NoInitMail, InitOp
  <2>1. RecvQueue(i) \in Queue /\ queue[RecvQueue(i)] \in Seq(nsbm) /\ Hits(queue[RecvQueue(i)], InitOp) = {}
    BY <1>1, QueueNames DEF NoInitMail
  <2>2. CASE RecvQueue(i) = q
    <3>1. Hits(t, InitOp) # {} => Hits(queue[q], InitOp) # {}
      BY <1>2, <2>1, <2>2, SortedSuffix
    <3> QED BY <1>4, <2>1, <2>2, <3>1
  <2> QED BY <1>4, <2>1, <2>2
<1>6. ASSUME NEW d \in Client \ {c} PROVE Owed(d)' = Owed(d)
  <2>1. ResponseQueue(Ident[d]) \in Queue /\ ResponseQueue(Ident[d]) # q
    BY QueueNames DEF OwnName
  <2>2. queue'[ResponseQueue(Ident[d])] = queue[ResponseQueue(Ident[d])] /\ inbox'[d] = inbox[d]
    BY <1>4, <2>1
  <2> QED BY <1>4, <2>2 DEF Owed, Count, InitOp, AskOf, IntroId, Hits
<1>7. PICK g : g = IF k = 1 /\ Held(c, q, n)[1] \in InitOp THEN 1 ELSE 0
  OBVIOUS
<1>8. (Count(inbox'[c], InitOp) + Count(queue'[q], InitOp)) + g <= Count(inbox[c], InitOp) + Count(queue[q], InitOp)
  BY <1>1, <1>7, ConsumesCount
<1>9. g \in {0, 1}
  BY <1>7
<1>10. /\ Count(queue[RequestQueue], AskOf(c)) \in Nat /\ Count(inbox[c], InitOp) \in Nat
       /\ Count(queue[ResponseQueue(Ident[c])], InitOp) \in Nat
  BY OwedType
<1>11. Owed(c)' = (Count(queue[RequestQueue], AskOf(c)) + Count(queue'[ResponseQueue(Ident[c])], InitOp))
                  + Count(inbox'[c], InitOp)
  BY <1>4 DEF Owed, Count, InitOp, AskOf, IntroId, Hits
<1>12. t \in Seq(nsbm) /\ r \in Seq(nsbm)
  <2>1. t \in Seq(nsbm)
    BY <1>1, <1>2, SuffixElements DEF Suffix
  <2>2. r \in Seq(nsbm)
    <3>1. inbox' \in [Client -> Seq(nsbm)]
      BY <1>1, ConsumesType
    <3> QED BY <1>4, <3>1
  <2> QED BY <2>1, <2>2
<1>13. Count(t, InitOp) \in Nat /\ Count(r, InitOp) \in Nat
  BY <1>12, CountType
<1>14. Owed(c)' + g <= Owed(c)
  <2>1. CASE q = ResponseQueue(Ident[c])
    BY <1>4, <1>8, <1>9, <1>10, <1>11, <1>13, <2>1 DEF Owed
  <2>2. CASE q = RecvQueue(Ident[c])
    <3>1. queue'[ResponseQueue(Ident[c])] = queue[ResponseQueue(Ident[c])]
      BY <1>4, <2>2, QueueNames
    <3>2. Hits(queue[q], InitOp) = {} /\ queue[q] \in Seq(nsbm)
      BY <1>1, <2>2, QueueNames DEF NoInitMail
    <3>3. Count(queue[q], InitOp) = 0
      BY <3>2, CountType
    <3> QED BY <1>4, <1>8, <1>9, <1>10, <1>11, <1>13, <3>1, <3>3 DEF Owed
  <2> QED BY <2>1, <2>2
<1> QED BY <1>5, <1>6, <1>7, <1>14

LEMMA OwedAfter ==
    ASSUME NEW c \in Client
    PROVE  Owed(c)' = (Count(queue'[RequestQueue], AskOf(c)) + Count(queue'[ResponseQueue(Ident[c])], InitOp))
                      + Count(inbox'[c], InitOp)
BY DEF Owed, Count, InitOp, AskOf, IntroId, Hits

LEMMA OwedTypeAfter ==
    ASSUME TypeOK', NEW c \in Client
    PROVE  Owed(c)' \in Nat
<1>1. queue' \in [Queue -> Seq(nsbm)] /\ inbox' \in [Client -> Seq(nsbm)]
  BY DEF TypeOK, BrokerTypeOK
<1>2. RequestQueue \in Queue /\ ResponseQueue(Ident[c]) \in Queue
  BY QueueNames
<1>3. /\ queue'[RequestQueue] \in Seq(nsbm) /\ queue'[ResponseQueue(Ident[c])] \in Seq(nsbm)
      /\ inbox'[c] \in Seq(nsbm)
  BY <1>1, <1>2
<1>4. /\ Count(queue'[RequestQueue], AskOf(c)) \in Nat
      /\ Count(queue'[ResponseQueue(Ident[c])], InitOp) \in Nat /\ Count(inbox'[c], InitOp) \in Nat
  BY <1>3, CountType
<1> QED BY <1>4, OwedAfter

LEMMA SumBound ==
    ASSUME NEW x \in Nat, NEW y \in Nat, NEW a \in Nat, NEW b \in Nat, NEW g \in {0, 1},
           NEW z \in {x, x + g}, b <= a
    PROVE  (z + y) + b <= ((x + y) + a) + g
OBVIOUS

(* A control message reaches the request queue, or nothing. *)
LEMMA ControlOwed ==
    ASSUME TypeOK, NoInitMail, NEW c \in Client, NEW m \in nsbm,
           queue' = queue \/ Publish(c, "CTRL", "", m),
           inbox' = inbox \/ inbox' = [inbox EXCEPT ![c] = <<>>]
    PROVE  /\ NoInitMail'
           /\ \A d \in Client : Owed(d)' <= Owed(d) + (IF m \in AskOf(d) THEN 1 ELSE 0)
<1>1. queue \in [Queue -> Seq(nsbm)] /\ inbox \in [Client -> Seq(nsbm)]
  BY DEF TypeOK, BrokerTypeOK
<1>2. queue' = queue \/ queue' = [queue EXCEPT ![RequestQueue] = Append(@, m)]
  BY DEF Publish, RoutingKey, Routed
<1>3. NoInitMail'
  <2>1. \A i \in Identifier : RecvQueue(i) \in Queue /\ RecvQueue(i) # RequestQueue
    BY QueueNames
  <2>2. \A i \in Identifier : queue'[RecvQueue(i)] = queue[RecvQueue(i)]
    BY <1>1, <1>2, <2>1
  <2> QED BY <2>2 DEF NoInitMail, InitOp
<1>4. ASSUME NEW d \in Client PROVE Owed(d)' <= Owed(d) + (IF m \in AskOf(d) THEN 1 ELSE 0)
  <2>1. /\ Count(queue[RequestQueue], AskOf(d)) \in Nat /\ Count(inbox[d], InitOp) \in Nat
        /\ Count(queue[ResponseQueue(Ident[d])], InitOp) \in Nat
    BY OwedType
  <2>2. queue[RequestQueue] \in Seq(nsbm) /\ inbox[d] \in Seq(nsbm) /\ RequestQueue \in Queue
    BY OwedType
  <2>3. queue'[ResponseQueue(Ident[d])] = queue[ResponseQueue(Ident[d])]
    BY <1>1, <1>2, QueueNames
  <2>4. queue'[RequestQueue] = queue[RequestQueue] \/ queue'[RequestQueue] = Append(queue[RequestQueue], m)
    BY <1>1, <1>2, <2>2
  <2>5. PICK g : g = IF m \in AskOf(d) THEN 1 ELSE 0
    OBVIOUS
  <2>6. Count(Append(queue[RequestQueue], m), AskOf(d)) = Count(queue[RequestQueue], AskOf(d)) + g
    BY <2>2, <2>5, CountAppend
  <2>7. Suffix(inbox[d], inbox'[d])
    <3>1. inbox'[d] = inbox[d] \/ inbox'[d] = <<>>
      BY <1>1
    <3> QED BY <2>2, <3>1, SuffixSelf
  <2>8. Count(inbox'[d], InitOp) <= Count(inbox[d], InitOp) /\ Count(inbox'[d], InitOp) \in Nat
    BY <2>2, <2>7, CountSuffix
  <2>9. g \in {0, 1}
    BY <2>5
  <2>10. PICK z : z = Count(queue'[RequestQueue], AskOf(d))
    OBVIOUS
  <2>11. PICK x \in Nat : x = Count(queue[RequestQueue], AskOf(d))
    BY <2>1
  <2>12. z = x \/ z = x + g
    <3>1. CASE queue'[RequestQueue] = queue[RequestQueue]
      BY <2>10, <2>11, <3>1
    <3>2. CASE queue'[RequestQueue] = Append(queue[RequestQueue], m)
      BY <2>6, <2>10, <2>11, <3>2
    <3> QED BY <2>4, <3>1, <3>2
  <2>13. PICK y \in Nat : y = Count(queue[ResponseQueue(Ident[d])], InitOp)
    BY <2>1
  <2>14. PICK a \in Nat : a = Count(inbox[d], InitOp)
    BY <2>1
  <2>15. PICK b \in Nat : b = Count(inbox'[d], InitOp) /\ b <= a
    BY <2>8, <2>14
  <2>16. Owed(d)' = (z + y) + b
    BY <2>3, <2>10, <2>13, <2>15, OwedAfter
  <2>17. Owed(d) = (x + y) + a
    BY <2>11, <2>13, <2>14 DEF Owed
  <2>18. (z + y) + b <= ((x + y) + a) + g
    <3>1. z \in {x, x + g} /\ g \in {0, 1} /\ x \in Nat /\ y \in Nat /\ a \in Nat /\ b \in Nat /\ b <= a
      BY <2>9, <2>11, <2>12, <2>13, <2>14, <2>15
    <3> QED BY <3>1, SumBound
  <2>19. Owed(d)' <= Owed(d) + g
    BY <2>16, <2>17, <2>18
  <2> QED BY <2>5, <2>19
<1> QED BY <1>3, <1>4

(* A message with a payload reaches a RECV queue, or nothing. *)
LEMMA MailsOwed ==
    ASSUME TypeOK, NoInitMail, NEW d \in Identifier, NEW m \in nsbm, m.op # "INIT", Mails(d, m), inbox' = inbox
    PROVE  NoInitMail' /\ \A x \in Client : Owed(x)' = Owed(x)
<1>1. queue \in [Queue -> Seq(nsbm)]
  BY DEF TypeOK, BrokerTypeOK
<1>2. \A q \in Queue : queue'[q] = queue[q] \/ (q = RecvQueue(d) /\ queue'[q] = Append(queue[q], m))
  BY <1>1 DEF Mails
<1>3. NoInitMail'
  <2> SUFFICES ASSUME NEW i \in Identifier PROVE Hits(queue'[RecvQueue(i)], InitOp) = {}
    BY DEF NoInitMail, InitOp
  <2>1. RecvQueue(i) \in Queue /\ queue[RecvQueue(i)] \in Seq(nsbm) /\ Hits(queue[RecvQueue(i)], InitOp) = {}
    BY <1>1, QueueNames DEF NoInitMail
  <2>2. m \notin InitOp
    BY DEF InitOp
  <2>3. Hits(Append(queue[RecvQueue(i)], m), InitOp)
            = Hits(queue[RecvQueue(i)], InitOp) \cup (IF m \in InitOp THEN {Len(queue[RecvQueue(i)]) + 1} ELSE {})
    BY <2>1, HitsAppend
  <2>4. Hits(Append(queue[RecvQueue(i)], m), InitOp) = {}
    BY <2>1, <2>2, <2>3
  <2> QED BY <1>2, <2>1, <2>4
<1>4. ASSUME NEW x \in Client PROVE Owed(x)' = Owed(x)
  <2>1. /\ queue'[RequestQueue] = queue[RequestQueue]
        /\ queue'[ResponseQueue(Ident[x])] = queue[ResponseQueue(Ident[x])]
    BY <1>2, QueueNames
  <2> QED BY <2>1, OwedAfter DEF Owed
<1> QED BY <1>3, <1>4

(* The daemon: it takes a request and answers it, or loses requests. *)
LEMMA DaemonOwed ==
    ASSUME TypeOK, NoInitMail, DaemonNext, inbox' = inbox
    PROVE  NoInitMail' /\ \A d \in Client : Owed(d)' <= Owed(d)
<1>1. queue \in [Queue -> Seq(nsbm)] /\ dimpl \in {"cpp", "py"}
  BY DEF TypeOK, BrokerTypeOK, DaemonTypeOK
<1>2. RequestQueue \in Queue /\ queue[RequestQueue] \in Seq(nsbm)
  BY <1>1, QueueNames
<1>3. ASSUME \A i \in Identifier : queue'[RecvQueue(i)] = queue[RecvQueue(i)] PROVE NoInitMail'
  BY <1>3 DEF NoInitMail, InitOp
<1>4. ASSUME NEW t, queue' = [queue EXCEPT ![RequestQueue] = t], Suffix(queue[RequestQueue], t)
      PROVE  NoInitMail' /\ \A d \in Client : Owed(d)' <= Owed(d)
  <2>1. /\ queue'[RequestQueue] = t
        /\ \A i \in Identifier : /\ queue'[RecvQueue(i)] = queue[RecvQueue(i)]
                                 /\ queue'[ResponseQueue(i)] = queue[ResponseQueue(i)]
    BY <1>1, <1>4, QueueNames
  <2>2. ASSUME NEW d \in Client PROVE Owed(d)' <= Owed(d)
    <3>1. /\ Count(queue[ResponseQueue(Ident[d])], InitOp) \in Nat /\ Count(inbox[d], InitOp) \in Nat
      BY OwedType
    <3>2. Count(t, AskOf(d)) <= Count(queue[RequestQueue], AskOf(d)) /\ Count(t, AskOf(d)) \in Nat
      BY <1>2, <1>4, CountSuffix
    <3>3. Count(queue[RequestQueue], AskOf(d)) \in Nat
      BY OwedType
    <3>4. queue'[ResponseQueue(Ident[d])] = queue[ResponseQueue(Ident[d])]
      BY <2>1, QueueNames
    <3> QED BY <2>1, <3>1, <3>2, <3>3, <3>4, OwedAfter DEF Owed
  <2> QED BY <1>3, <2>1, <2>2
<1>5. CASE UNCHANGED queue
  <2>1. \A d \in Client : Owed(d)' = Owed(d) /\ Owed(d) \in Nat
    BY <1>5, OwedAfter, OwedType DEF Owed
  <2> QED BY <1>3, <1>5, <2>1
<1>6. CASE StopDaemon
  BY <1>2, <1>4, <1>6 DEF StopDaemon, Suffix
<1>7. CASE DeleteRequestQueue
  <2>1. Suffix(queue[RequestQueue], <<>>)
    BY <1>2, SuffixSelf
  <2> QED BY <1>4, <1>7, <2>1 DEF DeleteRequestQueue
<1>8. CASE HandleMessage
  <2>1. PICK s : s = queue[RequestQueue]
    OBVIOUS
  <2>2. PICK m : m = Head(s)
    OBVIOUS
  <2>3. PICK rest : rest = [queue EXCEPT ![RequestQueue] = Tail(@)]
    OBVIOUS
  <2>4. /\ s # <<>> /\ s \in Seq(nsbm)
        /\ queue' = CASE m.op = "INIT" -> reply_init(rest, m)
                      [] m.op = "PING" -> reply_ping(rest, m)
                      [] OTHER -> rest
    BY <1>2, <1>8, <2>1, <2>2, <2>3 DEF HandleMessage
  <2>5. /\ Len(s) \in Nat /\ Len(s) >= 1 /\ m = s[1] /\ m \in nsbm
        /\ Tail(s) = SubSeq(s, 1 + 1, Len(s))
    BY <2>2, <2>4
  <2>6. rest = [queue EXCEPT ![RequestQueue] = Tail(s)]
    BY <2>1, <2>3
  <2>7. Suffix(s, Tail(s))
    <3>1. 1 \in 0 .. Len(s)
      BY <2>5
    <3> QED BY <2>5, <3>1 DEF Suffix
  <2>8. CASE queue' = rest
    BY <1>4, <2>1, <2>6, <2>7, <2>8
  <2>9. CASE queue' # rest
    <3>1. PICK i, r : /\ r \in nsbm /\ queue' = [rest EXCEPT ![ResponseQueue(i)] = Append(@, r)]
                      /\ r.op = "INIT" => m.op = "INIT" /\ i = IntroId(m)
      <4>1. InitResponse \in nsbm /\ PingResponse \in nsbm /\ PingResponse.op = "PING"
        BY <1>1, RabbitMessages DEF PingResponse, Bare
      <4>2. \/ m.op = "INIT" /\ queue' = [rest EXCEPT ![ResponseQueue(IntroId(m))] = Append(@, InitResponse)]
            \/ queue' = [rest EXCEPT ![ResponseQueue(PingId(m))] = Append(@, PingResponse)]
        BY <2>4, <2>9 DEF reply_init, reply_ping, Routed
      <4> QED BY <4>1, <4>2
    <3>2. ResponseQueue(i) # RequestQueue /\ \A j : RecvQueue(j) # ResponseQueue(i)
      BY QueueNames
    <3>3. \A q \in Queue : \/ q = RequestQueue /\ queue'[q] = Tail(s)
                           \/ q = ResponseQueue(i) /\ queue'[q] = Append(queue[q], r)
                           \/ q # RequestQueue /\ q # ResponseQueue(i) /\ queue'[q] = queue[q]
      BY <1>1, <2>6, <3>1, <3>2
    <3>4. \A j \in Identifier : queue'[RecvQueue(j)] = queue[RecvQueue(j)]
      BY <3>2, <3>3, QueueNames
    <3>5. ASSUME NEW d \in Client PROVE Owed(d)' <= Owed(d)
      <4>1. PICK Q : Q = ResponseQueue(Ident[d])
        OBVIOUS
      <4>2. Q \in Queue /\ Q # RequestQueue /\ (Q = ResponseQueue(i) => Ident[d] = i) /\ queue[Q] \in Seq(nsbm)
        BY <1>1, <4>1, QueueNames
      <4>3. PICK g : g = IF m \in AskOf(d) THEN 1 ELSE 0
        OBVIOUS
      <4>4. g \in {0, 1}
        BY <4>3
      <4>5. Count(SubSeq(s, 1 + 1, Len(s)), AskOf(d)) + (IF s[1] \in AskOf(d) THEN 1 ELSE 0) = Count(s, AskOf(d))
        BY <2>4, <2>5, CountFirst
      <4>6. Count(Tail(s), AskOf(d)) + g = Count(s, AskOf(d))
        BY <2>5, <4>3, <4>5
      <4>7. Tail(s) \in Seq(nsbm)
        BY <2>4
      <4>8. Count(Tail(s), AskOf(d)) \in Nat
        BY <4>7, CountType
      <4>9. Count(queue[Q], InitOp) \in Nat
        BY <4>2, CountType
      <4>10. Count(queue'[Q], InitOp) <= Count(queue[Q], InitOp) + g /\ Count(queue'[Q], InitOp) \in Nat
        <5>1. CASE Q = ResponseQueue(i)
          <6>1. queue'[Q] = Append(queue[Q], r)
            BY <3>2, <3>3, <4>2, <5>1
          <6>2. r \in InitOp => m \in AskOf(d)
            BY <2>5, <3>1, <4>2, <5>1 DEF InitOp, AskOf
          <6>3. Count(Append(queue[Q], r), InitOp) = Count(queue[Q], InitOp) + (IF r \in InitOp THEN 1 ELSE 0)
            BY <3>1, <4>2, CountAppend
          <6> QED BY <4>3, <4>9, <6>1, <6>2, <6>3
        <5>2. CASE Q # ResponseQueue(i)
          <6>1. queue'[Q] = queue[Q]
            BY <3>3, <4>2, <5>2
          <6> QED BY <4>4, <4>9, <6>1
        <5> QED BY <5>1, <5>2
      <4>11. Count(inbox[d], InitOp) \in Nat
        BY OwedType
      <4>12. queue'[RequestQueue] = Tail(s)
        BY <1>2, <3>2, <3>3
      <4>13. /\ Owed(d)' = (Count(Tail(s), AskOf(d)) + Count(queue'[Q], InitOp)) + Count(inbox[d], InitOp)
             /\ Owed(d) = (Count(s, AskOf(d)) + Count(queue[Q], InitOp)) + Count(inbox[d], InitOp)
        BY <2>1, <4>1, <4>12, OwedAfter DEF Owed
      <4> QED BY <4>4, <4>6, <4>8, <4>9, <4>10, <4>11, <4>13
    <3> QED BY <1>3, <3>4, <3>5
  <2> QED BY <2>8, <2>9
<1> QED BY <1>5, <1>6, <1>7, <1>8 DEF DaemonNext, StartDaemon, DeleteNsbExchange, DeleteExchange

(* Queues and libraries that only lose what comes first. *)
LEMMA SuffixOwed ==
    ASSUME TypeOK, NoInitMail, \A q \in Queue : Suffix(queue[q], queue'[q]),
           \A c \in Client : Suffix(inbox[c], inbox'[c])
    PROVE  NoInitMail' /\ \A d \in Client : Owed(d)' <= Owed(d)
<1>1. queue \in [Queue -> Seq(nsbm)]
  BY DEF TypeOK, BrokerTypeOK
<1>2. NoInitMail'
  <2> SUFFICES ASSUME NEW i \in Identifier PROVE Hits(queue'[RecvQueue(i)], InitOp) = {}
    BY DEF NoInitMail, InitOp
  <2>1. RecvQueue(i) \in Queue /\ queue[RecvQueue(i)] \in Seq(nsbm) /\ Hits(queue[RecvQueue(i)], InitOp) = {}
    BY <1>1, QueueNames DEF NoInitMail
  <2>2. Hits(queue'[RecvQueue(i)], InitOp) # {} => Hits(queue[RecvQueue(i)], InitOp) # {}
    BY <2>1, SortedSuffix
  <2> QED BY <2>1, <2>2
<1>3. ASSUME NEW d \in Client PROVE Owed(d)' <= Owed(d)
  <2>1. PICK Q : Q = ResponseQueue(Ident[d])
    OBVIOUS
  <2>2. /\ queue[RequestQueue] \in Seq(nsbm) /\ RequestQueue \in Queue /\ inbox[d] \in Seq(nsbm)
        /\ queue[Q] \in Seq(nsbm) /\ Q \in Queue
    BY <2>1, OwedType
  <2>3. /\ Count(queue'[RequestQueue], AskOf(d)) <= Count(queue[RequestQueue], AskOf(d))
        /\ Count(queue'[RequestQueue], AskOf(d)) \in Nat /\ Count(queue[RequestQueue], AskOf(d)) \in Nat
    BY <2>2, CountSuffix
  <2>4. /\ Count(queue'[Q], InitOp) <= Count(queue[Q], InitOp)
        /\ Count(queue'[Q], InitOp) \in Nat /\ Count(queue[Q], InitOp) \in Nat
    BY <2>2, CountSuffix
  <2>5. /\ Count(inbox'[d], InitOp) <= Count(inbox[d], InitOp)
        /\ Count(inbox'[d], InitOp) \in Nat /\ Count(inbox[d], InitOp) \in Nat
    BY <2>2, CountSuffix
  <2>6. /\ Owed(d)' = (Count(queue'[RequestQueue], AskOf(d)) + Count(queue'[Q], InitOp)) + Count(inbox'[d], InitOp)
        /\ Owed(d) = (Count(queue[RequestQueue], AskOf(d)) + Count(queue[Q], InitOp)) + Count(inbox[d], InitOp)
    BY <2>1, OwedAfter DEF Owed
  <2> QED BY <2>3, <2>4, <2>5, <2>6
<1> QED BY <1>2, <1>3

LEMMA ClientOnce ==
    ASSUME OwnName, OnceInv, NEW c \in Client, ClientNext(c), TypeInv'
    PROVE  OnceInv'
<1>1. /\ TypeInv /\ TypeOK /\ NoInitMail /\ queue \in [Queue -> Seq(nsbm)] /\ inbox \in [Client -> Seq(nsbm)]
      /\ nstarts \in [Client -> Nat] /\ DOMAIN pc = Client /\ dimpl \in {"cpp", "py"}
  BY DEF OnceInv, TypeInv, TypeOK, BrokerTypeOK, DaemonTypeOK
<1>2. \A d \in Client : Owed(d) \in Nat /\ Turn(d) \in {0, 1} /\ nstarts[d] \in Nat /\ Owed(d) + Turn(d) <= nstarts[d]
  BY <1>1, OwedType DEF OnceInv, Turn
<1>3. \A d \in Client : Owed(d)' \in Nat
  <2>1. TypeOK'
    BY DEF TypeInv
  <2> QED BY <2>1, OwedTypeAfter
<1>4. ASSUME NEW to, Goto(c, to)
      PROVE  /\ Turn(c)' = IF to \in InUse \cup {"declare", "init"} THEN 1 ELSE 0
             /\ \A d \in Client \ {c} : Turn(d)' = Turn(d)
  BY <1>1, <1>4 DEF Goto, Turn
<1>5. ASSUME NoInitMail', nstarts' = nstarts, \A d \in Client : Owed(d)' <= Owed(d),
             Turn(c)' <= Turn(c), Turn(c)' \in {0, 1}, \A d \in Client \ {c} : Turn(d)' = Turn(d)
      PROVE  OnceInv'
  <2>1. ASSUME NEW d \in Client PROVE Owed(d)' + Turn(d)' <= nstarts'[d]
    <3>1. Turn(d)' <= Turn(d) /\ Turn(d)' \in {0, 1}
      BY <1>2, <1>5
    <3> QED BY <1>2, <1>3, <1>5, <3>1
  <2> QED BY <1>5, <2>1 DEF OnceInv
<1>6. ASSUME UNCHANGED <<queue, inbox>> PROVE NoInitMail' /\ \A d \in Client : Owed(d)' <= Owed(d)
  BY <1>1, <1>6, QuietSame, SuffixOwed
<1>7. ASSUME NEW n, NEW k, Consumes(c, WaitQueue(c), n, k)
      PROVE  /\ NoInitMail' /\ \A d \in Client : Owed(d)' <= Owed(d)
             /\ k = 1 /\ Held(c, WaitQueue(c), n)[1] \in InitOp => Owed(c)' + 1 <= Owed(c)
  <2>1. PICK q \in {ResponseQueue(Ident[c]), RecvQueue(Ident[c])} : q = WaitQueue(c)
    BY DEF WaitQueue
  <2>2. PICK g : g = IF k = 1 /\ Held(c, q, n)[1] \in InitOp THEN 1 ELSE 0
    OBVIOUS
  <2>3. NoInitMail' /\ Owed(c)' + g <= Owed(c) /\ \A d \in Client \ {c} : Owed(d)' = Owed(d)
    <3>1. Consumes(c, q, n, k)
      BY <1>7, <2>1
    <3>2. /\ NoInitMail'
          /\ Owed(c)' + (IF k = 1 /\ Held(c, q, n)[1] \in InitOp THEN 1 ELSE 0) <= Owed(c)
          /\ \A d \in Client \ {c} : Owed(d)' = Owed(d)
      BY <1>1, <3>1, ConsumesOwed
    <3> QED BY <2>2, <3>2
  <2>4. g \in {0, 1}
    BY <2>2
  <2>5. Owed(c)' <= Owed(c)
    BY <1>2, <1>3, <2>3, <2>4
  <2>6. \A d \in Client \ {c} : Owed(d)' <= Owed(d)
    BY <1>2, <2>3
  <2> QED BY <2>1, <2>2, <2>3, <2>5, <2>6
<1>8. \A d \in Client : \A op : op # "INIT" => Bare(op, Orig[c], RequestCode(c)) \notin AskOf(d)
  BY DEF AskOf, Bare
<1>9. \A op \in {"EXIT", "PING"} : Bare(op, Orig[c], RequestCode(c)) \in nsbm
  BY <1>1, RabbitMessages DEF Op
<1>10. CASE Start(c)
  <2>1. /\ UNCHANGED <<queue, inbox>> /\ Goto(c, "declare") /\ pc[c] = "off"
        /\ nstarts' = [nstarts EXCEPT ![c] = @ + 1]
    BY <1>10 DEF Start, brokerVars
  <2>2. Turn(c) = 0 /\ Turn(c)' = 1 /\ \A d \in Client \ {c} : Turn(d)' = Turn(d)
    BY <1>4, <2>1 DEF Turn, InUse
  <2>3. nstarts'[c] = nstarts[c] + 1 /\ \A d \in Client \ {c} : nstarts'[d] = nstarts[d]
    BY <1>1, <2>1
  <2>4. NoInitMail' /\ \A d \in Client : Owed(d)' <= Owed(d)
    BY <1>6, <2>1
  <2>5. Owed(c)' + Turn(c)' <= nstarts'[c]
    BY <1>2, <1>3, <2>2, <2>3, <2>4
  <2>6. \A d \in Client \ {c} : Owed(d)' + Turn(d)' <= nstarts'[d]
    BY <1>2, <1>3, <2>2, <2>3, <2>4
  <2> QED BY <2>4, <2>5, <2>6 DEF OnceInv
<1>11. CASE Declare(c) \/ DeclareFails(c) \/ receive(c) \/ listen(c)
  <2>1. UNCHANGED <<queue, inbox>> /\ nstarts' = nstarts /\ Turn(c) = 1
    BY <1>11 DEF Declare, DeclareAndBind, DeclareFails, receive, listen, brokerVars, countVars, Turn, InUse
  <2>2. (\E to : Goto(c, to)) \/ UNCHANGED pc
    BY <1>11 DEF Declare, DeclareFails, receive, listen
  <2>3. Turn(c)' <= Turn(c) /\ Turn(c)' \in {0, 1} /\ \A d \in Client \ {c} : Turn(d)' = Turn(d)
    <3>1. CASE UNCHANGED pc
      BY <2>1, <3>1 DEF Turn
    <3>2. CASE \E to : Goto(c, to)
      BY <1>4, <2>1, <3>2
    <3> QED BY <2>2, <3>1, <3>2
  <2> QED BY <1>5, <1>6, <2>1, <2>3
<1>12. CASE initialize(c)
  <2>1. /\ Publish(c, "CTRL", "", IntroMessage(c)) /\ inbox' = inbox /\ nstarts' = nstarts
        /\ pc[c] = "init" /\ \E to \in {"initWait", "failed"} : Goto(c, to)
    BY <1>12 DEF initialize, countVars
  <2>2. IntroMessage(c) \in nsbm
    BY <1>1, RabbitMessages
  <2>3. \A d \in Client : IntroMessage(c) \in AskOf(d) => d = c
    <3>1. IntroId(IntroMessage(c)) = Ident[c]
      BY DEF IntroId, IntroMessage, Bare
    <3> QED BY <3>1 DEF AskOf, OwnName
  <2>4. NoInitMail' /\ \A d \in Client : Owed(d)' <= Owed(d) + (IF IntroMessage(c) \in AskOf(d) THEN 1 ELSE 0)
    BY <1>1, <2>1, <2>2, ControlOwed
  <2>5. Owed(c)' <= Owed(c) + 1 /\ \A d \in Client \ {c} : Owed(d)' <= Owed(d)
    BY <1>2, <1>3, <2>3, <2>4
  <2>6. Turn(c) = 1 /\ Turn(c)' = 0 /\ \A d \in Client \ {c} : Turn(d)' = Turn(d)
    BY <1>4, <2>1 DEF Turn, InUse
  <2>7. nstarts' = nstarts
    BY <2>1
  <2>8. Owed(c)' + Turn(c)' <= nstarts'[c]
    BY <1>2, <1>3, <2>5, <2>6, <2>7
  <2>9. \A d \in Client \ {c} : Owed(d)' + Turn(d)' <= nstarts'[d]
    BY <1>2, <1>3, <2>5, <2>6, <2>7
  <2> QED BY <2>4, <2>8, <2>9 DEF OnceInv
<1>13. CASE InitReturn(c)
  <2>1. PICK m : Recv(c, m) /\ (Goto(c, "failed") \/ (m.op = "INIT" /\ Goto(c, "idle")))
    BY <1>13 DEF InitReturn
  <2>2. pc[c] = "initWait" /\ nstarts' = nstarts
    BY <1>13 DEF InitReturn, countVars
  <2>3. PICK n \in Nat : Consumes(c, WaitQueue(c), n, 1) /\ m = Held(c, WaitQueue(c), n)[1]
    BY <1>1, <2>1, RecvConsumes
  <2>4. m \in nsbm
    BY <1>1, <2>1, RecvConsumes
  <2>5. NoInitMail' /\ \A d \in Client : Owed(d)' <= Owed(d)
    BY <1>7, <2>3
  <2>6. m \in InitOp => Owed(c)' + 1 <= Owed(c)
    BY <1>7, <2>3
  <2>7. Turn(c) = 0 /\ (Turn(c)' = 0 \/ (m.op = "INIT" /\ Turn(c)' = 1)) /\ \A d \in Client \ {c} : Turn(d)' = Turn(d)
    BY <1>4, <2>1, <2>2 DEF Turn, InUse
  <2>8. Owed(c)' + Turn(c)' <= nstarts'[c]
    <3>1. CASE Turn(c)' = 0
      BY <1>2, <1>3, <2>2, <2>5, <2>7, <3>1
    <3>2. CASE m.op = "INIT" /\ Turn(c)' = 1
      <4>1. m \in InitOp
        BY <2>4, <3>2 DEF InitOp
      <4> QED BY <1>2, <1>3, <2>2, <2>6, <2>7, <3>2, <4>1
    <3> QED BY <2>7, <3>1, <3>2
  <2>9. \A d \in Client \ {c} : Owed(d)' + Turn(d)' <= nstarts'[d]
    BY <1>2, <1>3, <2>2, <2>5, <2>7
  <2> QED BY <2>5, <2>8, <2>9 DEF OnceInv
<1>14. CASE Destroy(c) \/ exit(c) \/ ping(c)
  <2>1. PICK m : /\ m \in {Bare("EXIT", Orig[c], RequestCode(c)), Bare("PING", Orig[c], RequestCode(c))}
                 /\ queue' = queue \/ Publish(c, "CTRL", "", m)
    BY <1>14 DEF Destroy, exit, ping
  <2>2. /\ inbox' = inbox \/ inbox' = [inbox EXCEPT ![c] = <<>>]
        /\ nstarts' = nstarts
    BY <1>14 DEF Destroy, exit, ping, countVars
  <2>3. m \in nsbm /\ \A d \in Client : m \notin AskOf(d)
    BY <1>8, <1>9, <2>1
  <2>4. NoInitMail' /\ \A d \in Client : Owed(d)' <= Owed(d) + (IF m \in AskOf(d) THEN 1 ELSE 0)
    BY <1>1, <2>1, <2>2, <2>3, ControlOwed
  <2>5. \A d \in Client : Owed(d)' <= Owed(d)
    BY <1>2, <2>3, <2>4
  <2>6. Turn(c)' <= Turn(c) /\ Turn(c)' \in {0, 1} /\ \A d \in Client \ {c} : Turn(d)' = Turn(d)
    <3>1. CASE Destroy(c) \/ exit(c)
      <4>1. Goto(c, "off")
        BY <3>1 DEF Destroy, exit
      <4>2. Turn(c)' = 0 /\ \A d \in Client \ {c} : Turn(d)' = Turn(d)
        BY <1>4, <4>1 DEF InUse
      <4> QED BY <1>2, <4>2
    <3>2. CASE ping(c)
      <4>1. pc[c] = "idle" /\ \E to \in {"pingWait", "idle"} : Goto(c, to)
        BY <3>2 DEF ping
      <4>2. Turn(c) = 1 /\ Turn(c)' = 1 /\ \A d \in Client \ {c} : Turn(d)' = Turn(d)
        BY <1>4, <4>1 DEF Turn, InUse
      <4> QED BY <4>2
    <3> QED BY <1>14, <3>1, <3>2
  <2> QED BY <1>5, <2>2, <2>4, <2>5, <2>6
<1>15. CASE PingReturn(c) \/ RecvReturn(c)
  <2>1. PICK m : Recv(c, m)
    BY <1>15 DEF PingReturn, RecvReturn
  <2>2. pc[c] \in {"pingWait", "recvWait"} /\ nstarts' = nstarts /\ Goto(c, "idle")
    BY <1>15 DEF PingReturn, RecvReturn, countVars
  <2>3. PICK n \in Nat : Consumes(c, WaitQueue(c), n, 1)
    BY <1>1, <2>1, RecvConsumes
  <2>4. Turn(c) = 1 /\ Turn(c)' = 1 /\ \A d \in Client \ {c} : Turn(d)' = Turn(d)
    BY <1>4, <2>2 DEF Turn, InUse
  <2> QED BY <1>5, <1>7, <2>2, <2>3, <2>4
<1>16. CASE WaitTimeout(c)
  <2>1. /\ nstarts' = nstarts /\ pc[c] \in WaitState /\ GiveUp(c)
        /\ Goto(c, IF pc[c] = "initWait" THEN "failed" ELSE "idle")
    BY <1>16 DEF WaitTimeout
  <2>2. (\E n \in Nat : Consumes(c, WaitQueue(c), n, 0)) \/ UNCHANGED <<queue, inbox>>
    BY <1>1, <2>1, GiveUpConsumes
  <2>3. NoInitMail' /\ \A d \in Client : Owed(d)' <= Owed(d)
    BY <1>6, <1>7, <2>2
  <2>4. Turn(c) = Turn(c)' /\ \A d \in Client \ {c} : Turn(d)' = Turn(d)
    BY <1>4, <2>1 DEF Turn, InUse, WaitState
  <2> QED BY <1>2, <1>5, <2>1, <2>3, <2>4
<1>17. CASE Callback(c)
  <2>1. UNCHANGED <<pc, nstarts>>
    BY <1>17 DEF Callback, countVars
  <2>2. \/ inbox[c] # <<>> /\ inbox' = [inbox EXCEPT ![c] = Tail(@)] /\ queue' = queue
        \/ /\ queue[RecvQueue(Ident[c])] # <<>> /\ inbox' = inbox
           /\ queue' = [queue EXCEPT ![RecvQueue(Ident[c])] = Tail(@)]
    BY <1>17 DEF Callback
  <2>3. ASSUME NEW s \in Seq(nsbm), s # <<>> PROVE Suffix(s, Tail(s))
    <3>1. 1 \in 0 .. Len(s) /\ Tail(s) = SubSeq(s, 1 + 1, Len(s))
      BY <2>3
    <3> QED BY <3>1 DEF Suffix
  <2>4. (\A q \in Queue : Suffix(queue[q], queue'[q])) /\ (\A d \in Client : Suffix(inbox[d], inbox'[d]))
    BY <1>1, <2>2, <2>3, QuietSame
  <2>5. \A d \in Client : Turn(d)' = Turn(d)
    BY <2>1 DEF Turn
  <2> QED BY <1>1, <1>2, <1>5, <2>1, <2>4, <2>5, SuffixOwed
<1>18. CASE stop_listen(c)
  <2>1. PICK n \in 0 .. Len(queue[RecvQueue(Ident[c])]) : Cancel(c, RecvQueue(Ident[c]), n, 0)
    BY <1>18 DEF stop_listen
  <2>2. nstarts' = nstarts /\ pc[c] = "listening" /\ Goto(c, "idle")
    BY <1>18 DEF stop_listen, countVars
  <2>3. 0 <= Len(inbox[c]) + n
    <3>1. inbox[c] \in Seq(nsbm) /\ queue[RecvQueue(Ident[c])] \in Seq(nsbm)
      BY <1>1, OwedType
    <3> QED BY <3>1
  <2>4. Consumes(c, RecvQueue(Ident[c]), n, 0)
    BY <2>1, <2>3, CancelConsumes
  <2>5. PICK q \in {ResponseQueue(Ident[c]), RecvQueue(Ident[c])} : Consumes(c, q, n, 0)
    BY <2>4
  <2>6. PICK k : k = 0
    OBVIOUS
  <2>7. Consumes(c, q, n, k) /\ ~(k = 1 /\ Held(c, q, n)[1] \in InitOp)
    BY <2>5, <2>6
  <2>8. /\ NoInitMail'
        /\ Owed(c)' + (IF k = 1 /\ Held(c, q, n)[1] \in InitOp THEN 1 ELSE 0) <= Owed(c)
        /\ \A d \in Client \ {c} : Owed(d)' = Owed(d)
    BY <1>1, <2>7, ConsumesOwed
  <2>9. \A d \in Client : Owed(d)' <= Owed(d)
    BY <1>2, <1>3, <2>7, <2>8
  <2>10. Turn(c) = 1 /\ Turn(c)' = 1 /\ \A d \in Client \ {c} : Turn(d)' = Turn(d)
    BY <1>4, <2>2 DEF Turn, InUse
  <2> QED BY <1>5, <2>2, <2>8, <2>9, <2>10
<1>19. ASSUME NEW d \in Id, d \in Identifier, NEW m, m.op # "INIT", Publish(c, "SEND", d, m), m \in nsbm,
              inbox' = inbox, UNCHANGED <<pc, nstarts>>
       PROVE  OnceInv'
  <2>1. Mails(d, m)
    BY <1>19, DataMails
  <2>2. NoInitMail' /\ \A x \in Client : Owed(x)' = Owed(x)
    BY <1>1, <1>19, <2>1, MailsOwed
  <2>3. \A x \in Client : Turn(x)' = Turn(x) /\ Owed(x)' <= Owed(x)
    BY <1>2, <1>19, <2>2 DEF Turn
  <2> QED BY <1>2, <1>5, <1>19, <2>2, <2>3
<1>20. ASSUME NEW d \in SendTo[c], send(c, d) PROVE OnceInv'
  <2> DEFINE m == DataMessage(c, "SEND", Ident[c], d, <<c, nsent[c] + 1>>)
  <2>1. d \in Identifier /\ d \in Id /\ Publish(c, "SEND", d, m) /\ inbox' = inbox /\ UNCHANGED <<pc, nstarts>>
    BY <1>20, RabbitAssumption, QueueNames DEF send
  <2>2. m \in nsbm
    <3>1. nsent \in [Client -> 0 .. MaxSends] /\ MaxSends \in Nat
      BY <1>1, WireAssumption DEF TypeOK
    <3>2. nsent[c] + 1 \in Nat
      BY <3>1
    <3>3. <<c, nsent[c] + 1>> \in Value /\ "SEND" \in Op
      BY <3>2 DEF Value, Op
    <3> QED BY <1>1, <2>1, <3>3, QueueNames, RabbitDataType
  <2>3. m.op # "INIT"
    BY DEF DataMessage
  <2> QED BY <1>19, <2>1, <2>2, <2>3
<1>21. ASSUME NEW d \in PostTo[c], post(c, d) PROVE OnceInv'
  <2>1. PICK i \in DOMAIN got[c] :
           Publish(c, "SEND", d, DataMessage(c, "POST", got[c][i].source, d, got[c][i].payload_obj))
    BY <1>21 DEF post
  <2> DEFINE m == DataMessage(c, "POST", got[c][i].source, d, got[c][i].payload_obj)
  <2>2. d \in Identifier /\ d \in Id /\ Publish(c, "SEND", d, m) /\ inbox' = inbox /\ UNCHANGED <<pc, nstarts>>
    BY <1>21, <2>1, RabbitAssumption, QueueNames DEF post, countVars
  <2>3. m \in nsbm
    <3>1. got[c] \in Seq(Mail)
      BY <1>1 DEF TypeOK
    <3>2. got[c][i] \in Mail
      BY <3>1
    <3>3. got[c][i].source \in Id /\ got[c][i].payload_obj \in Value /\ "POST" \in Op
      BY <3>2 DEF Mail, Op
    <3> QED BY <1>1, <2>2, <3>3, RabbitDataType
  <2>4. m.op # "INIT"
    BY DEF DataMessage
  <2> QED BY <1>19, <2>2, <2>3, <2>4
<1> QED BY <1>10, <1>11, <1>12, <1>13, <1>14, <1>15, <1>16, <1>17, <1>18, <1>20, <1>21 DEF ClientNext

LEMMA OnceInvStep == ASSUME OwnName PROVE OnceInv /\ [Next]_vars => OnceInv'
<1> SUFFICES ASSUME OnceInv, [Next]_vars PROVE OnceInv'
  OBVIOUS
<1>1. TypeInv /\ TypeInv' /\ TypeOK /\ NoInitMail
  BY TypeInvStep DEF OnceInv, TypeInv
<1>2. \A d \in Client : Owed(d) \in Nat /\ Owed(d)' \in Nat
  <2>1. TypeOK'
    BY <1>1 DEF TypeInv
  <2> QED BY <1>1, <2>1, OwedType, OwedTypeAfter
<1>3. ASSUME UNCHANGED clientVars, NoInitMail', \A d \in Client : Owed(d)' <= Owed(d) PROVE OnceInv'
  <2>1. nstarts \in [Client -> Nat] /\ nstarts' = nstarts /\ pc' = pc
    BY <1>1, <1>3 DEF TypeOK, clientVars, countVars
  <2>2. ASSUME NEW d \in Client PROVE Owed(d)' + Turn(d)' <= nstarts'[d]
    <3>1. Turn(d)' = Turn(d) /\ Turn(d) \in {0, 1} /\ nstarts[d] \in Nat /\ Owed(d) + Turn(d) <= nstarts[d]
      BY <2>1 DEF Turn, OnceInv
    <3> QED BY <1>2, <1>3, <2>1, <3>1
  <2> QED BY <1>1, <1>3, <2>2 DEF OnceInv
<1>4. CASE UNCHANGED vars
  <2>1. UNCHANGED <<queue, inbox>> /\ UNCHANGED clientVars
    BY <1>4 DEF vars, brokerVars, clientVars
  <2>2. NoInitMail' /\ \A d \in Client : Owed(d)' <= Owed(d)
    BY <1>1, <2>1, QuietSame, SuffixOwed
  <2> QED BY <1>3, <2>1, <2>2
<1>5. CASE DaemonNext /\ UNCHANGED clientVars
  <2>1. inbox' = inbox
    BY <1>5 DEF clientVars
  <2> QED BY <1>1, <1>3, <1>5, <2>1, DaemonOwed
<1>6. ASSUME NEW c \in Client, ClientNext(c) PROVE OnceInv'
  BY <1>1, <1>6, ClientOnce
<1> QED BY <1>4, <1>5, <1>6 DEF Next

LEMMA OnceInvInit == Init => OnceInv
<1> SUFFICES ASSUME Init PROVE OnceInv
  OBVIOUS
<1>1. TypeInv
  BY TypeInvInit
<1>2. /\ \A q \in Queue : queue[q] = <<>>
      /\ \A c \in Client : inbox[c] = <<>> /\ nstarts[c] = 0 /\ pc[c] = "off"
  BY DEF Init, BrokerInit
<1>3. \A C : Hits(<<>>, C) = {}
  BY DEF Hits
<1>4. \A C : Count(<<>>, C) = 0
  BY <1>3, FS_EmptySet DEF Count
<1>5. NoInitMail
  BY <1>2, <1>3, QueueNames DEF NoInitMail
<1>6. ASSUME NEW c \in Client PROVE Owed(c) + Turn(c) <= nstarts[c]
  <2>1. queue[RequestQueue] = <<>> /\ queue[ResponseQueue(Ident[c])] = <<>>
    BY <1>2, QueueNames
  <2>2. Turn(c) = 0
    BY <1>2 DEF Turn, InUse
  <2> QED BY <1>2, <1>4, <2>1, <2>2 DEF Owed
<1> QED BY <1>1, <1>5, <1>6 DEF OnceInv

LEMMA OnceInvAnswered == OnceInv => AnsweredOnce
<1> SUFFICES ASSUME OnceInv, NEW c \in Client
             PROVE  Cardinality({i \in Inits(queue[RequestQueue]) : IntroId(queue[RequestQueue][i]) = Ident[c]})
                    + Cardinality(Inits(queue[ResponseQueue(Ident[c])])) + Cardinality(Inits(inbox[c]))
                    + (IF pc[c] \in InUse THEN 1 ELSE 0) <= nstarts[c]
  BY DEF AnsweredOnce
<1>1. TypeOK /\ nstarts \in [Client -> Nat]
  BY DEF OnceInv, TypeInv, TypeOK
<1>2. /\ queue[RequestQueue] \in Seq(nsbm) /\ queue[ResponseQueue(Ident[c])] \in Seq(nsbm)
      /\ inbox[c] \in Seq(nsbm)
  BY <1>1, OwedType
<1>3. ASSUME NEW s \in Seq(nsbm) PROVE Inits(s) = Hits(s, InitOp)
  <2>1. \A i \in DOMAIN s : s[i] \in nsbm
    OBVIOUS
  <2> QED BY <2>1 DEF Inits, Hits, InitOp
<1>4. {i \in Inits(queue[RequestQueue]) : IntroId(queue[RequestQueue][i]) = Ident[c]}
          = Hits(queue[RequestQueue], AskOf(c))
  <2>1. \A i \in DOMAIN queue[RequestQueue] : queue[RequestQueue][i] \in nsbm
    BY <1>2
  <2> QED BY <2>1 DEF Inits, Hits, AskOf
<1>5. /\ Count(queue[RequestQueue], AskOf(c)) \in Nat
      /\ Count(queue[ResponseQueue(Ident[c])], InitOp) \in Nat /\ Count(inbox[c], InitOp) \in Nat
  BY <1>1, OwedType
<1>6. /\ Owed(c) + Turn(c) <= nstarts[c] /\ nstarts[c] \in Nat
      /\ Turn(c) \in {0, 1} /\ (pc[c] \in InUse => Turn(c) = 1)
  BY <1>1 DEF OnceInv, Turn
<1>7. PICK u \in {0, 1} : u = (IF pc[c] \in InUse THEN 1 ELSE 0) /\ u <= Turn(c)
  BY <1>6
<1>8. Owed(c) = (Count(queue[RequestQueue], AskOf(c)) + Count(queue[ResponseQueue(Ident[c])], InitOp))
                + Count(inbox[c], InitOp)
  BY DEF Owed
<1>9. ((Count(queue[RequestQueue], AskOf(c)) + Count(queue[ResponseQueue(Ident[c])], InitOp))
       + Count(inbox[c], InitOp)) + u <= nstarts[c]
  BY <1>5, <1>6, <1>7, <1>8
<1>10. /\ Inits(queue[ResponseQueue(Ident[c])]) = Hits(queue[ResponseQueue(Ident[c])], InitOp)
       /\ Inits(inbox[c]) = Hits(inbox[c], InitOp)
  BY <1>2, <1>3
<1> QED BY <1>4, <1>7, <1>9, <1>10 DEF Count

(* An initialize() call is answered at most once, over all starts of its    *)
(* client, when the daemon is stopped and replaced, requests wait for it,   *)
(* answers outlive the calls they were meant for and a consumer is          *)
(* cancelled with deliveries under way.  It needs clients that do not share *)
(* an identifier, since responses are routed by it.                         *)
THEOREM RabbitAnsweredOnce ==
    ASSUME OwnName
    PROVE  Spec => []AnsweredOnce
<1> QED BY OnceInvInit, OnceInvStep, OnceInvAnswered, PTL DEF Spec
=============================================================================
