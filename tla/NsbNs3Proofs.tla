---------------------------- MODULE NsbNs3Proofs ----------------------------
(***************************************************************************)
(* TypeOK and PostedRight, for every value of the constants of NsbNs3: any *)
(* hosts, any messages, payloads of any size, any number of broken         *)
(* connections and of signals, and both modes.                             *)
(*                                                                         *)
(* That a message is posted at most once, and in full unless its           *)
(* connection broke, needs to be said of the whole way it goes.  It waits  *)
(* (not fetched yet, with the listener, or queued) before its connection   *)
(* is made (Unstarted); then what was written is on the way or read        *)
(* (Segments); a buffer belongs to a connection, or to the close callback  *)
(* that runs (Buffers).                                                    *)
(***************************************************************************)
EXTENDS NsbNs3, TLAPS

PostCall == [msg : Msg, src : Host, dest : Host, data : 1 .. Size]

Waiting(i) ==
    i > nfetched \/ i = entry \/ \E k \in DOMAIN messageQueue : messageQueue[k] = i

Posted(i) == \E n \in DOMAIN posted : posted[n].msg = i

(* The segments of message i that were read, and that were written. *)
Got(i) == IF i \in DOMAIN activeReceives THEN activeReceives[i].data ELSE 0
Put(i) == IF i \in DOMAIN activeSends THEN activeSends[i] ELSE Size

ThreadsRight ==
    /\ listener \in {"push", "pushing"} => entry \in Msg
    /\ main \in {"start", "run", "queue", "pop"} => closing = NoMsg
    /\ main \in {"lock", "post"} => closing \in DOMAIN activeReceives

QueueRight ==
    /\ entry # NoMsg => entry <= nfetched
    /\ \A k \in DOMAIN messageQueue : messageQueue[k] <= nfetched /\ messageQueue[k] # entry
    /\ \A j, k \in DOMAIN messageQueue : messageQueue[j] = messageQueue[k] => j = k

Unstarted ==
    \A i \in Msg : Waiting(i) => /\ i \notin DOMAIN flight /\ i \notin DOMAIN activeReceives
                                 /\ ~Posted(i)

Segments ==
    \A i \in DOMAIN flight :
        /\ flight[i].segments + Got(i) = Put(i)
        /\ flight[i].fin <=> i \notin DOMAIN activeSends
        /\ Message[i].src \in Host
        /\ ~Posted(i) /\ i # closing

Buffers ==
    \A i \in DOMAIN activeReceives :
        /\ activeReceives[i].data > 0
        /\ activeReceives[i].src = Message[i].src /\ activeReceives[i].dest = Message[i].dest
        /\ ~Posted(i)
        /\ i \in DOMAIN flight \/ (i = closing /\ (activeReceives[i].data = Size \/ i \in failed))

Ns3Inv ==
    /\ TypeOK /\ posted \in Seq(PostCall)
    /\ ThreadsRight /\ QueueRight /\ Unstarted /\ Segments /\ Buffers /\ PostedRight

tcpAndPosted == <<tcpVars, posted>>
-----------------------------------------------------------------------------
(* What the assumptions say of a message. *)
LEMMA MessageFacts ==
    /\ Msg = 1 .. Len(Message) /\ Len(Message) \in Nat /\ Size \in Nat /\ Size > 0
    /\ NoMsg \notin Msg
    /\ \A i \in Msg : Message[i].src \in Nat /\ Message[i].dest \in Nat
<1> DEFINE T == [src : 0 .. NumHosts + 1, dest : 0 .. NumHosts + 1]
<1>1. Message \in Seq(T) /\ NumHosts \in Nat
  BY Ns3Assumption
<1>2. Msg = 1 .. Len(Message) /\ Len(Message) \in Nat /\ NoMsg \notin Msg
  BY <1>1 DEF Msg, NoMsg
<1>3. \A i \in Msg : Message[i] \in T
  <2> HIDE DEF T
  <2> QED BY <1>1, <1>2
<1>4. \A i \in Msg : Message[i].src \in Nat /\ Message[i].dest \in Nat
  BY <1>1, <1>3
<1>5. Size \in Nat /\ Size > 0
  BY Ns3Assumption
<1> QED BY <1>2, <1>4, <1>5

(* Nothing has happened yet. *)
LEMMA Ns3Init == Init => Ns3Inv
<1> SUFFICES ASSUME Init PROVE Ns3Inv
  OBVIOUS
<1>0. DOMAIN activeSends = {} /\ DOMAIN flight = {} /\ DOMAIN activeReceives = {} /\ DOMAIN posted = {}
  BY DEF Init
<1>1. TypeOK /\ posted \in Seq(PostCall)
  <2>1. nfetched \in 0 .. Len(Message) /\ nsignals \in 0 .. MaxSignals
    BY MessageFacts, Ns3Assumption DEF Init
  <2>2. /\ \A i \in DOMAIN activeSends : i \in Msg /\ activeSends[i] \in 0 .. Size - 1
        /\ \A i \in DOMAIN flight : i \in Msg /\ flight[i] \in [segments : 0 .. Size, fin : BOOLEAN]
        /\ \A i \in DOMAIN activeReceives : i \in Msg /\ activeReceives[i] \in Buffer
        /\ \A n \in DOMAIN posted : posted[n].msg \in Msg /\ posted[n].data \in 1 .. Size
    BY <1>0
  <2>3. messageQueue \in Seq(Msg) /\ posted \in Seq(PostCall)
    BY DEF Init
  <2> QED BY <2>1, <2>2, <2>3 DEF Init, TypeOK
<1>2. ThreadsRight /\ QueueRight
  BY MessageFacts DEF Init, ThreadsRight, QueueRight
<1>3. Unstarted /\ Segments /\ Buffers /\ PostedRight
  BY DEF Init, Unstarted, Segments, Buffers, PostedRight, Posted
<1> QED BY <1>1, <1>2, <1>3 DEF Ns3Inv

-----------------------------------------------------------------------------
(* The steps of the two threads that do not touch the connections.          *)

(* What is said of connections and posts holds when none of them changes    *)
(* and nobody else waits.                                                   *)
LEMMA ConnectionsKept ==
    ASSUME Ns3Inv, UNCHANGED tcpAndPosted, closing' = closing,
           \A i \in Msg : Waiting(i)' => Waiting(i)
    PROVE  Unstarted' /\ Segments' /\ Buffers' /\ PostedRight'
<1>0. /\ Unstarted /\ Segments /\ Buffers /\ PostedRight
      /\ UNCHANGED <<activeSends, flight, activeReceives, failed, posted>>
  BY DEF Ns3Inv, tcpAndPosted, tcpVars
<1>1. \A i : (Posted(i)' <=> Posted(i)) /\ Got(i)' = Got(i) /\ Put(i)' = Put(i)
  BY <1>0 DEF Posted, Got, Put
<1>2. Unstarted'
  BY <1>0, <1>1 DEF Unstarted
<1>3. Segments'
  BY <1>0, <1>1 DEF Segments
<1>4. Buffers'
  BY <1>0, <1>1 DEF Buffers
<1>5. PostedRight'
  BY <1>0 DEF PostedRight
<1> QED BY <1>2, <1>3, <1>4, <1>5

(* Locks, signals and the end of the daemon move no message. *)
LEMMA ThreadsKeep ==
    ASSUME Ns3Inv,
           \/ StartAsyncListener \/ ListenerCheck \/ ListenerLock \/ ListenerLockQueue
           \/ SignalHandler \/ Join \/ DaemonGone \/ BrokenPipe
           \/ ProcessQueuedMessages \/ LockQueue \/ LockToPost
    PROVE  Ns3Inv'
<1> USE DEF StartAsyncListener, ListenerCheck, ListenerLock, ListenerLockQueue, SignalHandler, Join,
        DaemonGone, BrokenPipe, ProcessQueuedMessages, LockQueue, LockToPost
<1>1. UNCHANGED <<tcpVars, posted, closing, entry, nfetched, messageQueue>>
  OBVIOUS
<1>2. UNCHANGED <<activeSends, flight, activeReceives, failed>>
  BY <1>1 DEF tcpVars
<1>3. TypeOK'
  <2>0. TypeOK
    BY DEF Ns3Inv
  <2>1. /\ listener' \in {"off", "check", "lock", "fetch", "spin", "push", "pushing", "ended"}
        /\ main' \in {"start", "run", "queue", "pop", "lock", "post", "spin", "join", "exited", "crashed"}
    BY <2>0 DEF TypeOK
  <2>2. /\ simClientMutex' \in {"free", "listener", "main"} /\ queueMutex' \in {"free", "listener", "main"}
        /\ listenerRunning' \in BOOLEAN /\ connected' \in BOOLEAN
    BY <2>0 DEF TypeOK
  <2>3. nsignals' \in 0 .. MaxSignals
    BY <2>0, Ns3Assumption DEF TypeOK
  <2> QED BY <1>1, <1>2, <2>0, <2>1, <2>2, <2>3 DEF TypeOK
<1>4. ThreadsRight' /\ QueueRight'
  BY <1>1, <1>2 DEF Ns3Inv, ThreadsRight, QueueRight
<1>5. Unstarted' /\ Segments' /\ Buffers' /\ PostedRight'
  BY <1>1, ConnectionsKept DEF Waiting, tcpAndPosted
<1> QED BY <1>1, <1>3, <1>4, <1>5 DEF Ns3Inv

(* fetch() of the listener: the message waits, as before. *)
LEMMA ListenerFetchKeeps ==
    ASSUME Ns3Inv, ListenerFetch
    PROVE  Ns3Inv'
<1>0. /\ TypeOK /\ ThreadsRight /\ QueueRight
      /\ UNCHANGED <<tcpVars, posted, closing, messageQueue, main, listenerRunning, queueMutex,
                     connected, nsignals>>
  BY DEF Ns3Inv, ListenerFetch
<1>1. UNCHANGED <<activeSends, flight, activeReceives, failed>>
  BY <1>0 DEF tcpVars
<1>2. nfetched' \in 0 .. Len(Message) /\ entry' \in Msg \cup {NoMsg}
      /\ simClientMutex' \in {"free", "listener", "main"}
  BY <1>0, MessageFacts DEF ListenerFetch, TypeOK
<1>3. listener' \in {"push", "check", "spin"}
  BY DEF ListenerFetch
<1>4. TypeOK'
  BY <1>0, <1>1, <1>2, <1>3 DEF TypeOK
<1>5. ThreadsRight' /\ QueueRight'
  BY <1>0, <1>1, MessageFacts DEF ListenerFetch, ThreadsRight, QueueRight, TypeOK
<1>6. \A i \in Msg : Waiting(i)' => Waiting(i)
  BY <1>0, MessageFacts DEF ListenerFetch, Waiting, TypeOK
<1>7. Unstarted' /\ Segments' /\ Buffers' /\ PostedRight'
  BY <1>0, <1>6, ConnectionsKept DEF tcpAndPosted
<1> QED BY <1>0, <1>4, <1>5, <1>7 DEF Ns3Inv

(* The push: what the listener had is at the end of the queue. *)
LEMMA ListenerPushKeeps ==
    ASSUME Ns3Inv, ListenerPush
    PROVE  Ns3Inv'
<1>0. /\ TypeOK /\ ThreadsRight /\ QueueRight
      /\ UNCHANGED <<tcpVars, posted, closing, nfetched, main, listenerRunning, connected, nsignals,
                     simClientMutex>>
      /\ entry \in Msg /\ entry' = NoMsg /\ listener' = "check" /\ queueMutex' = "free"
  BY DEF Ns3Inv, ListenerPush, ThreadsRight
<1>1. UNCHANGED <<activeSends, flight, activeReceives, failed>>
  BY <1>0 DEF tcpVars
<1>2. /\ messageQueue' \in Seq(Msg) /\ messageQueue \in Seq(Msg)
      /\ Len(messageQueue) \in Nat
      /\ DOMAIN messageQueue = 1 .. Len(messageQueue)
      /\ DOMAIN messageQueue' = 1 .. Len(messageQueue) + 1
      /\ messageQueue'[Len(messageQueue) + 1] = entry
      /\ \A k \in DOMAIN messageQueue : messageQueue'[k] = messageQueue[k]
  BY <1>0 DEF ListenerPush, TypeOK
<1>3. TypeOK'
  BY <1>0, <1>1, <1>2 DEF TypeOK
<1>4. ThreadsRight' /\ QueueRight'
  <2>1. ThreadsRight'
    BY <1>0, <1>1 DEF ThreadsRight
  <2>2. \A k \in DOMAIN messageQueue' : messageQueue'[k] <= nfetched /\ messageQueue'[k] # NoMsg
    <3>1. \A k \in DOMAIN messageQueue' : messageQueue'[k] \in Msg
      BY <1>2
    <3> QED BY <1>0, <1>2, <3>1, MessageFacts DEF QueueRight, NoMsg
  <2>3. \A j, k \in DOMAIN messageQueue' : messageQueue'[j] = messageQueue'[k] => j = k
    BY <1>0, <1>2 DEF QueueRight
  <2> QED BY <1>0, <2>1, <2>2, <2>3 DEF QueueRight
<1>5. \A i \in Msg : Waiting(i)' => Waiting(i)
  <2>1. ASSUME NEW i \in Msg, NEW k \in DOMAIN messageQueue', messageQueue'[k] = i
        PROVE  i = entry \/ \E j \in DOMAIN messageQueue : messageQueue[j] = i
    BY <1>2, <2>1
  <2> QED BY <1>0, <2>1, MessageFacts DEF Waiting
<1>6. Unstarted' /\ Segments' /\ Buffers' /\ PostedRight'
  BY <1>0, <1>5, ConnectionsKept DEF tcpAndPosted
<1> QED BY <1>0, <1>3, <1>4, <1>6 DEF Ns3Inv

-----------------------------------------------------------------------------
(* Sending.                                                                *)

(* What one call of WriteUntilBufferFull leaves. *)
LEMMA WriteEffect ==
    ASSUME NEW i, NEW sends, i \in DOMAIN sends, NEW n, WriteUntilBufferFull(i, sends, n)
    PROVE  /\ DOMAIN flight' = DOMAIN flight \cup {i}
           /\ flight'[i] = [segments |-> (IF i \in DOMAIN flight THEN flight[i].segments ELSE 0) + n,
                            fin |-> sends[i] + n = Size]
           /\ \A j \in DOMAIN flight : j # i => flight'[j] = flight[j]
           /\ i \in DOMAIN activeSends' <=> sends[i] + n # Size
           /\ i \in DOMAIN activeSends' => activeSends'[i] = sends[i] + n
           /\ \A j : j # i => /\ j \in DOMAIN activeSends' <=> j \in DOMAIN sends
                              /\ j \in DOMAIN sends => activeSends'[j] = sends[j]
<1> DEFINE rec == [segments |-> (IF i \in DOMAIN flight THEN flight[i].segments ELSE 0) + n,
                   fin |-> sends[i] + n = Size]
<1>1. flight' = [z \in DOMAIN flight \cup {i} |-> IF z = i THEN rec ELSE flight[z]]
  BY DEF WriteUntilBufferFull, Set
<1> HIDE DEF rec
<1>2. flight'[i] = rec /\ DOMAIN flight' = DOMAIN flight \cup {i}
      /\ \A j \in DOMAIN flight : j # i => flight'[j] = flight[j]
  BY <1>1
<1>3. activeSends' = IF sends[i] + n = Size THEN [z \in DOMAIN sends \ {i} |-> sends[z]]
                                            ELSE [sends EXCEPT ![i] = @ + n]
  BY DEF WriteUntilBufferFull, Drop
<1> QED BY <1>2, <1>3 DEF rec

(* A write of n segments of message i, of which so many were written before, *)
(* keeps the account of its connection and touches no other.                 *)
LEMMA WriteKeeps ==
    ASSUME Ns3Inv, NEW i \in Msg, NEW sends, i \in DOMAIN sends, NEW n \in Nat,
           sends[i] \in Nat, sends[i] + n <= Size,
           \A j : j # i => /\ j \in DOMAIN sends <=> j \in DOMAIN activeSends
                           /\ j \in DOMAIN activeSends => sends[j] = activeSends[j],
           sends[i] = (IF i \in DOMAIN flight THEN flight[i].segments ELSE 0) + Got(i),
           WriteUntilBufferFull(i, sends, n), Message[i].src \in Host,
           UNCHANGED <<activeReceives, posted, closing, failed>>, ~Posted(i), i # closing
    PROVE  /\ Segments' /\ Buffers'
           /\ \A j \in DOMAIN activeSends' : j \in Msg /\ activeSends'[j] \in 0 .. Size - 1
           /\ \A j \in DOMAIN flight' : j \in Msg /\ flight'[j] \in [segments : 0 .. Size, fin : BOOLEAN]
           /\ DOMAIN flight' = DOMAIN flight \cup {i}
<1> DEFINE before == IF i \in DOMAIN flight THEN flight[i].segments ELSE 0
<1>0. /\ TypeOK /\ Segments /\ Buffers /\ Size \in Nat /\ Size > 0
  BY MessageFacts DEF Ns3Inv
<1>1. /\ DOMAIN flight' = DOMAIN flight \cup {i}
      /\ flight'[i] = [segments |-> before + n, fin |-> sends[i] + n = Size]
      /\ \A j \in DOMAIN flight : j # i => flight'[j] = flight[j]
      /\ i \in DOMAIN activeSends' <=> sends[i] + n # Size
      /\ i \in DOMAIN activeSends' => activeSends'[i] = sends[i] + n
      /\ \A j : j # i => /\ j \in DOMAIN activeSends' <=> j \in DOMAIN activeSends
                         /\ j \in DOMAIN activeSends => activeSends'[j] = activeSends[j]
  <2>1. /\ DOMAIN flight' = DOMAIN flight \cup {i}
        /\ flight'[i] = [segments |-> before + n, fin |-> sends[i] + n = Size]
        /\ \A j \in DOMAIN flight : j # i => flight'[j] = flight[j]
        /\ i \in DOMAIN activeSends' <=> sends[i] + n # Size
        /\ i \in DOMAIN activeSends' => activeSends'[i] = sends[i] + n
    BY WriteEffect
  <2>2. \A j : j # i => /\ j \in DOMAIN activeSends' <=> j \in DOMAIN sends
                        /\ j \in DOMAIN sends => activeSends'[j] = sends[j]
    BY WriteEffect
  <2> QED BY <2>1, <2>2, Zenon
<1>2. before \in Nat /\ Got(i) \in Nat /\ before <= sends[i]
  <2>1. before \in Nat
    BY <1>0 DEF TypeOK
  <2>2. Got(i) \in Nat
    BY <1>0 DEF TypeOK, Got, Buffer
  <2> QED BY <2>1, <2>2
<1>3. /\ flight'[i].segments = before + n /\ (flight'[i].fin <=> sends[i] + n = Size)
      /\ before + n \in 0 .. Size => flight'[i] \in [segments : 0 .. Size, fin : BOOLEAN]
  <2> DEFINE b == sends[i] + n = Size
             x == before + n
  <2>1. flight'[i] = [segments |-> x, fin |-> b] /\ b \in BOOLEAN
    BY <1>1
  <2> HIDE DEF b, x
  <2>2. flight'[i].segments = x /\ flight'[i].fin = b
    BY <2>1
  <2>3. x \in 0 .. Size => flight'[i] \in [segments : 0 .. Size, fin : BOOLEAN]
    BY <2>1
  <2> QED BY <2>2, <2>3 DEF b, x
<1>4. /\ \A j : (Posted(j)' <=> Posted(j)) /\ Got(j)' = Got(j)
      /\ \A j : j # i => Put(j)' = Put(j)
      /\ Put(i)' = sends[i] + n
  BY <1>1 DEF Posted, Got, Put
<1>5. Segments'
  <2> SUFFICES ASSUME NEW j \in DOMAIN flight'
               PROVE  /\ flight'[j].segments + Got(j)' = Put(j)'
                      /\ flight'[j].fin <=> j \notin DOMAIN activeSends'
                      /\ Message[j].src \in Host /\ ~Posted(j)' /\ j # closing'
    BY DEF Segments
  <2>1. CASE j = i
    BY <1>1, <1>2, <1>3, <1>4, <2>1
  <2>2. CASE j # i
    BY <1>0, <1>1, <1>4, <2>2 DEF Segments
  <2> QED BY <2>1, <2>2
<1>6. Buffers'
  BY <1>0, <1>1, <1>4 DEF Buffers
<1>7. \A j \in DOMAIN activeSends' : j \in Msg /\ activeSends'[j] \in 0 .. Size - 1
  <2>1. \A j \in DOMAIN activeSends : j \in Msg /\ activeSends[j] \in 0 .. Size - 1
    BY <1>0 DEF TypeOK
  <2>2. i \in DOMAIN activeSends' => activeSends'[i] \in 0 .. Size - 1
    BY <1>0, <1>1
  <2> QED BY <1>1, <2>1, <2>2
<1>8. \A j \in DOMAIN flight' : j \in Msg /\ flight'[j] \in [segments : 0 .. Size, fin : BOOLEAN]
  <2>1. before + n \in 0 .. Size
    BY <1>0, <1>2
  <2> QED BY <1>0, <1>1, <1>3, <2>1 DEF TypeOK
<1> QED BY <1>1, <1>5, <1>6, <1>7, <1>8

(* A message that waited is taken: it is dropped, or its connection begins. *)
LEMMA StartTransferKeeps ==
    ASSUME Ns3Inv, NEW i \in Msg, Waiting(i),
           main \in {"run", "pop"}, NEW next \in {"run", "queue"}, StartTransfer(i, next),
           UNCHANGED <<listener, entry, listenerRunning, simClientMutex, closing, connected, nsignals,
                       activeReceives, posted>>, queueMutex' \in {"free", "listener", "main"},
           nfetched' \in 0 .. Len(Message), messageQueue' \in Seq(Msg), QueueRight',
           \A j \in Msg : Waiting(j)' => Waiting(j) /\ j # i
    PROVE  Ns3Inv'
<1>0. /\ TypeOK /\ ThreadsRight /\ Unstarted /\ Segments /\ Buffers /\ PostedRight
      /\ posted \in Seq(PostCall)
      /\ i \notin DOMAIN flight /\ i \notin DOMAIN activeReceives /\ ~Posted(i)
      /\ Size \in Nat /\ Size > 0 /\ closing = NoMsg /\ i # NoMsg
  BY MessageFacts DEF Ns3Inv, Unstarted, ThreadsRight
<1>1. /\ main' \in {"run", "queue", "crashed"}
      /\ failed \subseteq failed' /\ failed' \subseteq Msg
  BY <1>0 DEF StartTransfer, TypeOK
<1>2. ThreadsRight'
  BY <1>0, <1>1 DEF ThreadsRight
<1>3. PostedRight'
  BY <1>0, <1>1 DEF PostedRight
<1>4. \A j : Posted(j)' <=> Posted(j)
  BY DEF Posted
<1>5. CASE UNCHANGED <<activeSends, flight>>
  <2>1. TypeOK'
    BY <1>0, <1>1, <1>5 DEF TypeOK
  <2>2. \A j : Got(j)' = Got(j) /\ Put(j)' = Put(j)
    BY <1>5 DEF Got, Put
  <2>3. Segments'
    BY <1>0, <1>4, <1>5, <2>2 DEF Segments
  <2>4. Buffers'
    BY <1>0, <1>1, <1>4, <1>5 DEF Buffers
  <2>5. Unstarted'
    BY <1>0, <1>4, <1>5 DEF Unstarted
  <2> QED BY <1>0, <1>2, <1>3, <2>1, <2>3, <2>4, <2>5 DEF Ns3Inv
<1>6. ASSUME NEW n \in 0 .. Size, WriteUntilBufferFull(i, Set(activeSends, i, 0), n),
             Message[i].src \in Host, failed' = failed
      PROVE  Ns3Inv'
  <2> DEFINE sends == Set(activeSends, i, 0)
  <2>1. /\ i \in DOMAIN sends /\ sends[i] = 0
        /\ \A j : j # i => /\ j \in DOMAIN sends <=> j \in DOMAIN activeSends
                           /\ j \in DOMAIN activeSends => sends[j] = activeSends[j]
    BY DEF Set
  <2>2. sends[i] = (IF i \in DOMAIN flight THEN flight[i].segments ELSE 0) + Got(i)
    BY <1>0, <2>1 DEF Got
  <2> HIDE DEF sends
  <2>3. /\ Segments' /\ Buffers' /\ DOMAIN flight' = DOMAIN flight \cup {i}
        /\ \A j \in DOMAIN activeSends' : j \in Msg /\ activeSends'[j] \in 0 .. Size - 1
        /\ \A j \in DOMAIN flight' : j \in Msg /\ flight'[j] \in [segments : 0 .. Size, fin : BOOLEAN]
    <3>1. WriteUntilBufferFull(i, sends, n)
      BY <1>6 DEF sends
    <3>2. n \in Nat /\ sends[i] \in Nat /\ sends[i] + n <= Size
      BY <1>0, <2>1
    <3> QED BY <1>0, <1>6, <2>1, <2>2, <3>1, <3>2, WriteKeeps
  <2>4. TypeOK'
    BY <1>0, <1>1, <2>3 DEF TypeOK
  <2>5. Unstarted'
    BY <1>0, <1>4, <2>3 DEF Unstarted
  <2> QED BY <1>0, <1>2, <1>3, <2>3, <2>4, <2>5 DEF Ns3Inv
<1> QED BY <1>5, <1>6 DEF StartTransfer

(* PULL mode: the message fetched next has not been fetched before. *)
LEMMA PollToFetchKeeps ==
    ASSUME Ns3Inv, PollToFetch
    PROVE  Ns3Inv'
<1> DEFINE i == nfetched + 1
<1>0. /\ TypeOK /\ ThreadsRight /\ QueueRight /\ nfetched \in Nat /\ main = "run"
      /\ UNCHANGED <<listener, entry, listenerRunning, queueMutex, closing, connected, nsignals,
                     activeReceives, messageQueue, posted>>
  BY MessageFacts DEF Ns3Inv, TypeOK, PollToFetch
<1>1. CASE nfetched < Len(Message) /\ nfetched' = i /\ StartTransfer(i, "run") /\ UNCHANGED simClientMutex
  <2>1. /\ nfetched' \in 0 .. Len(Message) /\ messageQueue' \in Seq(Msg) /\ Waiting(i) /\ i \in Msg
        /\ queueMutex' \in {"free", "listener", "main"}
    BY <1>0, <1>1, MessageFacts DEF TypeOK, Waiting
  <2>2. QueueRight'
    BY <1>0, <1>1, MessageFacts DEF QueueRight, TypeOK
  <2>3. \A j \in Msg : Waiting(j)' => Waiting(j) /\ j # i
    BY <1>0, <1>1, MessageFacts DEF Waiting, QueueRight, NoMsg
  <2> HIDE DEF i
  <2> QED BY <1>0, <1>1, <2>1, <2>2, <2>3, StartTransferKeeps
<1>2. CASE /\ main' = "spin" /\ simClientMutex' = "main"
           /\ UNCHANGED <<nfetched, activeSends, flight, failed>>
  <2>1. TypeOK' /\ ThreadsRight' /\ QueueRight'
    BY <1>0, <1>2 DEF TypeOK, ThreadsRight, QueueRight
  <2>2. Unstarted' /\ Segments' /\ Buffers' /\ PostedRight'
    BY <1>0, <1>2, ConnectionsKept DEF Waiting, tcpAndPosted, tcpVars
  <2> QED BY <1>0, <2>1, <2>2 DEF Ns3Inv
<1> QED BY <1>1, <1>2 DEF PollToFetch

(* PUSH mode: the queue holds a message once, and what is taken from it is  *)
(* the next to be carried.                                                  *)
LEMMA PopQueueKeeps ==
    ASSUME Ns3Inv, PopQueue
    PROVE  Ns3Inv'
<1>0. /\ TypeOK /\ ThreadsRight /\ QueueRight /\ messageQueue \in Seq(Msg) /\ main = "pop"
      /\ queueMutex' = "free"
      /\ UNCHANGED <<listener, entry, listenerRunning, simClientMutex, closing, connected, nsignals,
                     activeReceives, nfetched, posted>>
  BY DEF Ns3Inv, TypeOK, PopQueue
<1>1. CASE main' = "run" /\ UNCHANGED <<messageQueue, activeSends, flight, failed>>
  <2>1. TypeOK' /\ ThreadsRight' /\ QueueRight'
    BY <1>0, <1>1 DEF TypeOK, ThreadsRight, QueueRight
  <2>2. Unstarted' /\ Segments' /\ Buffers' /\ PostedRight'
    BY <1>0, <1>1, ConnectionsKept DEF Waiting, tcpAndPosted, tcpVars
  <2> QED BY <1>0, <2>1, <2>2 DEF Ns3Inv
<1>2. CASE /\ messageQueue # <<>> /\ messageQueue' = Tail(messageQueue)
           /\ StartTransfer(Head(messageQueue), "queue")
  <2> DEFINE i == Head(messageQueue)
  <2>1. /\ i = messageQueue[1] /\ 1 \in DOMAIN messageQueue /\ i \in Msg
        /\ Len(messageQueue) \in Nat /\ DOMAIN messageQueue = 1 .. Len(messageQueue)
        /\ messageQueue' \in Seq(Msg) /\ DOMAIN messageQueue' = 1 .. Len(messageQueue) - 1
        /\ \A k \in DOMAIN messageQueue' : k + 1 \in DOMAIN messageQueue
                                            /\ messageQueue'[k] = messageQueue[k + 1]
    BY <1>0, <1>2
  <2>2. StartTransfer(i, "queue")
    BY <1>2
  <2> HIDE DEF i
  <2>3. nfetched' \in 0 .. Len(Message) /\ Waiting(i)
    BY <1>0, <2>1 DEF TypeOK, Waiting
  <2>4. QueueRight'
    <3>1. \A j, k \in DOMAIN messageQueue' : messageQueue'[j] = messageQueue'[k] => j = k
      BY <1>0, <2>1 DEF QueueRight
    <3> QED BY <1>0, <2>1, <3>1 DEF QueueRight
  <2>5. ASSUME NEW k \in DOMAIN messageQueue' PROVE messageQueue'[k] # i
    <3>1. k + 1 # 1
      BY <2>1
    <3> QED BY <1>0, <2>1, <3>1 DEF QueueRight
  <2>6. i <= nfetched /\ i # entry /\ nfetched \in Nat /\ i \in Nat
    <3>1. i <= nfetched /\ i # entry
      BY <1>0, <2>1 DEF QueueRight
    <3>2. nfetched \in Nat /\ i \in Nat
      BY <1>0, <2>1, MessageFacts DEF TypeOK
    <3> QED BY <3>1, <3>2
  <2>7. \A j \in Msg : Waiting(j)' => Waiting(j) /\ j # i
    BY <1>0, <2>1, <2>5, <2>6 DEF Waiting
  <2> QED BY <1>0, <2>1, <2>2, <2>3, <2>4, <2>7, StartTransferKeeps
<1> QED BY <1>1, <1>2 DEF PopQueue

(* The send callback goes on where the last write ended. *)
LEMMA SendCallbackKeeps ==
    ASSUME Ns3Inv, NEW i \in Msg, SendCallback(i)
    PROVE  Ns3Inv'
<1>0. /\ TypeOK /\ ThreadsRight /\ QueueRight /\ Unstarted /\ Segments /\ PostedRight
      /\ posted \in Seq(PostCall)
      /\ i \in DOMAIN activeSends /\ i \in DOMAIN flight /\ Size \in Nat
      /\ UNCHANGED <<threadVars, activeReceives, failed, nfetched, messageQueue, posted>>
  BY MessageFacts DEF Ns3Inv, SendCallback
<1>1. UNCHANGED <<listener, entry, listenerRunning, simClientMutex, queueMutex, main, closing,
                 connected, nsignals>>
  BY <1>0 DEF threadVars
<1>2. PICK n \in 1 .. Size - activeSends[i] : WriteUntilBufferFull(i, activeSends, n)
  BY DEF SendCallback
<1>3. n \in Nat /\ activeSends[i] \in Nat /\ activeSends[i] + n <= Size
  BY <1>0, <1>2 DEF TypeOK
<1>4. /\ activeSends[i] = (IF i \in DOMAIN flight THEN flight[i].segments ELSE 0) + Got(i)
      /\ Message[i].src \in Host /\ ~Posted(i) /\ i # closing
  BY <1>0 DEF Segments, Put
<1>5. /\ Segments' /\ Buffers' /\ DOMAIN flight' = DOMAIN flight \cup {i}
      /\ \A j \in DOMAIN activeSends' : j \in Msg /\ activeSends'[j] \in 0 .. Size - 1
      /\ \A j \in DOMAIN flight' : j \in Msg /\ flight'[j] \in [segments : 0 .. Size, fin : BOOLEAN]
  BY <1>0, <1>1, <1>2, <1>3, <1>4, WriteKeeps
<1>6. TypeOK'
  BY <1>0, <1>1, <1>5 DEF TypeOK
<1>7. ThreadsRight' /\ QueueRight' /\ PostedRight'
  BY <1>0, <1>1 DEF ThreadsRight, QueueRight, PostedRight
<1>8. Unstarted'
  BY <1>0, <1>1, <1>5 DEF Unstarted, Waiting, Posted
<1> QED BY <1>0, <1>5, <1>6, <1>7, <1>8 DEF Ns3Inv

-----------------------------------------------------------------------------
(* Receiving.                                                              *)

(* The buffer of a connection is labelled with the hosts of its message. *)
LEMMA LabelsRight ==
    ASSUME NEW i \in Msg, Message[i].src \in Host, NEW node \in Receiver(i)
    PROVE  SourceId(NodeAddress(Message[i].src)) = Message[i].src /\ node = Message[i].dest /\ node \in Host
<1>1. Message[i].src \in Nat /\ Message[i].dest \in Nat /\ NumHosts \in Nat
  BY MessageFacts, Ns3Assumption
<1>2. node \in Host /\ node + 1 = Message[i].dest + 1
  BY DEF Receiver, NodeAddress, DestAddress
<1>3. node \in Nat
  BY <1>1, <1>2 DEF Host
<1>4. node = Message[i].dest
  BY <1>1, <1>2, <1>3
<1>5. SourceId(NodeAddress(Message[i].src)) = Message[i].src
  BY <1>1 DEF SourceId, NodeAddress
<1> QED BY <1>2, <1>4, <1>5

(* A read moves segments from the connection to the buffer. *)
LEMMA TcpReceiveKeeps ==
    ASSUME Ns3Inv, NEW i \in Msg, TcpReceiveCallback(i)
    PROVE  Ns3Inv'
<1>0. /\ TypeOK /\ ThreadsRight /\ QueueRight /\ Unstarted /\ Segments /\ Buffers /\ PostedRight
      /\ posted \in Seq(PostCall) /\ Size \in Nat
      /\ main = "run" /\ i \in DOMAIN flight
      /\ UNCHANGED <<threadVars, activeSends, failed, nfetched, messageQueue, posted>>
  BY MessageFacts DEF Ns3Inv, TcpReceiveCallback
<1>1. UNCHANGED <<listener, entry, listenerRunning, simClientMutex, queueMutex, main, closing,
                 connected, nsignals>>
  BY <1>0 DEF threadVars
<1> DEFINE new(node) == [src |-> SourceId(NodeAddress(Message[i].src)), dest |-> node, data |-> 0]
           buf(node) == IF i \in DOMAIN activeReceives THEN activeReceives[i] ELSE new(node)
<1>2. PICK node \in Receiver(i), n \in 1 .. flight[i].segments :
          /\ activeReceives' = Set(activeReceives, i, [buf(node) EXCEPT !.data = @ + n])
          /\ flight' = [flight EXCEPT ![i].segments = @ - n]
  BY DEF TcpReceiveCallback
<1>3. /\ Message[i].src \in Host /\ ~Posted(i) /\ i # closing
      /\ flight[i].segments + Got(i) = Put(i) /\ (flight[i].fin <=> i \notin DOMAIN activeSends)
      /\ flight[i] \in [segments : 0 .. Size, fin : BOOLEAN]
      /\ Put(i) \in 0 .. Size /\ Got(i) \in 0 .. Size
  <2>1. flight[i] \in [segments : 0 .. Size, fin : BOOLEAN] /\ Put(i) \in 0 .. Size
    BY <1>0 DEF TypeOK, Put
  <2>2. Got(i) \in 0 .. Size
    BY <1>0 DEF TypeOK, Got, Buffer
  <2> QED BY <1>0, <2>1, <2>2 DEF Segments
<1>4. /\ buf(node) \in Buffer /\ buf(node).data = Got(i)
      /\ buf(node).src = Message[i].src /\ buf(node).dest = Message[i].dest
  <2>1. CASE i \in DOMAIN activeReceives
    BY <1>0, <2>1 DEF TypeOK, Buffers, Got
  <2>2. CASE i \notin DOMAIN activeReceives
    <3>1. SourceId(NodeAddress(Message[i].src)) = Message[i].src /\ node = Message[i].dest /\ node \in Host
      BY <1>3, LabelsRight
    <3> QED BY <1>0, <1>3, <2>2, <3>1 DEF Got, Buffer
  <2> QED BY <2>1, <2>2
<1> DEFINE b == [buf(node) EXCEPT !.data = @ + n]
<1>5. /\ b \in Buffer /\ b.data = Got(i) + n /\ b.src = Message[i].src /\ b.dest = Message[i].dest
  <2> DEFINE u == buf(node)
  <2>1. u \in Buffer /\ u.data = Got(i) /\ u.src = Message[i].src /\ u.dest = Message[i].dest
    BY <1>4
  <2>2. Got(i) + n \in 0 .. Size
    <3> DEFINE s == flight[i].segments
               g == Got(i)
               t == Put(i)
    <3>1. s \in Nat /\ g \in Nat /\ t \in Nat /\ t <= Size /\ s + g = t /\ n \in Nat /\ n <= s
      BY <1>0, <1>2, <1>3
    <3> HIDE DEF s, g, t
    <3>2. g + n \in 0 .. Size
      BY <1>0, <3>1
    <3> QED BY <3>2 DEF g
  <2> HIDE DEF u
  <2>3. /\ [u EXCEPT !.data = @ + n] \in Buffer
        /\ [u EXCEPT !.data = @ + n].data = Got(i) + n
        /\ [u EXCEPT !.data = @ + n].src = u.src /\ [u EXCEPT !.data = @ + n].dest = u.dest
    BY <2>1, <2>2 DEF Buffer
  <2> QED BY <2>1, <2>3 DEF u
<1> HIDE DEF b
<1>6. /\ DOMAIN activeReceives' = DOMAIN activeReceives \cup {i} /\ activeReceives'[i] = b
      /\ \A j \in DOMAIN activeReceives : j # i => activeReceives'[j] = activeReceives[j]
  BY <1>2 DEF Set, b
<1>7. /\ DOMAIN flight' = DOMAIN flight
      /\ flight'[i].segments = flight[i].segments - n /\ flight'[i].fin = flight[i].fin
      /\ flight'[i] \in [segments : 0 .. Size, fin : BOOLEAN]
      /\ \A j \in DOMAIN flight : j # i => flight'[j] = flight[j]
  BY <1>0, <1>2, <1>3
<1>8. /\ \A j : (Posted(j)' <=> Posted(j)) /\ Put(j)' = Put(j)
      /\ \A j : j # i => Got(j)' = Got(j)
      /\ Got(i)' = Got(i) + n
  BY <1>0, <1>5, <1>6 DEF Posted, Got, Put
<1>9. TypeOK'
  <2>1. \A j \in DOMAIN flight' : j \in Msg /\ flight'[j] \in [segments : 0 .. Size, fin : BOOLEAN]
    BY <1>0, <1>7 DEF TypeOK
  <2>2. \A j \in DOMAIN activeReceives' : j \in Msg /\ activeReceives'[j] \in Buffer
    BY <1>0, <1>5, <1>6 DEF TypeOK
  <2> QED BY <1>0, <1>1, <2>1, <2>2 DEF TypeOK
<1>10. ThreadsRight' /\ QueueRight' /\ PostedRight'
  BY <1>0, <1>1, <1>6 DEF ThreadsRight, QueueRight, PostedRight
<1>11. Unstarted'
  BY <1>0, <1>1, <1>6, <1>7, <1>8 DEF Unstarted, Waiting
<1>12. Segments'
  <2> SUFFICES ASSUME NEW j \in DOMAIN flight'
               PROVE  /\ flight'[j].segments + Got(j)' = Put(j)'
                      /\ flight'[j].fin <=> j \notin DOMAIN activeSends'
                      /\ Message[j].src \in Host /\ ~Posted(j)' /\ j # closing'
    BY DEF Segments
  <2>1. CASE j = i
    BY <1>0, <1>1, <1>2, <1>3, <1>7, <1>8, <2>1
  <2>2. CASE j # i
    BY <1>0, <1>1, <1>7, <1>8, <2>2 DEF Segments
  <2> QED BY <2>1, <2>2
<1>13. Buffers'
  <2>1. b.data > 0
    BY <1>2, <1>3, <1>5
  <2> QED BY <1>0, <1>1, <1>3, <1>5, <1>6, <1>7, <1>8, <2>1 DEF Buffers
<1> QED BY <1>0, <1>9, <1>10, <1>11, <1>12, <1>13 DEF Ns3Inv

(* The connection is gone, and its buffer, if there is one, is with the     *)
(* close callback: complete, or the connection is known to have failed.     *)
LEMMA CloseKeeps ==
    ASSUME Ns3Inv, NEW i \in Msg, NormalClose(i) \/ ErrorClose(i)
    PROVE  Ns3Inv'
<1>0. /\ TypeOK /\ ThreadsRight /\ QueueRight /\ Unstarted /\ Segments /\ Buffers /\ PostedRight
      /\ posted \in Seq(PostCall) /\ Size \in Nat /\ closing = NoMsg /\ i # NoMsg
      /\ main = "run" /\ i \in DOMAIN flight /\ Close(i)
      /\ UNCHANGED <<listener, entry, listenerRunning, simClientMutex, queueMutex, connected, nsignals,
                     activeSends, activeReceives, nfetched, messageQueue, posted>>
  BY MessageFacts DEF Ns3Inv, NormalClose, ErrorClose, Close, ThreadsRight
<1>1. /\ DOMAIN flight' = DOMAIN flight \ {i}
      /\ \A j \in DOMAIN flight' : flight'[j] = flight[j]
  BY <1>0 DEF Close, Drop
<1>2. /\ main' \in {"run", "lock"} /\ closing' \in {NoMsg, i}
      /\ main' = "lock" <=> i \in DOMAIN activeReceives
      /\ main' = "lock" <=> closing' = i
  BY <1>0 DEF Close
<1>3. failed \subseteq failed' /\ failed' \subseteq Msg
  BY <1>0 DEF NormalClose, ErrorClose, TypeOK
<1>4. \A j : (Posted(j)' <=> Posted(j)) /\ Put(j)' = Put(j) /\ Got(j)' = Got(j)
  BY <1>0 DEF Posted, Got, Put
<1>5. i \in DOMAIN activeReceives => activeReceives[i].data = Size \/ i \in failed'
  <2>1. CASE NormalClose(i)
    <3>1. flight[i].fin /\ flight[i].segments = 0
      BY <2>1 DEF NormalClose, Closed
    <3>2. Got(i) = Size
      <4>1. Put(i) = Size /\ 0 + Got(i) = Put(i)
        BY <1>0, <3>1 DEF Segments, Put
      <4>2. i \in DOMAIN activeReceives => Got(i) \in Nat
        BY <1>0 DEF Got, TypeOK, Buffer
      <4>3. Got(i) \in Nat
        BY <4>2 DEF Got
      <4> QED BY <4>1, <4>3
    <3> QED BY <3>2 DEF Got
  <2>2. CASE ErrorClose(i)
    BY <2>2 DEF ErrorClose
  <2> QED BY <2>1, <2>2
<1>6. TypeOK'
  BY <1>0, <1>1, <1>2, <1>3 DEF TypeOK
<1>7. ThreadsRight' /\ QueueRight' /\ PostedRight'
  BY <1>0, <1>2, <1>3 DEF ThreadsRight, QueueRight, PostedRight
<1>8. Unstarted'
  BY <1>0, <1>1, <1>4 DEF Unstarted, Waiting
<1>9. Segments'
  BY <1>0, <1>1, <1>2, <1>4 DEF Segments, TypeOK
<1>10. Buffers'
  <2> SUFFICES ASSUME NEW j \in DOMAIN activeReceives'
               PROVE  /\ activeReceives'[j].data > 0
                      /\ activeReceives'[j].src = Message[j].src
                      /\ activeReceives'[j].dest = Message[j].dest
                      /\ ~Posted(j)'
                      /\ \/ j \in DOMAIN flight'
                         \/ j = closing' /\ (activeReceives'[j].data = Size \/ j \in failed')
    BY DEF Buffers
  <2>1. /\ activeReceives' = activeReceives /\ j \in DOMAIN activeReceives
        /\ activeReceives[j].data > 0 /\ ~Posted(j)
        /\ activeReceives[j].src = Message[j].src /\ activeReceives[j].dest = Message[j].dest
        /\ j \in DOMAIN flight \/ j = closing
    BY <1>0 DEF Buffers
  <2>2. j # NoMsg
    BY <1>0, <2>1, MessageFacts DEF TypeOK
  <2>3. CASE j = i
    BY <1>2, <1>4, <1>5, <2>1, <2>3
  <2>4. CASE j # i
    BY <1>0, <1>1, <1>4, <2>1, <2>2, <2>4
  <2> QED BY <2>3, <2>4
<1> QED BY <1>0, <1>6, <1>7, <1>8, <1>9, <1>10 DEF Ns3Inv

(* post(): the message leaves its buffer for good. *)
LEMMA PostKeeps ==
    ASSUME Ns3Inv, Post
    PROVE  Ns3Inv'
<1> DEFINE buf == activeReceives[closing]
           p == [msg |-> closing, src |-> buf.src, dest |-> buf.dest, data |-> buf.data]
<1>0. /\ TypeOK /\ ThreadsRight /\ QueueRight /\ Unstarted /\ Segments /\ Buffers /\ PostedRight
      /\ posted \in Seq(PostCall) /\ Size \in Nat
      /\ closing \in DOMAIN activeReceives /\ closing \in Msg /\ closing # NoMsg
      /\ main' = "run" /\ closing' = NoMsg /\ simClientMutex' = "free"
      /\ posted' = Append(posted, p) /\ activeReceives' = Drop(activeReceives, closing)
      /\ UNCHANGED <<listener, entry, listenerRunning, queueMutex, connected, nsignals,
                     activeSends, flight, failed, nfetched, messageQueue>>
  BY MessageFacts DEF Ns3Inv, Post, ThreadsRight, TypeOK
<1>1. /\ buf \in Buffer /\ buf.data > 0 /\ buf.src = Message[closing].src /\ buf.dest = Message[closing].dest
      /\ ~Posted(closing) /\ closing \notin DOMAIN flight /\ (buf.data = Size \/ closing \in failed)
  BY <1>0 DEF Buffers, Segments, TypeOK
<1>2. p \in PostCall
  BY <1>0, <1>1 DEF Buffer, PostCall
<1>3. /\ posted' \in Seq(PostCall) /\ Len(posted) \in Nat
      /\ DOMAIN posted = 1 .. Len(posted) /\ DOMAIN posted' = 1 .. Len(posted) + 1
      /\ posted'[Len(posted) + 1] = p
      /\ \A n \in DOMAIN posted : posted'[n] = posted[n]
  <2> HIDE DEF p
  <2> QED BY <1>0, <1>2
<1>4. /\ p.msg = closing /\ p.src = Message[closing].src /\ p.dest = Message[closing].dest
      /\ p.data = buf.data
  BY <1>1
<1> HIDE DEF p, buf
<1>5. /\ DOMAIN activeReceives' = DOMAIN activeReceives \ {closing}
      /\ \A j \in DOMAIN activeReceives' : activeReceives'[j] = activeReceives[j]
  BY <1>0 DEF Drop
<1>6. \A j : Posted(j)' <=> Posted(j) \/ j = closing
  <2>1. ASSUME NEW j, Posted(j)' PROVE Posted(j) \/ j = closing
    BY <1>3, <1>4, <2>1 DEF Posted
  <2>2. ASSUME NEW j, Posted(j) PROVE Posted(j)'
    BY <1>3, <2>2 DEF Posted
  <2>3. ASSUME NEW j, j = closing PROVE Posted(j)'
    <3>1. Len(posted) + 1 \in DOMAIN posted' /\ posted'[Len(posted) + 1].msg = j
      BY <1>3, <1>4, <2>3
    <3> QED BY <3>1 DEF Posted
  <2> QED BY <2>1, <2>2, <2>3
<1>7. \A j : j # closing => Got(j)' = Got(j) /\ Put(j)' = Put(j)
  BY <1>0, <1>5 DEF Got, Put
<1>8. TypeOK'
  <2>1. \A n \in DOMAIN posted' : posted'[n].msg \in Msg /\ posted'[n].data \in 1 .. Size
    <3>1. \A n \in DOMAIN posted' : posted'[n] \in PostCall
      BY <1>3
    <3> QED BY <3>1 DEF PostCall
  <2> QED BY <1>0, <1>5, <2>1 DEF TypeOK
<1>9. ThreadsRight' /\ QueueRight'
  BY <1>0 DEF ThreadsRight, QueueRight
<1>10. Unstarted'
  BY <1>0, <1>5, <1>6 DEF Unstarted, Waiting
<1>11. Segments'
  BY <1>0, <1>1, <1>6, <1>7, MessageFacts DEF Segments, TypeOK
<1>12. Buffers'
  BY <1>0, <1>5, <1>6 DEF Buffers, TypeOK
<1>13. PostedRight'
  <2> SUFFICES ASSUME NEW n \in DOMAIN posted'
               PROVE  /\ posted'[n].src = Message[posted'[n].msg].src
                      /\ posted'[n].dest = Message[posted'[n].msg].dest
                      /\ posted'[n].data = Size \/ posted'[n].msg \in failed'
                      /\ \A k \in DOMAIN posted' : posted'[k].msg = posted'[n].msg => k = n
    BY DEF PostedRight
  <2>1. \A k \in DOMAIN posted : posted[k].msg # closing
    BY <1>1 DEF Posted
  <2>2. CASE n = Len(posted) + 1
    BY <1>0, <1>1, <1>3, <1>4, <2>1, <2>2
  <2>3. CASE n # Len(posted) + 1
    <3>1. n \in DOMAIN posted
      BY <1>3, <2>3
    <3> QED BY <1>0, <1>3, <1>4, <2>1, <3>1 DEF PostedRight
  <2> QED BY <2>2, <2>3
<1> QED BY <1>3, <1>8, <1>9, <1>10, <1>11, <1>12, <1>13 DEF Ns3Inv

-----------------------------------------------------------------------------
(* Every step of the two threads and of the simulated TCP keeps the         *)
(* invariant.                                                               *)
LEMMA Ns3Step == Ns3Inv /\ [Next]_vars => Ns3Inv'
<1> SUFFICES ASSUME Ns3Inv, [Next]_vars PROVE Ns3Inv'
  OBVIOUS
<1>1. CASE Next
  BY <1>1, ThreadsKeep, ListenerFetchKeeps, ListenerPushKeeps, PollToFetchKeeps, PopQueueKeeps,
     SendCallbackKeeps, TcpReceiveKeeps, CloseKeeps, PostKeeps DEF Next, ListenerNext, Event
<1>2. CASE UNCHANGED vars
  <2>1. UNCHANGED <<listener, entry, listenerRunning, simClientMutex, queueMutex, main, closing,
                    connected, nsignals, activeSends, flight, activeReceives, failed, nfetched, messageQueue, posted>>
    BY <1>2 DEF vars, threadVars, tcpVars
  <2>2. TypeOK' /\ ThreadsRight' /\ QueueRight'
    BY <2>1 DEF Ns3Inv, TypeOK, ThreadsRight, QueueRight
  <2>3. Unstarted' /\ Segments' /\ Buffers' /\ PostedRight'
    BY <2>1, ConnectionsKept DEF Waiting, tcpAndPosted, tcpVars
  <2> QED BY <2>1, <2>2, <2>3 DEF Ns3Inv
<1> QED BY <1>1, <1>2

(* The invariant holds in every behaviour of the program. *)
LEMMA Ns3Invariant == Spec => []Ns3Inv
BY Ns3Init, Ns3Step, PTL DEF Spec

(* For every size and number of messages and any interleaving of listener,  *)
(* main thread, signal and TCP: the queue, the transfers and the buffers    *)
(* keep their types; no transfer counts past its size, no post() is empty.  *)
THEOREM Ns3TypeCorrect == Spec => []TypeOK
<1>1. Ns3Inv => TypeOK
  BY DEF Ns3Inv
<1> QED BY <1>1, Ns3Invariant, PTL

(* What TcpCloseCallback posts carries the source and the destination the   *)
(* message was fetched with; no message is posted twice, and one is posted  *)
(* in part only if its connection broke.                                    *)
THEOREM Ns3PostedRight == Spec => []PostedRight
<1>1. Ns3Inv => PostedRight
  BY DEF Ns3Inv
<1> QED BY <1>1, Ns3Invariant, PTL
=============================================================================
