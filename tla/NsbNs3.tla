------------------------------- MODULE NsbNs3 -------------------------------
(***************************************************************************)
(* The ns-3 simulator program examples/ns3/nsb-testing-tcp.cc: a simulator *)
(* client whose network is simulated TCP.  Every message it fetches goes   *)
(* over a TCP connection of its own, and what the other end has read when  *)
(* the connection closes is posted.  ns-3 is external: Simulator::Run      *)
(* calls one event at a time on the main thread.                           *)
(*                                                                         *)
(* In PUSH mode a listener thread fetches, into messageQueue.  It shares   *)
(* simClient and messageQueue with the main thread (simClientMutex,        *)
(* queueMutex), which a signal may interrupt anywhere, whatever it holds.  *)
(* Locks inside the libraries (output, logging, memory) are left out.      *)
(***************************************************************************)
EXTENDS Naturals, Sequences, FiniteSets

CONSTANTS
    NSB_DAEMON_MODE,    \* the modes the program is built for: PULL, PUSH
    NumHosts,           \* nodes are host0 .. host(NumHosts - 1)
    Message,            \* Message[i]: the i-th message of the daemon (external)
    Size,               \* TCP segments per payload
    MaxErrors,          \* bound: connections that fail or break
    MaxSignals          \* bound: signals

Host == 0 .. NumHosts - 1
NotAHost == NumHosts + 1        \* an identifier that is not "host" and a number

ASSUME Ns3Assumption ==
    /\ NSB_DAEMON_MODE \subseteq {"PULL", "PUSH"}
    /\ NumHosts \in Nat /\ Size \in Nat \ {0} /\ MaxErrors \in Nat /\ MaxSignals \in Nat
    /\ Message \in Seq([src : 0 .. NumHosts + 1, dest : 0 .. NumHosts + 1])

VARIABLES
    nfetched,       \* messages fetched so far
    listener,       \* where the listener thread is
    entry,          \* the message it has fetched
    listenerRunning,
    messageQueue,
    simClientMutex, \* free, or who holds it
    queueMutex,
    main,           \* where the main thread is
    connected,      \* the daemon has not gone
    closing,        \* the connection whose close callback runs
    activeSends,    \* bytesSent of the transfers under way, in segments
    flight,         \* connections: segments written and not yet read, and if closed
    activeReceives, \* the receive buffers
    posted,         \* the post() calls
    failed,         \* messages whose connection failed, or was not made
    nsignals

threadVars == <<listener, entry, listenerRunning, simClientMutex, queueMutex, main, closing,
                connected, nsignals>>
tcpVars == <<activeSends, flight, activeReceives, failed>>
vars == <<threadVars, tcpVars, nfetched, messageQueue, posted>>

Msg == DOMAIN Message
NoMsg == 0
Buffer == [src : Host, dest : Host, data : 0 .. Size]

TypeOK ==
    /\ nfetched \in 0 .. Len(Message)
    /\ listener \in {"off", "check", "lock", "fetch", "spin", "push", "pushing", "ended"}
    /\ entry \in Msg \cup {NoMsg} /\ closing \in Msg \cup {NoMsg}
    /\ listenerRunning \in BOOLEAN
    /\ messageQueue \in Seq(Msg)
    /\ simClientMutex \in {"free", "listener", "main"} /\ queueMutex \in {"free", "listener", "main"}
    /\ main \in {"start", "run", "queue", "pop", "lock", "post", "spin", "join", "exited", "crashed"}
    /\ connected \in BOOLEAN
    /\ \A i \in DOMAIN activeSends : i \in Msg /\ activeSends[i] \in 0 .. Size - 1
    /\ \A i \in DOMAIN flight : i \in Msg /\ flight[i] \in [segments : 0 .. Size, fin : BOOLEAN]
    /\ \A i \in DOMAIN activeReceives : i \in Msg /\ activeReceives[i] \in Buffer
    /\ \A n \in DOMAIN posted : posted[n].msg \in Msg /\ posted[n].data \in 1 .. Size
    /\ failed \subseteq Msg
    /\ nsignals \in 0 .. MaxSignals

Init ==
    /\ nfetched = 0
    /\ listener = "off" /\ entry = NoMsg /\ listenerRunning = FALSE
    /\ messageQueue = <<>>
    /\ simClientMutex = "free" /\ queueMutex = "free"
    /\ main = "start" /\ closing = NoMsg /\ connected = TRUE
    /\ activeSends = <<>> /\ flight = <<>> /\ activeReceives = <<>>
    /\ posted = <<>> /\ failed = {} /\ nsignals = 0

Set(f, x, y) == [z \in DOMAIN f \cup {x} |-> IF z = x THEN y ELSE f[z]]
Drop(f, x) == [z \in DOMAIN f \ {x} |-> f[z]]

-----------------------------------------------------------------------------
(* main() and the listener thread.                                         *)

Alive == main \notin {"exited", "crashed"}

(* StartAsyncListener in PUSH mode, then Simulator::Run. *)
StartAsyncListener ==
    /\ main = "start"
    /\ main' = "run"
    /\ \/ "PUSH" \in NSB_DAEMON_MODE /\ listener' = "check" /\ listenerRunning' = TRUE
       \/ "PULL" \in NSB_DAEMON_MODE /\ UNCHANGED <<listener, listenerRunning>>
    /\ UNCHANGED <<entry, simClientMutex, queueMutex, closing, connected, nsignals,
                   tcpVars, nfetched, messageQueue, posted>>

(* AsyncListenerThread: the loop condition; simClientMutex, held for        *)
(* fetch(); queueMutex, held for the push.                                  *)
ListenerCheck ==
    /\ listener = "check" /\ Alive
    /\ listener' = IF listenerRunning THEN "lock" ELSE "ended"
    /\ UNCHANGED <<entry, listenerRunning, simClientMutex, queueMutex, main, closing, connected,
                   nsignals, tcpVars, nfetched, messageQueue, posted>>

ListenerLock ==
    /\ listener = "lock" /\ Alive /\ simClientMutex = "free"
    /\ simClientMutex' = "listener"
    /\ listener' = "fetch"
    /\ UNCHANGED <<entry, listenerRunning, queueMutex, main, closing, connected, nsignals,
                   tcpVars, nfetched, messageQueue, posted>>

(* What had come from the daemon is returned, then nothing is.  When it has *)
(* gone, receiveMessage finds the end of the stream again and again, and    *)
(* the mutex stays locked.                                                  *)
ListenerFetch ==
    /\ listener = "fetch" /\ Alive
    /\ \/ /\ nfetched < Len(Message)
          /\ nfetched' = nfetched + 1 /\ entry' = nfetched + 1
          /\ listener' = "push" /\ simClientMutex' = "free"
       \/ /\ connected
          /\ listener' = "check" /\ simClientMutex' = "free"
          /\ UNCHANGED <<nfetched, entry>>
       \/ /\ ~connected
          /\ listener' = "spin"
          /\ UNCHANGED <<nfetched, entry, simClientMutex>>
    /\ UNCHANGED <<listenerRunning, queueMutex, main, closing, connected, nsignals,
                   tcpVars, messageQueue, posted>>

ListenerLockQueue ==
    /\ listener = "push" /\ Alive /\ queueMutex = "free"
    /\ queueMutex' = "listener"
    /\ listener' = "pushing"
    /\ UNCHANGED <<entry, listenerRunning, simClientMutex, main, closing, connected, nsignals,
                   tcpVars, nfetched, messageQueue, posted>>

ListenerPush ==
    /\ listener = "pushing" /\ Alive
    /\ messageQueue' = Append(messageQueue, entry)
    /\ entry' = NoMsg
    /\ queueMutex' = "free"
    /\ listener' = "check"
    /\ UNCHANGED <<listenerRunning, simClientMutex, main, closing, connected, nsignals,
                   tcpVars, nfetched, posted>>

ListenerNext ==
    ListenerCheck \/ ListenerLock \/ ListenerFetch \/ ListenerLockQueue \/ ListenerPush

(* Faulty: the listener is not told to stop. *)
SignalHandlerFaulty ==
    /\ Alive /\ nsignals < MaxSignals
    /\ nsignals' = nsignals + 1
    /\ main' = IF listenerRunning THEN "join" ELSE "exited"
    /\ UNCHANGED <<listenerRunning, listener, entry, simClientMutex, queueMutex, closing, connected,
                   tcpVars, nfetched, messageQueue, posted>>

(* SignalHandler, wherever the main thread is: StopAsyncListener joins the  *)
(* listener while whatever was interrupted keeps what it holds, then        *)
(* exit().  A signal during the join finds listenerRunning false and exits. *)
SignalHandler ==
    /\ Alive /\ nsignals < MaxSignals
    /\ nsignals' = nsignals + 1
    /\ listenerRunning' = FALSE
    /\ main' = IF listenerRunning THEN "join" ELSE "exited"
    /\ UNCHANGED <<listener, entry, simClientMutex, queueMutex, closing, connected,
                   tcpVars, nfetched, messageQueue, posted>>

Join ==
    /\ main = "join" /\ listener = "ended"
    /\ main' = "exited"
    /\ UNCHANGED <<listener, entry, listenerRunning, simClientMutex, queueMutex, closing, connected,
                   nsignals, tcpVars, nfetched, messageQueue, posted>>

(* The daemon (external) exits or fails, which closes the connections. *)
DaemonGone ==
    /\ connected /\ Alive
    /\ connected' = FALSE
    /\ UNCHANGED <<listener, entry, listenerRunning, simClientMutex, queueMutex, main, closing,
                   nsignals, tcpVars, nfetched, messageQueue, posted>>

(* send() on a connection that was closed: SIGPIPE ends the program. *)
BrokenPipe ==
    /\ ~connected
    /\ main = "post" \/ (main = "run" /\ listener = "off")
    /\ main' = "crashed"
    /\ UNCHANGED <<listener, entry, listenerRunning, simClientMutex, queueMutex, closing, connected,
                   nsignals, tcpVars, nfetched, messageQueue, posted>>

-----------------------------------------------------------------------------
(* Sending.                                                                *)

(* Node i has the address prefix.(i + 1).  DestAddress and SourceId turn an *)
(* identifier into an address and back.  Faulty: without the offset, as in  *)
(* nsb-testing.cc.                                                          *)
NodeAddress(i) == i + 1
DestAddressFaulty(h) == h
DestAddress(h) == h + 1
SourceIdFaulty(a) == a
SourceId(a) == a - 1
Receiver(i) == {n \in Host : NodeAddress(n) = DestAddress(Message[i].dest)}

(* Faulty: the socket is left open. *)
WriteUntilBufferFullFaulty(i, sends, n) ==
    LET inFlight == IF i \in DOMAIN flight THEN flight[i].segments ELSE 0
    IN  /\ activeSends' = IF sends[i] + n = Size THEN Drop(sends, i) ELSE [sends EXCEPT ![i] = @ + n]
        /\ flight' = Set(flight, i, [segments |-> inFlight + n, fin |-> FALSE])

(* WriteUntilBufferFull: n of the segments that are left are written; after *)
(* the last one the transfer is forgotten and the socket closed.            *)
WriteUntilBufferFull(i, sends, n) ==
    LET all == sends[i] + n = Size
        inFlight == IF i \in DOMAIN flight THEN flight[i].segments ELSE 0
    IN  /\ activeSends' = IF all THEN Drop(sends, i) ELSE [sends EXCEPT ![i] = @ + n]
        /\ flight' = Set(flight, i, [segments |-> inFlight + n, fin |-> all])

(* Connections that failed or broke so far. *)
Malformed(i) == NotAHost \in {Message[i].src, Message[i].dest}
Errors == Cardinality({i \in failed : ~Malformed(i)})

(* The part of PollToFetch and ProcessQueuedMessages after a message was    *)
(* taken; the main thread goes on at next.  A source that is no node ends   *)
(* the program (NodeList::GetNode).                                         *)
StartTransfer(i, next) ==
    \/ /\ Malformed(i)
       /\ failed' = failed \cup {i} /\ main' = next
       /\ UNCHANGED <<activeSends, flight>>
    \/ /\ ~Malformed(i) /\ Message[i].src \notin Host
       /\ main' = "crashed"
       /\ UNCHANGED <<activeSends, flight, failed>>
    \/ /\ ~Malformed(i) /\ Message[i].src \in Host /\ Errors < MaxErrors      \* Connect fails
       /\ failed' = failed \cup {i} /\ main' = next
       /\ UNCHANGED <<activeSends, flight>>
    \/ /\ ~Malformed(i) /\ Message[i].src \in Host
       /\ \E n \in 0 .. Size : WriteUntilBufferFull(i, Set(activeSends, i, 0), n)
       /\ main' = next
       /\ UNCHANGED failed

(* PULL mode, in which there is no listener.  fetch() goes on for ever, the *)
(* mutex locked, when the daemon has gone.                                  *)
PollToFetch ==
    /\ main = "run" /\ listener = "off"
    /\ \/ /\ nfetched < Len(Message)
          /\ nfetched' = nfetched + 1
          /\ StartTransfer(nfetched + 1, "run")
          /\ UNCHANGED simClientMutex
       \/ /\ ~connected
          /\ main' = "spin" /\ simClientMutex' = "main"
          /\ UNCHANGED <<nfetched, activeSends, flight, failed>>
    /\ UNCHANGED <<listener, entry, listenerRunning, queueMutex, closing, connected, nsignals,
                   activeReceives, messageQueue, posted>>

(* ProcessQueuedMessages, PUSH mode: a loop that locks queueMutex, takes a  *)
(* message, unlocks and starts its transfer, until there is none.           *)
ProcessQueuedMessages ==
    /\ main = "run" /\ listener # "off"
    /\ main' = "queue"
    /\ UNCHANGED <<listener, entry, listenerRunning, simClientMutex, queueMutex, closing, connected,
                   nsignals, tcpVars, nfetched, messageQueue, posted>>

LockQueue ==
    /\ main = "queue" /\ queueMutex = "free"
    /\ queueMutex' = "main"
    /\ main' = "pop"
    /\ UNCHANGED <<listener, entry, listenerRunning, simClientMutex, closing, connected,
                   nsignals, tcpVars, nfetched, messageQueue, posted>>

PopQueue ==
    /\ main = "pop"
    /\ queueMutex' = "free"
    /\ \/ /\ messageQueue = <<>>
          /\ main' = "run"
          /\ UNCHANGED <<messageQueue, activeSends, flight, failed>>
       \/ /\ messageQueue # <<>>
          /\ messageQueue' = Tail(messageQueue)
          /\ StartTransfer(Head(messageQueue), "queue")
    /\ UNCHANGED <<listener, entry, listenerRunning, simClientMutex, closing, connected, nsignals,
                   activeReceives, nfetched, posted>>

(* The send callback: there is room again. *)
SendCallback(i) ==
    /\ main = "run" /\ i \in DOMAIN activeSends \cap DOMAIN flight
    /\ \E n \in 1 .. Size - activeSends[i] : WriteUntilBufferFull(i, activeSends, n)
    /\ UNCHANGED <<threadVars, activeReceives, failed, nfetched, messageQueue, posted>>

-----------------------------------------------------------------------------
(* Receiving.                                                              *)

(* What TCP (external) has brought is read; the first read of a connection  *)
(* makes its buffer.                                                        *)
TcpReceiveCallback(i) ==
    /\ main = "run" /\ i \in DOMAIN flight
    /\ \E node \in Receiver(i) : \E n \in 1 .. flight[i].segments :
          LET new == [src |-> SourceId(NodeAddress(Message[i].src)), dest |-> node, data |-> 0]
              buf == IF i \in DOMAIN activeReceives THEN activeReceives[i] ELSE new
          IN  /\ activeReceives' = Set(activeReceives, i, [buf EXCEPT !.data = @ + n])
              /\ flight' = [flight EXCEPT ![i].segments = @ - n]
    /\ UNCHANGED <<threadVars, activeSends, failed, nfetched, messageQueue, posted>>

(* TcpCloseCallback, for a connection that ended and for one that broke.    *)
(* What has been read, if anything, is posted as the payload.               *)
Closed(i) == flight[i].fin /\ flight[i].segments = 0
Close(i) ==
    /\ main = "run" /\ i \in DOMAIN flight /\ Receiver(i) # {}
    /\ flight' = Drop(flight, i)
    /\ IF i \in DOMAIN activeReceives
       THEN main' = "lock" /\ closing' = i
       ELSE UNCHANGED <<main, closing>>
    /\ UNCHANGED <<listener, entry, listenerRunning, simClientMutex, queueMutex, connected, nsignals,
                   activeSends, activeReceives, nfetched, messageQueue, posted>>

NormalClose(i) == Close(i) /\ Closed(i) /\ UNCHANGED failed

(* The sender is not told: its transfer stays in activeSends. *)
ErrorClose(i) == Close(i) /\ ~Closed(i) /\ Errors < MaxErrors /\ failed' = failed \cup {i}

LockToPost ==
    /\ main = "lock" /\ simClientMutex = "free"
    /\ simClientMutex' = "main"
    /\ main' = "post"
    /\ UNCHANGED <<listener, entry, listenerRunning, queueMutex, closing, connected, nsignals,
                   tcpVars, nfetched, messageQueue, posted>>

(* post(), the unlock, and the buffer is erased. *)
Post ==
    /\ main = "post"
    /\ LET buf == activeReceives[closing]
       IN  posted' = Append(posted, [msg |-> closing, src |-> buf.src, dest |-> buf.dest, data |-> buf.data])
    /\ activeReceives' = Drop(activeReceives, closing)
    /\ simClientMutex' = "free"
    /\ main' = "run"
    /\ closing' = NoMsg
    /\ UNCHANGED <<listener, entry, listenerRunning, queueMutex, connected, nsignals,
                   activeSends, flight, failed, nfetched, messageQueue>>

Event(i) == SendCallback(i) \/ TcpReceiveCallback(i) \/ NormalClose(i)

Next ==
    \/ StartAsyncListener \/ ListenerNext \/ SignalHandler \/ Join \/ DaemonGone \/ BrokenPipe
    \/ PollToFetch \/ ProcessQueuedMessages \/ LockQueue \/ PopQueue
    \/ \E i \in Msg : Event(i) \/ ErrorClose(i)
    \/ LockToPost \/ Post

Spec == Init /\ [][Next]_vars
-----------------------------------------------------------------------------
(* Properties.                                                             *)

(* What is posted names the source and the destination that the message was *)
(* fetched with, though they went through addresses; a message is posted at *)
(* most once, and in part only if its connection broke.                     *)
PostedRight ==
    \A n \in DOMAIN posted :
        LET p == posted[n]
        IN  /\ p.src = Message[p.msg].src /\ p.dest = Message[p.msg].dest
            /\ p.data = Size \/ p.msg \in failed
            /\ \A k \in DOMAIN posted : posted[k].msg = p.msg => k = n

(* Both threads go on, and ns-3 gets round to every event that it has       *)
(* scheduled.  A mutex that stays free is taken; std::mutex does not        *)
(* promise that a thread which waits for one gets it in the end.            *)
MainNext == Join \/ LockQueue \/ PopQueue \/ LockToPost \/ Post

Fairness ==
    /\ WF_vars(ListenerNext) /\ WF_vars(MainNext)
    /\ SF_vars(ProcessQueuedMessages)
    /\ \A i \in Msg : Message[i].src \in Host /\ ~Malformed(i) => SF_vars(Event(i))

FairSpec == Spec /\ Fairness

(* A thread waits for a mutex for ever, while the other one is seen with it *)
(* time and again: post() for simClientMutex, which the listener locks      *)
(* again at once or keeps when fetch() spins; the push for queueMutex,      *)
(* which the main thread comes back to, message or not.                     *)
PassedOver ==
    \/ <>[](main = "lock") /\ []<>(simClientMutex = "listener")
    \/ <>[](listener = "push") /\ []<>(queueMutex = "main")

(* A message that was fetched is posted, unless its connection fails, there *)
(* is no such host, the program is ended or polls a daemon that has gone,   *)
(* or a thread is passed over at a mutex, which std::mutex allows.  Nothing *)
(* else on the way from the listener through messageQueue and the TCP       *)
(* connection to post() leaves a message behind.                            *)
Carried ==
    \A i \in Msg :
        PassedOver \/ (i <= nfetched ~> (\/ \E n \in DOMAIN posted : posted[n].msg = i
                                         \/ i \in failed \/ Receiver(i) = {}
                                         \/ main \in {"join", "exited", "crashed", "spin"}))

(* The three ways in which the join of the signal handler never ends: the   *)
(* listener waits for a mutex that the interrupted main thread holds (in    *)
(* post(), or while it takes from the queue), or fetch() spins on the       *)
(* connection of a daemon that has gone.                                    *)
Stuck ==
    \/ simClientMutex = "main" /\ listener = "lock"
    \/ queueMutex = "main" /\ listener = "push"
    \/ listener = "spin"

(* A signal ends the program, but for these three: whatever else the two    *)
(* threads are doing when it comes, the listener sees listenerRunning fall  *)
(* and is joined.                                                           *)
ShutdownEnds == main = "join" ~> (main = "exited" \/ Stuck)
=============================================================================
