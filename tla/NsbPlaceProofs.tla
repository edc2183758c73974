--------------------------- MODULE NsbPlaceProofs ---------------------------
(***************************************************************************)
(* OnePlace, for every set of clients, every bound, both modes, with and   *)
(* without a database, and with clients and daemon ending at any time.     *)
(*                                                                         *)
(* Places(p) is split into boxes: a channel in one direction, a buffer of  *)
(* the daemon, the network, what a client received.  Unique(p) says that   *)
(* one box at most holds p, and holds it once.  Every step is one of a few *)
(* kinds (DataSteps): one that moves p takes it out of the box it was in.  *)
(* KeysKnown keeps a key from standing for a payload stored after it.      *)
(***************************************************************************)
EXTENDS NsbSafetyProofs, FiniteSetTheorems

Bears(m) == m.body.kind \in {"payload", "msg_key"}

-----------------------------------------------------------------------------
(* Sequences.                                                              *)

(* erase leaves no more than there was, and nothing if it erased the only hit. *)
LEMMA HitsErase ==
    ASSUME NEW T, NEW s \in Seq(T), NEW i \in DOMAIN s, NEW C
    PROVE  /\ Fewer(Hits(s, C), Hits(RemoveAt(s, i), C))
           /\ s[i] \in C /\ Single(Hits(s, C)) => Hits(RemoveAt(s, i), C) = {} /\ Hits(s, C) # {}
           /\ \A j \in DOMAIN RemoveAt(s, i) : \E k \in DOMAIN s : RemoveAt(s, i)[j] = s[k]
<1> DEFINE t == RemoveAt(s, i)
           from(j) == IF j < i THEN j ELSE j + 1
<1>1. /\ DOMAIN t = 1 .. (Len(s) - 1)
      /\ \A j \in 1 .. (Len(s) - 1) : t[j] = IF j < i THEN s[j] ELSE s[j + 1]
  BY RemoveAtElements
<1>2. Len(s) \in Nat /\ DOMAIN s = 1 .. Len(s) /\ i \in Nat
  OBVIOUS
<1> HIDE DEF t
<1>3. \A j \in DOMAIN t : from(j) \in DOMAIN s /\ from(j) # i /\ t[j] = s[from(j)]
  BY <1>1, <1>2
<1>4. \A j, k \in DOMAIN t : from(j) = from(k) => j = k
  BY <1>1, <1>2
<1> HIDE DEF from
<1>5. \A j \in Hits(t, C) : j \in DOMAIN t /\ from(j) \in Hits(s, C) /\ from(j) # i
  BY <1>3 DEF Hits
<1>6. Fewer(Hits(s, C), Hits(t, C))
  BY <1>4, <1>5 DEF Fewer, Single
<1>7. s[i] \in C => i \in Hits(s, C)
  BY DEF Hits
<1>8. s[i] \in C /\ Single(Hits(s, C)) => Hits(t, C) = {} /\ Hits(s, C) # {}
  BY <1>5, <1>7 DEF Single
<1> QED BY <1>3, <1>6, <1>8 DEF t

(* The body of what is parsed is the body of one of the messages read. *)
LEMMA ParseBody ==
    ASSUME NEW s \in Seq(nsbm), NEW n \in 1 .. Len(s)
    PROVE  \E i \in 1 .. n : s[i] \in nsbm /\ Parse(Read(s, n)).body = s[i].body
<1> DEFINE r == Read(s, n)
           q == [i \in DOMAIN r |-> r[i].body]
           set == {i \in DOMAIN q : q[i] # NoBody}
<1>1. DOMAIN r = 1 .. n /\ n \in Nat /\ \A i \in 1 .. n : r[i] = s[i] /\ s[i] \in nsbm
  BY DEF Read
<1>2. Parse(r).body = LastSet(q, NoBody)
  BY DEF Parse
<1> HIDE DEF r
<1>3. DOMAIN q = 1 .. n /\ \A i \in 1 .. n : q[i] = s[i].body
  BY <1>1
<1> HIDE DEF q
<1>4. CASE set = {}
  <2>1. LastSet(q, NoBody) = NoBody /\ 1 \in 1 .. n
    BY <1>1, <1>4 DEF LastSet
  <2>2. q[1] = NoBody
    BY <1>3, <1>4, <2>1
  <2> QED BY <1>1, <1>2, <1>3, <2>1, <2>2 DEF r
<1>5. CASE set # {}
  <2>1. LastIn(set) \in set
    BY <1>1, <1>3, <1>5, LastIsLast
  <2>2. LastSet(q, NoBody) = q[LastIn(set)]
    BY <1>5 DEF LastSet
  <2> QED BY <1>1, <1>2, <1>3, <2>1, <2>2 DEF r
<1> QED BY <1>4, <1>5

-----------------------------------------------------------------------------
(* The kinds of steps.                                                     *)

dataVars == <<tx_buffer, rx_buffer, db, nsent, fetched, posted, received>>

(* A stream loses its beginning, or gets a message without a payload. *)
Quiet(s, t) ==
    Suffix(s, t) \/ \E m \in nsbm : ~Bears(m) /\ m.code # "MESSAGE" /\ t = Append(s, m)

(* An answer without a payload has no metadata either. *)
Plainly(s, t) == Quiet(s, t) /\ (Suffix(s, t) \/ \E m \in nsbm : m.metadata = NoMetadata /\ t = Append(s, m))

QuietStep ==
    /\ \A k \in Conn : Quiet(up[k], up'[k]) /\ Plainly(down[k], down'[k])
    /\ UNCHANGED dataVars

Writes(k, m) == down' = down \/ down' = [down EXCEPT ![k] = Append(@, m)]

(* The daemon reads n messages of connection k, and makes m of them. *)
DaemonReads(k, n, m) ==
    /\ n \in 1 .. Len(up[k]) /\ m = Parse(Read(up[k], n))
    /\ up' = [up EXCEPT ![k] = Unread(@, n)]
    /\ UNCHANGED <<db, nsent, fetched, posted, received>>

SendStep(k, n, m) ==
    /\ DaemonReads(k, n, m) /\ m.op = "SEND" /\ SystemMode = "PULL"
    /\ tx_buffer' = Append(tx_buffer, Entry(UseDB, m))
    /\ UNCHANGED <<rx_buffer, down>>

PostStep(k, n, m) ==
    /\ DaemonReads(k, n, m) /\ m.op = "POST" /\ SystemMode = "PULL"
    /\ rx_buffer' = Append(rx_buffer, Entry(UseDB, m))
    /\ UNCHANGED <<tx_buffer, down>>

FetchStep(k, n, m) ==
    /\ DaemonReads(k, n, m) /\ m.op = "FETCH"
    /\ \E i \in DOMAIN tx_buffer :
          /\ m.metadata.src \in {"", tx_buffer[i].source}
          /\ \A j \in 1 .. (i - 1) : m.metadata.src \notin {"", tx_buffer[j].source}
          /\ tx_buffer' = RemoveAt(tx_buffer, i)
          /\ Writes(k, EntryReply("FETCH", tx_buffer[i]))
    /\ UNCHANGED rx_buffer

ReceiveStep(k, n, m) ==
    /\ DaemonReads(k, n, m) /\ m.op = "RECEIVE"
    /\ \E i \in DOMAIN rx_buffer :
          /\ m.metadata.dest \in {"", rx_buffer[i].destination}
          /\ \A j \in 1 .. (i - 1) : m.metadata.dest \notin {"", rx_buffer[j].destination}
          /\ rx_buffer' = RemoveAt(rx_buffer, i)
          /\ Writes(k, EntryReply("RECEIVE", rx_buffer[i]))
    /\ UNCHANGED tx_buffer

ForwardStep(k, n, m) ==
    /\ DaemonReads(k, n, m) /\ m.op \in {"SEND", "POST"} /\ SystemMode = "PUSH"
    /\ \E j \in Conn : Writes(j, [m EXCEPT !.op = "FORWARD"])
    /\ UNCHANGED <<tx_buffer, rx_buffer>>

HandlerStepKind(k, n, m) ==
    \/ SendStep(k, n, m) \/ PostStep(k, n, m) \/ FetchStep(k, n, m) \/ ReceiveStep(k, n, m)
    \/ ForwardStep(k, n, m)

(* A call of client c returns with the payload of m. *)
ClientReads(c, n, m) ==
    /\ n \in 1 .. Len(down[<<c, "RECV">>]) /\ m = Response(c, "RECV", n)
    /\ m.code = "MESSAGE"
    /\ down' = [down EXCEPT ![<<c, "RECV">>] = Unread(@, n)]
    /\ db' = AfterCheckOut(c, m)
    /\ UNCHANGED <<up, tx_buffer, rx_buffer, nsent, posted>>

ReceivedStep(c, n, m) ==
    /\ ClientReads(c, n, m) /\ pc[c] = "recvWait"
    /\ received' = IF exists(Returned(c, m)) THEN [received EXCEPT ![c] = Append(@, Returned(c, m))]
                                             ELSE received
    /\ UNCHANGED fetched

FetchedStep(c, n, m) ==
    /\ ClientReads(c, n, m) /\ pc[c] = "fetchWait"
    /\ fetched' = IF exists(Returned(c, m)) THEN [fetched EXCEPT ![c] = Append(@, Returned(c, m))]
                                            ELSE fetched
    /\ UNCHANGED received

ClientStepKind(c) ==
    \/ \E n \in Nat, m \in nsbm : ReceivedStep(c, n, m) \/ FetchedStep(c, n, m)
    \/ \E d \in SendTo[c] : send(c, d)
    \/ \E e \in Network : post(c, e)

(* No step of the data happens where both streams stay or lose messages. *)
LEMMA QuietIfRead ==
    ASSUME TypeOK, UNCHANGED dataVars,
           \A k \in Conn : up'[k] = up[k] \/ Suffix(up[k], up'[k]),
           \A k \in Conn : down'[k] = down[k] \/ Suffix(down[k], down'[k])
    PROVE  QuietStep
<1>1. \A k \in Conn : up[k] \in Seq(nsbm) /\ down[k] \in Seq(nsbm)
  BY DEF TypeOK, SocketsTypeOK
<1>2. \A k \in Conn : Suffix(up[k], up[k]) /\ Suffix(down[k], down[k])
  BY <1>1, SuffixFacts
<1> QED BY <1>2 DEF QuietStep, Quiet, Plainly

(* A request of a client carries no payload. *)
LEMMA QuietIfAsked ==
    ASSUME TypeOK, NEW c \in Client, NEW ch \in Channel, NEW m \in nsbm, SendMessage(c, ch, m),
           ~Bears(m), m.code # "MESSAGE", UNCHANGED dataVars, UNCHANGED down
    PROVE  QuietStep
<1>1. \A k \in Conn : up[k] \in Seq(nsbm) /\ down[k] \in Seq(nsbm)
  BY DEF TypeOK, SocketsTypeOK
<1>2. \A k \in Conn : Suffix(up[k], up[k]) /\ Suffix(down[k], down[k])
  BY <1>1, SuffixFacts
<1>3. \A k \in Conn : up'[k] = up[k] \/ up'[k] = Append(up[k], m)
  BY ConnFacts DEF SendMessage, UpAfterSend, TypeOK, SocketsTypeOK
<1> QED BY <1>2, <1>3 DEF QuietStep, Quiet, Plainly

(* An answer of the daemon without a payload. *)
LEMMA QuietIfAnswered ==
    ASSUME TypeOK, UNCHANGED dataVars,
           NEW r \in nsbm, ~Bears(r), r.code # "MESSAGE", r.metadata = NoMetadata,
           NEW k \in Conn, Writes(k, r),
           \A j \in Conn : up'[j] = up[j] \/ Suffix(up[j], up'[j])
    PROVE  QuietStep
<1>1. \A j \in Conn : up[j] \in Seq(nsbm) /\ down[j] \in Seq(nsbm)
  BY DEF TypeOK, SocketsTypeOK
<1>2. \A j \in Conn : Suffix(up[j], up[j]) /\ Suffix(down[j], down[j])
  BY <1>1, SuffixFacts
<1>3. \A j \in Conn : down'[j] = down[j] \/ down'[j] = Append(down[j], r)
  BY DEF Writes, TypeOK, SocketsTypeOK
<1>4. \A j \in Conn : Quiet(up[j], up'[j]) /\ Quiet(down[j], down'[j])
  BY <1>2, <1>3 DEF Quiet
<1> QED BY <1>2, <1>3, <1>4 DEF QuietStep, Plainly

(* The daemon's send() writes the message, or nothing. *)
LEMMA SendWrites ==
    ASSUME NEW k, NEW m, SocketSend(k, m) \/ NoSend
    PROVE  Writes(k, m)
BY DEF SocketSend, NoSend, Writes

(* What is not sent with a payload does not bear one. *)
LEMMA PlainMessages ==
    /\ \A op, og, code : /\ ~Bears(Bare(op, og, code)) /\ Bare(op, og, code).code = code
                         /\ Bare(op, og, code).metadata = NoMetadata
    /\ \A b : ~Bears(InitReply(b)) /\ InitReply(b).code # "MESSAGE" /\ InitReply(b).metadata = NoMetadata
    /\ \A c : ~Bears(IntroMessage(c)) /\ IntroMessage(c).code # "MESSAGE"
    /\ InitReply(TRUE) \in nsbm /\ InitReply(FALSE) \in nsbm
<1>1. [kind |-> "config", val |-> NoValue] \in Body
  BY MessageTypes DEF Body
<1>2. Bare("INIT", "DAEMON", "SUCCESS") \in nsbm /\ Bare("INIT", "DAEMON", "FAILURE") \in nsbm
  BY MessageTypes DEF Op, Og, Code
<1>3. InitReply(TRUE) \in nsbm /\ InitReply(FALSE) \in nsbm
  BY <1>1, <1>2 DEF InitReply, nsbm
<1> QED BY <1>3 DEF Bears, Bare, NoBody, InitReply, IntroMessage

(* Every handler is one of the kinds. *)
LEMMA HandlerKinds ==
    ASSUME TypeInv, NEW f \in read_fds \cap OpenFds, NEW n \in 1 .. Len(up[fd_table[f]]),
           Handle(f, n), UNCHANGED clientVars
    PROVE  \/ QuietStep
           \/ LET m == Incoming(f, n)
              IN  m \in nsbm /\ fd_table[f] \in Conn /\ HandlerStepKind(fd_table[f], n, m)
<1> DEFINE m == Incoming(f, n)
           k == fd_table[f]
<1>0. TypeOK
  BY DEF TypeInv
<1>1. Receive(f, n)
  BY DEF Handle, handle_init, handle_ping, handle_send, handle_fetch, handle_post,
         handle_receive, handle_exit
<1>2. m \in nsbm /\ k \in Conn
  BY <1>0, <1>1, ReadOutcome
<1>3. UNCHANGED <<db, nsent, fetched, posted, received>>
  BY DEF clientVars, logVars
<1>4. /\ up' = [up EXCEPT ![k] = Unread(@, n)] /\ DaemonReads(k, n, m)
  BY <1>1, <1>3 DEF Receive, DaemonReads, Incoming
<1>5. \A j \in Conn : up'[j] = up[j] \/ Suffix(up[j], up'[j])
  <2>1. up \in [Conn -> Seq(nsbm)] /\ up[k] \in Seq(nsbm) /\ n \in 0 .. Len(up[k])
    BY <1>0, <1>2 DEF TypeOK, SocketsTypeOK
  <2>2. Suffix(up[k], Unread(up[k], n))
    BY <2>1, SuffixFacts
  <2> QED BY <1>2, <1>4, <2>1, <2>2
<1>6. tx_buffer \in Seq(MessageEntry) /\ rx_buffer \in Seq(MessageEntry)
  BY <1>0 DEF TypeOK, DaemonTypeOK
<1> HIDE DEF m, k
<1>7. ASSUME NEW r \in nsbm, ~Bears(r), r.code # "MESSAGE", r.metadata = NoMetadata,
             Reply(f, r), UNCHANGED bufferVars
      PROVE  QuietStep
  <2>1. Writes(k, r)
    BY <1>7, SendWrites DEF Reply, k
  <2>2. UNCHANGED dataVars
    BY <1>3, <1>7 DEF dataVars, bufferVars
  <2> QED BY <1>0, <1>2, <1>5, <1>7, <2>1, <2>2, QuietIfAnswered
<1>8. ASSUME UNCHANGED down, UNCHANGED bufferVars PROVE QuietStep
  <2>1. UNCHANGED dataVars
    BY <1>3, <1>8 DEF dataVars, bufferVars
  <2> QED BY <1>0, <1>5, <1>8, <2>1, QuietIfRead
<1>9. ASSUME NEW op \in {"FETCH", "RECEIVE"}, NEW e, ~exists(e)
      PROVE  /\ EntryReply(op, e) \in nsbm /\ ~Bears(EntryReply(op, e))
             /\ EntryReply(op, e).code # "MESSAGE" /\ EntryReply(op, e).metadata = NoMetadata
  BY <1>9, MessageTypes, PlainMessages DEF EntryReply, Op, Og, Code
<1>10. CASE handle_init(f, n)
  BY <1>10, <1>7, PlainMessages DEF handle_init
<1>11. CASE handle_ping(f, n)
  <2>1. Bare("PING", "DAEMON", "SUCCESS") \in nsbm
    BY MessageTypes DEF Op, Og, Code
  <2> QED BY <1>11, <1>7, <2>1, PlainMessages DEF handle_ping
<1>12. CASE handle_exit(f, n)
  BY <1>12, <1>8 DEF handle_exit
<1>13. CASE handle_send(f, n)
  <2>1. m.op = "SEND" /\ UNCHANGED rx_buffer
    BY <1>13 DEF handle_send, m
  <2>2. CASE SystemMode = "PULL"
    <3>1. tx_buffer' = Append(tx_buffer, Entry(UseDB, m)) /\ UNCHANGED down
      BY <1>13, <2>2 DEF handle_send, NoSend, m
    <3>2. SendStep(k, n, m)
      BY <1>4, <2>1, <2>2, <3>1 DEF SendStep
    <3> QED BY <1>2, <3>2 DEF HandlerStepKind, k, m
  <2>3. CASE SystemMode # "PULL"
    <3>1. SystemMode = "PUSH" /\ ForwardToSim(m) /\ UNCHANGED tx_buffer
      BY <1>13, <2>3 DEF handle_send, m
    <3>2. \E j \in Conn : Writes(j, [m EXCEPT !.op = "FORWARD"])
      <4>1. CASE UNCHANGED down
        BY <1>2, <4>1 DEF Writes
      <4>2. ASSUME NEW fd, fd_table[fd] \in Conn, SocketSend(fd_table[fd], [m EXCEPT !.op = "FORWARD"])
            PROVE  \E j \in Conn : Writes(j, [m EXCEPT !.op = "FORWARD"])
        BY <4>2, SendWrites
      <4>3. CASE /\ TargetSim(m) \in DOMAIN sim_client_lookup
                 /\ sim_client_lookup[TargetSim(m)]["RECV"] # NoFd
                 /\ Forward(sim_client_lookup[TargetSim(m)]["RECV"], m)
        <5> DEFINE fd == sim_client_lookup[TargetSim(m)]["RECV"]
        <5>1. fd \in Fd
          <6>1. sim_client_lookup[TargetSim(m)] \in ClientDetails
            BY <1>0, <4>3 DEF TypeOK, DaemonTypeOK, IsMap
          <6> QED BY <4>3, <6>1 DEF ClientDetails, Channel
        <5>2. fd_table[fd] \in Conn \cup {NoConn}
          BY <1>0, <5>1 DEF TypeOK, SocketsTypeOK
        <5> QED BY <4>1, <4>2, <4>3, <5>2 DEF Forward, NoSend
      <4> QED BY <3>1, <4>1, <4>3 DEF ForwardToSim, Undefined
    <3>3. ForwardStep(k, n, m)
      BY <1>4, <2>1, <3>1, <3>2 DEF ForwardStep
    <3> QED BY <1>2, <3>3 DEF HandlerStepKind, k, m
  <2> QED BY <2>2, <2>3
<1>14. CASE handle_post(f, n)
  <2>1. m.op = "POST" /\ UNCHANGED tx_buffer
    BY <1>14 DEF handle_post, m
  <2>2. CASE SystemMode = "PULL"
    <3>1. /\ rx_buffer' = (IF m.code = "MESSAGE" THEN Append(rx_buffer, Entry(UseDB, m)) ELSE rx_buffer)
          /\ UNCHANGED down
      BY <1>14, <2>2 DEF handle_post, NoSend, m
    <3>2. CASE m.code = "MESSAGE"
      <4>1. PostStep(k, n, m)
        BY <1>4, <2>1, <2>2, <3>1, <3>2 DEF PostStep
      <4> QED BY <1>2, <4>1 DEF HandlerStepKind, k, m
    <3>3. CASE m.code # "MESSAGE"
      BY <1>8, <2>1, <3>1, <3>3 DEF bufferVars
    <3> QED BY <3>2, <3>3
  <2>3. CASE SystemMode # "PULL"
    <3>1. SystemMode = "PUSH" /\ UNCHANGED rx_buffer
      BY <1>14, <2>3 DEF handle_post
    <3> DEFINE fd == PostTarget(m)
    <3>2. NoSend \/ (fd # NoFd /\ Forward(fd, m))
      BY <1>14, <2>3 DEF handle_post, m
    <3>3. \E j \in Conn : Writes(j, [m EXCEPT !.op = "FORWARD"])
      <4>1. CASE NoSend
        BY <1>2, <4>1 DEF Writes, NoSend
      <4>2. CASE fd # NoFd /\ Forward(fd, m)
        <5>1. fd \in Fd
          <6>1. \A i \in DOMAIN app_client_lookup : app_client_lookup[i] \in ClientDetails
            BY <1>0 DEF TypeOK, DaemonTypeOK, IsMap
          <6> QED BY <4>2, <6>1 DEF ClientDetails, Channel, PostTarget
        <5>2. fd_table[fd] \in Conn \cup {NoConn}
          BY <1>0, <5>1 DEF TypeOK, SocketsTypeOK
        <5> QED BY <4>1, <4>2, <5>2, SendWrites DEF Forward
      <4> QED BY <3>2, <4>1, <4>2
    <3>4. ForwardStep(k, n, m)
      BY <1>4, <2>1, <3>1, <3>3 DEF ForwardStep
    <3> QED BY <1>2, <3>4 DEF HandlerStepKind, k, m
  <2> QED BY <2>2, <2>3
<1>15. CASE handle_fetch(f, n)
  <2>1. m.op = "FETCH" /\ UNCHANGED rx_buffer
    BY <1>15 DEF handle_fetch, m
  <2>2. CASE FetchMatches(m) # {}
    <3> DEFINE i == FirstIn(FetchMatches(m))
    <3>1. tx_buffer' = RemoveAt(tx_buffer, i) /\ Reply(f, EntryReply("FETCH", tx_buffer[i]))
      BY <1>15, <2>2 DEF handle_fetch, erase, m
    <3>2. i \in FetchMatches(m)
      <4>1. Len(tx_buffer) \in Nat /\ DOMAIN tx_buffer = 1 .. Len(tx_buffer)
        BY <1>6
      <4>2. FetchMatches(m) \subseteq 1 .. Len(tx_buffer)
        BY <4>1 DEF FetchMatches
      <4> QED BY <2>2, <4>1, <4>2, FirstInType
    <3>3. i \in DOMAIN tx_buffer /\ m.metadata.src \in {"", tx_buffer[i].source} /\ m.metadata.has
      BY <3>2 DEF FetchMatches
    <3>6. \A j \in 1 .. (i - 1) : m.metadata.src \notin {"", tx_buffer[j].source}
      <4>1. Len(tx_buffer) \in Nat /\ DOMAIN tx_buffer = 1 .. Len(tx_buffer)
        BY <1>6
      <4>2. FetchMatches(m) \subseteq 1 .. Len(tx_buffer)
        BY <4>1 DEF FetchMatches
      <4>3. \A j \in FetchMatches(m) : i <= j
        BY <2>2, <4>1, <4>2, FirstInType
      <4>4. i \in 1 .. Len(tx_buffer)
        BY <3>2, <4>2
      <4> HIDE DEF i
      <4>5. \A j \in 1 .. (i - 1) : j \in 1 .. Len(tx_buffer) /\ ~(i <= j)
        BY <4>1, <4>4
      <4> QED BY <3>3, <4>1, <4>3, <4>5 DEF FetchMatches
    <3>4. Writes(k, EntryReply("FETCH", tx_buffer[i]))
      BY <3>1, SendWrites DEF Reply, k
    <3>5. FetchStep(k, n, m)
      BY <1>4, <2>1, <3>1, <3>3, <3>4, <3>6 DEF FetchStep
    <3> QED BY <1>2, <3>5 DEF HandlerStepKind, k, m
  <2>3. CASE FetchMatches(m) = {}
    <3>1. UNCHANGED tx_buffer /\ Reply(f, EntryReply("FETCH", NoEntry)) /\ ~exists(NoEntry)
      BY <1>15, <2>3 DEF handle_fetch, m, exists, NoEntry
    <3> QED BY <1>7, <1>9, <2>1, <3>1 DEF bufferVars
  <2> QED BY <2>2, <2>3
<1>16. CASE handle_receive(f, n)
  <2>1. m.op = "RECEIVE" /\ UNCHANGED tx_buffer
    BY <1>16 DEF handle_receive, m
  <2>2. CASE ReceiveMatches(m) # {}
    <3> DEFINE i == FirstIn(ReceiveMatches(m))
    <3>1. rx_buffer' = RemoveAt(rx_buffer, i) /\ Reply(f, EntryReply("RECEIVE", rx_buffer[i]))
      BY <1>16, <2>2 DEF handle_receive, erase, m
    <3>2. i \in ReceiveMatches(m)
      <4>1. Len(rx_buffer) \in Nat /\ DOMAIN rx_buffer = 1 .. Len(rx_buffer)
        BY <1>6
      <4>2. ReceiveMatches(m) \subseteq 1 .. Len(rx_buffer)
        BY <4>1 DEF ReceiveMatches
      <4> QED BY <2>2, <4>1, <4>2, FirstInType
    <3>3. i \in DOMAIN rx_buffer /\ m.metadata.dest \in {"", rx_buffer[i].destination} /\ m.metadata.has
      BY <3>2 DEF ReceiveMatches
    <3>6. \A j \in 1 .. (i - 1) : m.metadata.dest \notin {"", rx_buffer[j].destination}
      <4>1. Len(rx_buffer) \in Nat /\ DOMAIN rx_buffer = 1 .. Len(rx_buffer)
        BY <1>6
      <4>2. ReceiveMatches(m) \subseteq 1 .. Len(rx_buffer)
        BY <4>1 DEF ReceiveMatches
      <4>3. \A j \in ReceiveMatches(m) : i <= j
        BY <2>2, <4>1, <4>2, FirstInType
      <4>4. i \in 1 .. Len(rx_buffer)
        BY <3>2, <4>2
      <4> HIDE DEF i
      <4>5. \A j \in 1 .. (i - 1) : j \in 1 .. Len(rx_buffer) /\ ~(i <= j)
        BY <4>1, <4>4
      <4> QED BY <3>3, <4>1, <4>3, <4>5 DEF ReceiveMatches
    <3>4. Writes(k, EntryReply("RECEIVE", rx_buffer[i]))
      BY <3>1, SendWrites DEF Reply, k
    <3>5. ReceiveStep(k, n, m)
      BY <1>4, <2>1, <3>1, <3>3, <3>4, <3>6 DEF ReceiveStep
    <3> QED BY <1>2, <3>5 DEF HandlerStepKind, k, m
  <2>3. CASE ReceiveMatches(m) = {}
    <3>1. UNCHANGED rx_buffer /\ Reply(f, EntryReply("RECEIVE", NoEntry)) /\ ~exists(NoEntry)
      BY <1>16, <2>3 DEF handle_receive, m, exists, NoEntry
    <3> QED BY <1>7, <1>9, <2>1, <3>1 DEF bufferVars
  <2> QED BY <2>2, <2>3
<1> QED BY <1>10, <1>11, <1>12, <1>13, <1>14, <1>15, <1>16 DEF Handle

(* Every step of a client is one of the kinds. *)
LEMMA ClientKinds ==
    ASSUME TypeInv, NEW c \in Client, ClientNext(c)
    PROVE  QuietStep \/ ClientStepKind(c)
<1>0. TypeOK /\ up \in [Conn -> Seq(nsbm)] /\ down \in [Conn -> Seq(nsbm)]
  BY DEF TypeInv, TypeOK, SocketsTypeOK
<1>1. ASSUME CloseConnections(c, down) \/ \E n : CloseConnections(c, [down EXCEPT ![<<c, "CTRL">>] = Unread(@, n)]),
             UNCHANGED up, UNCHANGED dataVars
      PROVE  QuietStep
  <2>1. \A k \in Conn : down'[k] = down[k] \/ down'[k] = <<>>
    BY <1>1 DEF CloseConnections
  <2>2. \A k \in Conn : Suffix(down[k], <<>>)
    BY <1>0, SuffixFacts
  <2> QED BY <1>0, <1>1, <2>1, <2>2, QuietIfRead
<1>2. ASSUME NEW ch \in Channel, NEW n, TakeFrom(c, ch, n), UNCHANGED up, UNCHANGED dataVars
      PROVE  QuietStep
  <2>1. n \in 0 .. Len(down[<<c, ch>>]) /\ <<c, ch>> \in Conn /\ down[<<c, ch>>] \in Seq(nsbm)
    BY <1>0, <1>2, ConnFacts DEF TakeFrom
  <2>2. Suffix(down[<<c, ch>>], Unread(down[<<c, ch>>], n))
    BY <2>1, SuffixFacts
  <2>3. \A k \in Conn : down'[k] = down[k] \/ Suffix(down[k], down'[k])
    BY <1>0, <1>2, <2>1, <2>2 DEF TakeFrom
  <2> QED BY <1>0, <1>2, <2>3, QuietIfRead
<1>3. ASSUME UNCHANGED <<up, down>>, UNCHANGED dataVars PROVE QuietStep
  BY <1>0, <1>3, QuietIfRead
<1>4. ASSUME NEW ch \in Channel, NEW m \in nsbm, SendMessage(c, ch, m), ~Bears(m), m.code # "MESSAGE",
             UNCHANGED down, UNCHANGED dataVars
      PROVE  QuietStep
  BY <1>0, <1>4, QuietIfAsked
<1>5. CASE \E ch \in Channel : ConnectChannel(c, ch)
  BY <1>3, <1>5 DEF ConnectChannel, daemonVars, bufferVars, logVars, dataVars
<1>6. CASE ConnectFails(c) \/ Close(c) \/ BrokenPipe(c)
  BY <1>1, <1>6 DEF ConnectFails, Close, BrokenPipe, daemonVars, bufferVars, logVars, dataVars
<1>7. CASE initialize(c)
  <2>1. IntroMessage(c) \in nsbm
    BY BareTypes DEF Op
  <2> QED BY <1>4, <1>7, <2>1, PlainMessages
          DEF initialize, socketsButUp, daemonVars, bufferVars, logVars, dataVars, Channel
<1>8. CASE InitTimeout(c)
  <2>1. UNCHANGED up /\ UNCHANGED dataVars
    BY <1>8 DEF InitTimeout, daemonVars, bufferVars, logVars, dataVars
  <2> QED BY <1>1, <1>3, <1>8, <2>1 DEF InitTimeout
<1>9. CASE ping(c) \/ exit(c)
  <2>1. \A op \in Op : Bare(op, Orig[c], "SUCCESS") \in nsbm
    BY BareTypes
  <2> QED BY <1>4, <1>9, <2>1, PlainMessages
          DEF ping, exit, socketsButUp, daemonVars, bufferVars, logVars, dataVars, Channel, Op
<1>10. CASE WaitTimeout(c)
  BY <1>3, <1>10 DEF WaitTimeout, socketVars, daemonVars, bufferVars, logVars, dataVars
<1>11. CASE WaitEof(c)
  <2>1. UNCHANGED up /\ UNCHANGED dataVars
    BY <1>11 DEF WaitEof, daemonVars, bufferVars, logVars, dataVars
  <2> QED BY <1>1, <1>3, <1>11, <2>1 DEF WaitEof
<1>12. CASE \E d \in ReceiveAs \cup {Ident[c]} : receive(c, d)
  <2>1. PICK d \in ReceiveAs \cup {Ident[c]} : receive(c, d)
    BY <1>12
  <2> DEFINE m == [Bare("RECEIVE", Orig[c], "SUCCESS") EXCEPT !.metadata = Route("", d)]
  <2>2. UNCHANGED down /\ UNCHANGED dataVars
    BY <2>1 DEF receive, socketsButUp, daemonVars, bufferVars, logVars, dataVars
  <2>3. ~Bears(m) /\ m.code # "MESSAGE"
    BY DEF Bears, Bare, NoBody
  <2>4. m \in nsbm
    <3>1. d \in Id /\ "" \in Id
      BY ClientAssumption, WireAssumption DEF Id, Identifier
    <3>2. Route("", d) \in Metadata /\ Bare("RECEIVE", Orig[c], "SUCCESS") \in nsbm
      BY <3>1, MessageTypes, BareTypes DEF Op
    <3> QED BY <3>2 DEF nsbm
  <2>5. UNCHANGED up \/ SendMessage(c, "RECV", m)
    BY <2>1 DEF receive
  <2> HIDE DEF m
  <2> QED BY <1>3, <1>4, <2>2, <2>3, <2>4, <2>5 DEF Channel
<1>13. CASE \E s \in FetchFrom : fetch(c, s)
  <2>1. PICK s \in FetchFrom : fetch(c, s)
    BY <1>13
  <2> DEFINE m == [Bare("FETCH", Orig[c], "SUCCESS") EXCEPT !.metadata = FetchMetadata(c, s)]
  <2>2. UNCHANGED down /\ UNCHANGED dataVars
    BY <2>1 DEF fetch, socketsButUp, daemonVars, bufferVars, logVars, dataVars
  <2>3. ~Bears(m) /\ m.code # "MESSAGE"
    BY DEF Bears, Bare, NoBody
  <2>4. m \in nsbm
    <3>1. s \in Id /\ "" \in Id /\ Ident[c] \in Id
      BY ClientAssumption, WireAssumption DEF Id, Identifier
    <3>2. FetchMetadata(c, s) \in Metadata /\ Bare("FETCH", Orig[c], "SUCCESS") \in nsbm
      BY <3>1, MessageTypes, BareTypes DEF Op, FetchMetadata
    <3> QED BY <3>2 DEF nsbm
  <2>5. UNCHANGED up \/ SendMessage(c, "RECV", m)
    BY <2>1 DEF fetch
  <2> HIDE DEF m
  <2> QED BY <1>3, <1>4, <2>2, <2>3, <2>4, <2>5 DEF Channel
<1>14. CASE Responded(c)
  <2>1. PICK n \in 1 .. Len(down[<<c, WaitChannel(c)>>]) :
            InitReturn(c, n) \/ PingReturn(c, n) \/ ReceiveReturn(c, n) \/ FetchReturn(c, n)
    BY <1>14 DEF Responded
  <2>2. CASE InitReturn(c, n)
    <3>1. UNCHANGED up /\ UNCHANGED dataVars
      BY <2>2 DEF InitReturn, daemonVars, bufferVars, logVars, dataVars
    <3>2. \/ TakeFrom(c, "CTRL", n)
          \/ CloseConnections(c, [down EXCEPT ![<<c, "CTRL">>] = Unread(@, n)])
      BY <2>2 DEF InitReturn
    <3> QED BY <1>1, <1>2, <3>1, <3>2 DEF Channel
  <2>3. CASE PingReturn(c, n)
    BY <1>2, <2>3 DEF PingReturn, socketsButDown, daemonVars, bufferVars, logVars, dataVars, Channel
  <2> DEFINE m == Response(c, "RECV", n)
  <2>4. ASSUME TakeFrom(c, "RECV", n) PROVE n \in Nat /\ n \in 1 .. Len(down[<<c, "RECV">>]) /\ m \in nsbm
    <3>1. n \in 1 .. Len(down[<<c, "RECV">>]) /\ "RECV" \in Channel
      BY <2>4 DEF TakeFrom, Channel
    <3> QED BY <1>0, <2>4, <3>1, TakeFromType
  <2>5. CASE ReceiveReturn(c, n)
    <3> DEFINE accepted == m.code = "MESSAGE" /\ (Impl[c] = "py" \/ m.op \in {"RECEIVE", "FORWARD"})
    <3>1. /\ TakeFrom(c, "RECV", n) /\ pc[c] = "recvWait"
          /\ UNCHANGED <<up, tx_buffer, rx_buffer, nsent, fetched, posted>>
      BY <2>5 DEF ReceiveReturn, socketsButDown, daemonVars, bufferVars
    <3>2. CASE accepted
      <4>1. /\ db' = AfterCheckOut(c, m)
            /\ received' = IF exists(Returned(c, m)) THEN [received EXCEPT ![c] = Append(@, Returned(c, m))]
                                                     ELSE received
        BY <2>5, <3>2 DEF ReceiveReturn
      <4> HIDE DEF m
      <4>2. ReceivedStep(c, n, m)
        BY <2>4, <3>1, <3>2, <4>1 DEF ReceivedStep, ClientReads, TakeFrom, m
      <4> QED BY <2>4, <3>1, <4>2 DEF ClientStepKind
    <3>3. CASE ~accepted
      <4>1. UNCHANGED <<db, received>>
        BY <2>5, <3>3 DEF ReceiveReturn
      <4> QED BY <1>2, <3>1, <4>1 DEF dataVars, Channel
    <3> QED BY <3>2, <3>3
  <2>6. CASE FetchReturn(c, n)
    <3> DEFINE accepted == m.code = "MESSAGE" /\ m.op \in {"FETCH", "FORWARD"}
    <3>1. /\ TakeFrom(c, "RECV", n) /\ pc[c] = "fetchWait"
          /\ UNCHANGED <<up, tx_buffer, rx_buffer, nsent, posted, received>>
      BY <2>6 DEF FetchReturn, socketsButDown, daemonVars, bufferVars
    <3>2. CASE accepted
      <4>1. /\ db' = AfterCheckOut(c, m)
            /\ fetched' = IF exists(Returned(c, m)) THEN [fetched EXCEPT ![c] = Append(@, Returned(c, m))]
                                                    ELSE fetched
        BY <2>6, <3>2 DEF FetchReturn
      <4> HIDE DEF m
      <4>2. FetchedStep(c, n, m)
        BY <2>4, <3>1, <3>2, <4>1 DEF FetchedStep, ClientReads, TakeFrom, m
      <4> QED BY <2>4, <3>1, <4>2 DEF ClientStepKind
    <3>3. CASE ~accepted
      <4>1. UNCHANGED <<db, fetched>>
        BY <2>6, <3>3 DEF FetchReturn
      <4> QED BY <1>2, <3>1, <4>1 DEF dataVars, Channel
    <3> QED BY <3>2, <3>3
  <2> QED BY <2>1, <2>2, <2>3, <2>5, <2>6
<1>15. CASE (\E d \in SendTo[c] : send(c, d)) \/ (\E e \in Network : post(c, e))
  BY <1>15 DEF ClientStepKind
<1> QED BY <1>5, <1>6, <1>7, <1>8, <1>9, <1>10, <1>11, <1>12, <1>13, <1>14, <1>15 DEF ClientNext

(* Every step of the system is one of the kinds. *)
LEMMA DataSteps ==
    ASSUME TypeInv, [Next]_vars
    PROVE  \/ QuietStep
           \/ \E k \in Conn, n \in Nat, m \in nsbm : HandlerStepKind(k, n, m)
           \/ \E c \in Client : ClientStepKind(c)
<1>0. TypeOK /\ up \in [Conn -> Seq(nsbm)]
  BY DEF TypeInv, TypeOK, SocketsTypeOK
<1>1. ASSUME UNCHANGED <<up, down>>, UNCHANGED dataVars PROVE QuietStep
  BY <1>0, <1>1, QuietIfRead
<1>2. CASE UNCHANGED vars
  BY <1>1, <1>2 DEF vars, socketVars, daemonVars, bufferVars, clientVars, logVars, dataVars
<1>3. CASE \E c \in Client : ClientNext(c)
  BY <1>3, ClientKinds
<1>4. CASE DaemonNext /\ UNCHANGED clientVars
  <2>1. CASE Select \/ Accept \/ Shutdown
    BY <1>1, <1>4, <2>1
       DEF Select, Accept, Shutdown, socketVars, bufferVars, clientVars, logVars, dataVars
  <2>2. ASSUME NEW f \in read_fds \cap OpenFds, NEW n \in 1 .. Len(up[fd_table[f]]), Handle(f, n)
        PROVE  QuietStep \/ \E k \in Conn, j \in Nat, m \in nsbm : HandlerStepKind(k, j, m)
    <3>1. n \in Nat
      OBVIOUS
    <3> QED BY <1>4, <2>2, <3>1, HandlerKinds
  <2>3. ASSUME NEW f \in read_fds \cap OpenFds, Disconnect(f) PROVE QuietStep
    <3>1. UNCHANGED down /\ UNCHANGED dataVars /\ up' = [up EXCEPT ![fd_table[f]] = <<>>]
      BY <1>4, <2>3 DEF Disconnect, bufferVars, clientVars, logVars, dataVars
    <3>2. \A k \in Conn : Suffix(up[k], <<>>)
      BY <1>0, SuffixFacts
    <3>3. \A k \in Conn : up'[k] = up[k] \/ Suffix(up[k], up'[k])
      BY <1>0, <3>1, <3>2
    <3> QED BY <1>0, <3>1, <3>3, QuietIfRead
  <2> QED BY <1>4, <2>1, <2>2, <2>3 DEF DaemonNext
<1> QED BY <1>2, <1>3, <1>4 DEF Next

-----------------------------------------------------------------------------
(* KeysKnown.  A key that is under way was handed out by the database, and  *)
(* what is sent as such, stored or fetched is a payload that an application *)
(* may send, or the empty one, and never a key.                             *)

Plain(v) == v \in Payload \cup {NoValue} /\ v[1] # "#"
KnownBody ==
    {b \in Body : /\ b.kind = "payload" => Plain(b.val)
                  /\ b.kind = "msg_key" /\ b.val[1] = "#" => b.val[2] \in DOMAIN db}

KnownMessage == {m \in nsbm : m.body \in KnownBody}
KnownEntry == {e \in MessageEntry : PayloadBody(UseDB, e.payload_obj) \in KnownBody}
PlainEntry == {e \in MessageEntry : Plain(e.payload_obj)}
PlainValue == {v \in Value : Plain(v)}

KeysKnown ==
    /\ up \in [Conn -> Seq(KnownMessage)] /\ down \in [Conn -> Seq(KnownMessage)]
    /\ tx_buffer \in Seq(KnownEntry) /\ rx_buffer \in Seq(KnownEntry)
    /\ db \in Seq(PlainValue)
    /\ fetched \in [Client -> Seq(PlainEntry)]

(* What is known stays known while the database only grows. *)
LEMMA KnownGrows ==
    ASSUME DOMAIN db \subseteq DOMAIN db'
    PROVE  KnownMessage \subseteq KnownMessage' /\ KnownEntry \subseteq KnownEntry'
<1>1. KnownBody \subseteq KnownBody'
  BY DEF KnownBody, Plain
<1> QED BY <1>1 DEF KnownMessage, KnownEntry, PayloadBody

(* The parsed body is known, and so is the entry made of it. *)
LEMMA ParsedKnown ==
    ASSUME NEW s \in Seq(KnownMessage), NEW n \in 1 .. Len(s), NEW m \in nsbm, m = Parse(Read(s, n))
    PROVE  m \in KnownMessage /\ Entry(UseDB, m) \in KnownEntry
<1>1. s \in Seq(nsbm)
  BY SeqMono DEF KnownMessage
<1>2. PICK i \in 1 .. n : m.body = s[i].body
  BY <1>1, ParseBody
<1>3. s[i] \in KnownMessage
  OBVIOUS
<1>4. m.body \in KnownBody
  BY <1>2, <1>3 DEF KnownMessage
<1>5. Entry(UseDB, m) \in MessageEntry
  BY MessageTypes, ConfigAssumption
<1>6. PayloadBody(UseDB, PayloadOf(UseDB, m)) \in KnownBody
  <2>1. PayloadBody(UseDB, PayloadOf(UseDB, m)) \in Body
    BY MessageTypes, ConfigAssumption
  <2> QED BY <1>4, <2>1, ConfigAssumption DEF KnownBody, PayloadBody, PayloadOf, NoValue, Plain
<1>7. Entry(UseDB, m).payload_obj = PayloadOf(UseDB, m)
  BY DEF Entry
<1> QED BY <1>4, <1>5, <1>6, <1>7 DEF KnownMessage, KnownEntry

(* A reply made of a known entry is known. *)
LEMMA ReplyKnown ==
    ASSUME NEW e \in KnownEntry, NEW op \in {"FETCH", "RECEIVE"}
    PROVE  EntryReply(op, e) \in KnownMessage
<1>1. e \in MessageEntry /\ PayloadBody(UseDB, e.payload_obj) \in KnownBody
  BY DEF KnownEntry
<1>2. EntryReply(op, e) \in nsbm
  BY <1>1, EntryReplyType DEF Op
<1>3. EntryReply(op, e).body = (IF exists(e) THEN PayloadBody(UseDB, e.payload_obj) ELSE NoBody)
  BY DEF EntryReply, Bare
<1>4. NoBody \in KnownBody
  BY MessageTypes DEF KnownBody, NoBody, Body
<1> QED BY <1>1, <1>2, <1>3, <1>4 DEF KnownMessage

(* What a call returns is a payload, never a key. *)
LEMMA ReturnedPlain ==
    ASSUME TypeOK, db \in Seq(PlainValue), NEW c \in Client, NEW m \in KnownMessage
    PROVE  /\ Returned(c, m) \in PlainEntry
           /\ AfterCheckOut(c, m) \in Seq(PlainValue) /\ DOMAIN AfterCheckOut(c, m) = DOMAIN db
<1>1. m \in nsbm /\ m.body \in KnownBody
  BY DEF KnownMessage
<1>2. cfg[c].use_db \in BOOLEAN /\ Returned(c, m) \in MessageEntry
  BY <1>1, DatabaseTypes
<1>3. NoValue \in PlainValue
  BY MessageTypes DEF PlainValue, Plain, NoValue
<1>4. Plain(CheckOut(c, m))
  <2>1. CASE ~cfg[c].use_db
    BY <1>1, <1>3, <2>1 DEF CheckOut, PayloadOf, KnownBody, PlainValue
  <2>2. CASE cfg[c].use_db
    <3>1. \A i \in DOMAIN db : Plain(db[i])
      BY DEF PlainValue
    <3> QED BY <1>3, <2>2, <3>1 DEF CheckOut, IsKey, PlainValue
  <2> QED BY <2>1, <2>2
<1>5. Returned(c, m) \in PlainEntry
  BY <1>2, <1>4 DEF Returned, PlainEntry
<1>6. AfterCheckOut(c, m) \in Seq(PlainValue) /\ DOMAIN AfterCheckOut(c, m) = DOMAIN db
  BY <1>3 DEF AfterCheckOut, IsKey
<1> QED BY <1>5, <1>6

(* What a client hands out is known, once it is stored. *)
LEMMA StoredKnown ==
    ASSUME TypeOK, db \in Seq(PlainValue), NEW c \in Client, NEW v \in PlainValue
    PROVE  /\ db' = Stored(c, v) => /\ db' \in Seq(PlainValue) /\ DOMAIN db \subseteq DOMAIN db'
                                    /\ StoredBody(c, v) \in KnownBody'
           /\ PayloadBody(cfg[c].use_db, v) \in KnownBody'
<1>1. cfg[c].use_db \in BOOLEAN /\ Plain(v) /\ v \in Value
  BY DatabaseTypes DEF PlainValue
<1>2. /\ Append(db, v) \in Seq(PlainValue) /\ DOMAIN db = 1 .. Len(db) /\ Len(db) \in Nat
      /\ DOMAIN Append(db, v) = 1 .. (Len(db) + 1)
  OBVIOUS
<1>3. PayloadBody(cfg[c].use_db, v) \in KnownBody'
  <2>1. PayloadBody(cfg[c].use_db, v) \in Body
    BY <1>1, MessageTypes
  <2> QED BY <1>1, <2>1 DEF KnownBody, PayloadBody, Plain
<1>4. ASSUME db' = Stored(c, v)
      PROVE  /\ db' \in Seq(PlainValue) /\ DOMAIN db \subseteq DOMAIN db'
             /\ StoredBody(c, v) \in KnownBody'
  <2>1. db' \in Seq(PlainValue) /\ DOMAIN db \subseteq DOMAIN db'
    BY <1>1, <1>2, <1>4 DEF Stored
  <2>2. CASE ~cfg[c].use_db
    BY <1>3, <2>1, <2>2 DEF StoredBody
  <2>3. CASE cfg[c].use_db
    <3>1. StoredBody(c, v) \in Body
      BY <1>1, DatabaseTypes
    <3>2. Len(db) + 1 \in DOMAIN db'
      BY <1>2, <1>4, <2>3 DEF Stored
    <3>3. StoredBody(c, v) = [kind |-> "msg_key", val |-> <<"#", Len(db) + 1>>]
      BY <2>3 DEF StoredBody, PayloadBody
    <3> QED BY <2>1, <3>1, <3>2, <3>3 DEF KnownBody
  <2> QED BY <2>1, <2>2, <2>3
<1> QED BY <1>3, <1>4

(* What comes out of the network was fetched. *)
LEMMA NetworkPlain ==
    ASSUME KeysKnown, NEW e \in Network
    PROVE  e \in PlainEntry
BY DEF KeysKnown, Network, Logged

(* Steps that leave the streams known. *)
LEMMA QuietKnown ==
    ASSUME NEW T, NEW s \in Seq(T), T \subseteq nsbm, NEW t, Quiet(s, t),
           \A m \in nsbm : ~Bears(m) => m \in T
    PROVE  t \in Seq(T)
<1>1. CASE Suffix(s, t)
  BY <1>1, HitsSuffix
<1>2. ASSUME NEW m \in nsbm, ~Bears(m), t = Append(s, m) PROVE t \in Seq(T)
  BY <1>2
<1> QED BY <1>1, <1>2 DEF Quiet

(* A message without a payload is known. *)
LEMMA BareKnown == \A m \in nsbm : ~Bears(m) => m \in KnownMessage
BY DEF Bears, KnownMessage, KnownBody, nsbm

(* A stream after one message was written to it. *)
LEMMA AppendAt ==
    ASSUME NEW S, NEW T, NEW f \in [S -> Seq(T)], NEW k \in S, NEW x \in T
    PROVE  /\ [f EXCEPT ![k] = Append(@, x)] \in [S -> Seq(T)]
           /\ [f EXCEPT ![k] = Append(@, x)][k] = Append(f[k], x)
           /\ \A j \in S : j # k => [f EXCEPT ![k] = Append(@, x)][j] = f[j]
<1>1. Append(f[k], x) \in Seq(T)
  OBVIOUS
<1> QED BY <1>1

(* A stream after some of it was read. *)
LEMMA ReadAt ==
    ASSUME NEW S, NEW T, NEW f \in [S -> Seq(T)], NEW k \in S, NEW n \in 0 .. Len(f[k])
    PROVE  /\ [f EXCEPT ![k] = Unread(@, n)] \in [S -> Seq(T)]
           /\ [f EXCEPT ![k] = Unread(@, n)][k] = Unread(f[k], n)
           /\ \A j \in S : j # k => [f EXCEPT ![k] = Unread(@, n)][j] = f[j]
<1>1. Unread(f[k], n) \in Seq(T)
  BY SuffixElements DEF Unread
<1> QED BY <1>1

(* The invariant moves to the next state while the database only grows. *)
LEMMA KnownMono ==
    ASSUME KeysKnown, DOMAIN db \subseteq DOMAIN db'
    PROVE  /\ up \in [Conn -> Seq(KnownMessage')] /\ down \in [Conn -> Seq(KnownMessage')]
           /\ tx_buffer \in Seq(KnownEntry') /\ rx_buffer \in Seq(KnownEntry')
<1>1. KnownMessage \subseteq KnownMessage' /\ KnownEntry \subseteq KnownEntry'
  BY KnownGrows
<1>2. \A s \in Seq(KnownMessage) : s \in Seq(KnownMessage')
  BY <1>1, SeqMono
<1>3. \A s \in Seq(KnownEntry) : s \in Seq(KnownEntry')
  BY <1>1, SeqMono
<1> QED BY <1>2, <1>3 DEF KeysKnown

(* Every handler keeps what is under way known. *)
LEMMA HandlerKnown ==
    ASSUME TypeInv, KeysKnown, NEW k \in Conn, NEW n \in Nat, NEW m \in nsbm, HandlerStepKind(k, n, m)
    PROVE  KeysKnown'
<1>1. /\ n \in 1 .. Len(up[k]) /\ m = Parse(Read(up[k], n))
      /\ up' = [up EXCEPT ![k] = Unread(@, n)] /\ UNCHANGED <<db, fetched>>
  BY DEF HandlerStepKind, SendStep, PostStep, FetchStep, ReceiveStep, ForwardStep, DaemonReads
<1>2. /\ up \in [Conn -> Seq(KnownMessage)] /\ down \in [Conn -> Seq(KnownMessage)]
      /\ tx_buffer \in Seq(KnownEntry) /\ rx_buffer \in Seq(KnownEntry)
      /\ db \in Seq(PlainValue) /\ fetched \in [Client -> Seq(PlainEntry)]
  BY DEF KeysKnown
<1>3. KnownMessage' = KnownMessage /\ KnownEntry' = KnownEntry
  BY <1>1 DEF KnownMessage, KnownEntry, KnownBody, Plain, PayloadBody
<1>4. up' \in [Conn -> Seq(KnownMessage)]
  <2>1. n \in 0 .. Len(up[k])
    BY <1>1
  <2> QED BY <1>1, <1>2, <2>1, ReadAt
<1>5. m \in KnownMessage /\ Entry(UseDB, m) \in KnownEntry
  BY <1>1, <1>2, ParsedKnown
<1>6. ASSUME NEW j \in Conn, NEW r \in KnownMessage, Writes(j, r)
      PROVE  down' \in [Conn -> Seq(KnownMessage)]
  <2>1. [down EXCEPT ![j] = Append(@, r)] \in [Conn -> Seq(KnownMessage)]
    BY <1>2, AppendAt
  <2> QED BY <1>2, <1>6, <2>1 DEF Writes
<1>7. /\ down' \in [Conn -> Seq(KnownMessage)]
      /\ tx_buffer' \in Seq(KnownEntry) /\ rx_buffer' \in Seq(KnownEntry)
  <2>1. CASE SendStep(k, n, m)
    BY <1>2, <1>5, <2>1 DEF SendStep
  <2>2. CASE PostStep(k, n, m)
    BY <1>2, <1>5, <2>2 DEF PostStep
  <2>3. CASE FetchStep(k, n, m)
    <3>1. PICK i \in DOMAIN tx_buffer : /\ tx_buffer' = RemoveAt(tx_buffer, i)
                                        /\ Writes(k, EntryReply("FETCH", tx_buffer[i]))
      BY <2>3 DEF FetchStep
    <3>2. tx_buffer' \in Seq(KnownEntry) /\ tx_buffer[i] \in KnownEntry
      BY <1>2, <3>1, RemoveAtType
    <3>3. EntryReply("FETCH", tx_buffer[i]) \in KnownMessage
      BY <3>2, ReplyKnown
    <3> QED BY <1>2, <1>6, <2>3, <3>1, <3>2, <3>3 DEF FetchStep
  <2>4. CASE ReceiveStep(k, n, m)
    <3>1. PICK i \in DOMAIN rx_buffer : /\ rx_buffer' = RemoveAt(rx_buffer, i)
                                        /\ Writes(k, EntryReply("RECEIVE", rx_buffer[i]))
      BY <2>4 DEF ReceiveStep
    <3>2. rx_buffer' \in Seq(KnownEntry) /\ rx_buffer[i] \in KnownEntry
      BY <1>2, <3>1, RemoveAtType
    <3>3. EntryReply("RECEIVE", rx_buffer[i]) \in KnownMessage
      BY <3>2, ReplyKnown
    <3> QED BY <1>2, <1>6, <2>4, <3>1, <3>2, <3>3 DEF ReceiveStep
  <2>5. CASE ForwardStep(k, n, m)
    <3>1. PICK j \in Conn : Writes(j, [m EXCEPT !.op = "FORWARD"])
      BY <2>5 DEF ForwardStep
    <3>2. [m EXCEPT !.op = "FORWARD"] \in KnownMessage
      BY <1>5 DEF KnownMessage, nsbm, Op
    <3> QED BY <1>2, <1>6, <2>5, <3>1, <3>2 DEF ForwardStep
  <2> QED BY <2>1, <2>2, <2>3, <2>4, <2>5 DEF HandlerStepKind
<1> QED BY <1>1, <1>2, <1>3, <1>4, <1>7 DEF KeysKnown

(* Every call of a client keeps what is under way known. *)
LEMMA ClientKnown ==
    ASSUME TypeInv, KeysKnown, NEW c \in Client, ClientStepKind(c)
    PROVE  KeysKnown'
<1>0. /\ TypeOK /\ db \in Seq(PlainValue) /\ fetched \in [Client -> Seq(PlainEntry)]
      /\ down \in [Conn -> Seq(KnownMessage)]
  BY DEF TypeInv, KeysKnown
<1>1. ASSUME NEW n \in Nat, NEW m \in nsbm, ReceivedStep(c, n, m) \/ FetchedStep(c, n, m)
      PROVE  KeysKnown'
  <2> DEFINE k == <<c, "RECV">>
  <2>1. /\ n \in 1 .. Len(down[k]) /\ m = Parse(Read(down[k], n)) /\ k \in Conn
        /\ down' = [down EXCEPT ![k] = Unread(@, n)]
        /\ db' = AfterCheckOut(c, m) /\ UNCHANGED <<up, tx_buffer, rx_buffer>>
    BY <1>1, ConnFacts DEF ReceivedStep, FetchedStep, ClientReads, Response, Channel
  <2> HIDE DEF k
  <2>2. m \in KnownMessage
    BY <1>0, <2>1, ParsedKnown
  <2>3. Returned(c, m) \in PlainEntry /\ db' \in Seq(PlainValue) /\ DOMAIN db' = DOMAIN db
    BY <1>0, <2>1, <2>2, ReturnedPlain
  <2>4. fetched' \in [Client -> Seq(PlainEntry)]
    <3>1. [fetched EXCEPT ![c] = Append(@, Returned(c, m))] \in [Client -> Seq(PlainEntry)]
      BY <1>0, <2>3, AppendAt
    <3> QED BY <1>0, <1>1, <3>1 DEF ReceivedStep, FetchedStep
  <2>5. /\ up \in [Conn -> Seq(KnownMessage')] /\ down \in [Conn -> Seq(KnownMessage')]
        /\ tx_buffer \in Seq(KnownEntry') /\ rx_buffer \in Seq(KnownEntry')
    BY <2>3, KnownMono
  <2>6. down' \in [Conn -> Seq(KnownMessage')]
    <3>1. n \in 0 .. Len(down[k])
      BY <2>1
    <3> QED BY <2>1, <2>5, <3>1, ReadAt
  <2> QED BY <2>1, <2>3, <2>4, <2>5, <2>6 DEF KeysKnown
<1>2. ASSUME NEW ch \in Channel, NEW m \in nsbm, SendMessage(c, ch, m), m.body \in KnownBody',
             UNCHANGED <<down, tx_buffer, rx_buffer, fetched>>,
             db' \in Seq(PlainValue), DOMAIN db \subseteq DOMAIN db'
      PROVE  KeysKnown'
  <2>1. /\ up \in [Conn -> Seq(KnownMessage')] /\ down \in [Conn -> Seq(KnownMessage')]
        /\ tx_buffer \in Seq(KnownEntry') /\ rx_buffer \in Seq(KnownEntry')
    BY <1>2, KnownMono
  <2>2. m \in KnownMessage'
    BY <1>2 DEF KnownMessage
  <2>3. up' \in [Conn -> Seq(KnownMessage')]
    BY <1>2, <2>1, <2>2, ConnFacts, AppendAt DEF SendMessage, UpAfterSend
  <2> QED BY <1>0, <1>2, <2>1, <2>3 DEF KeysKnown
<1>3. ASSUME NEW d \in SendTo[c], send(c, d) PROVE KeysKnown'
  <2>1. PICK v \in {<<c, nsent[c] + 1>>} \cup (IF EmptyPayloads THEN {NoValue} ELSE {}) :
            /\ SendMessage(c, "SEND", DataMessage(c, "SEND", Ident[c], d, StoredBody(c, v)))
            /\ db' = Stored(c, v)
    BY <1>3 DEF send
  <2>2. v \in PlainValue
    <3>1. nsent[c] + 1 \in Nat /\ nsent[c] + 1 \in 1 .. MaxSends
      <4>1. nsent \in [Client -> 0 .. MaxSends] /\ MaxSends \in Nat /\ nsent[c] < MaxSends
        BY <1>0, <1>3, WireAssumption DEF TypeOK, ClientTypeOK, send
      <4> QED BY <4>1
    <3>2. <<c, nsent[c] + 1>> \in PlainValue
      BY <3>1, WireAssumption DEF PlainValue, Plain, Value, Payload
    <3>3. NoValue \in PlainValue
      BY MessageTypes DEF PlainValue, Plain, NoValue
    <3> QED BY <2>1, <3>2, <3>3
  <2>3. db' \in Seq(PlainValue) /\ DOMAIN db \subseteq DOMAIN db' /\ StoredBody(c, v) \in KnownBody'
    BY <1>0, <2>1, <2>2, StoredKnown
  <2> DEFINE m == DataMessage(c, "SEND", Ident[c], d, StoredBody(c, v))
  <2>4. m \in nsbm
    <3>1. Ident[c] \in Id /\ d \in Id /\ StoredBody(c, v) \in Body
      BY <1>0, <2>2, ClientAssumption, WireAssumption, DatabaseTypes DEF Id, Identifier, PlainValue
    <3> QED BY <3>1, DataMessageType DEF Op
  <2>5. m.body = StoredBody(c, v)
    BY DEF DataMessage
  <2> HIDE DEF m
  <2>6. UNCHANGED <<down, tx_buffer, rx_buffer, fetched>>
    BY <1>3 DEF send, socketsButUp, daemonVars, bufferVars, logVars
  <2> QED BY <1>2, <2>1, <2>3, <2>4, <2>5, <2>6 DEF Channel, m
<1>4. ASSUME NEW e \in Network, post(c, e) PROVE KeysKnown'
  <2>1. e \in PlainEntry /\ e.payload_obj \in PlainValue /\ e \in MessageEntry
    BY NetworkPlain DEF PlainEntry, PlainValue, MessageEntry
  <2> DEFINE v == e.payload_obj
             m == DataMessage(c, "POST", e.source, e.destination, PostBody(c, v))
  <2>2. /\ SendMessage(c, "SEND", m) /\ db' = IF Impl[c] = "py" THEN db ELSE Stored(c, v)
        /\ UNCHANGED <<down, tx_buffer, rx_buffer, fetched>>
    BY <1>4 DEF post, socketsButUp, daemonVars, bufferVars
  <2>3. /\ db' \in Seq(PlainValue) /\ DOMAIN db \subseteq DOMAIN db' /\ PostBody(c, v) \in KnownBody'
    BY <1>0, <2>1, <2>2, StoredKnown DEF PostBody
  <2>4. m \in nsbm
    <3>1. e.source \in Id /\ e.destination \in Id
      BY <2>1 DEF MessageEntry
    <3>2. PostBody(c, v) \in Body
      BY <2>3 DEF KnownBody
    <3> QED BY <3>1, <3>2, DataMessageType DEF Op
  <2>5. m.body = PostBody(c, v)
    BY DEF DataMessage
  <2> HIDE DEF m
  <2> QED BY <1>2, <2>2, <2>3, <2>4, <2>5 DEF Channel
<1> QED BY <1>1, <1>3, <1>4 DEF ClientStepKind

(* Every step keeps what is under way known. *)
LEMMA KeysKnownStep ==
    ASSUME TypeInv, KeysKnown, [Next]_vars
    PROVE  KeysKnown'
<1>1. CASE QuietStep
  <2>1. UNCHANGED <<tx_buffer, rx_buffer, db, fetched>>
    BY <1>1 DEF QuietStep, dataVars
  <2>2. KnownMessage' = KnownMessage /\ KnownEntry' = KnownEntry
    BY <2>1 DEF KnownMessage, KnownEntry, KnownBody, Plain, PayloadBody
  <2>3. up' \in [Conn -> Seq(nsbm)] /\ down' \in [Conn -> Seq(nsbm)]
    BY TypeInvStep DEF TypeInv, TypeOK, SocketsTypeOK
  <2>4. KnownMessage \subseteq nsbm
    BY DEF KnownMessage
  <2>5. \A k \in Conn : up'[k] \in Seq(KnownMessage) /\ down'[k] \in Seq(KnownMessage)
    BY <1>1, <2>4, QuietKnown, BareKnown DEF QuietStep, Plainly, KeysKnown
  <2> QED BY <2>1, <2>2, <2>3, <2>5 DEF KeysKnown
<1> QED BY <1>1, DataSteps, HandlerKnown, ClientKnown

(* Nothing is under way at the start. *)
LEMMA KeysKnownInit ==
    ASSUME Init
    PROVE  KeysKnown
<1>1. \A S : <<>> \in Seq(S)
  OBVIOUS
<1>2. /\ up = [k \in Conn |-> <<>>] /\ down = [k \in Conn |-> <<>>] /\ tx_buffer = <<>> /\ rx_buffer = <<>>
      /\ db = <<>> /\ fetched = [c \in Client |-> <<>>]
  BY DEF Init, SocketsInit, DaemonInit, ClientInit
<1>3. up \in [Conn -> Seq(KnownMessage)] /\ down \in [Conn -> Seq(KnownMessage)]
  BY <1>1, <1>2
<1>4. fetched \in [Client -> Seq(PlainEntry)]
  BY <1>1, <1>2
<1> QED BY <1>1, <1>2, <1>3, <1>4 DEF KeysKnown

-----------------------------------------------------------------------------
(* Boxes: where a payload can be.                                           *)

Bearers(p) == {m \in nsbm : Carries(m, p)}
Entries(p) == {e \in MessageEntry : Names(e.payload_obj, p)}
Mail(p) == {e \in MessageEntry : e.payload_obj = p}

Box == ({"up", "down"} \X Conn) \cup ({"tx", "rx", "network"} \X {0}) \cup ({"received"} \X Client)
TxBox == <<"tx", 0>>
RxBox == <<"rx", 0>>
NetworkBox == <<"network", 0>>

(* What of p each box holds. *)
Boxes(p) ==
    [x \in Box |->
        CASE x[1] = "up" -> Hits(up[x[2]], Bearers(p))
          [] x[1] = "down" -> Hits(down[x[2]], Bearers(p))
          [] x[1] = "tx" -> Hits(tx_buffer, Entries(p))
          [] x[1] = "rx" -> Hits(rx_buffer, Entries(p))
          [] x[1] = "network" -> Network \cap Mail(p)
          [] x[1] = "received" -> Hits(received[x[2]], Mail(p))]

(* One box at most holds something, one thing, and only what was sent. *)
Unique(H, sent) ==
    /\ \A x \in Box : Single(H[x])
    /\ \A x, y \in Box : H[x] # {} /\ H[y] # {} => x = y
    /\ (\E x \in Box : H[x] # {}) => sent

(* No box gains anything. *)
Kept(H, G) == \A x \in Box : Fewer(H[x], G[x])

(* No box gains anything but dst. *)
Gains(H, G, dst) ==
    /\ dst \in Box
    /\ \A x \in Box : x # dst => Fewer(H[x], G[x])
    /\ H[dst] = {} => Single(G[dst])

(* And what dst gains is what src loses. *)
Moved(H, G, src, dst) ==
    Gains(H, G, dst) /\ src \in Box /\ src # dst /\ H[src] # {} /\ G[src] = {}

PlaceInv ==
    /\ TypeInv /\ KeysKnown
    /\ \A p \in Payload : Unique(Boxes(p), Sent(p))

(* One box at most holds something when no box gains anything. *)
LEMMA UniqueKept ==
    ASSUME NEW H, NEW G, NEW a \in BOOLEAN, NEW b \in BOOLEAN, Unique(H, a), a => b, Kept(H, G)
    PROVE  Unique(G, b)
BY DEF Unique, Fewer, Kept

(* And when one gets what another one gives up. *)
LEMMA UniqueMoved ==
    ASSUME NEW H, NEW G, NEW a \in BOOLEAN, NEW b \in BOOLEAN, Unique(H, a), a => b,
           NEW src, NEW dst, Moved(H, G, src, dst)
    PROVE  Unique(G, b)
<1>1. \A x \in Box : x # src => H[x] = {}
  BY DEF Unique, Moved
<1>2. \A x \in Box : x # dst => G[x] = {}
  BY <1>1 DEF Fewer, Moved, Gains
<1>3. \A x \in Box : Single(G[x])
  BY <1>1, <1>2 DEF Single, Moved, Gains
<1>4. b
  BY DEF Unique, Moved
<1> QED BY <1>2, <1>3, <1>4 DEF Unique

(* And when one gets what was nowhere. *)
LEMMA UniqueSent ==
    ASSUME NEW H, NEW G, Unique(H, FALSE), NEW dst, Gains(H, G, dst)
    PROVE  Unique(G, TRUE)
<1>1. \A x \in Box : H[x] = {}
  BY DEF Unique
<1>2. \A x \in Box : x # dst => G[x] = {}
  BY <1>1 DEF Fewer, Gains
<1>3. \A x \in Box : Single(G[x])
  BY <1>1, <1>2 DEF Single, Gains
<1> QED BY <1>2, <1>3 DEF Unique

(* The boxes are the channels, the buffers, the network and the receivers. *)
LEMMA BoxKinds ==
    /\ \A k \in Conn : <<"up", k>> \in Box /\ <<"down", k>> \in Box
    /\ \A c \in Client : <<"received", c>> \in Box
    /\ TxBox \in Box /\ RxBox \in Box /\ NetworkBox \in Box
    /\ \A x \in Box : \/ \E k \in Conn : x = <<"up", k>> \/ x = <<"down", k>>
                      \/ x = TxBox \/ x = RxBox \/ x = NetworkBox
                      \/ \E c \in Client : x = <<"received", c>>
BY DEF Box, TxBox, RxBox, NetworkBox

(* What is in them. *)
LEMMA BoxesAre ==
    ASSUME NEW p
    PROVE  /\ \A k \in Conn : /\ Boxes(p)[<<"up", k>>] = Hits(up[k], Bearers(p))
                              /\ Boxes(p)[<<"down", k>>] = Hits(down[k], Bearers(p))
           /\ Boxes(p)[TxBox] = Hits(tx_buffer, Entries(p))
           /\ Boxes(p)[RxBox] = Hits(rx_buffer, Entries(p))
           /\ Boxes(p)[NetworkBox] = Network \cap Mail(p)
           /\ \A c \in Client : Boxes(p)[<<"received", c>>] = Hits(received[c], Mail(p))
BY BoxKinds DEF Boxes, TxBox, RxBox, NetworkBox

(* And what is in them after a step. *)
LEMMA BoxesAfter ==
    ASSUME NEW p
    PROVE  /\ \A k \in Conn : /\ Boxes(p)'[<<"up", k>>] = Hits(up'[k], Bearers(p)')
                              /\ Boxes(p)'[<<"down", k>>] = Hits(down'[k], Bearers(p)')
           /\ Boxes(p)'[TxBox] = Hits(tx_buffer', Entries(p)')
           /\ Boxes(p)'[RxBox] = Hits(rx_buffer', Entries(p)')
           /\ Boxes(p)'[NetworkBox] = Network' \cap Mail(p)
           /\ \A c \in Client : Boxes(p)'[<<"received", c>>] = Hits(received'[c], Mail(p))
BY BoxKinds DEF Boxes, TxBox, RxBox, NetworkBox, Mail, Hits

(* The empty payload is not one that is counted. *)
LEMMA NoValueNoPayload ==
    ASSUME NEW p \in Payload
    PROVE  NoValue # p /\ p \in Value /\ p[1] \in Client /\ p[2] \in Nat /\ p = <<p[1], p[2]>> /\ Plain(p)
<1>0. MaxSends \in Nat
  BY WireAssumption
<1>1. p[1] \in Client /\ p[2] \in 1 .. MaxSends /\ p = <<p[1], p[2]>>
  BY DEF Payload
<1>2. p[1] # "" /\ p[1] # "#"
  BY <1>1, WireAssumption
<1>3. NoValue[1] = ""
  BY DEF NoValue
<1>4. p[2] \in Nat
  BY <1>0, <1>1
<1> QED BY <1>1, <1>2, <1>3, <1>4 DEF Value, Plain

(* While payloads are only stored under new keys, or taken out, nothing     *)
(* that is under way comes to stand for p.                                  *)
LEMMA NamesShrink ==
    ASSUME NEW p \in Payload, DOMAIN db \subseteq DOMAIN db',
           \A i \in DOMAIN db : db'[i] = db[i] \/ db'[i] = NoValue
    PROVE  /\ KnownMessage \cap Bearers(p)' \subseteq Bearers(p)
           /\ KnownEntry \cap Entries(p)' \subseteq Entries(p)
<1>1. NoValue # p
  BY NoValueNoPayload
<1>2. ASSUME NEW b \in KnownBody, b.kind \in {"payload", "msg_key"}, Names(b.val, p)'
      PROVE  Names(b.val, p)
  <2>1. CASE b.val[1] # "#"
    BY <1>2, <2>1 DEF Names, IsKey
  <2>2. CASE b.val[1] = "#"
    <3>1. b.val[2] \in DOMAIN db
      BY <1>2, <2>2 DEF KnownBody, Plain
    <3> QED BY <1>1, <1>2, <2>2, <3>1 DEF Names, IsKey
  <2> QED BY <2>1, <2>2
<1>3. ASSUME NEW m \in KnownMessage, m \in Bearers(p)' PROVE m \in Bearers(p)
  <2>1. m \in nsbm /\ m.body \in KnownBody
    BY DEF KnownMessage
  <2>2. m.body.kind \in {"payload", "msg_key"} /\ Names(m.body.val, p)'
    BY <1>3 DEF Bearers, Carries
  <2> QED BY <1>2, <2>1, <2>2 DEF Bearers, Carries
<1>4. ASSUME NEW e \in KnownEntry, e \in Entries(p)' PROVE e \in Entries(p)
  <2> DEFINE b == PayloadBody(UseDB, e.payload_obj)
  <2>1. e \in MessageEntry /\ b \in KnownBody
    BY DEF KnownEntry
  <2>2. b.kind \in {"payload", "msg_key"} /\ b.val = e.payload_obj
    BY DEF PayloadBody
  <2>3. Names(e.payload_obj, p)'
    BY <1>4 DEF Entries
  <2> HIDE DEF b
  <2>4. Names(b.val, p)'
    BY <2>2, <2>3
  <2>5. Names(b.val, p)
    BY <1>2, <2>1, <2>2, <2>4
  <2> QED BY <2>1, <2>2, <2>5 DEF Entries
<1> QED BY <1>3, <1>4
(* What bears p and is read from a channel is off it. *)
LEMMA ReadMoves ==
    ASSUME NEW s \in Seq(nsbm), NEW n \in 1 .. Len(s), NEW m \in nsbm, m = Parse(Read(s, n)),
           NEW p, m \in Bearers(p), Single(Hits(s, Bearers(p)))
    PROVE  Hits(Unread(s, n), Bearers(p)) = {} /\ Hits(s, Bearers(p)) # {}
<1>1. PICK i \in 1 .. n : s[i] \in nsbm /\ m.body = s[i].body
  BY ParseBody
<1>2. s[i] \in Bearers(p)
  BY <1>1 DEF Bearers, Carries
<1> QED BY <1>2, HitsRead DEF Unread

(* A write of the daemon. *)
LEMMA WriteFewer ==
    ASSUME down \in [Conn -> Seq(nsbm)], NEW j \in Conn, NEW r \in nsbm, Writes(j, r), NEW C
    PROVE  /\ \A k \in Conn : k # j => Fewer(Hits(down[k], C), Hits(down'[k], C))
           /\ r \notin C => Fewer(Hits(down[j], C), Hits(down'[j], C))
           /\ Hits(down[j], C) = {} => Single(Hits(down'[j], C))
<1>1. \A k \in Conn : k # j => down'[k] = down[k]
  BY DEF Writes
<1>2. down'[j] = down[j] \/ down'[j] = Append(down[j], r)
  BY DEF Writes
<1>3. down[j] \in Seq(nsbm)
  OBVIOUS
<1>4. /\ r \notin C => Fewer(Hits(down[j], C), Hits(Append(down[j], r), C))
      /\ Hits(down[j], C) = {} => Single(Hits(Append(down[j], r), C))
  BY <1>3, AppendFewer
<1> QED BY <1>1, <1>2, <1>4 DEF Fewer, Single

(* The entry made of a message, and the reply made of an entry, stand for  *)
(* what it stands for.                                                     *)
LEMMA SamePayload ==
    ASSUME NEW p \in Payload
    PROVE  /\ \A m \in nsbm : Entry(UseDB, m) \in Entries(p) => m \in Bearers(p)
           /\ \A op, e : e \in MessageEntry /\ EntryReply(op, e) \in Bearers(p) => e \in Entries(p)
           /\ \A m \in nsbm : [m EXCEPT !.op = "FORWARD"] \in Bearers(p) => m \in Bearers(p)
<1>1. ~Names(NoValue, p)
  BY NoValueNoPayload DEF Names, IsKey, NoValue
<1>2. ASSUME NEW m \in nsbm, Entry(UseDB, m) \in Entries(p) PROVE m \in Bearers(p)
  <2>1. Names(PayloadOf(UseDB, m), p)
    BY <1>2 DEF Entries, Entry
  <2> QED BY <1>1, <2>1 DEF PayloadOf, Bearers, Carries
<1>3. ASSUME NEW op, NEW e \in MessageEntry, EntryReply(op, e) \in Bearers(p) PROVE e \in Entries(p)
  <2>1. exists(e)
    BY <1>3 DEF EntryReply, Bearers, Carries, Bare, NoBody
  <2>2. EntryReply(op, e).body = PayloadBody(UseDB, e.payload_obj)
    BY <2>1 DEF EntryReply
  <2>3. Names(e.payload_obj, p)
    BY <1>3, <2>2 DEF Bearers, Carries, PayloadBody
  <2> QED BY <2>3 DEF Entries
<1>4. ASSUME NEW m \in nsbm, [m EXCEPT !.op = "FORWARD"] \in Bearers(p) PROVE m \in Bearers(p)
  <2>1. [m EXCEPT !.op = "FORWARD"].body = m.body
    BY DEF nsbm
  <2> QED BY <1>4, <2>1 DEF Bearers, Carries
<1> QED BY <1>2, <1>3, <1>4

(* What stands for p is decided by the database. *)
LEMMA SameNames ==
    ASSUME NEW p, db' = db
    PROVE  Bearers(p)' = Bearers(p) /\ Entries(p)' = Entries(p)
BY DEF Bearers, Entries, Carries, Names, IsKey

(* How a step of the daemon that reads a channel moves p. *)
HandlerMoves(p, k, n, m) ==
    \/ Kept(Boxes(p), Boxes(p)')
    \/ SendStep(k, n, m) /\ Moved(Boxes(p), Boxes(p)', <<"up", k>>, TxBox)
    \/ PostStep(k, n, m) /\ Moved(Boxes(p), Boxes(p)', <<"up", k>>, RxBox)
    \/ FetchStep(k, n, m) /\ Moved(Boxes(p), Boxes(p)', TxBox, <<"down", k>>)
    \/ ReceiveStep(k, n, m) /\ Moved(Boxes(p), Boxes(p)', RxBox, <<"down", k>>)
    \/ ForwardStep(k, n, m) /\ \E j \in Conn : Moved(Boxes(p), Boxes(p)', <<"up", k>>, <<"down", j>>)

(* It does. *)
LEMMA HandlersMove ==
    ASSUME TypeOK, NEW p \in Payload, Unique(Boxes(p), Sent(p)),
           NEW k \in Conn, NEW n \in Nat, NEW m \in nsbm, HandlerStepKind(k, n, m)
    PROVE  HandlerMoves(p, k, n, m) /\ UNCHANGED <<nsent, received>>
<1> DEFINE H == Boxes(p)
           G == Boxes(p)'
<1>1. /\ n \in 1 .. Len(up[k]) /\ m = Parse(Read(up[k], n))
      /\ up' = [up EXCEPT ![k] = Unread(@, n)] /\ UNCHANGED <<db, nsent, fetched, posted, received>>
  BY DEF HandlerStepKind, SendStep, PostStep, FetchStep, ReceiveStep, ForwardStep, DaemonReads
<1>2. /\ up \in [Conn -> Seq(nsbm)] /\ down \in [Conn -> Seq(nsbm)]
      /\ tx_buffer \in Seq(MessageEntry) /\ rx_buffer \in Seq(MessageEntry)
  BY DEF TypeOK, SocketsTypeOK, DaemonTypeOK
<1>3. Bearers(p)' = Bearers(p) /\ Entries(p)' = Entries(p)
  BY <1>1, SameNames
<1>4. Network' = Network
  BY <1>1 DEF Network, Logged
<1>6. /\ \A j \in Conn : /\ H[<<"up", j>>] = Hits(up[j], Bearers(p))
                         /\ H[<<"down", j>>] = Hits(down[j], Bearers(p))
                         /\ G[<<"up", j>>] = Hits(up'[j], Bearers(p))
                         /\ G[<<"down", j>>] = Hits(down'[j], Bearers(p))
      /\ H[TxBox] = Hits(tx_buffer, Entries(p)) /\ H[RxBox] = Hits(rx_buffer, Entries(p))
      /\ G[TxBox] = Hits(tx_buffer', Entries(p)) /\ G[RxBox] = Hits(rx_buffer', Entries(p))
      /\ G[NetworkBox] = H[NetworkBox]
      /\ \A c \in Client : G[<<"received", c>>] = H[<<"received", c>>]
  <2>1. /\ \A j \in Conn : /\ G[<<"up", j>>] = Hits(up'[j], Bearers(p)')
                           /\ G[<<"down", j>>] = Hits(down'[j], Bearers(p)')
        /\ G[TxBox] = Hits(tx_buffer', Entries(p)') /\ G[RxBox] = Hits(rx_buffer', Entries(p)')
        /\ G[NetworkBox] = Network' \cap Mail(p)
        /\ \A c \in Client : G[<<"received", c>>] = Hits(received'[c], Mail(p))
    BY BoxesAfter
  <2>2. /\ \A j \in Conn : /\ H[<<"up", j>>] = Hits(up[j], Bearers(p))
                           /\ H[<<"down", j>>] = Hits(down[j], Bearers(p))
        /\ H[TxBox] = Hits(tx_buffer, Entries(p)) /\ H[RxBox] = Hits(rx_buffer, Entries(p))
        /\ H[NetworkBox] = Network \cap Mail(p)
        /\ \A c \in Client : H[<<"received", c>>] = Hits(received[c], Mail(p))
    BY BoxesAre
  <2> HIDE DEF H, G
  <2> QED BY <1>1, <1>3, <1>4, <2>1, <2>2
<1> HIDE DEF H, G
<1>7. \A x \in Box : Single(H[x])
  BY DEF Unique, H
<1>8. /\ \A j \in Conn : Fewer(H[<<"up", j>>], G[<<"up", j>>])
      /\ m \in Bearers(p) => H[<<"up", k>>] # {} /\ G[<<"up", k>>] = {}
  <2>1. n \in 0 .. Len(up[k]) /\ up[k] \in Seq(nsbm)
    BY <1>1, <1>2
  <2>2. /\ up'[k] = Unread(up[k], n)
        /\ \A j \in Conn : j # k => up'[j] = up[j]
    BY <1>1, <1>2, <2>1, ReadAt
  <2>3. Suffix(up[k], Unread(up[k], n))
    BY <2>1, SuffixFacts
  <2>4. Fewer(Hits(up[k], Bearers(p)), Hits(Unread(up[k], n), Bearers(p)))
    BY <2>1, <2>3, HitsSuffix
  <2>5. \A j \in Conn : Fewer(H[<<"up", j>>], G[<<"up", j>>])
    BY <1>6, <2>2, <2>4, FewerSame
  <2>6. Single(Hits(up[k], Bearers(p)))
    BY <1>6, <1>7, BoxKinds
  <2>7. ASSUME m \in Bearers(p) PROVE H[<<"up", k>>] # {} /\ G[<<"up", k>>] = {}
    <3>1. Hits(Unread(up[k], n), Bearers(p)) = {} /\ Hits(up[k], Bearers(p)) # {}
      BY <1>1, <2>1, <2>6, <2>7, ReadMoves
    <3> QED BY <1>6, <2>2, <3>1
  <2> QED BY <2>5, <2>7
<1>9. /\ Fewer(H[NetworkBox], G[NetworkBox])
      /\ \A c \in Client : Fewer(H[<<"received", c>>], G[<<"received", c>>])
  BY <1>6, FewerSame
<1>10. ASSUME NEW dst \in Box,
              \A j \in Conn : <<"down", j>> # dst => Fewer(H[<<"down", j>>], G[<<"down", j>>]),
              TxBox # dst => Fewer(H[TxBox], G[TxBox]), RxBox # dst => Fewer(H[RxBox], G[RxBox])
       PROVE  \A x \in Box : x # dst => Fewer(H[x], G[x])
  BY <1>8, <1>9, <1>10, BoxKinds
<1>11. ASSUME NEW dst \in Box, NEW src \in Box, src # dst, H[src] # {}, G[src] = {},
              H[dst] = {} => Single(G[dst]), \A x \in Box : x # dst => Fewer(H[x], G[x])
       PROVE  Moved(H, G, src, dst)
  BY <1>11 DEF Moved, Gains
<1>12. ASSUME NEW dst \in Box, Fewer(H[dst], G[dst]), \A x \in Box : x # dst => Fewer(H[x], G[x])
       PROVE  Kept(H, G)
  BY <1>12 DEF Kept
<1>13. ASSUME NEW j \in Conn, NEW r \in nsbm, Writes(j, r)
       PROVE  /\ \A i \in Conn : <<"down", i>> # <<"down", j>> => Fewer(H[<<"down", i>>], G[<<"down", i>>])
              /\ r \notin Bearers(p) => Fewer(H[<<"down", j>>], G[<<"down", j>>])
              /\ H[<<"down", j>>] = {} => Single(G[<<"down", j>>])
  <2>1. /\ \A i \in Conn : i # j => Fewer(Hits(down[i], Bearers(p)), Hits(down'[i], Bearers(p)))
        /\ r \notin Bearers(p) => Fewer(Hits(down[j], Bearers(p)), Hits(down'[j], Bearers(p)))
        /\ Hits(down[j], Bearers(p)) = {} => Single(Hits(down'[j], Bearers(p)))
    BY <1>2, <1>13, WriteFewer
  <2> QED BY <1>6, <2>1
<1>14. ASSUME NEW b \in Seq(MessageEntry)
       PROVE  LET t == Append(b, Entry(UseDB, m))
              IN  /\ m \notin Bearers(p) => Fewer(Hits(b, Entries(p)), Hits(t, Entries(p)))
                  /\ Hits(b, Entries(p)) = {} => Single(Hits(t, Entries(p)))
  BY AppendFewer, SamePayload
<1>15. ASSUME UNCHANGED down PROVE \A j \in Conn : Fewer(H[<<"down", j>>], G[<<"down", j>>])
  BY <1>6, <1>15, FewerSame
<1>16. CASE SendStep(k, n, m)
  <2>1. tx_buffer' = Append(tx_buffer, Entry(UseDB, m)) /\ UNCHANGED <<rx_buffer, down>>
    BY <1>16 DEF SendStep
  <2>2. \A x \in Box : x # TxBox => Fewer(H[x], G[x])
    BY <1>6, <1>10, <1>15, <2>1, FewerSame, BoxKinds
  <2>3. /\ m \notin Bearers(p) => Fewer(H[TxBox], G[TxBox])
        /\ H[TxBox] = {} => Single(G[TxBox])
    BY <1>2, <1>6, <1>14, <2>1
  <2>4. TxBox # <<"up", k>>
    BY DEF TxBox
  <2>5. Kept(H, G) \/ Moved(H, G, <<"up", k>>, TxBox)
    BY <1>8, <1>11, <1>12, <2>2, <2>3, <2>4, BoxKinds
  <2> QED BY <1>1, <1>16, <2>5 DEF HandlerMoves, H, G
<1>17. CASE PostStep(k, n, m)
  <2>1. rx_buffer' = Append(rx_buffer, Entry(UseDB, m)) /\ UNCHANGED <<tx_buffer, down>>
    BY <1>17 DEF PostStep
  <2>2. \A x \in Box : x # RxBox => Fewer(H[x], G[x])
    BY <1>6, <1>10, <1>15, <2>1, FewerSame, BoxKinds
  <2>3. /\ m \notin Bearers(p) => Fewer(H[RxBox], G[RxBox])
        /\ H[RxBox] = {} => Single(G[RxBox])
    BY <1>2, <1>6, <1>14, <2>1
  <2>4. RxBox # <<"up", k>>
    BY DEF RxBox
  <2>5. Kept(H, G) \/ Moved(H, G, <<"up", k>>, RxBox)
    BY <1>8, <1>11, <1>12, <2>2, <2>3, <2>4, BoxKinds
  <2> QED BY <1>1, <1>17, <2>5 DEF HandlerMoves, H, G
<1>18. CASE FetchStep(k, n, m)
  <2>1. PICK i \in DOMAIN tx_buffer : /\ tx_buffer' = RemoveAt(tx_buffer, i)
                                      /\ Writes(k, EntryReply("FETCH", tx_buffer[i]))
    BY <1>18 DEF FetchStep
  <2> DEFINE e == tx_buffer[i]
             r == EntryReply("FETCH", e)
             dst == <<"down", k>>
  <2>2. e \in MessageEntry /\ r \in nsbm
    BY <1>2, EntryReplyType DEF Op
  <2>3. UNCHANGED rx_buffer
    BY <1>18 DEF FetchStep
  <2>4. /\ Fewer(H[TxBox], G[TxBox])
        /\ e \in Entries(p) => G[TxBox] = {} /\ H[TxBox] # {}
    BY <1>2, <1>6, <1>7, <2>1, HitsErase, BoxKinds
  <2>5. r \in Bearers(p) => e \in Entries(p)
    BY <2>2, SamePayload
  <2> HIDE DEF e, r
  <2>6. Writes(k, r)
    BY <2>1 DEF e, r
  <2>7. /\ \A j \in Conn : <<"down", j>> # dst => Fewer(H[<<"down", j>>], G[<<"down", j>>])
        /\ r \notin Bearers(p) => Fewer(H[dst], G[dst])
        /\ H[dst] = {} => Single(G[dst])
    BY <1>13, <2>2, <2>6
  <2>8. dst \in Box /\ TxBox \in Box /\ TxBox # dst /\ Fewer(H[RxBox], G[RxBox])
    BY <1>6, <2>3, BoxKinds, FewerSame DEF TxBox
  <2>9. \A x \in Box : x # dst => Fewer(H[x], G[x])
    BY <1>10, <2>4, <2>7, <2>8
  <2>10. Kept(H, G) \/ Moved(H, G, TxBox, dst)
    BY <1>11, <1>12, <2>4, <2>5, <2>7, <2>8, <2>9
  <2> QED BY <1>1, <1>18, <2>10 DEF HandlerMoves, H, G
<1>19. CASE ReceiveStep(k, n, m)
  <2>1. PICK i \in DOMAIN rx_buffer : /\ rx_buffer' = RemoveAt(rx_buffer, i)
                                      /\ Writes(k, EntryReply("RECEIVE", rx_buffer[i]))
    BY <1>19 DEF ReceiveStep
  <2> DEFINE e == rx_buffer[i]
             r == EntryReply("RECEIVE", e)
             dst == <<"down", k>>
  <2>2. e \in MessageEntry /\ r \in nsbm
    BY <1>2, EntryReplyType DEF Op
  <2>3. UNCHANGED tx_buffer
    BY <1>19 DEF ReceiveStep
  <2>4. /\ Fewer(H[RxBox], G[RxBox])
        /\ e \in Entries(p) => G[RxBox] = {} /\ H[RxBox] # {}
    BY <1>2, <1>6, <1>7, <2>1, HitsErase, BoxKinds
  <2>5. r \in Bearers(p) => e \in Entries(p)
    BY <2>2, SamePayload
  <2> HIDE DEF e, r
  <2>6. Writes(k, r)
    BY <2>1 DEF e, r
  <2>7. /\ \A j \in Conn : <<"down", j>> # dst => Fewer(H[<<"down", j>>], G[<<"down", j>>])
        /\ r \notin Bearers(p) => Fewer(H[dst], G[dst])
        /\ H[dst] = {} => Single(G[dst])
    BY <1>13, <2>2, <2>6
  <2>8. dst \in Box /\ RxBox \in Box /\ RxBox # dst /\ Fewer(H[TxBox], G[TxBox])
    BY <1>6, <2>3, BoxKinds, FewerSame DEF RxBox
  <2>9. \A x \in Box : x # dst => Fewer(H[x], G[x])
    BY <1>10, <2>4, <2>7, <2>8
  <2>10. Kept(H, G) \/ Moved(H, G, RxBox, dst)
    BY <1>11, <1>12, <2>4, <2>5, <2>7, <2>8, <2>9
  <2> QED BY <1>1, <1>19, <2>10 DEF HandlerMoves, H, G
<1>20. CASE ForwardStep(k, n, m)
  <2> DEFINE r == [m EXCEPT !.op = "FORWARD"]
  <2>1. PICK j \in Conn : Writes(j, r)
    BY <1>20 DEF ForwardStep
  <2> DEFINE dst == <<"down", j>>
  <2>2. r \in nsbm
    BY DEF nsbm, Op
  <2>3. r \in Bearers(p) => m \in Bearers(p)
    BY SamePayload
  <2> HIDE DEF r
  <2>4. Fewer(H[TxBox], G[TxBox]) /\ Fewer(H[RxBox], G[RxBox])
    BY <1>6, <1>20, FewerSame DEF ForwardStep
  <2>5. /\ \A i \in Conn : <<"down", i>> # dst => Fewer(H[<<"down", i>>], G[<<"down", i>>])
        /\ r \notin Bearers(p) => Fewer(H[dst], G[dst])
        /\ H[dst] = {} => Single(G[dst])
    BY <1>13, <2>1, <2>2
  <2>6. dst \in Box /\ <<"up", k>> \in Box /\ <<"up", k>> # dst
    BY BoxKinds
  <2>7. \A x \in Box : x # dst => Fewer(H[x], G[x])
    BY <1>10, <2>4, <2>5, <2>6
  <2>8. Kept(H, G) \/ Moved(H, G, <<"up", k>>, dst)
    BY <1>8, <1>11, <1>12, <2>3, <2>5, <2>6, <2>7
  <2> QED BY <1>1, <1>20, <2>8 DEF HandlerMoves, H, G
<1> QED BY <1>1, <1>16, <1>17, <1>18, <1>19, <1>20 DEF HandlerStepKind

(* So p stays in one box. *)
LEMMA HandlerUnique ==
    ASSUME TypeOK, NEW p \in Payload, Unique(Boxes(p), Sent(p)),
           NEW k \in Conn, NEW n \in Nat, NEW m \in nsbm, HandlerStepKind(k, n, m)
    PROVE  Unique(Boxes(p)', Sent(p)')
<1>1. HandlerMoves(p, k, n, m) /\ UNCHANGED <<nsent, received>>
  BY HandlersMove
<1>2. Sent(p)' = Sent(p) /\ Sent(p) \in BOOLEAN
  BY <1>1 DEF Sent
<1>3. Kept(Boxes(p), Boxes(p)') \/ \E src, dst : Moved(Boxes(p), Boxes(p)', src, dst)
  BY <1>1, Zenon DEF HandlerMoves
<1> QED BY <1>2, <1>3, UniqueKept, UniqueMoved

(* A log after an entry was appended to that of one client. *)
LEMMA LoggedAppend ==
    ASSUME NEW T, NEW log \in [Client -> Seq(T)], NEW c \in Client, NEW e \in T,
           NEW new, new = [log EXCEPT ![c] = Append(@, e)]
    PROVE  \E n : /\ \A d \in Client : d # c => new[d] = log[d]
                  /\ DOMAIN new[c] = DOMAIN log[c] \cup {n} /\ new[c][n] = e
                  /\ \A i \in DOMAIN log[c] : new[c][i] = log[c][i]
<1>1. new[c] = Append(log[c], e) /\ \A d \in Client : d # c => new[d] = log[d]
  BY AppendAt
<1>2. /\ log[c] \in Seq(T) /\ Len(log[c]) \in Nat /\ DOMAIN log[c] = 1 .. Len(log[c])
      /\ DOMAIN new[c] = 1 .. (Len(log[c]) + 1)
      /\ new[c][Len(log[c]) + 1] = e /\ \A i \in DOMAIN log[c] : new[c][i] = log[c][i]
  BY <1>1
<1>3. DOMAIN new[c] = DOMAIN log[c] \cup {Len(log[c]) + 1}
  BY <1>2
<1> QED BY <1>1, <1>2, <1>3

(* A client writes to a channel, and stores the payload first: only that   *)
(* channel may come to hold p.                                             *)
LEMMA PutFewer ==
    ASSUME TypeOK, KeysKnown, NEW p \in Payload, NEW c \in Client, NEW ch \in Channel, NEW m \in nsbm,
           SendMessage(c, ch, m), UNCHANGED <<down, tx_buffer, rx_buffer, received>>,
           Network' \subseteq Network, DOMAIN db \subseteq DOMAIN db',
           \A i \in DOMAIN db : db'[i] = db[i] \/ db'[i] = NoValue
    PROVE  LET dst == <<"up", <<c, ch>> >>
           IN  /\ Gains(Boxes(p), Boxes(p)', dst)
               /\ m \notin Bearers(p)' => Kept(Boxes(p), Boxes(p)')
<1> DEFINE H == Boxes(p)
           G == Boxes(p)'
           k == <<c, ch>>
           dst == <<"up", k>>
           C == Bearers(p)
           D == Bearers(p)'
<1>1. KnownMessage \cap D \subseteq C /\ KnownEntry \cap Entries(p)' \subseteq Entries(p)
  BY NamesShrink
<1>2. /\ \A j \in Conn : G[<<"up", j>>] = Hits(up'[j], D) /\ G[<<"down", j>>] = Hits(down[j], D)
      /\ G[TxBox] = Hits(tx_buffer, Entries(p)') /\ G[RxBox] = Hits(rx_buffer, Entries(p)')
      /\ G[NetworkBox] = Network' \cap Mail(p)
      /\ \A d \in Client : G[<<"received", d>>] = Hits(received[d], Mail(p))
  BY BoxesAfter
<1>3. /\ \A j \in Conn : H[<<"up", j>>] = Hits(up[j], C) /\ H[<<"down", j>>] = Hits(down[j], C)
      /\ H[TxBox] = Hits(tx_buffer, Entries(p)) /\ H[RxBox] = Hits(rx_buffer, Entries(p))
      /\ H[NetworkBox] = Network \cap Mail(p)
      /\ \A d \in Client : H[<<"received", d>>] = Hits(received[d], Mail(p))
  BY BoxesAre
<1>4. /\ up \in [Conn -> Seq(KnownMessage)] /\ down \in [Conn -> Seq(KnownMessage)]
      /\ tx_buffer \in Seq(KnownEntry) /\ rx_buffer \in Seq(KnownEntry)
  BY DEF KeysKnown
<1>5. k \in Conn
  BY ConnFacts
<1>6. up' = [up EXCEPT ![k] = Append(@, m)] \/ up' = up
  BY DEF SendMessage, UpAfterSend
<1> HIDE DEF H, G, C, D, k
<1>7. ASSUME NEW s \in Seq(KnownMessage) PROVE Fewer(Hits(s, C), Hits(s, D))
  BY <1>1, SuffixFacts, StreamFewer
<1>8. ASSUME NEW s \in Seq(KnownEntry) PROVE Fewer(Hits(s, Entries(p)), Hits(s, Entries(p)'))
  BY <1>1, SuffixFacts, StreamFewer
<1>9. \A j \in Conn : Fewer(H[<<"down", j>>], G[<<"down", j>>])
  BY <1>2, <1>3, <1>4, <1>7
<1>10. Fewer(H[TxBox], G[TxBox]) /\ Fewer(H[RxBox], G[RxBox])
  BY <1>2, <1>3, <1>4, <1>8
<1>11. Fewer(H[NetworkBox], G[NetworkBox])
  <2>1. G[NetworkBox] \subseteq H[NetworkBox]
    BY <1>2, <1>3
  <2> QED BY <2>1, FewerSame, FewerSubset
<1>12. \A d \in Client : Fewer(H[<<"received", d>>], G[<<"received", d>>])
  BY <1>2, <1>3, FewerSame
<1>13. \A j \in Conn : j # k => Fewer(H[<<"up", j>>], G[<<"up", j>>])
  <2>1. \A j \in Conn : j # k => up'[j] = up[j]
    BY <1>4, <1>5, <1>6
  <2>2. \A j \in Conn : up[j] \in Seq(KnownMessage)
    BY <1>4
  <2> QED BY <1>2, <1>3, <1>7, <2>1, <2>2
<1>14. /\ m \notin D => Fewer(H[dst], G[dst])
       /\ H[dst] = {} => Single(G[dst])
  <2>1. up'[k] = up[k] \/ up'[k] = Append(up[k], m)
    BY <1>4, <1>5, <1>6
  <2>2. up[k] \in Seq(KnownMessage)
    BY <1>4, <1>5
  <2>3. /\ m \notin D => Fewer(Hits(up[k], C), Hits(Append(up[k], m), D))
        /\ Hits(up[k], C) = {} => Single(Hits(Append(up[k], m), D))
    BY <1>1, <2>2, AppendFewer
  <2>4. Fewer(Hits(up[k], C), Hits(up[k], D))
    BY <1>7, <2>2
  <2>5. Hits(up[k], C) = {} => Single(Hits(up[k], D))
    BY <2>4 DEF Fewer, Single
  <2> QED BY <1>2, <1>3, <1>5, <2>1, <2>3, <2>4, <2>5
<1>15. dst \in Box
  BY <1>5, BoxKinds
<1>16. \A x \in Box : x # dst => Fewer(H[x], G[x])
  BY <1>9, <1>10, <1>11, <1>12, <1>13, BoxKinds
<1>17. Gains(H, G, dst) /\ (m \notin D => Kept(H, G))
  BY <1>14, <1>15, <1>16 DEF Gains, Kept
<1> QED BY <1>17 DEF H, G, D, k

(* What was stored under the key that is sent, or what is sent as such. *)
LEMMA PutNames ==
    ASSUME TypeOK, NEW p \in Payload, NEW c \in Client, NEW v \in PlainValue, NEW m \in nsbm,
           \/ db' = Stored(c, v) /\ m.body = StoredBody(c, v)
           \/ db' = db /\ m.body.val = v
    PROVE  /\ DOMAIN db \subseteq DOMAIN db' /\ \A i \in DOMAIN db : db'[i] = db[i]
           /\ m \in Bearers(p)' => v = p
<1> DEFINE more == Append(db, v)
<1>0. db \in Seq(Value)
  BY DEF TypeOK, ClientTypeOK
<1>1. cfg[c].use_db \in BOOLEAN /\ Plain(v) /\ v \in Value
  BY DatabaseTypes DEF PlainValue
<1>2. /\ DOMAIN db = 1 .. Len(db) /\ Len(db) \in Nat
      /\ DOMAIN more = 1 .. (Len(db) + 1)
      /\ more[Len(db) + 1] = v /\ \A i \in 1 .. Len(db) : more[i] = db[i]
  BY <1>0, <1>1
<1> HIDE DEF more
<1>3. m \in Bearers(p)' => Names(m.body.val, p)'
  BY DEF Bearers, Carries
<1>4. CASE db' = db /\ m.body.val = v
  BY <1>1, <1>3, <1>4 DEF Names, IsKey, Plain
<1>5. CASE db' = more /\ m.body.val = <<"#", Len(db) + 1>>
  <2>1. DOMAIN db \subseteq DOMAIN db' /\ \A i \in DOMAIN db : db'[i] = db[i]
    BY <1>2, <1>5
  <2>2. m.body.val[1] = "#" /\ m.body.val[2] = Len(db) + 1 /\ Len(db) + 1 \in DOMAIN db' /\ db'[Len(db) + 1] = v
    BY <1>2, <1>5
  <2>3. Names(m.body.val, p)' => v = p
    BY <2>2 DEF Names, IsKey
  <2> QED BY <1>3, <2>1, <2>3
<1>6. CASE db' = Stored(c, v) /\ m.body = StoredBody(c, v)
  <2>1. CASE ~cfg[c].use_db
    BY <1>4, <1>6, <2>1 DEF Stored, StoredBody, PayloadBody
  <2>2. CASE cfg[c].use_db
    BY <1>5, <1>6, <2>2 DEF Stored, StoredBody, PayloadBody, more
  <2> QED BY <1>1, <2>1, <2>2
<1> QED BY <1>4, <1>6

(* send() puts p on a channel the first time only. *)
SendMoves(p, c) ==
    /\ Sent(p) => Sent(p)'
    /\ \/ Kept(Boxes(p), Boxes(p)')
       \/ /\ p = <<c, nsent[c] + 1>> /\ ~Sent(p) /\ Sent(p)'
          /\ Gains(Boxes(p), Boxes(p)', <<"up", <<c, "SEND">> >>)

(* It does. *)
LEMMA SendsMove ==
    ASSUME TypeOK, KeysKnown, NEW p \in Payload,
           NEW c \in Client, NEW d \in SendTo[c], send(c, d)
    PROVE  SendMoves(p, c) /\ UNCHANGED received
<1>1. PICK v \in {<<c, nsent[c] + 1>>} \cup (IF EmptyPayloads THEN {NoValue} ELSE {}) :
          /\ SendMessage(c, "SEND", DataMessage(c, "SEND", Ident[c], d, StoredBody(c, v)))
          /\ db' = Stored(c, v)
  BY DEF send
<1> DEFINE m == DataMessage(c, "SEND", Ident[c], d, StoredBody(c, v))
           k == <<c, "SEND">>
           dst == <<"up", k>>
<1>2. v \in PlainValue /\ nsent[c] \in Nat
  <2>1. nsent \in [Client -> 0 .. MaxSends] /\ MaxSends \in Nat /\ nsent[c] < MaxSends
    BY WireAssumption DEF TypeOK, ClientTypeOK, send
  <2>2. nsent[c] + 1 \in Nat /\ nsent[c] \in Nat /\ nsent[c] + 1 \in 1 .. MaxSends
    BY <2>1
  <2>3. <<c, nsent[c] + 1>> \in PlainValue
    BY <2>2, WireAssumption DEF PlainValue, Plain, Value, Payload
  <2>4. NoValue \in PlainValue
    BY MessageTypes DEF PlainValue, Plain, NoValue
  <2> QED BY <1>1, <2>2, <2>3, <2>4
<1>3. m \in nsbm /\ m.body = StoredBody(c, v)
  <2>1. Ident[c] \in Id /\ d \in Id /\ StoredBody(c, v) \in Body
    BY <1>2, ClientAssumption, WireAssumption, DatabaseTypes DEF Id, Identifier, PlainValue
  <2> QED BY <2>1, DataMessageType DEF Op, DataMessage
<1> HIDE DEF m
<1>4. /\ UNCHANGED <<down, tx_buffer, rx_buffer, received, fetched, posted>>
      /\ nsent' = [nsent EXCEPT ![c] = @ + 1]
  BY DEF send, socketsButUp, daemonVars, bufferVars, logVars
<1>5. /\ DOMAIN db \subseteq DOMAIN db' /\ \A i \in DOMAIN db : db'[i] = db[i]
      /\ m \in Bearers(p)' => v = p
  BY <1>1, <1>2, <1>3, PutNames
<1>6. Network' \subseteq Network
  BY <1>4 DEF Network, Logged
<1>7. SendMessage(c, "SEND", m) /\ "SEND" \in Channel
  BY <1>1 DEF m, Channel
<1>8. Gains(Boxes(p), Boxes(p)', dst) /\ (m \notin Bearers(p)' => Kept(Boxes(p), Boxes(p)'))
  BY <1>3, <1>4, <1>5, <1>6, <1>7, PutFewer
<1>9. /\ Sent(p) => Sent(p)'
      /\ v = p => p = <<c, nsent[c] + 1>> /\ ~Sent(p) /\ Sent(p)'
  <2>1. p[1] \in Client /\ p[2] \in Nat /\ p # NoValue
    BY NoValueNoPayload
  <2>2. \A x \in Client : nsent[x] \in Nat
    <3>1. nsent \in [Client -> 0 .. MaxSends] /\ MaxSends \in Nat
      BY WireAssumption DEF TypeOK, ClientTypeOK
    <3> QED BY <3>1
  <2>3. \A x \in Client : nsent'[x] = (IF x = c THEN nsent[x] + 1 ELSE nsent[x])
    BY <1>4 DEF TypeOK, ClientTypeOK
  <2>4. v = p => p = <<c, nsent[c] + 1>> /\ p[1] = c /\ p[2] = nsent[c] + 1
    BY <1>1, <2>1
  <2> QED BY <2>1, <2>2, <2>3, <2>4 DEF Sent
<1> QED BY <1>4, <1>5, <1>8, <1>9 DEF SendMoves

(* So p stays in one box. *)
LEMMA SendUnique ==
    ASSUME TypeOK, KeysKnown, NEW p \in Payload, Unique(Boxes(p), Sent(p)),
           NEW c \in Client, NEW d \in SendTo[c], send(c, d)
    PROVE  Unique(Boxes(p)', Sent(p)')
<1>1. SendMoves(p, c)
  BY SendsMove
<1>2. Sent(p) \in BOOLEAN /\ Sent(p)' \in BOOLEAN
  BY DEF Sent
<1>3. CASE Kept(Boxes(p), Boxes(p)')
  BY <1>1, <1>2, <1>3, UniqueKept DEF SendMoves
<1>4. CASE ~Kept(Boxes(p), Boxes(p)')
  <2>1. ~Sent(p) /\ Sent(p)'
    BY <1>1, <1>4 DEF SendMoves
  <2>2. Unique(Boxes(p), FALSE)
    BY <2>1 DEF Unique
  <2>3. Unique(Boxes(p)', TRUE)
    BY <1>1, <1>4, <2>2, UniqueSent DEF SendMoves
  <2> QED BY <2>1, <2>3 DEF Unique
<1> QED BY <1>3, <1>4

(* post() takes p out of the network. *)
PostMoves(p, c, e) ==
    \/ Kept(Boxes(p), Boxes(p)')
    \/ p = e.payload_obj /\ Moved(Boxes(p), Boxes(p)', NetworkBox, <<"up", <<c, "SEND">> >>)

(* It does. *)
LEMMA PostsMove ==
    ASSUME TypeOK, KeysKnown, NEW p \in Payload, Unique(Boxes(p), Sent(p)),
           NEW c \in Client, NEW e \in Network, post(c, e)
    PROVE  PostMoves(p, c, e) /\ UNCHANGED <<nsent, received>>
<1> DEFINE v == e.payload_obj
           m == DataMessage(c, "POST", e.source, e.destination, PostBody(c, v))
           dst == <<"up", <<c, "SEND">> >>
<1>1. e \in PlainEntry /\ e \in MessageEntry /\ v \in PlainValue
  BY NetworkPlain DEF PlainEntry, PlainValue, MessageEntry
<1>2. /\ SendMessage(c, "SEND", m) /\ db' = (IF Impl[c] = "py" THEN db ELSE Stored(c, v))
      /\ posted' = [posted EXCEPT ![c] = Append(@, e)]
      /\ UNCHANGED <<down, tx_buffer, rx_buffer, received, fetched, nsent>> /\ "SEND" \in Channel
  BY DEF post, socketsButUp, daemonVars, bufferVars, Channel
<1>3. m \in nsbm /\ m.body = PostBody(c, v)
  <2>1. e.source \in Id /\ e.destination \in Id
    BY <1>1 DEF MessageEntry
  <2>2. PostBody(c, v) \in Body
    BY <1>1, DatabaseTypes, MessageTypes DEF PostBody, PlainValue
  <2> QED BY <2>1, <2>2, DataMessageType DEF Op, DataMessage
<1> HIDE DEF m
<1>4. \/ db' = Stored(c, v) /\ m.body = StoredBody(c, v)
      \/ db' = db /\ m.body.val = v
  BY <1>2, <1>3 DEF PostBody, PayloadBody
<1>5. /\ DOMAIN db \subseteq DOMAIN db' /\ \A i \in DOMAIN db : db'[i] = db[i]
      /\ m \in Bearers(p)' => v = p
  BY <1>1, <1>3, <1>4, PutNames
<1>6. Network' = Network \ {e}
  <2>1. posted \in [Client -> Seq(MessageEntry)]
    BY DEF TypeOK, ClientTypeOK
  <2>2. Logged(posted') = Logged(posted) \cup {e}
    <3>1. PICK n : /\ \A d \in Client : d # c => posted'[d] = posted[d]
                   /\ DOMAIN posted'[c] = DOMAIN posted[c] \cup {n} /\ posted'[c][n] = e
                   /\ \A i \in DOMAIN posted[c] : posted'[c][i] = posted[c][i]
      BY <1>1, <1>2, <2>1, LoggedAppend
    <3>2. \A x : x \in Logged(posted') <=> x \in Logged(posted) \cup {e}
      BY <3>1 DEF Logged
    <3> QED BY <3>2
  <2>3. Logged(fetched') = Logged(fetched)
    BY <1>2
  <2> QED BY <2>2, <2>3 DEF Network
<1>7. Gains(Boxes(p), Boxes(p)', dst) /\ (m \notin Bearers(p)' => Kept(Boxes(p), Boxes(p)'))
  BY <1>2, <1>3, <1>5, <1>6, PutFewer
<1>9. CASE m \notin Bearers(p)'
  BY <1>2, <1>7, <1>9 DEF PostMoves
<1>10. CASE m \in Bearers(p)'
  <2>1. e \in Network \cap Mail(p)
    BY <1>1, <1>5, <1>10 DEF Mail
  <2>2. Boxes(p)[NetworkBox] = Network \cap Mail(p) /\ Boxes(p)'[NetworkBox] = Network' \cap Mail(p)
    BY BoxesAre, BoxesAfter
  <2>3. Single(Boxes(p)[NetworkBox]) /\ NetworkBox \in Box
    BY BoxKinds DEF Unique
  <2>4. Boxes(p)[NetworkBox] # {} /\ Boxes(p)'[NetworkBox] = {}
    BY <1>6, <2>1, <2>2, <2>3 DEF Single
  <2>5. NetworkBox # dst
    BY DEF NetworkBox
  <2> QED BY <1>2, <1>5, <1>7, <1>10, <2>3, <2>4, <2>5 DEF PostMoves, Moved
<1> QED BY <1>9, <1>10

(* So p stays in one box. *)
LEMMA PostUnique ==
    ASSUME TypeOK, KeysKnown, NEW p \in Payload, Unique(Boxes(p), Sent(p)),
           NEW c \in Client, NEW e \in Network, post(c, e)
    PROVE  Unique(Boxes(p)', Sent(p)')
<1>1. PostMoves(p, c, e) /\ UNCHANGED <<nsent, received>>
  BY PostsMove
<1>2. Sent(p)' = Sent(p) /\ Sent(p) \in BOOLEAN
  BY <1>1 DEF Sent
<1> QED BY <1>1, <1>2, UniqueKept, UniqueMoved DEF PostMoves

(* What a call returns is what the message stands for, and is checked out. *)
LEMMA CheckOutNames ==
    ASSUME TypeOK, KeysKnown, NEW p \in Payload, NEW c \in Client, NEW m \in KnownMessage
    PROVE  /\ CheckOut(c, m) = p => m \in Bearers(p)
           /\ db' = AfterCheckOut(c, m) =>
                DOMAIN db \subseteq DOMAIN db' /\ \A i \in DOMAIN db : db'[i] = db[i] \/ db'[i] = NoValue
<1>1. m \in nsbm /\ m.body \in KnownBody
  BY DEF KnownMessage
<1>2. cfg[c].use_db \in BOOLEAN /\ p # NoValue
  BY <1>1, DatabaseTypes, NoValueNoPayload
<1>3. ~IsKey(NoValue)
  BY DEF IsKey, NoValue
<1>4. ASSUME CheckOut(c, m) = p PROVE m \in Bearers(p)
  <2>1. CASE ~cfg[c].use_db
    <3>1. m.body.kind = "payload" /\ m.body.val = p
      BY <1>2, <1>4, <2>1 DEF CheckOut, PayloadOf
    <3>2. ~IsKey(m.body.val)
      BY <1>1, <3>1 DEF KnownBody, Plain, IsKey
    <3> QED BY <1>1, <3>1, <3>2 DEF Bearers, Carries, Names
  <2>2. CASE cfg[c].use_db
    <3>1. m.body.kind = "msg_key" /\ IsKey(m.body.val) /\ db[m.body.val[2]] = p
      BY <1>2, <1>3, <1>4, <2>2 DEF CheckOut, PayloadOf
    <3> QED BY <1>1, <3>1 DEF Bearers, Carries, Names
  <2> QED BY <1>2, <2>1, <2>2
<1>5. db \in Seq(PlainValue)
  BY DEF KeysKnown
<1> QED BY <1>4, <1>5 DEF AfterCheckOut, IsKey

(* A call that returns takes p off the channel. *)
ReturnMoves(p, c, n, m) ==
    LET src == <<"down", <<c, "RECV">> >>
    IN  \/ Kept(Boxes(p), Boxes(p)')
        \/ /\ CheckOut(c, m) = p
           /\ \/ ReceivedStep(c, n, m) /\ Moved(Boxes(p), Boxes(p)', src, <<"received", c>>)
              \/ FetchedStep(c, n, m) /\ Moved(Boxes(p), Boxes(p)', src, NetworkBox)

(* It does. *)
LEMMA ReturnsMove ==
    ASSUME TypeOK, KeysKnown, NEW p \in Payload, Unique(Boxes(p), Sent(p)), NEW c \in Client,
           NEW n \in Nat, NEW m \in nsbm, ReceivedStep(c, n, m) \/ FetchedStep(c, n, m)
    PROVE  ReturnMoves(p, c, n, m) /\ UNCHANGED nsent
<1> DEFINE H == Boxes(p)
           G == Boxes(p)'
           k == <<c, "RECV">>
           src == <<"down", k>>
           C == Bearers(p)
           D == Bearers(p)'
           e == Returned(c, m)
<1>1. /\ n \in 1 .. Len(down[k]) /\ m = Parse(Read(down[k], n)) /\ k \in Conn
      /\ down' = [down EXCEPT ![k] = Unread(@, n)]
      /\ db' = AfterCheckOut(c, m) /\ UNCHANGED <<up, tx_buffer, rx_buffer, nsent, posted>>
  BY ConnFacts DEF ReceivedStep, FetchedStep, ClientReads, Response, Channel
<1>2. /\ up \in [Conn -> Seq(KnownMessage)] /\ down \in [Conn -> Seq(KnownMessage)]
      /\ tx_buffer \in Seq(KnownEntry) /\ rx_buffer \in Seq(KnownEntry)
      /\ fetched \in [Client -> Seq(PlainEntry)] /\ db \in Seq(PlainValue)
  BY DEF KeysKnown
<1> HIDE DEF k
<1>3. m \in KnownMessage
  BY <1>1, <1>2, ParsedKnown
<1>4. /\ e.payload_obj = p => m \in C
      /\ DOMAIN db \subseteq DOMAIN db' /\ \A i \in DOMAIN db : db'[i] = db[i] \/ db'[i] = NoValue
  BY <1>1, <1>3, CheckOutNames DEF Returned
<1>5. KnownMessage \cap D \subseteq C /\ KnownEntry \cap Entries(p)' \subseteq Entries(p)
  BY <1>4, NamesShrink
<1>6. e \in PlainEntry /\ e \in MessageEntry
  BY <1>2, <1>3, ReturnedPlain DEF PlainEntry
<1> HIDE DEF e
<1>7. /\ \A j \in Conn : G[<<"up", j>>] = Hits(up[j], D) /\ G[<<"down", j>>] = Hits(down'[j], D)
      /\ G[TxBox] = Hits(tx_buffer, Entries(p)') /\ G[RxBox] = Hits(rx_buffer, Entries(p)')
      /\ G[NetworkBox] = Network' \cap Mail(p)
      /\ \A d \in Client : G[<<"received", d>>] = Hits(received'[d], Mail(p))
  BY <1>1, BoxesAfter
<1>8. /\ \A j \in Conn : H[<<"up", j>>] = Hits(up[j], C) /\ H[<<"down", j>>] = Hits(down[j], C)
      /\ H[TxBox] = Hits(tx_buffer, Entries(p)) /\ H[RxBox] = Hits(rx_buffer, Entries(p))
      /\ H[NetworkBox] = Network \cap Mail(p)
      /\ \A d \in Client : H[<<"received", d>>] = Hits(received[d], Mail(p))
  BY BoxesAre
<1>9. \A x \in Box : Single(H[x])
  BY DEF Unique
<1>10. src \in Box
  BY <1>1, BoxKinds
<1> HIDE DEF H, G
<1>11. \A j \in Conn : Fewer(H[<<"up", j>>], G[<<"up", j>>])
  <2>1. ASSUME NEW s \in Seq(KnownMessage) PROVE Fewer(Hits(s, C), Hits(s, D))
    BY <1>5, SuffixFacts, StreamFewer
  <2> HIDE DEF C, D
  <2> QED BY <1>2, <1>7, <1>8, <2>1
<1>12. Fewer(H[TxBox], G[TxBox]) /\ Fewer(H[RxBox], G[RxBox])
  <2>1. ASSUME NEW s \in Seq(KnownEntry) PROVE Fewer(Hits(s, Entries(p)), Hits(s, Entries(p)'))
    BY <1>5, SuffixFacts, StreamFewer
  <2> QED BY <1>2, <1>7, <1>8, <2>1
<1>13. /\ \A j \in Conn : Fewer(H[<<"down", j>>], G[<<"down", j>>])
       /\ m \in C => H[src] # {} /\ G[src] = {}
  <2>1. n \in 0 .. Len(down[k]) /\ down[k] \in Seq(KnownMessage) /\ down[k] \in Seq(nsbm)
    BY <1>1, <1>2, SeqMono DEF KnownMessage
  <2>2. /\ down'[k] = Unread(down[k], n)
        /\ \A j \in Conn : j # k => down'[j] = down[j]
    BY <1>1, <1>2, <2>1, ReadAt
  <2>3. \A j \in Conn : Suffix(down[j], down'[j]) /\ down[j] \in Seq(KnownMessage)
    <3>1. Suffix(down[k], Unread(down[k], n))
      BY <2>1, SuffixFacts
    <3>2. \A j \in Conn : Suffix(down[j], down[j]) /\ down[j] \in Seq(KnownMessage)
      BY <1>2, SuffixFacts
    <3> QED BY <2>2, <3>1, <3>2
  <2>4. \A j \in Conn : Fewer(Hits(down[j], C), Hits(down'[j], D))
    BY <1>5, <2>3, StreamFewer
  <2>5. Single(Hits(down[k], C))
    BY <1>1, <1>8, <1>9, <1>10
  <2>6. ASSUME m \in C PROVE H[src] # {} /\ G[src] = {}
    <3>1. Hits(Unread(down[k], n), C) = {} /\ Hits(down[k], C) # {}
      BY <1>1, <2>1, <2>5, <2>6, ReadMoves
    <3>2. Unread(down[k], n) \in Seq(KnownMessage)
      BY <2>1, SuffixElements DEF Unread
    <3>3. Fewer(Hits(Unread(down[k], n), C), Hits(Unread(down[k], n), D))
      BY <1>5, <3>2, SuffixFacts, StreamFewer
    <3>4. Hits(Unread(down[k], n), D) = {}
      BY <3>1, <3>3 DEF Fewer
    <3> QED BY <1>1, <1>7, <1>8, <2>2, <3>1, <3>4
  <2> QED BY <1>7, <1>8, <2>4, <2>6
<1> HIDE DEF C, D
<1>14. ASSUME NEW dst \in Box, src # dst, H[dst] = {} => Single(G[dst]),
              e.payload_obj # p => Fewer(H[dst], G[dst]),
              \A x \in Box : x # dst => Fewer(H[x], G[x])
       PROVE  Kept(H, G) \/ (CheckOut(c, m) = p /\ Moved(H, G, src, dst))
  <2>1. CASE e.payload_obj = p
    BY <1>4, <1>10, <1>13, <1>14, <2>1 DEF Moved, Gains, e, Returned
  <2>2. CASE e.payload_obj # p
    BY <1>14, <2>2 DEF Kept
  <2> QED BY <2>1, <2>2
<1>15. CASE ReceivedStep(c, n, m)
  <2> DEFINE dst == <<"received", c>>
  <2>1. /\ received' = [received EXCEPT ![c] = Append(@, e)] \/ received' = received
        /\ UNCHANGED <<fetched, posted>>
    BY <1>1, <1>15 DEF ReceivedStep, e
  <2>2. received \in [Client -> Seq(MessageEntry)]
    BY DEF TypeOK, ClientTypeOK
  <2>3. /\ \A d \in Client : d # c => received'[d] = received[d]
        /\ received'[c] = Append(received[c], e) \/ received'[c] = received[c]
    BY <2>1, <2>2
  <2>4. Fewer(H[NetworkBox], G[NetworkBox])
    <3>1. Network' = Network
      BY <2>1 DEF Network, Logged
    <3> QED BY <1>7, <1>8, <3>1, FewerSame
  <2>5. \A d \in Client : d # c => Fewer(H[<<"received", d>>], G[<<"received", d>>])
    BY <1>7, <1>8, <2>3, FewerSame
  <2>6. /\ dst \in Box /\ src # dst
        /\ H[dst] = Hits(received[c], Mail(p)) /\ G[dst] = Hits(received'[c], Mail(p))
    BY <1>7, <1>8, BoxKinds
  <2>7. received[c] \in Seq(MessageEntry)
    BY <2>2
  <2>8. /\ e \notin Mail(p) => Fewer(H[dst], Hits(Append(received[c], e), Mail(p)))
        /\ H[dst] = {} => Single(Hits(Append(received[c], e), Mail(p)))
    BY <2>6, <2>7, AppendFewer
  <2>9. /\ e.payload_obj # p => Fewer(H[dst], G[dst])
        /\ H[dst] = {} => Single(G[dst])
    <3>1. e.payload_obj # p => e \notin Mail(p)
      BY DEF Mail
    <3>2. Fewer(H[dst], H[dst]) /\ (H[dst] = {} => Single(H[dst]))
      BY FewerSame DEF Single
    <3> QED BY <2>3, <2>6, <2>8, <3>1, <3>2
  <2>10. \A x \in Box : x # dst => Fewer(H[x], G[x])
    BY <1>11, <1>12, <1>13, <2>4, <2>5, BoxKinds
  <2>11. Kept(H, G) \/ (CheckOut(c, m) = p /\ Moved(H, G, src, dst))
    BY <1>14, <2>6, <2>9, <2>10
  <2> QED BY <1>1, <1>15, <2>11 DEF ReturnMoves, H, G, k
<1>16. CASE FetchedStep(c, n, m)
  <2> DEFINE dst == NetworkBox
  <2>1. /\ fetched' = [fetched EXCEPT ![c] = Append(@, e)] \/ fetched' = fetched
        /\ UNCHANGED <<received, posted>>
    BY <1>1, <1>16 DEF FetchedStep, e
  <2>2. Network' \subseteq Network \cup {e}
    <3>1. ASSUME fetched' = [fetched EXCEPT ![c] = Append(@, e)]
          PROVE  \A x : x \in Logged(fetched') <=> x \in Logged(fetched) \cup {e}
      <4>0. fetched \in [Client -> Seq(PlainEntry)] /\ e \in PlainEntry
        BY <1>2, <1>6
      <4>1. PICK i : /\ \A d \in Client : d # c => fetched'[d] = fetched[d]
                     /\ DOMAIN fetched'[c] = DOMAIN fetched[c] \cup {i} /\ fetched'[c][i] = e
                     /\ \A j \in DOMAIN fetched[c] : fetched'[c][j] = fetched[c][j]
        BY <3>1, <4>0, LoggedAppend
      <4> QED BY <4>1 DEF Logged
    <3>2. fetched' = fetched => Logged(fetched') = Logged(fetched)
      OBVIOUS
    <3>3. Logged(posted') = Logged(posted)
      BY <2>1
    <3> QED BY <2>1, <3>1, <3>2, <3>3 DEF Network
  <2>3. \A d \in Client : Fewer(H[<<"received", d>>], G[<<"received", d>>])
    BY <1>7, <1>8, <2>1, FewerSame
  <2>4. dst \in Box /\ src # dst
    BY BoxKinds DEF NetworkBox
  <2>5. G[dst] \subseteq H[dst] \cup {e} /\ (e.payload_obj # p => G[dst] \subseteq H[dst])
    BY <1>7, <1>8, <2>2 DEF Mail
  <2>6. /\ e.payload_obj # p => Fewer(H[dst], G[dst])
        /\ H[dst] = {} => Single(G[dst])
    BY <2>5, FewerSame, FewerSubset DEF Single
  <2>7. \A x \in Box : x # dst => Fewer(H[x], G[x])
    BY <1>11, <1>12, <1>13, <2>3, BoxKinds
  <2>8. Kept(H, G) \/ (CheckOut(c, m) = p /\ Moved(H, G, src, dst))
    BY <1>14, <2>4, <2>6, <2>7
  <2> QED BY <1>1, <1>16, <2>8 DEF ReturnMoves, H, G, k
<1> QED BY <1>15, <1>16

(* So p stays in one box. *)
LEMMA ReadUnique ==
    ASSUME TypeOK, KeysKnown, NEW p \in Payload, Unique(Boxes(p), Sent(p)), NEW c \in Client,
           NEW n \in Nat, NEW m \in nsbm, ReceivedStep(c, n, m) \/ FetchedStep(c, n, m)
    PROVE  Unique(Boxes(p)', Sent(p)')
<1>1. ReturnMoves(p, c, n, m) /\ UNCHANGED nsent
  BY ReturnsMove
<1>2. Sent(p)' = Sent(p) /\ Sent(p) \in BOOLEAN
  BY <1>1 DEF Sent
<1> QED BY <1>1, <1>2, UniqueKept, UniqueMoved DEF ReturnMoves

(* A quiet step moves no payload. *)
LEMMA QuietKeeps ==
    ASSUME TypeOK, NEW p \in Payload, QuietStep
    PROVE  Kept(Boxes(p), Boxes(p)') /\ UNCHANGED <<nsent, received>>
<1> DEFINE H == Boxes(p)
           G == Boxes(p)'
           C == Bearers(p)
<1>1. UNCHANGED <<tx_buffer, rx_buffer, db, nsent, fetched, posted, received>>
  BY DEF QuietStep, dataVars
<1>2. Bearers(p)' = C /\ Entries(p)' = Entries(p)
  BY <1>1, SameNames
<1>3. Network' = Network
  BY <1>1 DEF Network, Logged
<1>4. /\ \A j \in Conn : G[<<"up", j>>] = Hits(up'[j], C) /\ G[<<"down", j>>] = Hits(down'[j], C)
      /\ G[TxBox] = Hits(tx_buffer, Entries(p)) /\ G[RxBox] = Hits(rx_buffer, Entries(p))
      /\ G[NetworkBox] = Network \cap Mail(p)
      /\ \A d \in Client : G[<<"received", d>>] = Hits(received[d], Mail(p))
  BY <1>1, <1>2, <1>3, BoxesAfter
<1>5. /\ \A j \in Conn : H[<<"up", j>>] = Hits(up[j], C) /\ H[<<"down", j>>] = Hits(down[j], C)
      /\ H[TxBox] = Hits(tx_buffer, Entries(p)) /\ H[RxBox] = Hits(rx_buffer, Entries(p))
      /\ H[NetworkBox] = Network \cap Mail(p)
      /\ \A d \in Client : H[<<"received", d>>] = Hits(received[d], Mail(p))
  BY BoxesAre
<1>6. ASSUME NEW s \in Seq(nsbm), NEW t, Quiet(s, t) PROVE Fewer(Hits(s, C), Hits(t, C))
  <2>1. CASE Suffix(s, t)
    BY <2>1, HitsSuffix
  <2>2. ASSUME NEW m \in nsbm, ~Bears(m), t = Append(s, m) PROVE Fewer(Hits(s, C), Hits(t, C))
    <3>1. m \notin C
      BY <2>2 DEF Bears, Bearers, Carries
    <3>2. Fewer(Hits(s, C), Hits(Append(s, m), C))
      BY <3>1, AppendFewer
    <3> QED BY <2>2, <3>2
  <2> QED BY <1>6, <2>1, <2>2 DEF Quiet
<1> HIDE DEF H, G, C
<1>7. \A j \in Conn : Fewer(H[<<"up", j>>], G[<<"up", j>>]) /\ Fewer(H[<<"down", j>>], G[<<"down", j>>])
  <2>1. \A j \in Conn : up[j] \in Seq(nsbm) /\ down[j] \in Seq(nsbm)
    BY DEF TypeOK, SocketsTypeOK
  <2>2. \A j \in Conn : Quiet(up[j], up'[j]) /\ Quiet(down[j], down'[j])
    BY DEF QuietStep, Plainly
  <2> QED BY <1>4, <1>5, <1>6, <2>1, <2>2
<1>8. \A x \in Box : Fewer(H[x], G[x])
  BY <1>4, <1>5, <1>7, FewerSame, BoxKinds
<1> QED BY <1>1, <1>8 DEF H, G, Kept

(* So p stays in one box. *)
LEMMA QuietUnique ==
    ASSUME TypeOK, NEW p \in Payload, Unique(Boxes(p), Sent(p)), QuietStep
    PROVE  Unique(Boxes(p)', Sent(p)')
<1>1. Kept(Boxes(p), Boxes(p)') /\ UNCHANGED <<nsent, received>>
  BY QuietKeeps
<1>2. Sent(p)' = Sent(p) /\ Sent(p) \in BOOLEAN
  BY <1>1 DEF Sent
<1> QED BY <1>1, <1>2, UniqueKept

(* No step puts a payload where it is not, or twice. *)
LEMMA PlaceInvStep ==
    ASSUME PlaceInv, [Next]_vars
    PROVE  PlaceInv'
<1>1. TypeInv' /\ KeysKnown'
  BY TypeInvStep, KeysKnownStep DEF PlaceInv
<1>2. ASSUME NEW p \in Payload PROVE Unique(Boxes(p)', Sent(p)')
  <2>1. TypeInv /\ TypeOK /\ KeysKnown /\ Unique(Boxes(p), Sent(p))
    BY DEF PlaceInv, TypeInv
  <2>2. CASE QuietStep
    BY <2>1, <2>2, QuietUnique
  <2>3. ASSUME NEW k \in Conn, NEW n \in Nat, NEW m \in nsbm, HandlerStepKind(k, n, m)
        PROVE  Unique(Boxes(p)', Sent(p)')
    BY <2>1, <2>3, HandlerUnique
  <2>4. ASSUME NEW c \in Client, ClientStepKind(c) PROVE Unique(Boxes(p)', Sent(p)')
    BY <2>1, <2>4, ReadUnique, SendUnique, PostUnique DEF ClientStepKind
  <2> QED BY <2>1, <2>2, <2>3, <2>4, DataSteps
<1>3. (\A p \in Payload : Unique(Boxes(p), Sent(p)))'
  BY <1>2 DEF Unique
<1> QED BY <1>1, <1>3 DEF PlaceInv

(* At the start there is no payload anywhere. *)
LEMMA PlaceInvInit ==
    ASSUME Init
    PROVE  PlaceInv
<1>1. TypeInv /\ KeysKnown
  BY TypeInvInit, KeysKnownInit
<1>2. /\ up = [k \in Conn |-> <<>>] /\ down = [k \in Conn |-> <<>>] /\ tx_buffer = <<>> /\ rx_buffer = <<>>
      /\ fetched = [c \in Client |-> <<>>] /\ received = [c \in Client |-> <<>>]
  BY DEF Init, SocketsInit, DaemonInit, ClientInit
<1>3. ASSUME NEW C PROVE Hits(<<>>, C) = {}
  BY DEF Hits
<1>4. Network = {}
  BY <1>2 DEF Network, Logged
<1>5. ASSUME NEW p \in Payload PROVE \A x \in Box : Boxes(p)[x] = {}
  BY <1>2, <1>3, <1>4, BoxesAre, BoxKinds
<1>6. \A p \in Payload : Unique(Boxes(p), Sent(p))
  BY <1>5 DEF Unique, Single
<1> QED BY <1>1, <1>6 DEF PlaceInv

-----------------------------------------------------------------------------
(* From boxes to places.                                                    *)

Place(x, i) ==
    CASE x[1] \in {"up", "down", "received"} -> <<x[1], x[2], i>>
      [] x[1] \in {"tx", "rx"} -> <<x[1], NoConn, i>>
      [] OTHER -> <<"network", i, 0>>

(* A place is something in a box. *)
LEMMA PlaceInBox ==
    ASSUME TypeOK, NEW p, NEW a \in Places(p)
    PROVE  \E x \in Box : \E i \in Boxes(p)[x] : a = Place(x, i)
<1>1. /\ up \in [Conn -> Seq(nsbm)] /\ down \in [Conn -> Seq(nsbm)]
      /\ tx_buffer \in Seq(MessageEntry) /\ rx_buffer \in Seq(MessageEntry)
      /\ fetched \in [Client -> Seq(MessageEntry)] /\ received \in [Client -> Seq(MessageEntry)]
  BY DEF TypeOK, SocketsTypeOK, DaemonTypeOK, ClientTypeOK
<1>2. /\ \A j \in Conn : /\ Boxes(p)[<<"up", j>>] = Hits(up[j], Bearers(p))
                         /\ Boxes(p)[<<"down", j>>] = Hits(down[j], Bearers(p))
      /\ Boxes(p)[TxBox] = Hits(tx_buffer, Entries(p)) /\ Boxes(p)[RxBox] = Hits(rx_buffer, Entries(p))
      /\ Boxes(p)[NetworkBox] = Network \cap Mail(p)
      /\ \A d \in Client : Boxes(p)[<<"received", d>>] = Hits(received[d], Mail(p))
  BY BoxesAre
<1>3. CASE a \in InStream("up", up, p)
  <2>1. PICK k \in Conn : \E i \in DOMAIN up[k] : Carries(up[k][i], p) /\ a = <<"up", k, i>>
    BY <1>3 DEF InStream
  <2>2. PICK i \in DOMAIN up[k] : Carries(up[k][i], p) /\ a = <<"up", k, i>>
    BY <2>1
  <2>3. up[k][i] \in nsbm
    BY <1>1
  <2>4. i \in Boxes(p)[<<"up", k>>]
    BY <1>2, <2>2, <2>3 DEF Hits, Bearers
  <2>5. Place(<<"up", k>>, i) = a
    BY <2>2 DEF Place
  <2> QED BY <2>4, <2>5, BoxKinds
<1>4. CASE a \in InStream("down", down, p)
  <2>1. PICK k \in Conn : \E i \in DOMAIN down[k] : Carries(down[k][i], p) /\ a = <<"down", k, i>>
    BY <1>4 DEF InStream
  <2>2. PICK i \in DOMAIN down[k] : Carries(down[k][i], p) /\ a = <<"down", k, i>>
    BY <2>1
  <2>3. down[k][i] \in nsbm
    BY <1>1
  <2>4. i \in Boxes(p)[<<"down", k>>]
    BY <1>2, <2>2, <2>3 DEF Hits, Bearers
  <2>5. Place(<<"down", k>>, i) = a
    BY <2>2 DEF Place
  <2> QED BY <2>4, <2>5, BoxKinds
<1>5. CASE a \in InBuffer("tx", tx_buffer, p)
  <2>1. PICK i \in DOMAIN tx_buffer : Names(tx_buffer[i].payload_obj, p) /\ a = <<"tx", NoConn, i>>
    BY <1>5 DEF InBuffer
  <2>2. tx_buffer[i] \in MessageEntry
    BY <1>1
  <2>3. i \in Boxes(p)[TxBox]
    BY <1>2, <2>1, <2>2 DEF Hits, Entries
  <2>4. Place(TxBox, i) = a
    BY <2>1 DEF Place, TxBox
  <2> QED BY <2>3, <2>4, BoxKinds
<1>6. CASE a \in InBuffer("rx", rx_buffer, p)
  <2>1. PICK i \in DOMAIN rx_buffer : Names(rx_buffer[i].payload_obj, p) /\ a = <<"rx", NoConn, i>>
    BY <1>6 DEF InBuffer
  <2>2. rx_buffer[i] \in MessageEntry
    BY <1>1
  <2>3. i \in Boxes(p)[RxBox]
    BY <1>2, <2>1, <2>2 DEF Hits, Entries
  <2>4. Place(RxBox, i) = a
    BY <2>1 DEF Place, RxBox
  <2> QED BY <2>3, <2>4, BoxKinds
<1>7. CASE a \in InNetwork(p)
  <2>1. PICK e \in Network : e.payload_obj = p /\ a = <<"network", e, 0>>
    BY <1>7 DEF InNetwork
  <2>2. e \in MessageEntry
    BY <1>1 DEF Network, Logged
  <2>3. e \in Boxes(p)[NetworkBox]
    BY <1>2, <2>1, <2>2 DEF Mail
  <2>4. Place(NetworkBox, e) = a
    BY <2>1 DEF Place, NetworkBox
  <2> QED BY <2>3, <2>4, BoxKinds
<1>8. CASE a \in AtReceiver(p)
  <2>1. PICK c \in Client : \E i \in DOMAIN received[c] : received[c][i].payload_obj = p /\ a = <<"received", c, i>>
    BY <1>8 DEF AtReceiver
  <2>2. PICK i \in DOMAIN received[c] : received[c][i].payload_obj = p /\ a = <<"received", c, i>>
    BY <2>1
  <2>3. received[c][i] \in MessageEntry
    BY <1>1
  <2>4. i \in Boxes(p)[<<"received", c>>]
    BY <1>2, <2>2, <2>3 DEF Hits, Mail
  <2>5. Place(<<"received", c>>, i) = a
    BY <2>2 DEF Place
  <2> QED BY <2>4, <2>5, BoxKinds
<1> QED BY <1>3, <1>4, <1>5, <1>6, <1>7, <1>8 DEF Places

(* One box, one place. *)
LEMMA PlaceInvOnePlace == PlaceInv => OnePlace
<1> SUFFICES ASSUME PlaceInv, NEW p \in Payload
             PROVE  Cardinality(Places(p)) <= 1 /\ (Places(p) # {} => Sent(p))
  BY DEF OnePlace
<1>1. TypeOK /\ Unique(Boxes(p), Sent(p))
  BY DEF PlaceInv, TypeInv
<1>2. \A a \in Places(p) : \E x \in Box : \E i \in Boxes(p)[x] : a = Place(x, i)
  BY <1>1, PlaceInBox
<1>3. Places(p) # {} => Sent(p)
  BY <1>1, <1>2 DEF Unique
<1>4. ASSUME NEW a \in Places(p), NEW b \in Places(p) PROVE a = b
  <2>1. PICK x \in Box : \E i \in Boxes(p)[x] : a = Place(x, i)
    BY <1>2
  <2>2. PICK y \in Box : \E i \in Boxes(p)[y] : b = Place(y, i)
    BY <1>2
  <2>3. x = y
    BY <1>1, <2>1, <2>2 DEF Unique
  <2> QED BY <1>1, <2>1, <2>2, <2>3 DEF Unique, Single
<1>5. Cardinality(Places(p)) <= 1
  <2>1. CASE Places(p) = {}
    BY <2>1, FS_EmptySet
  <2>2. CASE Places(p) # {}
    <3>1. PICK a : Places(p) = {a}
      BY <1>4, <2>2
    <3>2. Cardinality({a}) = 1
      BY FS_Singleton
    <3> QED BY <3>1, <3>2
  <2> QED BY <2>1, <2>2
<1> QED BY <1>3, <1>5

(* In every state of the socket version of NSB a payload is in one place    *)
(* at most, and only if it was sent: neither the merging of messages by     *)
(* start_server, nor the find and erase of handle_fetch and handle_receive, *)
(* nor forwarding, timeouts, repeated requests, database keys or ends of    *)
(* clients and daemon make a second copy.                                   *)
THEOREM OnePlaceSafe == Spec => []OnePlace
<1>1. Init => PlaceInv
  BY PlaceInvInit
<1>2. PlaceInv /\ [Next]_vars => PlaceInv'
  BY PlaceInvStep
<1> QED BY <1>1, <1>2, PlaceInvOnePlace, PTL DEF Spec
=============================================================================
