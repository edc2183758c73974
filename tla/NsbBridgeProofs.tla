-------------------------- MODULE NsbBridgeProofs --------------------------
(***************************************************************************)
(* The socket version in PULL mode.                                        *)
(*                                                                         *)
(*  - It implements NsbBridge: by what the clients write on which channel, *)
(*    the way a payload takes from box to box (NsbPlaceProofs), and the    *)
(*    part of the way each box is on.                                      *)
(*  - OwnMail and OwnNode: a request names whom it is for, so does every   *)
(*    merge of requests, the buffer search heeds it, and a merge of such   *)
(*    answers is such an answer.                                           *)
(*  - KeysResolve: the one place of a payload is the one place of its key. *)
(*  - AnswersMatch: with one request at a time, what is on a RECV channel  *)
(*    is about what its client asked for last.                             *)
(***************************************************************************)
EXTENDS NsbPlaceProofs

-----------------------------------------------------------------------------
(* How far a payload has come, by the box it is in.                         *)

BoxStage(x) ==
    IF x[1] = "received" THEN "delivered"
    ELSE IF x[1] = "network" THEN "network"
    ELSE IF \/ x[1] = "tx"
            \/ x[1] = "up" /\ IsApp(x[2][1])
            \/ x[1] = "down" /\ ~IsApp(x[2][1]) THEN "outgoing"
    ELSE "returning"

StageRight(p) ==
    /\ \A x \in Box : Boxes(p)[x] # {} => StageOf(p) = BoxStage(x)
    /\ (\A x \in Box : Boxes(p)[x] = {}) => StageOf(p) = IF Sent(p) THEN "lost" ELSE "unsent"

(* The stages of the boxes. *)
LEMMA BoxStages ==
    /\ BoxStage(TxBox) = "outgoing" /\ BoxStage(RxBox) = "returning" /\ BoxStage(NetworkBox) = "network"
    /\ \A c \in Client : BoxStage(<<"received", c>>) = "delivered"
    /\ \A c \in Client, ch \in Channel :
            /\ BoxStage(<<"up", <<c, ch>> >>) = IF IsApp(c) THEN "outgoing" ELSE "returning"
            /\ BoxStage(<<"down", <<c, ch>> >>) = IF IsApp(c) THEN "returning" ELSE "outgoing"
    /\ \A x \in Box : BoxStage(x) = "delivered" => \E c \in Client : x = <<"received", c>>
    /\ \A x \in Box : BoxStage(x) \notin {"lost", "unsent"}
<1>1. /\ BoxStage(TxBox) = "outgoing" /\ BoxStage(RxBox) = "returning" /\ BoxStage(NetworkBox) = "network"
      /\ \A c \in Client : BoxStage(<<"received", c>>) = "delivered"
  BY DEF BoxStage, TxBox, RxBox, NetworkBox
<1>2. \A c \in Client, ch \in Channel :
            /\ BoxStage(<<"up", <<c, ch>> >>) = IF IsApp(c) THEN "outgoing" ELSE "returning"
            /\ BoxStage(<<"down", <<c, ch>> >>) = IF IsApp(c) THEN "returning" ELSE "outgoing"
  BY DEF BoxStage
<1>3. ASSUME NEW x \in Box, BoxStage(x) = "delivered" PROVE \E c \in Client : x = <<"received", c>>
  <2>1. x[1] = "received"
    BY <1>3 DEF BoxStage
  <2> QED BY <2>1, BoxKinds DEF TxBox, RxBox, NetworkBox
<1>4. \A x \in Box : BoxStage(x) \notin {"lost", "unsent"}
  BY DEF BoxStage
<1> QED BY <1>1, <1>2, <1>3, <1>4

(* What is in a box is a place. *)
LEMMA BoxIsPlace ==
    ASSUME TypeOK, NEW p
    PROVE  /\ \A c \in Client : Boxes(p)[<<"received", c>>] # {} => AtReceiver(p) # {}
           /\ Boxes(p)[NetworkBox] # {} => InNetwork(p) # {}
           /\ Boxes(p)[TxBox] # {} => InBuffer("tx", tx_buffer, p) # {}
           /\ Boxes(p)[RxBox] # {} => InBuffer("rx", rx_buffer, p) # {}
           /\ \A k \in Conn : /\ Boxes(p)[<<"up", k>>] # {} => \E i : <<"up", k, i>> \in InStream("up", up, p)
                              /\ Boxes(p)[<<"down", k>>] # {} => \E i : <<"down", k, i>> \in InStream("down", down, p)
<1>1. /\ \A k \in Conn : /\ Boxes(p)[<<"up", k>>] = Hits(up[k], Bearers(p))
                         /\ Boxes(p)[<<"down", k>>] = Hits(down[k], Bearers(p))
      /\ Boxes(p)[TxBox] = Hits(tx_buffer, Entries(p)) /\ Boxes(p)[RxBox] = Hits(rx_buffer, Entries(p))
      /\ Boxes(p)[NetworkBox] = Network \cap Mail(p)
      /\ \A d \in Client : Boxes(p)[<<"received", d>>] = Hits(received[d], Mail(p))
  BY BoxesAre
<1>2. ASSUME NEW c \in Client, Boxes(p)[<<"received", c>>] # {} PROVE AtReceiver(p) # {}
  <2>1. PICK i \in DOMAIN received[c] : received[c][i] \in Mail(p)
    BY <1>1, <1>2 DEF Hits
  <2>2. <<"received", c, i>> \in AtReceiver(p)
    BY <2>1 DEF AtReceiver, Mail
  <2> QED BY <2>2
<1>3. ASSUME Boxes(p)[NetworkBox] # {} PROVE InNetwork(p) # {}
  <2>1. PICK e \in Network : e.payload_obj = p
    BY <1>1, <1>3 DEF Mail
  <2>2. <<"network", e, 0>> \in InNetwork(p)
    BY <2>1 DEF InNetwork
  <2> QED BY <2>2
<1>4. ASSUME Boxes(p)[TxBox] # {} PROVE InBuffer("tx", tx_buffer, p) # {}
  <2>1. PICK i \in DOMAIN tx_buffer : Names(tx_buffer[i].payload_obj, p)
    BY <1>1, <1>4 DEF Entries, Hits
  <2>2. <<"tx", NoConn, i>> \in InBuffer("tx", tx_buffer, p)
    BY <2>1 DEF InBuffer
  <2> QED BY <2>2
<1>5. ASSUME Boxes(p)[RxBox] # {} PROVE InBuffer("rx", rx_buffer, p) # {}
  <2>1. PICK i \in DOMAIN rx_buffer : Names(rx_buffer[i].payload_obj, p)
    BY <1>1, <1>5 DEF Entries, Hits
  <2>2. <<"rx", NoConn, i>> \in InBuffer("rx", rx_buffer, p)
    BY <2>1 DEF InBuffer
  <2> QED BY <2>2
<1>6. ASSUME NEW k \in Conn, Boxes(p)[<<"up", k>>] # {} PROVE \E i : <<"up", k, i>> \in InStream("up", up, p)
  <2>1. PICK i \in DOMAIN up[k] : Carries(up[k][i], p)
    BY <1>1, <1>6 DEF Hits, Bearers
  <2> QED BY <2>1 DEF InStream
<1>7. ASSUME NEW k \in Conn, Boxes(p)[<<"down", k>>] # {}
      PROVE  \E i : <<"down", k, i>> \in InStream("down", down, p)
  <2>1. PICK i \in DOMAIN down[k] : Carries(down[k][i], p)
    BY <1>1, <1>7 DEF Hits, Bearers
  <2> QED BY <2>1 DEF InStream
<1> QED BY <1>2, <1>3, <1>4, <1>5, <1>6, <1>7

(* The stage of a payload is that of its box. *)
LEMMA StageIs == PlaceInv => \A p \in Payload : StageRight(p)
<1> SUFFICES ASSUME PlaceInv, NEW p \in Payload PROVE StageRight(p)
  OBVIOUS
<1> DEFINE B == Boxes(p)
<1>0. TypeOK /\ Unique(B, Sent(p))
  BY DEF PlaceInv, TypeInv
<1>1. \A a \in Places(p) : \E x \in Box : \E i \in B[x] : a = Place(x, i)
  BY <1>0, PlaceInBox
<1>2. /\ AtReceiver(p) \subseteq Places(p) /\ InNetwork(p) \subseteq Places(p)
      /\ Outgoing(p) \subseteq Places(p)
      /\ InStream("up", up, p) \subseteq Places(p) /\ InStream("down", down, p) \subseteq Places(p)
      /\ InBuffer("tx", tx_buffer, p) \subseteq Places(p) /\ InBuffer("rx", rx_buffer, p) \subseteq Places(p)
  BY DEF Places, Outgoing, StreamsOf
<1>3. /\ \A a \in AtReceiver(p) : a[1] = "received"
      /\ \A a \in InNetwork(p) : a[1] = "network"
      /\ \A a \in Outgoing(p) : \/ a[1] = "tx"
                                \/ a[1] = "up" /\ IsApp(a[2][1])
                                \/ a[1] = "down" /\ a[2][1] \in OfKind("SIM_CLIENT")
  BY DEF AtReceiver, InNetwork, Outgoing, InStream, InBuffer, StreamsOf, OfKind, IsApp
<1>4. \A x \in Box : \A i : Place(x, i)[1] = x[1] /\ (x[1] \in {"up", "down"} => Place(x, i)[2] = x[2])
  <2>1. \A x \in Box : x[1] \in {"up", "down", "tx", "rx", "network", "received"}
    BY DEF Box
  <2> QED BY <2>1 DEF Place
<1> HIDE DEF B
<1>5. ASSUME \A x \in Box : B[x] = {} PROVE StageOf(p) = IF Sent(p) THEN "lost" ELSE "unsent"
  <2>1. Places(p) = {}
    BY <1>1, <1>5
  <2>2. AtReceiver(p) = {} /\ InNetwork(p) = {} /\ Outgoing(p) = {}
    BY <1>2, <2>1
  <2> QED BY <2>1, <2>2 DEF StageOf
<1>6. ASSUME NEW x \in Box, B[x] # {} PROVE StageOf(p) = BoxStage(x)
  <2>1. \A a \in Places(p) : a[1] = x[1] /\ (x[1] \in {"up", "down"} => a[2] = x[2])
    <3> SUFFICES ASSUME NEW a \in Places(p) PROVE a[1] = x[1] /\ (x[1] \in {"up", "down"} => a[2] = x[2])
      OBVIOUS
    <3>1. PICK y \in Box : \E i \in B[y] : a = Place(y, i)
      BY <1>1
    <3>2. y = x
      BY <1>0, <1>6, <3>1 DEF Unique
    <3> QED BY <1>4, <3>1, <3>2
  <2>2. /\ \A c \in Client : B[<<"received", c>>] # {} => AtReceiver(p) # {}
        /\ B[NetworkBox] # {} => InNetwork(p) # {}
        /\ B[TxBox] # {} => InBuffer("tx", tx_buffer, p) # {}
        /\ B[RxBox] # {} => InBuffer("rx", rx_buffer, p) # {}
        /\ \A k \in Conn : /\ B[<<"up", k>>] # {} => \E i : <<"up", k, i>> \in InStream("up", up, p)
                           /\ B[<<"down", k>>] # {} => \E i : <<"down", k, i>> \in InStream("down", down, p)
    BY <1>0, BoxIsPlace DEF B
  <2>3. ASSUME NEW c \in Client, x = <<"received", c>> PROVE StageOf(p) = BoxStage(x)
    BY <1>6, <2>2, <2>3 DEF StageOf, BoxStage
  <2>4. CASE x = NetworkBox
    <3>1. x[1] = "network" /\ InNetwork(p) # {}
      BY <1>6, <2>2, <2>4 DEF NetworkBox
    <3>2. AtReceiver(p) = {}
      BY <1>2, <1>3, <2>1, <3>1
    <3> QED BY <3>1, <3>2 DEF StageOf, BoxStage
  <2>5. ASSUME x[1] \notin {"received", "network"} PROVE AtReceiver(p) = {} /\ InNetwork(p) = {}
    BY <1>2, <1>3, <2>1, <2>5
  <2>6. CASE x = TxBox
    <3>1. x[1] = "tx" /\ Outgoing(p) # {}
      BY <1>6, <2>2, <2>6 DEF TxBox, Outgoing
    <3> QED BY <2>5, <3>1 DEF StageOf, BoxStage
  <2>7. CASE x = RxBox
    <3>1. x[1] = "rx" /\ InBuffer("rx", rx_buffer, p) # {}
      BY <1>6, <2>2, <2>7 DEF RxBox
    <3>2. Outgoing(p) = {} /\ Places(p) # {}
      BY <1>2, <1>3, <2>1, <3>1
    <3> QED BY <2>5, <3>1, <3>2 DEF StageOf, BoxStage
  <2>8. ASSUME NEW k \in Conn, x = <<"up", k>> PROVE StageOf(p) = BoxStage(x)
    <3>1. x[1] = "up" /\ x[2] = k /\ k[1] \in Client
      BY <2>8 DEF Conn
    <3>2. PICK i : <<"up", k, i>> \in InStream("up", up, p)
      BY <1>6, <2>2, <2>8
    <3>3. CASE IsApp(k[1])
      <4>1. <<"up", k, i>> \in Outgoing(p)
        BY <3>1, <3>2, <3>3 DEF Outgoing, StreamsOf, OfKind, IsApp
      <4> QED BY <2>5, <3>1, <3>3, <4>1 DEF StageOf, BoxStage
    <3>4. CASE ~IsApp(k[1])
      <4>1. Outgoing(p) = {}
        BY <1>2, <1>3, <2>1, <3>1, <3>4
      <4>2. Places(p) # {}
        BY <1>2, <3>2
      <4> QED BY <2>5, <3>1, <3>4, <4>1, <4>2 DEF StageOf, BoxStage
    <3> QED BY <3>3, <3>4
  <2>9. ASSUME NEW k \in Conn, x = <<"down", k>> PROVE StageOf(p) = BoxStage(x)
    <3>1. x[1] = "down" /\ x[2] = k /\ k[1] \in Client /\ (IsApp(k[1]) <=> k[1] \notin OfKind("SIM_CLIENT"))
      BY <2>9, ClientAssumption DEF Conn, OfKind, IsApp
    <3>2. PICK i : <<"down", k, i>> \in InStream("down", down, p)
      BY <1>6, <2>2, <2>9
    <3>3. CASE ~IsApp(k[1])
      <4>1. <<"down", k, i>> \in Outgoing(p)
        BY <3>1, <3>2, <3>3 DEF Outgoing, StreamsOf
      <4> QED BY <2>5, <3>1, <3>3, <4>1 DEF StageOf, BoxStage
    <3>4. CASE IsApp(k[1])
      <4>1. Outgoing(p) = {}
        BY <1>2, <1>3, <2>1, <3>1, <3>4
      <4>2. Places(p) # {}
        BY <1>2, <3>2
      <4> QED BY <2>5, <3>1, <3>4, <4>1, <4>2 DEF StageOf, BoxStage
    <3> QED BY <3>3, <3>4
  <2> QED BY <2>3, <2>4, <2>6, <2>7, <2>8, <2>9, BoxKinds
<1> QED BY <1>5, <1>6 DEF StageRight, B

-----------------------------------------------------------------------------
(* The steps, payload by payload.                                           *)

Stays(p) == StageOf(p)' = StageOf(p) \/ (StageOf(p) # "delivered" /\ StageOf(p)' = "lost")
Moves(p, from, to) == StageOf(p) = from /\ StageOf(p)' = to

(* The stage of p before and after a step. *)
Before(p) == PlaceInv /\ PlaceInv' /\ StageRight(p) /\ StageRight(p)' /\ (Sent(p) => Sent(p)')

(* A log that only grows loses nothing. *)
ReceiversKeep(p) == \A c \in Client : Boxes(p)[<<"received", c>>] # {} => Boxes(p)'[<<"received", c>>] # {}

(* A payload that no box gains keeps its stage or is lost. *)
LEMMA KeptStays ==
    ASSUME NEW p \in Payload, Before(p), ReceiversKeep(p), Kept(Boxes(p), Boxes(p)')
    PROVE  Stays(p)
<1> DEFINE H == Boxes(p)
           G == Boxes(p)'
<1>1. /\ \A x \in Box : H[x] # {} => StageOf(p) = BoxStage(x)
      /\ (\A x \in Box : H[x] = {}) => StageOf(p) = IF Sent(p) THEN "lost" ELSE "unsent"
  BY DEF Before, StageRight
<1>2. /\ \A x \in Box : G[x] # {} => StageOf(p)' = BoxStage(x)
      /\ (\A x \in Box : G[x] = {}) => StageOf(p)' = IF Sent(p)' THEN "lost" ELSE "unsent"
  BY DEF Before, StageRight
<1>3. \A x \in Box : G[x] # {} => H[x] # {}
  BY DEF Kept, Fewer
<1>4. (\E x \in Box : H[x] # {}) => Sent(p)
  BY DEF Before, PlaceInv, Unique
<1>5. Sent(p) => Sent(p)'
  BY DEF Before
<1>6. \A c \in Client : H[<<"received", c>>] # {} => G[<<"received", c>>] # {}
  BY DEF ReceiversKeep
<1> HIDE DEF H, G
<1>7. CASE \E x \in Box : G[x] # {}
  BY <1>1, <1>2, <1>3, <1>7 DEF Stays
<1>8. CASE (\A x \in Box : G[x] = {}) /\ \E x \in Box : H[x] # {}
  <2>1. StageOf(p)' = "lost"
    BY <1>2, <1>4, <1>5, <1>8
  <2>2. StageOf(p) # "delivered"
    <3>1. PICK x \in Box : H[x] # {}
      BY <1>8
    <3>2. \A c \in Client : x # <<"received", c>>
      BY <1>6, <1>8, <3>1, BoxKinds
    <3> QED BY <1>1, <3>1, <3>2, BoxStages
  <2> QED BY <2>1, <2>2 DEF Stays
<1>9. CASE \A x \in Box : H[x] = {}
  BY <1>1, <1>2, <1>3, <1>5, <1>9 DEF Stays
<1> QED BY <1>7, <1>8, <1>9

(* A payload that moves from one box to another goes from the stage of the  *)
(* one to the stage of the other, or is lost.                               *)
LEMMA MovedMoves ==
    ASSUME NEW p \in Payload, Before(p), NEW src, NEW dst, Moved(Boxes(p), Boxes(p)', src, dst),
           \A c \in Client : src # <<"received", c>>
    PROVE  Moves(p, BoxStage(src), BoxStage(dst)) \/ Stays(p)
<1> DEFINE H == Boxes(p)
           G == Boxes(p)'
<1>1. /\ src \in Box /\ dst \in Box /\ H[src] # {} /\ G[src] = {}
      /\ \A x \in Box : x # dst => (H[x] = {} => G[x] = {})
  BY DEF Moved, Gains, Fewer
<1>2. StageOf(p) = BoxStage(src)
  BY <1>1 DEF Before, StageRight
<1>3. \A x \in Box : x # src => H[x] = {}
  BY <1>1 DEF Before, PlaceInv, Unique
<1>4. /\ \A x \in Box : G[x] # {} => StageOf(p)' = BoxStage(x)
      /\ (\A x \in Box : G[x] = {}) => StageOf(p)' = IF Sent(p)' THEN "lost" ELSE "unsent"
  BY DEF Before, StageRight
<1>5. Sent(p)'
  BY <1>1 DEF Before, PlaceInv, Unique
<1>6. BoxStage(src) # "delivered"
  BY <1>1, BoxStages
<1> HIDE DEF H, G
<1>7. CASE G[dst] # {}
  BY <1>1, <1>2, <1>4, <1>7 DEF Moves
<1>8. CASE G[dst] = {}
  <2>1. \A x \in Box : G[x] = {}
    BY <1>1, <1>3, <1>8
  <2> QED BY <1>2, <1>4, <1>5, <1>6, <2>1 DEF Stays
<1> QED BY <1>7, <1>8

(* What a handler reads on a channel is what its client may ask there. *)
LEMMA HandlerAsked ==
    ASSUME TypeOK, AsksRight, NEW c \in Client, NEW ch \in Channel, NEW n \in Nat, NEW m \in nsbm,
           DaemonReads(<<c, ch>>, n, m)
    PROVE  m.op \in AskedOps(c, ch)
<1>1. PICK s : s = up[<<c, ch>>]
  OBVIOUS
<1>2. /\ s \in Seq(nsbm) /\ n \in 1 .. Len(s) /\ m = Parse(Read(s, n))
  BY <1>1, ConnFacts DEF TypeOK, SocketsTypeOK, DaemonReads
<1>3. \A i \in DOMAIN s : s[i].op \in AskedOps(c, ch)
  BY <1>1 DEF AsksRight, Asked
<1>4. /\ Read(s, n) \in Seq(nsbm) /\ Read(s, n) # <<>> /\ \A i \in 1 .. n : Read(s, n)[i] = s[i]
  BY <1>2, SplitType DEF Read
<1>5. \A i \in DOMAIN Read(s, n) : i \in 1 .. n /\ i \in DOMAIN s
  BY <1>2 DEF Read
<1>6. AskedOps(c, ch) \in SUBSET Op
  BY DEF AskedOps, Op
<1>7. \A i \in DOMAIN Read(s, n) : Read(s, n)[i].op \in AskedOps(c, ch)
  BY <1>3, <1>4, <1>5
<1> QED BY <1>2, <1>4, <1>6, <1>7, ParseOp

(* The daemon's steps leave every payload at its stage in PULL mode. *)
LEMMA HandlerStays ==
    ASSUME SystemMode = "PULL", NEW p \in Payload, Before(p), AsksRight,
           NEW k \in Conn, NEW n \in Nat, NEW m \in nsbm, HandlerStepKind(k, n, m)
    PROVE  Stays(p)
<1> DEFINE H == Boxes(p)
           G == Boxes(p)'
<1>1. TypeOK /\ Unique(H, Sent(p))
  BY DEF Before, PlaceInv, TypeInv
<1>2. HandlerMoves(p, k, n, m) /\ received' = received
  BY <1>1, HandlersMove
<1>3. PICK c \in Client, ch \in Channel : k = <<c, ch>>
  BY DEF Conn
<1>4. DaemonReads(k, n, m)
  BY DEF HandlerStepKind, SendStep, PostStep, FetchStep, ReceiveStep, ForwardStep
<1>5. m.op \in AskedOps(c, ch)
  BY <1>1, <1>3, <1>4, HandlerAsked
<1>6. ReceiversKeep(p)
  <2>1. \A d \in Client : Boxes(p)[<<"received", d>>] = Hits(received[d], Mail(p))
    BY BoxesAre
  <2>2. \A d \in Client : Boxes(p)'[<<"received", d>>] = Hits(received'[d], Mail(p))
    BY BoxesAfter
  <2> QED BY <1>2, <2>1, <2>2 DEF ReceiversKeep
<1>7. CASE Kept(H, G)
  BY <1>6, <1>7, KeptStays
<1>8. ASSUME NEW src, NEW dst, Moved(H, G, src, dst), \A d \in Client : src # <<"received", d>>,
             BoxStage(src) = BoxStage(dst)
      PROVE  Stays(p)
  BY <1>8, MovedMoves DEF Moves, Stays
<1>9. CASE SendStep(k, n, m) /\ Moved(H, G, <<"up", k>>, TxBox)
  <2>1. IsApp(c)
    BY <1>5, <1>9 DEF SendStep, AskedOps
  <2>2. BoxStage(<<"up", k>>) = BoxStage(TxBox)
    BY <1>3, <2>1, BoxStages
  <2> QED BY <1>8, <1>9, <2>2
<1>10. CASE PostStep(k, n, m) /\ Moved(H, G, <<"up", k>>, RxBox)
  <2>1. ~IsApp(c)
    BY <1>5, <1>10 DEF PostStep, AskedOps
  <2>2. BoxStage(<<"up", k>>) = BoxStage(RxBox)
    BY <1>3, <2>1, BoxStages
  <2> QED BY <1>8, <1>10, <2>2
<1>11. CASE FetchStep(k, n, m) /\ Moved(H, G, TxBox, <<"down", k>>)
  <2>1. ~IsApp(c)
    BY <1>5, <1>11 DEF FetchStep, AskedOps
  <2>2. BoxStage(<<"down", k>>) = BoxStage(TxBox)
    BY <1>3, <2>1, BoxStages
  <2>3. \A d \in Client : TxBox # <<"received", d>>
    BY DEF TxBox
  <2> QED BY <1>8, <1>11, <2>2, <2>3
<1>12. CASE ReceiveStep(k, n, m) /\ Moved(H, G, RxBox, <<"down", k>>)
  <2>1. IsApp(c)
    BY <1>5, <1>12 DEF ReceiveStep, AskedOps
  <2>2. BoxStage(<<"down", k>>) = BoxStage(RxBox)
    BY <1>3, <2>1, BoxStages
  <2>3. \A d \in Client : RxBox # <<"received", d>>
    BY DEF RxBox
  <2> QED BY <1>8, <1>12, <2>2, <2>3
<1>13. ~ForwardStep(k, n, m)
  BY DEF ForwardStep
<1> QED BY <1>2, <1>7, <1>9, <1>10, <1>11, <1>12, <1>13 DEF HandlerMoves

(* A call that returns takes its payload one part of the way further. *)
LEMMA ReturnStages ==
    ASSUME NEW p \in Payload, Before(p), CallsRight, NEW c \in Client,
           NEW n \in Nat, NEW m \in nsbm, ReceivedStep(c, n, m) \/ FetchedStep(c, n, m)
    PROVE  \/ Stays(p)
           \/ CheckOut(c, m) = p /\ (Moves(p, "returning", "delivered") \/ Moves(p, "outgoing", "network"))
<1> DEFINE H == Boxes(p)
           G == Boxes(p)'
           src == <<"down", <<c, "RECV">> >>
<1>1. TypeOK /\ KeysKnown /\ Unique(H, Sent(p))
  BY DEF Before, PlaceInv, TypeInv
<1>2. ReturnMoves(p, c, n, m)
  BY <1>1, ReturnsMove
<1>3. ReceiversKeep(p)
  <2>1. \A d \in Client : Boxes(p)[<<"received", d>>] = Hits(received[d], Mail(p))
    BY BoxesAre
  <2>2. \A d \in Client : Boxes(p)'[<<"received", d>>] = Hits(received'[d], Mail(p))
    BY BoxesAfter
  <2>3. PICK e : received' = received \/ received' = [received EXCEPT ![c] = Append(@, e)]
    BY DEF ReceivedStep, FetchedStep
  <2>4. ASSUME NEW d \in Client, NEW j \in DOMAIN received[d]
        PROVE  j \in DOMAIN received'[d] /\ received'[d][j] = received[d][j]
    <3>1. received \in [Client -> Seq(MessageEntry)]
      BY <1>1 DEF TypeOK, ClientTypeOK
    <3>2. PICK s : s = received[d]
      OBVIOUS
    <3>3. s \in Seq(MessageEntry \cup {e}) /\ j \in DOMAIN s
      BY <2>4, <3>1, <3>2
    <3>4. j \in DOMAIN Append(s, e) /\ Append(s, e)[j] = s[j]
      BY <3>3
    <3>5. received'[d] = s \/ received'[d] = Append(s, e)
      BY <2>3, <3>1, <3>2
    <3> QED BY <3>2, <3>3, <3>4, <3>5
  <2>5. ASSUME NEW d \in Client, Hits(received[d], Mail(p)) # {} PROVE Hits(received'[d], Mail(p)) # {}
    <3>1. PICK j \in DOMAIN received[d] : received[d][j] \in Mail(p)
      BY <2>5 DEF Hits
    <3>2. j \in Hits(received'[d], Mail(p))
      BY <2>4, <3>1 DEF Hits
    <3> QED BY <3>2
  <2> QED BY <2>1, <2>2, <2>5 DEF ReceiversKeep
<1>4. CASE Kept(H, G)
  BY <1>3, <1>4, KeptStays
<1>5. "RECV" \in Channel /\ \A d \in Client : src # <<"received", d>>
  BY DEF Channel
<1>6. CASE CheckOut(c, m) = p /\ ReceivedStep(c, n, m) /\ Moved(H, G, src, <<"received", c>>)
  <2>1. BoxStage(src) = "returning" /\ BoxStage(<<"received", c>>) = "delivered"
    BY <1>5, <1>6, BoxStages DEF ReceivedStep, CallsRight
  <2>2. Moves(p, BoxStage(src), BoxStage(<<"received", c>>)) \/ Stays(p)
    BY <1>5, <1>6, MovedMoves
  <2> QED BY <1>6, <2>1, <2>2
<1>7. CASE CheckOut(c, m) = p /\ FetchedStep(c, n, m) /\ Moved(H, G, src, NetworkBox)
  <2>1. BoxStage(src) = "outgoing" /\ BoxStage(NetworkBox) = "network"
    BY <1>5, <1>7, BoxStages DEF FetchedStep, CallsRight
  <2>2. Moves(p, BoxStage(src), BoxStage(NetworkBox)) \/ Stays(p)
    BY <1>5, <1>7, MovedMoves
  <2> QED BY <1>7, <2>1, <2>2
<1> QED BY <1>2, <1>4, <1>6, <1>7 DEF ReturnMoves

(* post() sends its payload back. *)
LEMMA PostStages ==
    ASSUME NEW p \in Payload, Before(p), NEW c \in Client, NEW e \in Network, post(c, e)
    PROVE  Stays(p) \/ (p = e.payload_obj /\ Moves(p, "network", "returning"))
<1> DEFINE H == Boxes(p)
           G == Boxes(p)'
           dst == <<"up", <<c, "SEND">> >>
<1>1. TypeOK /\ KeysKnown /\ Unique(H, Sent(p))
  BY DEF Before, PlaceInv, TypeInv
<1>2. PostMoves(p, c, e) /\ received' = received
  BY <1>1, PostsMove
<1>3. ReceiversKeep(p)
  <2>1. \A d \in Client : Boxes(p)[<<"received", d>>] = Hits(received[d], Mail(p))
    BY BoxesAre
  <2>2. \A d \in Client : Boxes(p)'[<<"received", d>>] = Hits(received'[d], Mail(p))
    BY BoxesAfter
  <2> QED BY <1>2, <2>1, <2>2 DEF ReceiversKeep
<1>4. CASE Kept(H, G)
  BY <1>3, <1>4, KeptStays
<1>5. "SEND" \in Channel /\ \A d \in Client : NetworkBox # <<"received", d>>
  BY DEF Channel, NetworkBox
<1>6. CASE p = e.payload_obj /\ Moved(H, G, NetworkBox, dst)
  <2>1. BoxStage(NetworkBox) = "network" /\ BoxStage(dst) = "returning"
    BY <1>5, BoxStages DEF post, IsApp
  <2>2. Moves(p, BoxStage(NetworkBox), BoxStage(dst)) \/ Stays(p)
    BY <1>5, <1>6, MovedMoves
  <2> QED BY <1>6, <2>1, <2>2
<1> QED BY <1>2, <1>4, <1>6 DEF PostMoves

(* send() sends its payload out. *)
LEMMA SendStages ==
    ASSUME NEW p \in Payload, Before(p), NEW c \in Client, NEW d \in SendTo[c], send(c, d)
    PROVE  Stays(p) \/ (p = <<c, nsent[c] + 1>> /\ Moves(p, "unsent", "outgoing"))
<1> DEFINE H == Boxes(p)
           G == Boxes(p)'
           dst == <<"up", <<c, "SEND">> >>
<1>1. TypeOK /\ KeysKnown /\ Unique(H, Sent(p))
  BY DEF Before, PlaceInv, TypeInv
<1>2. SendMoves(p, c) /\ received' = received
  BY <1>1, SendsMove
<1>3. ReceiversKeep(p)
  <2>1. \A a \in Client : Boxes(p)[<<"received", a>>] = Hits(received[a], Mail(p))
    BY BoxesAre
  <2>2. \A a \in Client : Boxes(p)'[<<"received", a>>] = Hits(received'[a], Mail(p))
    BY BoxesAfter
  <2> QED BY <1>2, <2>1, <2>2 DEF ReceiversKeep
<1>4. CASE Kept(H, G)
  BY <1>3, <1>4, KeptStays
<1>5. CASE p = <<c, nsent[c] + 1>> /\ ~Sent(p) /\ Sent(p)' /\ Gains(H, G, dst)
  <2>1. \A x \in Box : H[x] = {}
    BY <1>1, <1>5 DEF Unique
  <2>2. \A x \in Box : x # dst => G[x] = {}
    BY <1>5, <2>1 DEF Gains, Fewer
  <2>3. StageOf(p) = "unsent"
    BY <1>5, <2>1 DEF Before, StageRight
  <2>4. BoxStage(dst) = "outgoing" /\ dst \in Box
    BY <1>5, BoxStages DEF send, IsApp, Channel, Gains
  <2>5. /\ \A x \in Box : G[x] # {} => StageOf(p)' = BoxStage(x)
        /\ (\A x \in Box : G[x] = {}) => StageOf(p)' = IF Sent(p)' THEN "lost" ELSE "unsent"
    BY DEF Before, StageRight
  <2> HIDE DEF H, G, dst
  <2>6. CASE G[dst] # {}
    BY <1>5, <2>3, <2>4, <2>5, <2>6 DEF Moves
  <2>7. CASE G[dst] = {}
    <3>1. \A x \in Box : G[x] = {}
      BY <2>2, <2>7
    <3> QED BY <1>5, <2>3, <2>5, <3>1 DEF Stays
  <2> QED BY <2>6, <2>7
<1> QED BY <1>2, <1>4, <1>5 DEF SendMoves

-----------------------------------------------------------------------------
(* The refinement.                                                          *)

Forth(p) ==
    \/ Moves(p, "unsent", "outgoing") \/ Moves(p, "outgoing", "network")
    \/ Moves(p, "network", "returning") \/ Moves(p, "returning", "delivered")

BridgeInv == PlaceInv /\ KindInv

(* In every step all payloads stay, but for one that may go forth. *)
LEMMA OneForth ==
    ASSUME SystemMode = "PULL", BridgeInv, BridgeInv', [Next]_vars
    PROVE  \E q : \A p \in Payload : Stays(p) \/ (p = q /\ Forth(p))
<1>0. TypeInv /\ TypeOK /\ KeysKnown /\ AsksRight /\ CallsRight /\ PlaceInv /\ PlaceInv'
  BY DEF BridgeInv, PlaceInv, TypeInv, KindInv
<1>1. (PlaceInv => \A p \in Payload : StageRight(p))'
  BY StageIs, PTL
<1>2. ASSUME NEW p \in Payload, Sent(p) => Sent(p)' PROVE Before(p)
  <2>1. StageRight(p)
    BY <1>0, StageIs
  <2>2. StageRight(p)'
    BY <1>0, <1>1
  <2> QED BY <1>0, <1>2, <2>1, <2>2 DEF Before
<1>3. ASSUME nsent' = nsent, NEW p \in Payload PROVE Before(p)
  BY <1>2, <1>3 DEF Sent
<1>4. CASE QuietStep
  <2>1. ASSUME NEW p \in Payload PROVE Stays(p)
    <3>1. Kept(Boxes(p), Boxes(p)') /\ UNCHANGED <<nsent, received>>
      BY <1>0, <1>4, QuietKeeps
    <3>2. \A d \in Client : Boxes(p)[<<"received", d>>] = Hits(received[d], Mail(p))
      BY BoxesAre
    <3>3. \A d \in Client : Boxes(p)'[<<"received", d>>] = Hits(received'[d], Mail(p))
      BY BoxesAfter
    <3>4. ReceiversKeep(p)
      BY <3>1, <3>2, <3>3 DEF ReceiversKeep
    <3> QED BY <1>3, <3>1, <3>4, KeptStays
  <2> QED BY <2>1
<1>5. ASSUME NEW k \in Conn, NEW n \in Nat, NEW m \in nsbm, HandlerStepKind(k, n, m)
      PROVE  \A p \in Payload : Stays(p)
  <2>1. nsent' = nsent
    BY <1>5 DEF HandlerStepKind, SendStep, PostStep, FetchStep, ReceiveStep, ForwardStep, DaemonReads
  <2> QED BY <1>0, <1>3, <1>5, <2>1, HandlerStays
<1>6. ASSUME NEW c \in Client, NEW n \in Nat, NEW m \in nsbm, ReceivedStep(c, n, m) \/ FetchedStep(c, n, m)
      PROVE  \E q : \A p \in Payload : Stays(p) \/ (p = q /\ Forth(p))
  <2>1. nsent' = nsent
    BY <1>6 DEF ReceivedStep, FetchedStep, ClientReads
  <2>2. ASSUME NEW p \in Payload PROVE Stays(p) \/ (p = CheckOut(c, m) /\ Forth(p))
    <3>1. \/ Stays(p)
          \/ CheckOut(c, m) = p /\ (Moves(p, "returning", "delivered") \/ Moves(p, "outgoing", "network"))
      BY <1>0, <1>3, <1>6, <2>1, ReturnStages
    <3> QED BY <3>1 DEF Forth
  <2> QED BY <2>2
<1>7. ASSUME NEW c \in Client, NEW d \in SendTo[c], send(c, d)
      PROVE  \E q : \A p \in Payload : Stays(p) \/ (p = q /\ Forth(p))
  <2>1. ASSUME NEW p \in Payload PROVE Stays(p) \/ (p = <<c, nsent[c] + 1>> /\ Forth(p))
    <3>1. SendMoves(p, c)
      BY <1>0, <1>7, SendsMove
    <3>2. Before(p)
      BY <1>2, <3>1 DEF SendMoves
    <3> QED BY <1>7, <3>2, SendStages DEF Forth
  <2> QED BY <2>1
<1>8. ASSUME NEW c \in Client, NEW e \in Network, post(c, e)
      PROVE  \E q : \A p \in Payload : Stays(p) \/ (p = q /\ Forth(p))
  <2>1. nsent' = nsent
    BY <1>8 DEF post
  <2>2. ASSUME NEW p \in Payload PROVE Stays(p) \/ (p = e.payload_obj /\ Forth(p))
    BY <1>3, <1>8, <2>1, PostStages DEF Forth
  <2> QED BY <2>2
<1> QED BY <1>0, <1>4, <1>5, <1>6, <1>7, <1>8, DataSteps DEF ClientStepKind

(* So every step is one of the bridge. *)
LEMMA BridgeStep ==
    ASSUME SystemMode = "PULL", BridgeInv, BridgeInv', [Next]_vars
    PROVE  Bridge!Next
<1> DEFINE S == [p \in Payload |-> StageOf(p)]
<1>1. \A p \in Payload : S[p] = StageOf(p) /\ S'[p] = StageOf(p)'
  OBVIOUS
<1>2. S' \in [Payload -> Bridge!Stage]
  <2>1. \A p \in Payload : StageOf(p)' \in Bridge!Stage
    BY DEF StageOf, Bridge!Stage
  <2> QED BY <2>1
<1>3. PICK q : \A p \in Payload : Stays(p) \/ (p = q /\ Forth(p))
  BY OneForth
<1>4. \A p \in Payload : Stays(p) => Bridge!Lossy(p)
  BY <1>1 DEF Stays, Bridge!Lossy
<1>5. CASE \A p \in Payload : Stays(p)
  BY <1>2, <1>4, <1>5 DEF Bridge!Next, Bridge!Lose
<1>6. CASE ~\A p \in Payload : Stays(p)
  <2>1. q \in Payload /\ Forth(q) /\ \A p \in Payload \ {q} : Stays(p)
    BY <1>3, <1>6
  <2>2. S[q] \notin {"delivered", "lost"} /\ S'[q] = Bridge!Onward(S[q])
    BY <1>1, <2>1 DEF Forth, Moves, Bridge!Onward
  <2>3. Bridge!Advance(q)
    BY <1>2, <1>4, <2>1, <2>2 DEF Bridge!Advance
  <2> QED BY <2>1, <2>3 DEF Bridge!Next
<1> QED BY <1>5, <1>6

(* At the start nothing was sent. *)
LEMMA BridgeInit == Init => Bridge!Init
<1> SUFFICES ASSUME Init PROVE Bridge!Init
  OBVIOUS
<1>1. PlaceInv
  BY PlaceInvInit
<1>2. ASSUME NEW p \in Payload PROVE StageOf(p) = "unsent"
  <2>1. nsent = [c \in Client |-> 0] /\ p[1] \in Client /\ p[2] \in 1 .. MaxSends
    BY DEF Init, ClientInit, Payload
  <2>2. ~Sent(p)
    <3>1. nsent[p[1]] = 0
      BY <2>1
    <3>2. MaxSends \in Nat
      BY WireAssumption
    <3>3. ~(p[2] <= 0)
      BY <2>1, <3>2
    <3> QED BY <3>1, <3>3 DEF Sent
  <2>3. \A x \in Box : Boxes(p)[x] = {}
    BY <1>1, <2>2 DEF PlaceInv, Unique
  <2> QED BY <1>1, <2>2, <2>3, StageIs DEF StageRight
<1> QED BY <1>2 DEF Bridge!Init

(* In PULL mode the daemon and its clients implement the abstract bridge,   *)
(* for any number of clients, any identifiers, with or without a database,  *)
(* whatever is merged, reset, abandoned or repeated: a payload gets from    *)
(* send() to receive() only by way of fetch(), the simulated network and    *)
(* post(), one part of the way at a time, and what is lost stays lost.      *)
THEOREM PullCrossesNetwork ==
    ASSUME SystemMode = "PULL"
    PROVE  Spec => CrossesNetwork
<1>1. Init => BridgeInv
  BY PlaceInvInit, KindInvInit DEF BridgeInv
<1>2. BridgeInv /\ [Next]_vars => BridgeInv'
  <2> SUFFICES ASSUME BridgeInv, [Next]_vars PROVE BridgeInv'
    OBVIOUS
  <2>1. PlaceInv' /\ KindInv'
    BY PlaceInvStep, KindInvStep DEF BridgeInv, PlaceInv
  <2> QED BY <2>1 DEF BridgeInv
<1>3. BridgeInv /\ BridgeInv' /\ [Next]_vars => Bridge!Next
  BY BridgeStep
<1> QED BY <1>1, <1>2, <1>3, BridgeInit, PTL DEF Spec, CrossesNetwork, Bridge!Spec

-----------------------------------------------------------------------------
(* OwnMail.  An application asks for its own identifier, so whatever is     *)
(* merged of its requests and of the answers to them is for it.             *)

Letters(c) == {m \in nsbm : m.metadata.dest \in {"", Ident[c]}}
OwnLetters == \A c \in Client : IsApp(c) => down[<<c, "RECV">>] \in Seq(Letters(c))

MailInv == TypeInv /\ KindInv /\ OwnLetters /\ OwnMail

(* The destination parsed from letters to c is c's, or none. *)
LEMMA ParsedLetter ==
    ASSUME NEW c \in Client, NEW s \in Seq(Letters(c)), NEW n \in 1 .. Len(s)
    PROVE  Parse(Read(s, n)).metadata.dest \in {"", Ident[c]}
<1> DEFINE r == Read(s, n)
           q == [i \in DOMAIN r |-> r[i].metadata.dest]
<1>1. r \in Seq(Letters(c))
  BY SplitType DEF Read
<1>2. \A i \in DOMAIN r : r[i] \in Letters(c)
  BY <1>1
<1>3. q \in Seq({"", Ident[c]})
  <2> DEFINE T == {"", Ident[c]}
  <2>1. \A i \in DOMAIN r : r[i].metadata.dest \in T
    BY <1>2 DEF Letters
  <2> HIDE DEF r, T
  <2>2. q \in Seq(T)
    BY <1>1, <2>1
  <2> QED BY <2>2 DEF T
<1> HIDE DEF q
<1>4. LastSet(q, "") \in {"", Ident[c]}
  BY <1>3, LastSetType
<1> QED BY <1>4 DEF Parse, q

(* The destination parsed from requests of c is c's. *)
LEMMA ParsedRequest ==
    ASSUME TypeOK, AsksRight, ReceiveAs = {}, NEW c \in Client, NEW ch \in Channel, NEW n \in Nat,
           NEW m \in nsbm, DaemonReads(<<c, ch>>, n, m), m.op = "RECEIVE"
    PROVE  IsApp(c) /\ ch = "RECV" /\ m.metadata.dest = Ident[c]
<1>1. m.op \in AskedOps(c, ch)
  BY HandlerAsked
<1>2. IsApp(c) /\ AskedOps(c, ch) = {"RECEIVE"} /\ ch = "RECV"
  BY <1>1 DEF AskedOps, Channel
<1>3. PICK s : s = up[<<c, ch>>]
  OBVIOUS
<1>4. /\ s \in Seq(nsbm) /\ n \in 1 .. Len(s) /\ m = Parse(Read(s, n))
  BY <1>3, ConnFacts DEF TypeOK, SocketsTypeOK, DaemonReads
<1>5. \A i \in DOMAIN s : s[i].metadata.dest = Ident[c]
  BY <1>2, <1>3 DEF AsksRight, Asked
<1> DEFINE r == Read(s, n)
           q == [i \in DOMAIN r |-> r[i].metadata.dest]
<1>6. r \in Seq(nsbm) /\ r # <<>> /\ \A i \in 1 .. n : r[i] = s[i]
  BY <1>4, SplitType DEF Read
<1>7. \A i \in DOMAIN r : i \in 1 .. n /\ i \in DOMAIN s
  BY <1>4 DEF Read
<1> HIDE DEF r
<1>8. q \in Seq({Ident[c]}) /\ q # <<>>
  <2>1. \A i \in DOMAIN r : r[i].metadata.dest = Ident[c]
    BY <1>5, <1>6, <1>7
  <2> QED BY <1>6, <2>1
<1>9. "" \notin {Ident[c]}
  BY WireAssumption DEF Identifier
<1> HIDE DEF q
<1>10. LastSet(q, "") \in {Ident[c]}
  BY <1>8, <1>9, LastSetNoDefault
<1> QED BY <1>2, <1>4, <1>10 DEF Parse, q, r

(* A stream of S that is read, or gets a message of S, is one of S. *)
LEMMA StreamOf ==
    ASSUME NEW S, NEW s \in Seq(S), NEW t, Suffix(s, t) \/ \E m \in S : t = Append(s, m)
    PROVE  t \in Seq(S)
<1>1. CASE Suffix(s, t)
  BY <1>1, HitsSuffix
<1>2. CASE \E m \in S : t = Append(s, m)
  BY <1>2
<1> QED BY <1>1, <1>2

(* The daemon answers a client with letters to it. *)
LEMMA HandlerLetters ==
    ASSUME SystemMode = "PULL", ReceiveAs = {}, MailInv,
           NEW k \in Conn, NEW n \in Nat, NEW m \in nsbm, HandlerStepKind(k, n, m)
    PROVE  OwnLetters' /\ received' = received
<1>0. TypeOK /\ AsksRight /\ OwnLetters /\ down \in [Conn -> Seq(nsbm)]
  BY DEF MailInv, TypeInv, KindInv, TypeOK, SocketsTypeOK
<1>1. PICK c \in Client, ch \in Channel : k = <<c, ch>>
  BY DEF Conn
<1>2. DaemonReads(k, n, m) /\ received' = received
  BY DEF HandlerStepKind, SendStep, PostStep, FetchStep, ReceiveStep, ForwardStep, DaemonReads
<1>3. \A d \in Client : <<d, "RECV">> \in Conn
  BY ConnFacts DEF Channel
<1>4. CASE down' = down
  BY <1>0, <1>2, <1>4 DEF OwnLetters
<1>5. ASSUME NEW r, down' = [down EXCEPT ![k] = Append(@, r)],
             IsApp(c) /\ ch = "RECV" => r \in Letters(c)
      PROVE  OwnLetters'
  <2> SUFFICES ASSUME NEW d \in Client, IsApp(d) PROVE down'[<<d, "RECV">>] \in Seq(Letters(d))
    BY DEF OwnLetters
  <2>1. down[<<d, "RECV">>] \in Seq(Letters(d))
    BY <1>0 DEF OwnLetters
  <2>2. CASE k = <<d, "RECV">>
    <3>1. d = c /\ ch = "RECV"
      BY <1>1, <2>2
    <3>2. down'[<<d, "RECV">>] = Append(down[<<d, "RECV">>], r) /\ r \in Letters(d)
      BY <1>0, <1>3, <1>5, <2>2, <3>1
    <3> QED BY <2>1, <3>2
  <2>3. CASE k # <<d, "RECV">>
    <3>1. down'[<<d, "RECV">>] = down[<<d, "RECV">>]
      BY <1>0, <1>3, <1>5, <2>3
    <3> QED BY <2>1, <3>1
  <2> QED BY <2>2, <2>3
<1>6. CASE FetchStep(k, n, m)
  <2>1. ~(IsApp(c) /\ ch = "RECV")
    <3>1. m.op \in AskedOps(c, ch) /\ m.op = "FETCH"
      BY <1>0, <1>1, <1>2, <1>6, HandlerAsked DEF FetchStep
    <3> QED BY <3>1 DEF AskedOps
  <2>2. PICK r : Writes(k, r)
    BY <1>6 DEF FetchStep
  <2> QED BY <1>2, <1>4, <1>5, <2>1, <2>2 DEF Writes
<1>7. CASE ReceiveStep(k, n, m)
  <2>1. IsApp(c) /\ ch = "RECV" /\ m.metadata.dest = Ident[c]
    BY <1>0, <1>1, <1>2, <1>7, ParsedRequest DEF ReceiveStep
  <2>2. PICK i \in DOMAIN rx_buffer : /\ m.metadata.dest \in {"", rx_buffer[i].destination}
                                      /\ Writes(k, EntryReply("RECEIVE", rx_buffer[i]))
    BY <1>7 DEF ReceiveStep
  <2>3. PICK e : e = rx_buffer[i]
    OBVIOUS
  <2>4. e \in MessageEntry /\ e.destination = Ident[c]
    <3>1. rx_buffer \in Seq(MessageEntry)
      BY <1>0 DEF TypeOK, DaemonTypeOK
    <3>2. Ident[c] # ""
      BY WireAssumption DEF Identifier
    <3>3. e \in MessageEntry
      BY <2>3, <3>1
    <3>4. e.destination = Ident[c]
      BY <2>1, <2>2, <2>3, <3>2
    <3> QED BY <3>3, <3>4
  <2>5. EntryReply("RECEIVE", e) \in nsbm
    BY <2>4, EntryReplyType DEF Op
  <2>6. EntryReply("RECEIVE", e).metadata.dest \in {"", Ident[c]}
    BY <2>4 DEF EntryReply, Route, Bare, NoMetadata
  <2>7. EntryReply("RECEIVE", e) \in Letters(c)
    BY <2>5, <2>6 DEF Letters
  <2> QED BY <1>2, <1>4, <1>5, <2>2, <2>3, <2>7 DEF Writes
<1>8. CASE SendStep(k, n, m) \/ PostStep(k, n, m)
  BY <1>2, <1>4, <1>8 DEF SendStep, PostStep
<1> QED BY <1>6, <1>7, <1>8 DEF HandlerStepKind, ForwardStep

(* MailInv is inductive. *)
LEMMA MailInvStep ==
    ASSUME SystemMode = "PULL", ReceiveAs = {}, MailInv, [Next]_vars
    PROVE  MailInv'
<1>0. /\ TypeInv /\ TypeOK /\ KindInv /\ OwnLetters /\ OwnMail
      /\ down \in [Conn -> Seq(nsbm)] /\ received \in [Client -> Seq(MessageEntry)]
  BY DEF MailInv, TypeInv, TypeOK, SocketsTypeOK, ClientTypeOK
<1>1. TypeInv' /\ KindInv'
  BY <1>0, TypeInvStep, KindInvStep
<1>2. \A d \in Client : <<d, "RECV">> \in Conn
  BY ConnFacts DEF Channel
<1>3. CASE QuietStep
  <2>1. received' = received
    BY <1>3 DEF QuietStep, dataVars
  <2>2. ASSUME NEW d \in Client, IsApp(d) PROVE down'[<<d, "RECV">>] \in Seq(Letters(d))
    <3>1. PICK s : s = down[<<d, "RECV">>]
      OBVIOUS
    <3>2. PICK t : t = down'[<<d, "RECV">>]
      OBVIOUS
    <3>3. s \in Seq(Letters(d))
      BY <1>0, <2>2, <3>1 DEF OwnLetters
    <3>4. Suffix(s, t) \/ \E m \in nsbm : m.metadata = NoMetadata /\ t = Append(s, m)
      BY <1>2, <1>3, <3>1, <3>2 DEF QuietStep, Plainly
    <3>5. ASSUME NEW m \in nsbm, m.metadata = NoMetadata PROVE m \in Letters(d)
      <4>1. NoMetadata.dest = ""
        BY DEF NoMetadata
      <4>2. m.metadata.dest = ""
        BY <3>5, <4>1
      <4> QED BY <4>2 DEF Letters
    <3>6. t \in Seq(Letters(d))
      BY <3>3, <3>4, <3>5, StreamOf
    <3> QED BY <3>2, <3>6
  <2> QED BY <1>0, <1>1, <2>1, <2>2 DEF MailInv, OwnLetters, OwnMail
<1>4. ASSUME NEW k \in Conn, NEW n \in Nat, NEW m \in nsbm, HandlerStepKind(k, n, m) PROVE MailInv'
  <2>1. OwnLetters' /\ received' = received
    BY <1>4, HandlerLetters
  <2> QED BY <1>0, <1>1, <2>1 DEF MailInv, OwnMail
<1>5. ASSUME NEW c \in Client, NEW n \in Nat, NEW m \in nsbm, ReceivedStep(c, n, m) \/ FetchedStep(c, n, m)
      PROVE  MailInv'
  <2>1. PICK s : s = down[<<c, "RECV">>]
    OBVIOUS
  <2>2. /\ n \in 1 .. Len(s) /\ m = Parse(Read(s, n)) /\ s \in Seq(nsbm)
        /\ down' = [down EXCEPT ![<<c, "RECV">>] = Unread(s, n)]
    BY <1>0, <1>2, <1>5, <2>1 DEF ReceivedStep, FetchedStep, ClientReads, Response
  <2>3. OwnLetters'
    <3> SUFFICES ASSUME NEW d \in Client, IsApp(d) PROVE down'[<<d, "RECV">>] \in Seq(Letters(d))
      BY DEF OwnLetters
    <3>1. down[<<d, "RECV">>] \in Seq(Letters(d))
      BY <1>0 DEF OwnLetters
    <3>2. CASE d = c
      <4>1. s \in Seq(Letters(c)) /\ IsApp(c)
        BY <2>1, <3>1, <3>2
      <4>2. Unread(s, n) \in Seq(Letters(c))
        BY <2>2, <4>1, SplitType DEF Unread
      <4> QED BY <1>0, <1>2, <2>2, <3>2, <4>2
    <3>3. CASE d # c
      <4>1. down'[<<d, "RECV">>] = down[<<d, "RECV">>]
        BY <1>0, <1>2, <2>2, <3>3
      <4> QED BY <3>1, <4>1
    <3> QED BY <3>2, <3>3
  <2>4. OwnMail'
    <3>1. CASE received' = received
      BY <1>0, <3>1 DEF OwnMail
    <3>2. CASE received' # received
      <4>1. PICK e : e = Returned(c, m)
        OBVIOUS
      <4>2. pc[c] = "recvWait" /\ exists(e) /\ received' = [received EXCEPT ![c] = Append(@, e)]
        BY <1>5, <3>2, <4>1 DEF ReceivedStep, FetchedStep
      <4>3. IsApp(c)
        BY <1>0, <4>2 DEF KindInv, CallsRight
      <4>4. m.metadata.dest \in {"", Ident[c]}
        BY <1>0, <2>1, <2>2, <4>3, ParsedLetter DEF OwnLetters
      <4>5. e.destination = Ident[c]
        BY <4>1, <4>2, <4>4 DEF Returned, exists
      <4>6. ASSUME NEW d \in Client, NEW i \in DOMAIN received'[d] PROVE received'[d][i].destination = Ident[d]
        <5>1. PICK u : u = received[d]
          OBVIOUS
        <5>2. u \in Seq(MessageEntry \cup {e}) /\ (received'[d] = u \/ (d = c /\ received'[d] = Append(u, e)))
          BY <1>0, <4>2, <5>1
        <5>3. \A j \in DOMAIN u : u[j].destination = Ident[d]
          BY <1>0, <5>1 DEF OwnMail
        <5>4. /\ \A j \in DOMAIN Append(u, e) : j \in DOMAIN u \/ j = Len(u) + 1
              /\ \A j \in DOMAIN u : Append(u, e)[j] = u[j]
              /\ Append(u, e)[Len(u) + 1] = e
          BY <5>2
        <5> QED BY <4>5, <4>6, <5>2, <5>3, <5>4
      <4> QED BY <4>6 DEF OwnMail
    <3> QED BY <3>1, <3>2
  <2> QED BY <1>1, <2>3, <2>4 DEF MailInv
<1>6. ASSUME NEW c \in Client, (\E d \in SendTo[c] : send(c, d)) \/ (\E e \in Network : post(c, e))
      PROVE  MailInv'
  <2>1. UNCHANGED <<down, received>>
    BY <1>6 DEF send, post, socketsButUp, logVars
  <2> QED BY <1>0, <1>1, <2>1 DEF MailInv, OwnLetters, OwnMail
<1> QED BY <1>0, <1>3, <1>4, <1>5, <1>6, DataSteps DEF ClientStepKind

(* At the start there is no mail. *)
LEMMA MailInvInit == Init => MailInv
<1> SUFFICES ASSUME Init PROVE MailInv
  OBVIOUS
<1>1. TypeInv /\ KindInv
  BY TypeInvInit, KindInvInit
<1>2. \A d \in Client : down[<<d, "RECV">>] = <<>> /\ received[d] = <<>>
  BY ConnFacts DEF Init, SocketsInit, ClientInit, Channel
<1>3. OwnLetters
  <2>1. \A d \in Client : <<>> \in Seq(Letters(d))
    OBVIOUS
  <2> QED BY <1>2, <2>1, Zenon DEF OwnLetters
<1>4. OwnMail
  <2> SUFFICES ASSUME NEW d \in Client, NEW i \in DOMAIN received[d] PROVE FALSE
    BY DEF OwnMail
  <2>1. received[d] = <<>>
    BY <1>2
  <2> QED BY <2>1
<1> QED BY <1>1, <1>3, <1>4 DEF MailInv

(* In PULL mode an application that calls receive() for its own identifier  *)
(* gets only what is addressed to it, whatever its timeouts leave behind    *)
(* and whatever requests or answers the two ends merge: handle_receive      *)
(* matches the destination, and a merged answer still has that one.         *)
THEOREM PullOwnMail ==
    ASSUME SystemMode = "PULL", ReceiveAs = {}
    PROVE  Spec => []OwnMail
<1>1. Init => MailInv
  BY MailInvInit
<1>2. MailInv /\ [Next]_vars => MailInv'
  BY MailInvStep
<1>3. MailInv => OwnMail
  BY DEF MailInv
<1> QED BY <1>1, <1>2, <1>3, PTL DEF Spec

-----------------------------------------------------------------------------
(* OwnNode.  In PER_NODE mode a simulator client that runs on the daemon's  *)
(* configuration asks for its own node, whatever fetch() is called with.    *)

NodeAsks == \A c \in Client : ~IsApp(c) =>
    \A i \in DOMAIN up[<<c, "RECV">>] : up[<<c, "RECV">>][i].metadata.src = Ident[c]

Parcels(c) == {m \in nsbm : m.metadata.src \in {"", Ident[c]}}
OwnParcels == \A c \in Client : ~IsApp(c) => down[<<c, "RECV">>] \in Seq(Parcels(c))

NodeInv == StartInv /\ KindInv /\ NodeAsks /\ OwnParcels /\ OwnNode

(* What a client step writes on the RECV channel of a simulator client. *)
LEMMA FetchAsks ==
    ASSUME SimulatorMode = "PER_NODE", TypeInv, NEW c \in Client, StartRight(c), ClientNext(c),
           NEW d \in Client, ~IsApp(d)
    PROVE  LET k == <<d, "RECV">> IN
           \/ up'[k] = up[k]
           \/ \E m : m.metadata.src = Ident[d] /\ up'[k] = Append(up[k], m)
<1> DEFINE k == <<d, "RECV">>
           Asks == up'[k] = up[k] \/ \E m : m.metadata.src = Ident[d] /\ up'[k] = Append(up[k], m)
<1> SUFFICES Asks
  OBVIOUS
<1>0. up \in [Conn -> Seq(nsbm)] /\ k \in Conn
  BY ConnFacts DEF TypeInv, TypeOK, SocketsTypeOK, Channel
<1>1. ASSUME NEW x \in Client, NEW ch, NEW m, SendMessage(x, ch, m), <<x, ch>> # k PROVE Asks
  BY <1>0, <1>1 DEF SendMessage, UpAfterSend
<1>2. CASE \/ \E ch \in Channel : ConnectChannel(c, ch)
           \/ ConnectFails(c) \/ Close(c) \/ BrokenPipe(c) \/ InitTimeout(c) \/ WaitTimeout(c) \/ WaitEof(c)
           \/ Responded(c)
  <2>1. up' = up
    BY <1>2 DEF ConnectChannel, ConnectFails, Close, BrokenPipe, InitTimeout, WaitTimeout, WaitEof,
                Responded, InitReturn, PingReturn, ReceiveReturn, FetchReturn, socketsButDown, socketVars
  <2> QED BY <2>1
<1>3. CASE initialize(c) \/ ping(c) \/ exit(c) \/ (\E e \in SendTo[c] : send(c, e)) \/ (\E e \in Network : post(c, e))
  <2>1. \E ch \in {"CTRL", "SEND"} : \E m : SendMessage(c, ch, m)
    BY <1>3 DEF initialize, ping, exit, send, post
  <2>2. \A ch \in {"CTRL", "SEND"} : <<c, ch>> # k
    OBVIOUS
  <2> QED BY <1>1, <2>1, <2>2
<1>4. CASE \E e \in ReceiveAs \cup {Ident[c]} : receive(c, e)
  <2>1. IsApp(c) /\ (up' = up \/ \E m : SendMessage(c, "RECV", m))
    BY <1>4 DEF receive, IsApp
  <2>2. <<c, "RECV">> # k
    BY <2>1
  <2> QED BY <1>1, <2>1, <2>2
<1>5. ASSUME NEW s \in FetchFrom, fetch(c, s) PROVE Asks
  <2>1. CASE c # d
    <3>1. <<c, "RECV">> # k
      BY <2>1
    <3> QED BY <1>1, <1>5, <3>1 DEF fetch
  <2>2. CASE c = d
    <3>1. cfg[c].simulator_mode = "PER_NODE"
      <4>1. Admitted(c)
        BY <1>5 DEF fetch, Admitted
      <4> QED BY <4>1 DEF StartRight, DaemonConfig
    <3>2. Ident[c] # ""
      BY WireAssumption DEF Identifier
    <3>3. FetchMetadata(c, s).src = Ident[c]
      BY <3>1, <3>2 DEF FetchMetadata, Route
    <3> DEFINE m == [Bare("FETCH", Orig[c], "SUCCESS") EXCEPT !.metadata = FetchMetadata(c, s)]
    <3>4. m.metadata.src = Ident[d]
      BY <2>2, <3>3 DEF Bare
    <3>5. up' = up \/ SendMessage(c, "RECV", m)
      BY <1>5 DEF fetch
    <3> HIDE DEF m
    <3> QED BY <1>0, <2>2, <3>4, <3>5 DEF SendMessage, UpAfterSend
  <2> QED BY <2>1, <2>2
<1> QED BY <1>2, <1>3, <1>4, <1>5 DEF ClientNext

(* NodeAsks is kept by every step. *)
LEMMA NodeAsksStep ==
    ASSUME SimulatorMode = "PER_NODE", StartInv, NodeAsks, [Next]_vars
    PROVE  NodeAsks'
<1> SUFFICES ASSUME NEW d \in Client, ~IsApp(d), NEW i \in DOMAIN up'[<<d, "RECV">>]
             PROVE  up'[<<d, "RECV">>][i].metadata.src = Ident[d]
  BY DEF NodeAsks
<1>1. PICK s : s = up[<<d, "RECV">>]
  OBVIOUS
<1>2. PICK t : t = up'[<<d, "RECV">>]
  OBVIOUS
<1>3. <<d, "RECV">> \in Conn /\ s \in Seq(nsbm) /\ TypeInv
  BY <1>1, ConnFacts DEF StartInv, TypeInv, TypeOK, SocketsTypeOK, Channel
<1>4. \A j \in DOMAIN s : s[j].metadata.src = Ident[d]
  BY <1>1 DEF NodeAsks
<1>5. CASE t = s
  BY <1>2, <1>4, <1>5
<1>6. ASSUME NEW c \in Client, ClientNext(c) PROVE t[i].metadata.src = Ident[d]
  <2>1. t = s \/ \E m : m.metadata.src = Ident[d] /\ t = Append(s, m)
    BY <1>1, <1>2, <1>3, <1>6, FetchAsks DEF StartInv
  <2>2. ASSUME NEW m, m.metadata.src = Ident[d], t = Append(s, m) PROVE t[i].metadata.src = Ident[d]
    <3>1. s \in Seq(nsbm \cup {m})
      BY <1>3
    <3>2. i \in DOMAIN Append(s, m)
      BY <1>2, <2>2
    <3>3. i = Len(s) + 1 \/ i \in DOMAIN s
      BY <3>1, <3>2
    <3>4. (i \in DOMAIN s => Append(s, m)[i] = s[i]) /\ Append(s, m)[Len(s) + 1] = m
      BY <3>1
    <3> QED BY <1>4, <2>2, <3>3, <3>4
  <2> QED BY <1>2, <1>5, <2>1, <2>2
<1>7. CASE DaemonNext
  <2>1. PICK n \in 0 .. Len(s) : t = SubSeq(s, n + 1, Len(s))
    BY <1>1, <1>2, <1>3, <1>7, DaemonTakes DEF Suffix
  <2>2. i + n \in DOMAIN s /\ t[i] = s[i + n]
    BY <1>2, <1>3, <2>1, SuffixElements
  <2> QED BY <1>2, <1>4, <2>2
<1>8. CASE UNCHANGED vars
  BY <1>1, <1>2, <1>5, <1>8 DEF vars, socketVars
<1> QED BY <1>2, <1>6, <1>7, <1>8 DEF Next

(* The source parsed from parcels of c's node is c's, or none. *)
LEMMA ParsedParcel ==
    ASSUME NEW c \in Client, NEW s \in Seq(Parcels(c)), NEW n \in 1 .. Len(s)
    PROVE  Parse(Read(s, n)).metadata.src \in {"", Ident[c]}
<1> DEFINE r == Read(s, n)
           q == [i \in DOMAIN r |-> r[i].metadata.src]
<1>1. r \in Seq(Parcels(c))
  BY SplitType DEF Read
<1>2. \A i \in DOMAIN r : r[i] \in Parcels(c)
  BY <1>1
<1>3. q \in Seq({"", Ident[c]})
  <2> DEFINE T == {"", Ident[c]}
  <2>1. \A i \in DOMAIN r : r[i].metadata.src \in T
    BY <1>2 DEF Parcels
  <2> HIDE DEF r, T
  <2>2. q \in Seq(T)
    BY <1>1, <2>1
  <2> QED BY <2>2 DEF T
<1> HIDE DEF q
<1>4. LastSet(q, "") \in {"", Ident[c]}
  BY <1>3, LastSetType
<1> QED BY <1>4 DEF Parse, q

(* The source parsed from requests of c is c's. *)
LEMMA ParsedFetch ==
    ASSUME TypeOK, AsksRight, NodeAsks, NEW c \in Client, NEW ch \in Channel, NEW n \in Nat,
           NEW m \in nsbm, DaemonReads(<<c, ch>>, n, m), m.op = "FETCH"
    PROVE  ~IsApp(c) /\ ch = "RECV" /\ m.metadata.src = Ident[c]
<1>1. m.op \in AskedOps(c, ch)
  BY HandlerAsked
<1>2. ~IsApp(c) /\ AskedOps(c, ch) = {"FETCH"} /\ ch = "RECV"
  BY <1>1 DEF AskedOps, Channel
<1>3. PICK s : s = up[<<c, ch>>]
  OBVIOUS
<1>4. /\ s \in Seq(nsbm) /\ n \in 1 .. Len(s) /\ m = Parse(Read(s, n))
  BY <1>3, ConnFacts DEF TypeOK, SocketsTypeOK, DaemonReads
<1>5. \A i \in DOMAIN s : s[i].metadata.src = Ident[c]
  BY <1>2, <1>3 DEF NodeAsks
<1> DEFINE r == Read(s, n)
           q == [i \in DOMAIN r |-> r[i].metadata.src]
<1>6. r \in Seq(nsbm) /\ r # <<>> /\ \A i \in 1 .. n : r[i] = s[i]
  BY <1>4, SplitType DEF Read
<1>7. \A i \in DOMAIN r : i \in 1 .. n /\ i \in DOMAIN s
  BY <1>4 DEF Read
<1> HIDE DEF r
<1>8. q \in Seq({Ident[c]}) /\ q # <<>>
  <2>1. \A i \in DOMAIN r : r[i].metadata.src = Ident[c]
    BY <1>5, <1>6, <1>7
  <2> QED BY <1>6, <2>1
<1>9. "" \notin {Ident[c]}
  BY WireAssumption DEF Identifier
<1> HIDE DEF q
<1>10. LastSet(q, "") \in {Ident[c]}
  BY <1>8, <1>9, LastSetNoDefault
<1> QED BY <1>2, <1>4, <1>10 DEF Parse, q, r

(* The daemon answers a simulator client with parcels of its node. *)
LEMMA HandlerParcels ==
    ASSUME SystemMode = "PULL", NodeInv,
           NEW k \in Conn, NEW n \in Nat, NEW m \in nsbm, HandlerStepKind(k, n, m)
    PROVE  OwnParcels' /\ fetched' = fetched
<1>0. TypeOK /\ AsksRight /\ NodeAsks /\ OwnParcels /\ down \in [Conn -> Seq(nsbm)]
  BY DEF NodeInv, StartInv, TypeInv, KindInv, TypeOK, SocketsTypeOK
<1>1. PICK c \in Client, ch \in Channel : k = <<c, ch>>
  BY DEF Conn
<1>2. DaemonReads(k, n, m) /\ fetched' = fetched
  BY DEF HandlerStepKind, SendStep, PostStep, ReceiveStep, FetchStep, ForwardStep, DaemonReads
<1>3. \A d \in Client : <<d, "RECV">> \in Conn
  BY ConnFacts DEF Channel
<1>4. CASE down' = down
  BY <1>0, <1>2, <1>4 DEF OwnParcels
<1>5. ASSUME NEW r, down' = [down EXCEPT ![k] = Append(@, r)],
             ~IsApp(c) /\ ch = "RECV" => r \in Parcels(c)
      PROVE  OwnParcels'
  <2> SUFFICES ASSUME NEW d \in Client, ~IsApp(d) PROVE down'[<<d, "RECV">>] \in Seq(Parcels(d))
    BY DEF OwnParcels
  <2>1. down[<<d, "RECV">>] \in Seq(Parcels(d))
    BY <1>0 DEF OwnParcels
  <2>2. CASE k = <<d, "RECV">>
    <3>1. d = c /\ ch = "RECV"
      BY <1>1, <2>2
    <3>2. down'[<<d, "RECV">>] = Append(down[<<d, "RECV">>], r) /\ r \in Parcels(d)
      BY <1>0, <1>3, <1>5, <2>2, <3>1
    <3> QED BY <2>1, <3>2
  <2>3. CASE k # <<d, "RECV">>
    <3>1. down'[<<d, "RECV">>] = down[<<d, "RECV">>]
      BY <1>0, <1>3, <1>5, <2>3
    <3> QED BY <2>1, <3>1
  <2> QED BY <2>2, <2>3
<1>6. CASE ReceiveStep(k, n, m)
  <2>1. ~(~IsApp(c) /\ ch = "RECV")
    <3>1. m.op \in AskedOps(c, ch) /\ m.op = "RECEIVE"
      BY <1>0, <1>1, <1>2, <1>6, HandlerAsked DEF ReceiveStep
    <3> QED BY <3>1 DEF AskedOps
  <2>2. PICK r : Writes(k, r)
    BY <1>6 DEF ReceiveStep
  <2> QED BY <1>2, <1>4, <1>5, <2>1, <2>2 DEF Writes
<1>7. CASE FetchStep(k, n, m)
  <2>1. ~IsApp(c) /\ ch = "RECV" /\ m.metadata.src = Ident[c]
    BY <1>0, <1>1, <1>2, <1>7, ParsedFetch DEF FetchStep
  <2>2. PICK i \in DOMAIN tx_buffer : /\ m.metadata.src \in {"", tx_buffer[i].source}
                                      /\ Writes(k, EntryReply("FETCH", tx_buffer[i]))
    BY <1>7 DEF FetchStep
  <2>3. PICK e : e = tx_buffer[i]
    OBVIOUS
  <2>4. e \in MessageEntry /\ e.source = Ident[c]
    <3>1. tx_buffer \in Seq(MessageEntry)
      BY <1>0 DEF TypeOK, DaemonTypeOK
    <3>2. Ident[c] # ""
      BY WireAssumption DEF Identifier
    <3>3. e \in MessageEntry
      BY <2>3, <3>1
    <3>4. e.source = Ident[c]
      BY <2>1, <2>2, <2>3, <3>2
    <3> QED BY <3>3, <3>4
  <2>5. EntryReply("FETCH", e) \in nsbm
    BY <2>4, EntryReplyType DEF Op
  <2>6. EntryReply("FETCH", e).metadata.src \in {"", Ident[c]}
    BY <2>4 DEF EntryReply, Route, Bare, NoMetadata
  <2>7. EntryReply("FETCH", e) \in Parcels(c)
    BY <2>5, <2>6 DEF Parcels
  <2> QED BY <1>2, <1>4, <1>5, <2>2, <2>3, <2>7 DEF Writes
<1>8. CASE SendStep(k, n, m) \/ PostStep(k, n, m)
  BY <1>2, <1>4, <1>8 DEF SendStep, PostStep
<1> QED BY <1>6, <1>7, <1>8 DEF HandlerStepKind, ForwardStep

(* NodeInv is inductive. *)
LEMMA NodeInvStep ==
    ASSUME SystemMode = "PULL", SimulatorMode = "PER_NODE", NoBlindStart, NodeInv, [Next]_vars
    PROVE  NodeInv'
<1>0. /\ TypeInv /\ TypeOK /\ StartInv /\ KindInv /\ NodeAsks /\ OwnParcels /\ OwnNode
      /\ down \in [Conn -> Seq(nsbm)] /\ fetched \in [Client -> Seq(MessageEntry)]
  BY DEF NodeInv, StartInv, TypeInv, TypeOK, SocketsTypeOK, ClientTypeOK
<1>1. StartInv' /\ KindInv' /\ NodeAsks'
  BY <1>0, StartInvStep, KindInvStep, NodeAsksStep
<1>2. \A d \in Client : <<d, "RECV">> \in Conn
  BY ConnFacts DEF Channel
<1>3. CASE QuietStep
  <2>1. fetched' = fetched
    BY <1>3 DEF QuietStep, dataVars
  <2>2. ASSUME NEW d \in Client, ~IsApp(d) PROVE down'[<<d, "RECV">>] \in Seq(Parcels(d))
    <3>1. PICK s : s = down[<<d, "RECV">>]
      OBVIOUS
    <3>2. PICK t : t = down'[<<d, "RECV">>]
      OBVIOUS
    <3>3. s \in Seq(Parcels(d))
      BY <1>0, <2>2, <3>1 DEF OwnParcels
    <3>4. Suffix(s, t) \/ \E m \in nsbm : m.metadata = NoMetadata /\ t = Append(s, m)
      BY <1>2, <1>3, <3>1, <3>2 DEF QuietStep, Plainly
    <3>5. ASSUME NEW m \in nsbm, m.metadata = NoMetadata PROVE m \in Parcels(d)
      <4>1. NoMetadata.src = ""
        BY DEF NoMetadata
      <4>2. m.metadata.src = ""
        BY <3>5, <4>1
      <4> QED BY <4>2 DEF Parcels
    <3>6. t \in Seq(Parcels(d))
      BY <3>3, <3>4, <3>5, StreamOf
    <3> QED BY <3>2, <3>6
  <2> QED BY <1>0, <1>1, <2>1, <2>2 DEF NodeInv, OwnParcels, OwnNode
<1>4. ASSUME NEW k \in Conn, NEW n \in Nat, NEW m \in nsbm, HandlerStepKind(k, n, m) PROVE NodeInv'
  <2>1. OwnParcels' /\ fetched' = fetched
    BY <1>4, HandlerParcels
  <2> QED BY <1>0, <1>1, <2>1 DEF NodeInv, OwnNode
<1>5. ASSUME NEW c \in Client, NEW n \in Nat, NEW m \in nsbm, ReceivedStep(c, n, m) \/ FetchedStep(c, n, m)
      PROVE  NodeInv'
  <2>1. PICK s : s = down[<<c, "RECV">>]
    OBVIOUS
  <2>2. /\ n \in 1 .. Len(s) /\ m = Parse(Read(s, n)) /\ s \in Seq(nsbm)
        /\ down' = [down EXCEPT ![<<c, "RECV">>] = Unread(s, n)]
    BY <1>0, <1>2, <1>5, <2>1 DEF ReceivedStep, FetchedStep, ClientReads, Response
  <2>3. OwnParcels'
    <3> SUFFICES ASSUME NEW d \in Client, ~IsApp(d) PROVE down'[<<d, "RECV">>] \in Seq(Parcels(d))
      BY DEF OwnParcels
    <3>1. down[<<d, "RECV">>] \in Seq(Parcels(d))
      BY <1>0 DEF OwnParcels
    <3>2. CASE d = c
      <4>1. s \in Seq(Parcels(c)) /\ ~IsApp(c)
        BY <2>1, <3>1, <3>2
      <4>2. Unread(s, n) \in Seq(Parcels(c))
        BY <2>2, <4>1, SplitType DEF Unread
      <4> QED BY <1>0, <1>2, <2>2, <3>2, <4>2
    <3>3. CASE d # c
      <4>1. down'[<<d, "RECV">>] = down[<<d, "RECV">>]
        BY <1>0, <1>2, <2>2, <3>3
      <4> QED BY <3>1, <4>1
    <3> QED BY <3>2, <3>3
  <2>4. OwnNode'
    <3>1. CASE fetched' = fetched
      BY <1>0, <3>1 DEF OwnNode
    <3>2. CASE fetched' # fetched
      <4>1. PICK e : e = Returned(c, m)
        OBVIOUS
      <4>2. pc[c] = "fetchWait" /\ exists(e) /\ fetched' = [fetched EXCEPT ![c] = Append(@, e)]
        BY <1>5, <3>2, <4>1 DEF ReceivedStep, FetchedStep
      <4>3. ~IsApp(c)
        BY <1>0, <4>2 DEF KindInv, CallsRight
      <4>4. m.metadata.src \in {"", Ident[c]}
        BY <1>0, <2>1, <2>2, <4>3, ParsedParcel DEF OwnParcels
      <4>5. e.source = Ident[c]
        BY <4>1, <4>2, <4>4 DEF Returned, exists
      <4>6. ASSUME NEW d \in Client, NEW i \in DOMAIN fetched'[d] PROVE fetched'[d][i].source = Ident[d]
        <5>1. PICK u : u = fetched[d]
          OBVIOUS
        <5>2. u \in Seq(MessageEntry \cup {e}) /\ (fetched'[d] = u \/ (d = c /\ fetched'[d] = Append(u, e)))
          BY <1>0, <4>2, <5>1
        <5>3. \A j \in DOMAIN u : u[j].source = Ident[d]
          BY <1>0, <5>1 DEF OwnNode
        <5>4. /\ \A j \in DOMAIN Append(u, e) : j \in DOMAIN u \/ j = Len(u) + 1
              /\ \A j \in DOMAIN u : Append(u, e)[j] = u[j]
              /\ Append(u, e)[Len(u) + 1] = e
          BY <5>2
        <5> QED BY <4>5, <4>6, <5>2, <5>3, <5>4
      <4> QED BY <4>6 DEF OwnNode
    <3> QED BY <3>1, <3>2
  <2> QED BY <1>1, <2>3, <2>4 DEF NodeInv
<1>6. ASSUME NEW c \in Client, (\E d \in SendTo[c] : send(c, d)) \/ (\E e \in Network : post(c, e))
      PROVE  NodeInv'
  <2>1. UNCHANGED <<down, fetched>>
    BY <1>6 DEF send, post, socketsButUp, logVars
  <2> QED BY <1>0, <1>1, <2>1 DEF NodeInv, OwnParcels, OwnNode
<1> QED BY <1>0, <1>3, <1>4, <1>5, <1>6, DataSteps DEF ClientStepKind

(* At the start there are no parcels. *)
LEMMA NodeInvInit == Init => NodeInv
<1> SUFFICES ASSUME Init PROVE NodeInv
  OBVIOUS
<1>1. StartInv /\ KindInv
  BY StartInvInit, KindInvInit
<1>2. \A d \in Client : up[<<d, "RECV">>] = <<>> /\ down[<<d, "RECV">>] = <<>> /\ fetched[d] = <<>>
  BY ConnFacts DEF Init, SocketsInit, ClientInit, Channel
<1>3. OwnParcels
  <2>1. \A d \in Client : <<>> \in Seq(Parcels(d))
    OBVIOUS
  <2> QED BY <1>2, <2>1, Zenon DEF OwnParcels
<1>4. OwnNode
  <2> SUFFICES ASSUME NEW d \in Client, NEW i \in DOMAIN fetched[d] PROVE FALSE
    BY DEF OwnNode
  <2>1. fetched[d] = <<>>
    BY <1>2
  <2> QED BY <2>1
<1>5. NodeAsks
  BY <1>2 DEF NodeAsks
<1> QED BY <1>1, <1>3, <1>4, <1>5 DEF NodeInv

(* In PULL and PER_NODE mode a simulator client gets the payloads of its    *)
(* own node only, whatever source fetch() is called with and whatever       *)
(* requests and answers are merged or left behind by timeouts, provided     *)
(* that it did not start without the daemon's configuration.                *)
THEOREM PullOwnNode ==
    ASSUME SystemMode = "PULL", SimulatorMode = "PER_NODE", NoBlindStart
    PROVE  Spec => []OwnNode
<1>1. Init => NodeInv
  BY NodeInvInit
<1>2. NodeInv /\ [Next]_vars => NodeInv'
  BY NodeInvStep
<1>3. NodeInv => OwnNode
  BY DEF NodeInv
<1> QED BY <1>1, <1>2, <1>3, PTL DEF Spec

-----------------------------------------------------------------------------
(* KeysResolve.  Two keys under way never stand for one stored payload, by  *)
(* Unique, so the checkOut() of one takes nothing from the others.  That a  *)
(* key is what travels at all rests on the configuration the clients run    *)
(* on, and on post() storing what it posts.                                 *)

(* Every payload goes through the database. *)
StoresAll ==
    /\ UseDB /\ ~EmptyPayloads
    /\ \A c \in Client : ~IsApp(c) => Impl[c] = "cpp"

Live(v) == IsKey(v) /\ db[v[2]] # NoValue
LiveMessage == {m \in nsbm : m.body.kind = "msg_key" => Live(m.body.val)}
LiveEntry == {e \in MessageEntry : Live(e.payload_obj)}
RealEntry == {e \in MessageEntry : e.payload_obj \in Payload}

AllLive ==
    /\ up \in [Conn -> Seq(LiveMessage)] /\ down \in [Conn -> Seq(LiveMessage)]
    /\ tx_buffer \in Seq(LiveEntry) /\ rx_buffer \in Seq(LiveEntry)

SendsKeys ==
    \A c \in Client : \A i \in DOMAIN up[<<c, "SEND">>] : up[<<c, "SEND">>][i].body.kind = "msg_key"

StoresPayloads == db \in Seq(Payload \cup {NoValue}) /\ fetched \in [Client -> Seq(RealEntry)]

LiveInv == PlaceInv /\ StartInv /\ KindInv /\ SendsKeys /\ StoresPayloads /\ AllLive

(* What send() and post() write, and store. *)
LEMMA StoredLive ==
    ASSUME UseDB, TypeOK, db \in Seq(Payload \cup {NoValue}),
           NEW c \in Client, StartRight(c), Admitted(c), NEW v \in Payload, db' = Stored(c, v)
    PROVE  /\ \E w : StoredBody(c, v) = [kind |-> "msg_key", val |-> w] /\ Live(w)'
           /\ db' \in Seq(Payload \cup {NoValue})
           /\ \A w : Live(w) => Live(w)'
<1>1. cfg[c].use_db
  BY DEF StartRight, DaemonConfig
<1>2. db' = Append(db, v) /\ v # NoValue
  BY <1>1, NoValueNoPayload DEF Stored
<1>3. /\ Append(db, v) \in Seq(Payload \cup {NoValue}) /\ DOMAIN db = 1 .. Len(db) /\ Len(db) \in Nat
      /\ DOMAIN Append(db, v) = 1 .. (Len(db) + 1)
      /\ Append(db, v)[Len(db) + 1] = v
      /\ \A i \in DOMAIN db : Append(db, v)[i] = db[i]
  OBVIOUS
<1>4. PICK x : x = <<"#", Len(db) + 1>>
  OBVIOUS
<1>5. x[1] = "#" /\ x[2] \in DOMAIN db' /\ db'[x[2]] # NoValue
  BY <1>2, <1>3, <1>4
<1>6. Live(x)'
  BY <1>5 DEF Live, IsKey
<1>7. ASSUME NEW w, Live(w) PROVE Live(w)'
  <2>1. w[1] = "#" /\ w[2] \in DOMAIN db /\ db[w[2]] # NoValue
    BY <1>7 DEF Live, IsKey
  <2>2. w[2] \in DOMAIN db' /\ db'[w[2]] = db[w[2]]
    BY <1>2, <1>3, <2>1
  <2> QED BY <2>1, <2>2 DEF Live, IsKey
<1>8. StoredBody(c, v) = [kind |-> "msg_key", val |-> x]
  BY <1>1, <1>4 DEF StoredBody, PayloadBody
<1> QED BY <1>2, <1>3, <1>6, <1>7, <1>8

(* What is live stays live while it stays stored. *)
LEMMA LiveMono ==
    ASSUME AllLive, \A w : Live(w) => Live(w)'
    PROVE  /\ up \in [Conn -> Seq(LiveMessage')] /\ down \in [Conn -> Seq(LiveMessage')]
           /\ tx_buffer \in Seq(LiveEntry') /\ rx_buffer \in Seq(LiveEntry')
<1>1. LiveMessage \subseteq LiveMessage' /\ LiveEntry \subseteq LiveEntry'
  BY DEF LiveMessage, LiveEntry
<1>2. \A s \in Seq(LiveMessage) : s \in Seq(LiveMessage')
  BY <1>1, SeqMono
<1>3. \A s \in Seq(LiveEntry) : s \in Seq(LiveEntry')
  BY <1>1, SeqMono
<1> QED BY <1>2, <1>3 DEF AllLive

(* What an idle client sends, or posts. *)
LEMMA OutLive ==
    ASSUME StoresAll, LiveInv, NEW c \in Client,
           (\E d \in SendTo[c] : send(c, d)) \/ (\E e \in Network : post(c, e))
    PROVE  /\ AllLive' /\ StoresPayloads'
           /\ \E m : SendMessage(c, "SEND", m) /\ m.body.kind = "msg_key"
<1>0. /\ TypeOK /\ db \in Seq(Payload \cup {NoValue}) /\ StartRight(c) /\ AllLive
      /\ fetched \in [Client -> Seq(RealEntry)] /\ TypeInv
  BY DEF LiveInv, StartInv, TypeInv, StoresPayloads
<1>1. ASSUME NEW v \in Payload, NEW m \in nsbm, m.body = StoredBody(c, v), SendMessage(c, "SEND", m),
             Admitted(c), db' = Stored(c, v), UNCHANGED <<down, tx_buffer, rx_buffer, fetched>>
      PROVE  /\ AllLive' /\ StoresPayloads'
             /\ \E x : SendMessage(c, "SEND", x) /\ x.body.kind = "msg_key"
  <2>1. /\ \E w : m.body = [kind |-> "msg_key", val |-> w] /\ Live(w)'
        /\ db' \in Seq(Payload \cup {NoValue}) /\ \A w : Live(w) => Live(w)'
    BY <1>0, <1>1, StoredLive DEF StoresAll
  <2>2. m \in LiveMessage'
    BY <2>1 DEF LiveMessage
  <2>3. /\ up \in [Conn -> Seq(LiveMessage')] /\ down \in [Conn -> Seq(LiveMessage')]
        /\ tx_buffer \in Seq(LiveEntry') /\ rx_buffer \in Seq(LiveEntry')
    BY <1>0, <2>1, LiveMono
  <2>4. up' \in [Conn -> Seq(LiveMessage')]
    BY <1>1, <2>2, <2>3, ConnFacts, AppendAt DEF SendMessage, UpAfterSend, Channel
  <2>5. AllLive'
    BY <1>1, <2>3, <2>4 DEF AllLive
  <2>6. StoresPayloads'
    BY <1>0, <1>1, <2>1 DEF StoresPayloads, RealEntry
  <2> QED BY <1>1, <2>1, <2>5, <2>6
<1>2. ASSUME NEW d \in SendTo[c], send(c, d)
      PROVE  /\ AllLive' /\ StoresPayloads'
             /\ \E x : SendMessage(c, "SEND", x) /\ x.body.kind = "msg_key"
  <2>1. PICK v : v = <<c, nsent[c] + 1>>
    OBVIOUS
  <2> DEFINE m == DataMessage(c, "SEND", Ident[c], d, StoredBody(c, v))
  <2>2. /\ SendMessage(c, "SEND", m) /\ db' = Stored(c, v) /\ Admitted(c)
        /\ UNCHANGED <<down, tx_buffer, rx_buffer, fetched>>
    BY <1>2, <2>1 DEF send, StoresAll, Admitted, socketsButUp, daemonVars, bufferVars, logVars
  <2>3. v \in Payload
    <3>1. nsent[c] \in 0 .. MaxSends /\ nsent[c] < MaxSends /\ MaxSends \in Nat
      BY <1>0, <1>2, WireAssumption DEF send, TypeOK, ClientTypeOK
    <3>2. nsent[c] + 1 \in 1 .. MaxSends
      BY <3>1
    <3> QED BY <2>1, <3>2 DEF Payload
  <2>4. m \in nsbm
    <3>1. v \in Value
      BY <2>3, NoValueNoPayload
    <3>2. Ident[c] \in Id /\ d \in Id /\ StoredBody(c, v) \in Body
      BY <1>0, <3>1, ClientAssumption, WireAssumption, DatabaseTypes DEF Id, Identifier
    <3> QED BY <3>2, DataMessageType DEF Op
  <2>5. m.body = StoredBody(c, v)
    BY DEF DataMessage
  <2> HIDE DEF m
  <2> QED BY <1>1, <2>2, <2>3, <2>4, <2>5
<1>3. ASSUME NEW e \in Network, post(c, e)
      PROVE  /\ AllLive' /\ StoresPayloads'
             /\ \E x : SendMessage(c, "SEND", x) /\ x.body.kind = "msg_key"
  <2>1. e \in RealEntry
    BY <1>0 DEF Network, Logged
  <2>2. PICK v : v = e.payload_obj
    OBVIOUS
  <2>3. v \in Payload /\ e \in MessageEntry /\ v \in Value
    BY <2>1, <2>2 DEF RealEntry, MessageEntry
  <2>4. Impl[c] # "py" /\ Admitted(c)
    BY <1>3 DEF post, StoresAll, IsApp, Admitted
  <2> DEFINE m == DataMessage(c, "POST", e.source, e.destination, StoredBody(c, v))
  <2>5. /\ SendMessage(c, "SEND", m) /\ db' = Stored(c, v)
        /\ UNCHANGED <<down, tx_buffer, rx_buffer, fetched>>
    BY <1>3, <2>2, <2>4 DEF post, PostBody, socketsButUp, daemonVars, bufferVars
  <2>6. m \in nsbm
    <3>1. e.source \in Id /\ e.destination \in Id /\ StoredBody(c, v) \in Body
      BY <1>0, <2>3, DatabaseTypes DEF MessageEntry
    <3> QED BY <3>1, DataMessageType DEF Op
  <2>7. m.body = StoredBody(c, v)
    BY DEF DataMessage
  <2> HIDE DEF m
  <2> QED BY <1>1, <2>3, <2>4, <2>5, <2>6, <2>7
<1> QED BY <1>2, <1>3

(* A sequence that has nothing of C. *)
LEMMA SeqWithout ==
    ASSUME NEW S, NEW T, NEW C, NEW s \in Seq(S), Hits(s, C) = {}, \A x \in S : x \notin C => x \in T
    PROVE  s \in Seq(T)
<1>1. \A i \in DOMAIN s : s[i] \in T
  BY DEF Hits
<1> QED BY <1>1

(* The message parsed is live. *)
LEMMA ParsedLive ==
    ASSUME NEW s \in Seq(LiveMessage), NEW n \in 1 .. Len(s), NEW m \in nsbm, m = Parse(Read(s, n))
    PROVE  m \in LiveMessage
<1>1. s \in Seq(nsbm)
  BY SeqMono DEF LiveMessage
<1>2. PICK i \in 1 .. n : m.body = s[i].body
  BY <1>1, ParseBody
<1>3. s[i] \in LiveMessage
  OBVIOUS
<1> QED BY <1>2, <1>3 DEF LiveMessage

(* A call that returns checks out the one key there is for its payload. *)
LEMMA ReturnLive ==
    ASSUME StoresAll, LiveInv, NEW c \in Client, NEW n \in Nat, NEW m \in nsbm,
           ReceivedStep(c, n, m) \/ FetchedStep(c, n, m)
    PROVE  AllLive' /\ StoresPayloads'
<1> DEFINE k == <<c, "RECV">>
<1>0. /\ TypeOK /\ StartRight(c) /\ AllLive /\ PlaceInv
      /\ db \in Seq(Payload \cup {NoValue}) /\ fetched \in [Client -> Seq(RealEntry)]
      /\ up \in [Conn -> Seq(LiveMessage)] /\ down \in [Conn -> Seq(LiveMessage)]
      /\ tx_buffer \in Seq(LiveEntry) /\ rx_buffer \in Seq(LiveEntry)
  BY DEF LiveInv, StartInv, TypeInv, StoresPayloads, AllLive
<1>1. /\ n \in 1 .. Len(down[k]) /\ m = Parse(Read(down[k], n)) /\ k \in Conn
      /\ down' = [down EXCEPT ![k] = Unread(@, n)]
      /\ db' = AfterCheckOut(c, m) /\ UNCHANGED <<up, tx_buffer, rx_buffer>>
  BY ConnFacts DEF ReceivedStep, FetchedStep, ClientReads, Response, Channel
<1>2. cfg[c].use_db
  <2>1. Admitted(c)
    BY DEF ReceivedStep, FetchedStep, Admitted
  <2> QED BY <1>0, <2>1 DEF StartRight, DaemonConfig, StoresAll
<1>3. fetched' = fetched \/ (exists(Returned(c, m)) /\ fetched' = [fetched EXCEPT ![c] = Append(@, Returned(c, m))])
  BY DEF ReceivedStep, FetchedStep
<1> HIDE DEF k
<1>4. m \in LiveMessage
  BY <1>0, <1>1, ParsedLive
<1>5. n \in 0 .. Len(down[k])
  BY <1>1
<1>6. CASE m.body.kind # "msg_key"
  <2>1. PayloadOf(cfg[c].use_db, m) = NoValue /\ ~IsKey(NoValue)
    BY <1>2, <1>6 DEF PayloadOf, IsKey, NoValue
  <2>2. db' = db /\ ~exists(Returned(c, m))
    BY <1>1, <1>2, <2>1 DEF AfterCheckOut, Returned, CheckOut, exists
  <2>3. LiveMessage' = LiveMessage /\ LiveEntry' = LiveEntry
    BY <2>2 DEF LiveMessage, LiveEntry, Live, IsKey
  <2>4. down' \in [Conn -> Seq(LiveMessage)]
    BY <1>0, <1>1, <1>5, ReadAt
  <2> QED BY <1>0, <1>1, <1>3, <2>2, <2>3, <2>4 DEF AllLive, StoresPayloads, RealEntry
<1>7. CASE m.body.kind = "msg_key"
  <2>1. PICK v : v = m.body.val
    OBVIOUS
  <2>2. Live(v) /\ PayloadOf(cfg[c].use_db, m) = v
    BY <1>2, <1>4, <1>7, <2>1 DEF LiveMessage, PayloadOf
  <2>3. PICK p \in Payload : p = db[v[2]]
    BY <1>0, <2>2 DEF Live, IsKey
  <2>4. db' = [db EXCEPT ![v[2]] = NoValue] /\ v[2] \in DOMAIN db /\ IsKey(v)
    BY <1>1, <1>2, <2>2 DEF AfterCheckOut, Live, IsKey
  <2>5. DOMAIN db' = DOMAIN db /\ \A i \in DOMAIN db : i # v[2] => db'[i] = db[i]
    BY <1>0, <2>4
  <2>6. m \in Bearers(p)
    BY <1>7, <2>1, <2>3, <2>4 DEF Bearers, Carries, Names
  <2>7. ASSUME NEW w, Live(w), w[2] # v[2] PROVE Live(w)'
    <3>1. w[1] = "#" /\ w[2] \in DOMAIN db /\ db[w[2]] # NoValue
      BY <2>7 DEF Live, IsKey
    <3> QED BY <2>5, <2>7, <3>1 DEF Live, IsKey
  <2>8. \A w : Live(w) /\ w[2] = v[2] => Names(w, p)
    BY <2>3 DEF Live, Names
  <2>9. \A x \in LiveMessage : x \notin Bearers(p) => x \in LiveMessage'
    BY <2>7, <2>8 DEF LiveMessage, Bearers, Carries
  <2>10. \A x \in LiveEntry : x \notin Entries(p) => x \in LiveEntry'
    BY <2>7, <2>8 DEF LiveEntry, Entries
  <2>11. Unique(Boxes(p), Sent(p))
    BY <1>0 DEF PlaceInv
  <2>12. down[k] \in Seq(LiveMessage) /\ down[k] \in Seq(nsbm)
    BY <1>0, <1>1, SeqMono DEF LiveMessage
  <2> DEFINE H == Boxes(p)
             src == <<"down", k>>
  <2>13. /\ \A j \in Conn : H[<<"up", j>>] = Hits(up[j], Bearers(p)) /\ H[<<"down", j>>] = Hits(down[j], Bearers(p))
         /\ H[TxBox] = Hits(tx_buffer, Entries(p)) /\ H[RxBox] = Hits(rx_buffer, Entries(p))
    BY BoxesAre
  <2>14. src \in Box
    BY <1>1, BoxKinds
  <2> HIDE DEF H
  <2>15. Single(Hits(down[k], Bearers(p)))
    BY <1>1, <2>11, <2>13, <2>14 DEF Unique, H
  <2>16. Hits(Unread(down[k], n), Bearers(p)) = {} /\ H[src] # {}
    <3>1. Hits(Unread(down[k], n), Bearers(p)) = {} /\ Hits(down[k], Bearers(p)) # {}
      <4>1. PICK s : s = down[k]
        OBVIOUS
      <4>2. /\ s \in Seq(nsbm) /\ n \in 1 .. Len(s) /\ m = Parse(Read(s, n))
            /\ Single(Hits(s, Bearers(p)))
        BY <1>1, <2>12, <2>15, <4>1
      <4>3. Hits(Unread(s, n), Bearers(p)) = {} /\ Hits(s, Bearers(p)) # {}
        BY <2>6, <4>2, ReadMoves
      <4> QED BY <4>1, <4>3
    <3>2. H[src] = Hits(down[k], Bearers(p))
      BY <1>1, <2>13
    <3> QED BY <3>1, <3>2
  <2>17. \A x \in Box : x # src => H[x] = {}
    BY <2>11, <2>14, <2>16 DEF Unique, H
  <2>18. /\ \A j \in Conn : Hits(up[j], Bearers(p)) = {}
         /\ \A j \in Conn : j # k => Hits(down[j], Bearers(p)) = {}
         /\ Hits(tx_buffer, Entries(p)) = {} /\ Hits(rx_buffer, Entries(p)) = {}
    <3>1. \A j \in Conn : <<"up", j>> # src /\ (j # k => <<"down", j>> # src)
      OBVIOUS
    <3>2. TxBox # src /\ RxBox # src
      BY DEF TxBox, RxBox
    <3> QED BY <2>13, <2>17, <3>1, <3>2, BoxKinds
  <2>19. \A j \in Conn : up[j] \in Seq(LiveMessage')
    <3>1. ASSUME NEW s \in Seq(LiveMessage), Hits(s, Bearers(p)) = {} PROVE s \in Seq(LiveMessage')
      BY <2>9, <3>1, SeqWithout
    <3> QED BY <1>0, <2>18, <3>1
  <2>20. \A j \in Conn : j # k => down[j] \in Seq(LiveMessage')
    <3>1. ASSUME NEW s \in Seq(LiveMessage), Hits(s, Bearers(p)) = {} PROVE s \in Seq(LiveMessage')
      BY <2>9, <3>1, SeqWithout
    <3> QED BY <1>0, <2>18, <3>1
  <2>21. Unread(down[k], n) \in Seq(LiveMessage')
    <3>1. Unread(down[k], n) \in Seq(LiveMessage)
      BY <1>5, <2>12, SuffixElements DEF Unread
    <3> QED BY <2>9, <2>16, <3>1, SeqWithout
  <2>22. tx_buffer \in Seq(LiveEntry') /\ rx_buffer \in Seq(LiveEntry')
    <3>1. ASSUME NEW s \in Seq(LiveEntry), Hits(s, Entries(p)) = {} PROVE s \in Seq(LiveEntry')
      BY <2>10, <3>1, SeqWithout
    <3> QED BY <1>0, <2>18, <3>1
  <2>23. up' \in [Conn -> Seq(LiveMessage')] /\ down' \in [Conn -> Seq(LiveMessage')]
    <3>1. up \in [Conn -> Seq(LiveMessage')]
      BY <1>0, <2>19
    <3>2. DOMAIN down' = Conn /\ \A j \in Conn : down'[j] = IF j = k THEN Unread(down[k], n) ELSE down[j]
      BY <1>0, <1>1
    <3>3. down' = [j \in Conn |-> IF j = k THEN Unread(down[k], n) ELSE down[j]]
      BY <1>0, <1>1
    <3> QED BY <1>1, <2>20, <2>21, <3>1, <3>2, <3>3
  <2>24. AllLive'
    BY <1>1, <2>22, <2>23 DEF AllLive
  <2>25. db' \in Seq(Payload \cup {NoValue})
    BY <1>0, <2>4
  <2>26. Returned(c, m) \in RealEntry
    <3>1. Returned(c, m) \in MessageEntry
      BY <1>0, DatabaseTypes
    <3>2. Returned(c, m).payload_obj = p
      BY <1>2, <2>2, <2>3, <2>4 DEF Returned, CheckOut
    <3> QED BY <3>1, <3>2 DEF RealEntry
  <2>27. fetched' \in [Client -> Seq(RealEntry)]
    <3>1. [fetched EXCEPT ![c] = Append(@, Returned(c, m))] \in [Client -> Seq(RealEntry)]
      BY <1>0, <2>26, AppendAt
    <3> QED BY <1>0, <1>3, <3>1
  <2> QED BY <2>24, <2>25, <2>27 DEF StoresPayloads, RealEntry
<1> QED BY <1>6, <1>7

(* A handler of PULL mode buffers keys, and answers with keys. *)
LEMMA HandlerLive ==
    ASSUME SystemMode = "PULL", StoresAll, LiveInv,
           NEW k \in Conn, NEW n \in Nat, NEW m \in nsbm, HandlerStepKind(k, n, m)
    PROVE  AllLive' /\ StoresPayloads'
<1>0. /\ TypeOK /\ AsksRight /\ SendsKeys /\ StoresPayloads
      /\ up \in [Conn -> Seq(LiveMessage)] /\ down \in [Conn -> Seq(LiveMessage)]
      /\ tx_buffer \in Seq(LiveEntry) /\ rx_buffer \in Seq(LiveEntry)
  BY DEF LiveInv, StartInv, TypeInv, KindInv, AllLive
<1>1. DaemonReads(k, n, m) /\ n \in 1 .. Len(up[k]) /\ m = Parse(Read(up[k], n))
      /\ up' = [up EXCEPT ![k] = Unread(@, n)] /\ UNCHANGED <<db, fetched>>
  BY DEF HandlerStepKind, SendStep, PostStep, FetchStep, ReceiveStep, ForwardStep, DaemonReads
<1>2. LiveMessage' = LiveMessage /\ LiveEntry' = LiveEntry
  BY <1>1 DEF LiveMessage, LiveEntry, Live, IsKey
<1>3. StoresPayloads'
  BY <1>0, <1>1 DEF StoresPayloads, RealEntry
<1>4. up' \in [Conn -> Seq(LiveMessage)]
  <2>1. n \in 0 .. Len(up[k])
    BY <1>1
  <2> QED BY <1>0, <1>1, <2>1, ReadAt
<1>5. ASSUME m.op \in {"SEND", "POST"} PROVE Entry(UseDB, m) \in LiveEntry
  <2>1. PICK c \in Client, ch \in Channel : k = <<c, ch>>
    BY DEF Conn
  <2>2. m.op \in AskedOps(c, ch)
    BY <1>0, <1>1, <2>1, HandlerAsked
  <2>3. ch = "SEND"
    BY <1>5, <2>2 DEF AskedOps
  <2>4. PICK s : s = up[k]
    OBVIOUS
  <2>5. s \in Seq(LiveMessage) /\ s \in Seq(nsbm)
    BY <1>0, <2>4, SeqMono DEF LiveMessage
  <2>6. PICK i \in 1 .. n : m.body = s[i].body
    BY <1>1, <2>4, <2>5, ParseBody
  <2>7. i \in DOMAIN s /\ s[i] \in LiveMessage
    BY <1>1, <2>4, <2>5
  <2>8. s[i].body.kind = "msg_key"
    BY <1>0, <2>1, <2>3, <2>4, <2>7 DEF SendsKeys
  <2>9. Live(m.body.val) /\ m.body.kind = "msg_key"
    BY <2>6, <2>7, <2>8 DEF LiveMessage
  <2>10. Entry(UseDB, m).payload_obj = m.body.val
    BY <2>9 DEF Entry, PayloadOf, StoresAll
  <2>11. Entry(UseDB, m) \in MessageEntry
    BY MessageTypes, ConfigAssumption
  <2> QED BY <2>9, <2>10, <2>11 DEF LiveEntry
<1>6. ASSUME NEW e \in LiveEntry, NEW op \in {"FETCH", "RECEIVE"}, Writes(k, EntryReply(op, e))
      PROVE  down' \in [Conn -> Seq(LiveMessage)]
  <2>1. e \in MessageEntry /\ Live(e.payload_obj)
    BY DEF LiveEntry
  <2>2. EntryReply(op, e) \in nsbm
    BY <2>1, EntryReplyType DEF Op
  <2>3. EntryReply(op, e).body = (IF exists(e) THEN PayloadBody(UseDB, e.payload_obj) ELSE NoBody)
    BY DEF EntryReply, Bare
  <2>4. EntryReply(op, e) \in LiveMessage
    <3>1. PICK r : r = EntryReply(op, e)
      OBVIOUS
    <3>2. r.body.kind = "none" \/ r.body.val = e.payload_obj
      <4>1. CASE exists(e)
        <5>1. r.body = PayloadBody(UseDB, e.payload_obj)
          BY <2>3, <3>1, <4>1, Zenon
        <5> QED BY <5>1 DEF PayloadBody
      <4>2. CASE ~exists(e)
        <5>1. r.body = NoBody
          BY <2>3, <3>1, <4>2, Zenon
        <5> QED BY <5>1 DEF NoBody
      <4> QED BY <4>1, <4>2
    <3>3. r.body.kind = "msg_key" => Live(r.body.val)
      BY <2>1, <3>2
    <3> QED BY <2>2, <3>1, <3>3 DEF LiveMessage
  <2>5. [down EXCEPT ![k] = Append(@, EntryReply(op, e))] \in [Conn -> Seq(LiveMessage)]
    BY <1>0, <2>4, AppendAt
  <2> QED BY <1>0, <1>6, <2>5 DEF Writes
<1>7. CASE SendStep(k, n, m)
  BY <1>0, <1>2, <1>3, <1>4, <1>5, <1>7 DEF SendStep, AllLive
<1>8. CASE PostStep(k, n, m)
  BY <1>0, <1>2, <1>3, <1>4, <1>5, <1>8 DEF PostStep, AllLive
<1>9. CASE FetchStep(k, n, m)
  <2>1. PICK i \in DOMAIN tx_buffer : /\ tx_buffer' = RemoveAt(tx_buffer, i)
                                      /\ Writes(k, EntryReply("FETCH", tx_buffer[i]))
    BY <1>9 DEF FetchStep
  <2>2. tx_buffer' \in Seq(LiveEntry) /\ tx_buffer[i] \in LiveEntry
    BY <1>0, <2>1, RemoveAtType
  <2>3. down' \in [Conn -> Seq(LiveMessage)]
    BY <1>6, <2>1, <2>2
  <2> QED BY <1>0, <1>2, <1>3, <1>4, <1>9, <2>2, <2>3 DEF FetchStep, AllLive
<1>10. CASE ReceiveStep(k, n, m)
  <2>1. PICK i \in DOMAIN rx_buffer : /\ rx_buffer' = RemoveAt(rx_buffer, i)
                                      /\ Writes(k, EntryReply("RECEIVE", rx_buffer[i]))
    BY <1>10 DEF ReceiveStep
  <2>2. rx_buffer' \in Seq(LiveEntry) /\ rx_buffer[i] \in LiveEntry
    BY <1>0, <2>1, RemoveAtType
  <2>3. down' \in [Conn -> Seq(LiveMessage)]
    BY <1>6, <2>1, <2>2
  <2> QED BY <1>0, <1>2, <1>3, <1>4, <1>10, <2>2, <2>3 DEF ReceiveStep, AllLive
<1> QED BY <1>7, <1>8, <1>9, <1>10 DEF HandlerStepKind, ForwardStep

(* A stream after a step that wrote a key to it, or nothing. *)
KeyWritten(s, t) == t = s \/ \E m : m.body.kind = "msg_key" /\ t = Append(s, m)

(* What a client step writes on a SEND channel. *)
LEMMA ClientWritesKey ==
    ASSUME StoresAll, LiveInv, NEW c \in Client, ClientNext(c), NEW d \in Client
    PROVE  KeyWritten(up[<<d, "SEND">>], up'[<<d, "SEND">>])
<1> DEFINE k == <<d, "SEND">>
           Asks == KeyWritten(up[k], up'[k])
<1> SUFFICES Asks
  OBVIOUS
<1>0. up \in [Conn -> Seq(nsbm)] /\ k \in Conn
  BY ConnFacts DEF LiveInv, PlaceInv, TypeInv, TypeOK, SocketsTypeOK, Channel
<1>1. ASSUME NEW ch \in {"CTRL", "RECV"}, NEW m, SendMessage(c, ch, m) PROVE Asks
  <2>1. <<c, ch>> # k
    OBVIOUS
  <2> QED BY <1>0, <1>1, <2>1 DEF SendMessage, UpAfterSend, KeyWritten
<1>2. CASE \/ \E ch \in Channel : ConnectChannel(c, ch)
           \/ ConnectFails(c) \/ Close(c) \/ BrokenPipe(c) \/ InitTimeout(c) \/ WaitTimeout(c) \/ WaitEof(c)
           \/ Responded(c)
  <2>1. up' = up
    BY <1>2 DEF ConnectChannel, ConnectFails, Close, BrokenPipe, InitTimeout, WaitTimeout, WaitEof,
                Responded, InitReturn, PingReturn, ReceiveReturn, FetchReturn, socketsButDown, socketVars
  <2> QED BY <2>1 DEF KeyWritten
<1>3. CASE \/ initialize(c) \/ ping(c) \/ exit(c)
           \/ (\E e \in ReceiveAs \cup {Ident[c]} : receive(c, e)) \/ (\E e \in FetchFrom : fetch(c, e))
  <2>1. up' = up \/ \E ch \in {"CTRL", "RECV"} : \E m : SendMessage(c, ch, m)
    BY <1>3 DEF initialize, ping, exit, receive, fetch
  <2> QED BY <1>1, <2>1 DEF KeyWritten
<1>4. CASE (\E e \in SendTo[c] : send(c, e)) \/ (\E e \in Network : post(c, e))
  <2>1. PICK m : SendMessage(c, "SEND", m) /\ m.body.kind = "msg_key"
    BY <1>4, OutLive
  <2>2. CASE c = d
    BY <1>0, <2>1, <2>2 DEF SendMessage, UpAfterSend, KeyWritten
  <2>3. CASE c # d
    <3>1. <<c, "SEND">> # k
      BY <2>3
    <3> QED BY <1>0, <2>1, <3>1 DEF SendMessage, UpAfterSend, KeyWritten
  <2> QED BY <2>2, <2>3
<1> QED BY <1>2, <1>3, <1>4 DEF ClientNext

(* SendsKeys is kept by every step. *)
LEMMA SendsKeysStep ==
    ASSUME StoresAll, LiveInv, [Next]_vars
    PROVE  SendsKeys'
<1> SUFFICES ASSUME NEW d \in Client, NEW i \in DOMAIN up'[<<d, "SEND">>]
             PROVE  up'[<<d, "SEND">>][i].body.kind = "msg_key"
  BY DEF SendsKeys
<1>1. PICK s : s = up[<<d, "SEND">>]
  OBVIOUS
<1>2. PICK t : t = up'[<<d, "SEND">>]
  OBVIOUS
<1>3. <<d, "SEND">> \in Conn /\ s \in Seq(nsbm) /\ TypeInv
  BY <1>1, ConnFacts DEF LiveInv, PlaceInv, TypeInv, TypeOK, SocketsTypeOK, Channel
<1>4. \A j \in DOMAIN s : s[j].body.kind = "msg_key"
  BY <1>1 DEF LiveInv, SendsKeys
<1>5. CASE t = s
  BY <1>2, <1>4, <1>5
<1>6. ASSUME NEW c \in Client, ClientNext(c) PROVE t[i].body.kind = "msg_key"
  <2>1. t = s \/ \E m : m.body.kind = "msg_key" /\ t = Append(s, m)
    BY <1>1, <1>2, <1>6, ClientWritesKey DEF KeyWritten
  <2>2. ASSUME NEW m, m.body.kind = "msg_key", t = Append(s, m) PROVE t[i].body.kind = "msg_key"
    <3>1. s \in Seq(nsbm \cup {m})
      BY <1>3
    <3>2. i \in DOMAIN Append(s, m)
      BY <1>2, <2>2
    <3>3. i = Len(s) + 1 \/ i \in DOMAIN s
      BY <3>1, <3>2
    <3>4. (i \in DOMAIN s => Append(s, m)[i] = s[i]) /\ Append(s, m)[Len(s) + 1] = m
      BY <3>1
    <3> QED BY <1>4, <2>2, <3>3, <3>4
  <2> QED BY <1>2, <1>5, <2>1, <2>2
<1>7. CASE DaemonNext
  <2>1. PICK n \in 0 .. Len(s) : t = SubSeq(s, n + 1, Len(s))
    BY <1>1, <1>2, <1>3, <1>7, DaemonTakes DEF Suffix
  <2>2. i + n \in DOMAIN s /\ t[i] = s[i + n]
    BY <1>2, <1>3, <2>1, SuffixElements
  <2> QED BY <1>2, <1>4, <2>2
<1>8. CASE UNCHANGED vars
  BY <1>1, <1>2, <1>5, <1>8 DEF vars, socketVars
<1> QED BY <1>2, <1>6, <1>7, <1>8 DEF Next

(* LiveInv is kept by every step. *)
LEMMA LiveInvStep ==
    ASSUME SystemMode = "PULL", NoBlindStart, StoresAll, LiveInv, [Next]_vars
    PROVE  LiveInv'
<1>0. PlaceInv /\ StartInv /\ KindInv /\ SendsKeys /\ StoresPayloads /\ AllLive /\ TypeInv
  BY DEF LiveInv, PlaceInv
<1>1. PlaceInv' /\ StartInv' /\ KindInv' /\ SendsKeys'
  BY <1>0, PlaceInvStep, StartInvStep, KindInvStep, SendsKeysStep
<1>2. CASE QuietStep
  <2>1. UNCHANGED <<tx_buffer, rx_buffer, db, fetched>>
    BY <1>2 DEF QuietStep, dataVars
  <2>2. LiveMessage' = LiveMessage /\ LiveEntry' = LiveEntry
    BY <2>1 DEF LiveMessage, LiveEntry, Live, IsKey
  <2>3. up' \in [Conn -> Seq(nsbm)] /\ down' \in [Conn -> Seq(nsbm)]
    BY <1>1 DEF PlaceInv, TypeInv, TypeOK, SocketsTypeOK
  <2>4. LiveMessage \subseteq nsbm /\ \A m \in nsbm : ~Bears(m) => m \in LiveMessage
    BY DEF LiveMessage, Bears
  <2>5. \A k \in Conn : up'[k] \in Seq(LiveMessage) /\ down'[k] \in Seq(LiveMessage)
    BY <1>0, <1>2, <2>4, QuietKnown DEF QuietStep, Plainly, AllLive
  <2>6. AllLive'
    BY <1>0, <2>1, <2>2, <2>3, <2>5 DEF AllLive
  <2>7. StoresPayloads'
    BY <1>0, <2>1 DEF StoresPayloads, RealEntry
  <2> QED BY <1>1, <2>6, <2>7 DEF LiveInv
<1>3. ASSUME NEW k \in Conn, NEW n \in Nat, NEW m \in nsbm, HandlerStepKind(k, n, m)
      PROVE  LiveInv'
  BY <1>1, <1>3, HandlerLive DEF LiveInv
<1>4. ASSUME NEW c \in Client, ClientStepKind(c)
      PROVE  LiveInv'
  <2>1. AllLive' /\ StoresPayloads'
    BY <1>4, ReturnLive, OutLive DEF ClientStepKind
  <2> QED BY <1>1, <2>1 DEF LiveInv
<1> QED BY <1>0, <1>2, <1>3, <1>4, DataSteps

LEMMA LiveInvInit == Init => LiveInv
<1> SUFFICES ASSUME Init PROVE LiveInv
  OBVIOUS
<1>1. PlaceInv /\ StartInv /\ KindInv
  BY PlaceInvInit, StartInvInit, KindInvInit
<1>2. \A S : <<>> \in Seq(S)
  OBVIOUS
<1>3. /\ up = [k \in Conn |-> <<>>] /\ down = [k \in Conn |-> <<>>] /\ tx_buffer = <<>> /\ rx_buffer = <<>>
      /\ db = <<>> /\ fetched = [c \in Client |-> <<>>]
  BY DEF Init, SocketsInit, DaemonInit, ClientInit
<1>4. up \in [Conn -> Seq(LiveMessage)] /\ down \in [Conn -> Seq(LiveMessage)]
  BY <1>2, <1>3
<1>5. fetched \in [Client -> Seq(RealEntry)]
  BY <1>2, <1>3
<1>6. SendsKeys
  <2> SUFFICES ASSUME NEW c \in Client PROVE up[<<c, "SEND">>] = <<>>
    BY DEF SendsKeys
  <2> QED BY <1>3, ConnFacts DEF Channel
<1>7. AllLive
  BY <1>2, <1>3, <1>4 DEF AllLive
<1>8. StoresPayloads
  BY <1>2, <1>3, <1>5 DEF StoresPayloads
<1> QED BY <1>1, <1>6, <1>7, <1>8 DEF LiveInv

(* In PULL mode, with the database in use, every key under way or in a      *)
(* buffer stands for a payload that is still stored: no checkOut() takes    *)
(* away what another key stands for, whatever is merged, left behind by a   *)
(* timeout, or lost with a connection.                                      *)
THEOREM PullKeysResolve ==
    ASSUME SystemMode = "PULL", NoBlindStart, StoresAll
    PROVE  Spec => []KeysResolve
<1>1. Init => LiveInv
  BY LiveInvInit
<1>2. LiveInv /\ [Next]_vars => LiveInv'
  BY LiveInvStep
<1>3. LiveInv => KeysResolve
  <2> SUFFICES ASSUME LiveInv PROVE KeysResolve
    OBVIOUS
  <2>1. /\ up \in [Conn -> Seq(LiveMessage)] /\ down \in [Conn -> Seq(LiveMessage)]
        /\ tx_buffer \in Seq(LiveEntry) /\ rx_buffer \in Seq(LiveEntry)
    BY DEF LiveInv, AllLive
  <2>2. /\ \A k \in Conn : \A i \in DOMAIN up[k] : up[k][i] \in LiveMessage
        /\ \A k \in Conn : \A i \in DOMAIN down[k] : down[k][i] \in LiveMessage
        /\ \A i \in DOMAIN tx_buffer : tx_buffer[i] \in LiveEntry
        /\ \A i \in DOMAIN rx_buffer : rx_buffer[i] \in LiveEntry
    BY <2>1
  <2> QED BY <2>2 DEF KeysResolve, LiveMessage, LiveEntry, Live
<1> QED BY <1>1, <1>2, <1>3, PTL DEF Spec

-----------------------------------------------------------------------------
(* AnswersMatch.  A client asks one thing at a time, so what is on its RECV *)
(* channel, in either direction, is about what it asked for last.           *)

(* fetch() heeds its argument unless PER_NODE mode replaces it. *)
SourceHeeded == SimulatorMode = "SYSTEM_WIDE" \/ FetchFrom \subseteq {""}

ModeKnown == \A c \in Client : cfg[c].simulator_mode \in {"SYSTEM_WIDE", SimulatorMode}

Request(c) == up[<<c, "RECV">>]
Answer(c) == down[<<c, "RECV">>]

AsksFor(c, m, a) == IF IsApp(c) THEN m.metadata.dest = a /\ a # "" ELSE a \in {"", m.metadata.src}
Answers(c, m, a) == IF IsApp(c) THEN m.metadata.dest \in {"", a}
                                ELSE a = "" \/ m.metadata.src \in {"", a}

RequestsRight == Alive => \A c \in Client : \A i \in DOMAIN Request(c) : AsksFor(c, Request(c)[i], asked[c])
AnswersRight == \A c \in Client : \A i \in DOMAIN Answer(c) : Answers(c, Answer(c)[i], asked[c])
AnswersFew == \A c \in Client : pc[c] # "closed" => Len(Answer(c)) <= Due(c)

AskInv == LockInv /\ KindInv /\ ModeKnown /\ RequestsRight /\ AnswersRight /\ AnswersFew

(* What is parsed of requests for a is a request for a, and the same for     *)
(* answers.                                                                  *)
LEMMA ParsedAsk ==
    ASSUME NEW c \in Client, NEW a \in Id, NEW s \in Seq(nsbm), NEW n \in 1 .. Len(s)
    PROVE  /\ (\A i \in DOMAIN s : AsksFor(c, s[i], a)) => AsksFor(c, Parse(Read(s, n)), a)
           /\ (\A i \in DOMAIN s : Answers(c, s[i], a)) => Answers(c, Parse(Read(s, n)), a)
<1>1. PICK r : r = Read(s, n)
  OBVIOUS
<1>2. r \in Seq(nsbm) /\ r # <<>> /\ \A i \in 1 .. n : r[i] = s[i]
  BY <1>1, SplitType DEF Read
<1>3. \A i \in DOMAIN r : i \in 1 .. n /\ i \in DOMAIN s
  BY <1>1 DEF Read
<1> DEFINE qd == [i \in DOMAIN r |-> r[i].metadata.dest]
           qs == [i \in DOMAIN r |-> r[i].metadata.src]
<1>4. Parse(r).metadata.dest = LastSet(qd, "") /\ Parse(r).metadata.src = LastSet(qs, "")
  BY DEF Parse
<1>5. ASSUME \A i \in DOMAIN s : AsksFor(c, s[i], a) PROVE AsksFor(c, Parse(r), a)
  <2>1. \A i \in DOMAIN r : AsksFor(c, r[i], a)
    BY <1>2, <1>3, <1>5
  <2>2. CASE IsApp(c)
    <3>1. \A i \in DOMAIN r : r[i].metadata.dest = a
      BY <2>1, <2>2 DEF AsksFor
    <3>4. a # ""
      <4>1. 1 \in DOMAIN r
        BY <1>2
      <4> QED BY <2>1, <2>2, <4>1 DEF AsksFor
    <3>2. qd \in Seq({a}) /\ qd # <<>>
      BY <1>2, <3>1
    <3> HIDE DEF qd
    <3>3. LastSet(qd, "") \in {a}
      BY <3>2, <3>4, LastSetNoDefault
    <3> QED BY <1>4, <2>2, <3>3, <3>4 DEF AsksFor
  <2>3. CASE ~IsApp(c) /\ a # ""
    <3>1. \A i \in DOMAIN r : r[i].metadata.src = a
      BY <2>1, <2>3 DEF AsksFor
    <3>2. qs \in Seq({a}) /\ qs # <<>>
      BY <1>2, <3>1
    <3> HIDE DEF qs
    <3>3. LastSet(qs, "") \in {a}
      BY <2>3, <3>2, LastSetNoDefault
    <3> QED BY <1>4, <2>3, <3>3 DEF AsksFor
  <2>4. CASE ~IsApp(c) /\ a = ""
    BY <2>4 DEF AsksFor
  <2> QED BY <2>2, <2>3, <2>4
<1>6. ASSUME \A i \in DOMAIN s : Answers(c, s[i], a) PROVE Answers(c, Parse(r), a)
  <2>1. \A i \in DOMAIN r : Answers(c, r[i], a)
    BY <1>2, <1>3, <1>6
  <2> DEFINE T == {"", a}
  <2>0. "" \in T
    OBVIOUS
  <2>2. CASE IsApp(c)
    <3>1. \A i \in DOMAIN r : r[i].metadata.dest \in T
      BY <2>1, <2>2 DEF Answers
    <3> HIDE DEF T
    <3>2. qd \in Seq(T)
      BY <1>2, <3>1
    <3> HIDE DEF qd
    <3>3. LastSet(qd, "") \in T
      BY <2>0, <3>2, LastSetType
    <3> QED BY <1>4, <2>2, <3>3 DEF Answers, T
  <2>3. CASE ~IsApp(c) /\ a # ""
    <3>1. \A i \in DOMAIN r : r[i].metadata.src \in T
      BY <2>1, <2>3 DEF Answers
    <3> HIDE DEF T
    <3>2. qs \in Seq(T)
      BY <1>2, <3>1
    <3> HIDE DEF qs
    <3>3. LastSet(qs, "") \in T
      BY <2>0, <3>2, LastSetType
    <3> QED BY <1>4, <2>3, <3>3 DEF Answers, T
  <2>4. CASE ~IsApp(c) /\ a = ""
    BY <2>4 DEF Answers
  <2> QED BY <2>2, <2>3, <2>4
<1> QED BY <1>1, <1>5, <1>6

(* What a client step does to the answers: a call that waits for one takes  *)
(* it, or ends because none can come.                                       *)
LEMMA AnswersTaken ==
    ASSUME MaxTimeouts = 0, AskInv, NEW c \in Client, ClientNext(c)
    PROVE  /\ \A d \in Client : Answer(d)' = Answer(d) \/ Answer(d)' = <<>>
           /\ \A d \in Client : d # c => pc'[d] = pc[d]
           /\ pc[c] \in {"recvWait", "fetchWait"} => Answer(c)' = <<>>
<1> DEFINE Goal == /\ \A d \in Client : Answer(d)' = Answer(d) \/ Answer(d)' = <<>>
                   /\ \A d \in Client : d # c => pc'[d] = pc[d]
                   /\ pc[c] \in {"recvWait", "fetchWait"} => Answer(c)' = <<>>
<1> SUFFICES Goal
  OBVIOUS
<1>0. /\ TypeInv /\ PullConfig /\ AnswersFew
      /\ down \in [Conn -> Seq(nsbm)] /\ pc \in [Client -> PcState] /\ timeouts \in 0 .. MaxTimeouts
  BY DEF AskInv, LockInv, LinkInv, TypeInv, TypeOK, SocketsTypeOK, ClientTypeOK
<1>1. \A d \in Client : <<d, "RECV">> \in Conn /\ <<d, "RECV">>[1] = d
  BY ConnFacts DEF Channel
<1>2. \A d \in Client : d # c => pc'[d] = pc[d]
  <2>1. PICK to : pc' = pc \/ pc' = [pc EXCEPT ![c] = to]
    BY <1>0, ClientAsks
  <2> QED BY <1>0, <2>1
<1>3. ASSUME NEW unread, CloseConnections(c, unread) PROVE Goal
  <2>1. \A d \in Client : Answer(d)' = IF d = c THEN <<>> ELSE Answer(d)
    BY <1>1, <1>3 DEF CloseConnections, Answer
  <2> QED BY <1>1, <1>2, <2>1
<1>4. ASSUME down' = down, pc[c] \notin {"recvWait", "fetchWait"} PROVE Goal
  BY <1>2, <1>4 DEF Answer
<1>5. ASSUME NEW n, TakeFrom(c, "CTRL", n), pc[c] \notin {"recvWait", "fetchWait"} PROVE Goal
  <2>1. \A d \in Client : <<c, "CTRL">> # <<d, "RECV">>
    OBVIOUS
  <2>2. down' = [down EXCEPT ![<<c, "CTRL">>] = Unread(@, n)]
    BY <1>5 DEF TakeFrom
  <2>3. \A d \in Client : down'[<<d, "RECV">>] = down[<<d, "RECV">>]
    BY <1>0, <1>1, <2>1, <2>2
  <2> QED BY <1>2, <1>5, <2>3 DEF Answer
<1>6. ASSUME NEW n, TakeFrom(c, "RECV", n), pc[c] \in {"recvWait", "fetchWait"} PROVE Goal
  <2>1. PICK s : s = Answer(c)
    OBVIOUS
  <2>2. s \in Seq(nsbm) /\ n \in 1 .. Len(s) /\ down' = [down EXCEPT ![<<c, "RECV">>] = Unread(s, n)]
    BY <1>0, <1>1, <1>6, <2>1 DEF TakeFrom, Answer
  <2>3. Len(s) <= 1
    BY <1>0, <1>6, <2>1 DEF AnswersFew, Due
  <2>4. Len(s) = n
    BY <2>2, <2>3
  <2>5. Len(Unread(s, n)) = Len(s) - n /\ Unread(s, n) \in Seq(nsbm)
    BY <2>2, SplitType DEF Unread
  <2>6. Unread(s, n) = <<>>
    BY <2>2, <2>4, <2>5
  <2>7. \A d \in Client : d # c => <<d, "RECV">> # <<c, "RECV">>
    OBVIOUS
  <2>8. \A d \in Client : Answer(d)' = IF d = c THEN <<>> ELSE Answer(d)
    BY <1>0, <1>1, <2>2, <2>6, <2>7 DEF Answer
  <2> QED BY <1>2, <2>8
<1> HIDE DEF Goal
<1>7. CASE ConnectFails(c) \/ Close(c) \/ BrokenPipe(c)
  BY <1>3, <1>7 DEF ConnectFails, Close, BrokenPipe
<1>8. CASE \/ (\E ch \in Channel : ConnectChannel(c, ch)) \/ initialize(c) \/ ping(c) \/ exit(c)
           \/ (\E d \in SendTo[c] : send(c, d)) \/ (\E e \in Network : post(c, e))
           \/ (\E d \in ReceiveAs \cup {Ident[c]} : receive(c, d)) \/ (\E s \in FetchFrom : fetch(c, s))
  <2>1. down' = down /\ pc[c] \in {"connect", "init", "idle"}
    BY <1>8 DEF ConnectChannel, initialize, ping, exit, send, post, receive, fetch, socketsButUp
  <2> QED BY <1>4, <2>1
<1>9. CASE InitTimeout(c) \/ WaitTimeout(c)
  <2>1. timeouts < MaxTimeouts
    BY <1>0, <1>9 DEF InitTimeout, WaitTimeout, PullConfig
  <2> QED BY <1>0, <2>1
<1>10. CASE WaitEof(c)
  <2>1. (down' = down /\ down[<<c, WaitChannel(c)>>] = <<>>) \/ CloseConnections(c, down)
    BY <1>10 DEF WaitEof
  <2>2. ASSUME down' = down, down[<<c, WaitChannel(c)>>] = <<>>, pc[c] \in {"recvWait", "fetchWait"} PROVE Goal
    BY <1>2, <2>2 DEF WaitChannel, Answer, Goal
  <2> QED BY <1>3, <1>4, <2>1, <2>2
<1>11. CASE Responded(c)
  <2>1. PICK n : InitReturn(c, n) \/ PingReturn(c, n) \/ ReceiveReturn(c, n) \/ FetchReturn(c, n)
    BY <1>11 DEF Responded
  <2>2. CASE InitReturn(c, n)
    <3>1. /\ pc[c] = "initWait"
          /\ \/ TakeFrom(c, "CTRL", n)
             \/ CloseConnections(c, [down EXCEPT ![<<c, "CTRL">>] = Unread(@, n)])
      BY <2>2 DEF InitReturn
    <3> QED BY <1>3, <1>5, <3>1
  <2>3. CASE PingReturn(c, n)
    BY <1>5, <2>3 DEF PingReturn
  <2>4. CASE ReceiveReturn(c, n) \/ FetchReturn(c, n)
    BY <1>6, <2>4 DEF ReceiveReturn, FetchReturn
  <2> QED BY <2>1, <2>2, <2>3, <2>4
<1> QED BY <1>7, <1>8, <1>9, <1>10, <1>11 DEF ClientNext

(* What a client step does to the requests: a call of fetch() or receive()  *)
(* asks for what it was called with.                                        *)
LEMMA RequestsMade ==
    ASSUME SourceHeeded, AskInv, NEW c \in Client, ClientNext(c)
    PROVE  \/ asked' = asked /\ \A d \in Client : Request(d)' = Request(d)
           \/ /\ pc[c] = "idle" /\ UNCHANGED <<down, status>>
              /\ \E x : /\ asked' = [asked EXCEPT ![c] = x]
                        /\ \/ up' = up
                           \/ \E m : AsksFor(c, m, x) /\ up' = [up EXCEPT ![<<c, "RECV">>] = Append(@, m)]
<1>0. up \in [Conn -> Seq(nsbm)] /\ ModeKnown
  BY DEF AskInv, LockInv, LinkInv, TypeInv, TypeOK, SocketsTypeOK
<1>1. \A d \in Client : <<d, "RECV">> \in Conn
  BY ConnFacts DEF Channel
<1>2. CASE \/ \E ch \in Channel : ConnectChannel(c, ch)
           \/ ConnectFails(c) \/ Close(c) \/ BrokenPipe(c) \/ InitTimeout(c) \/ WaitTimeout(c) \/ WaitEof(c)
           \/ Responded(c)
  <2>1. up' = up /\ asked' = asked
    BY <1>2 DEF ConnectChannel, ConnectFails, Close, BrokenPipe, InitTimeout, WaitTimeout, WaitEof,
                Responded, InitReturn, PingReturn, ReceiveReturn, FetchReturn, socketsButDown, socketVars
  <2> QED BY <2>1 DEF Request
<1>3. CASE initialize(c) \/ ping(c) \/ exit(c) \/ (\E e \in SendTo[c] : send(c, e)) \/ (\E e \in Network : post(c, e))
  <2>1. asked' = asked /\ \E ch \in {"CTRL", "SEND"} : \E m : SendMessage(c, ch, m)
    BY <1>3 DEF initialize, ping, exit, send, post
  <2>2. \A ch \in {"CTRL", "SEND"}, d \in Client : <<c, ch>> # <<d, "RECV">>
    OBVIOUS
  <2>3. \A d \in Client : up'[<<d, "RECV">>] = up[<<d, "RECV">>]
    BY <1>0, <1>1, <2>1, <2>2 DEF SendMessage, UpAfterSend
  <2> QED BY <2>1, <2>3 DEF Request
<1>4. ASSUME NEW e \in ReceiveAs \cup {Ident[c]}, receive(c, e)
      PROVE  /\ pc[c] = "idle" /\ UNCHANGED <<down, status>> /\ asked' = [asked EXCEPT ![c] = e]
             /\ \/ up' = up
                \/ \E m : AsksFor(c, m, e) /\ up' = [up EXCEPT ![<<c, "RECV">>] = Append(@, m)]
  <2> DEFINE m == [Bare("RECEIVE", Orig[c], "SUCCESS") EXCEPT !.metadata = Route("", e)]
  <2>1. e # "" /\ IsApp(c)
    BY <1>4, ClientAssumption, WireAssumption DEF Identifier, receive, IsApp
  <2>2. AsksFor(c, m, e)
    BY <2>1 DEF AsksFor, Bare, Route
  <2>3. up' = up \/ up' = [up EXCEPT ![<<c, "RECV">>] = Append(@, m)]
    BY <1>4 DEF receive, SendMessage, UpAfterSend
  <2>4. pc[c] = "idle" /\ UNCHANGED <<down, status>> /\ asked' = [asked EXCEPT ![c] = e]
    BY <1>4 DEF receive, socketsButUp, daemonVars
  <2> HIDE DEF m
  <2> QED BY <2>2, <2>3, <2>4
<1>5. ASSUME NEW s \in FetchFrom, fetch(c, s)
      PROVE  /\ pc[c] = "idle" /\ UNCHANGED <<down, status>> /\ asked' = [asked EXCEPT ![c] = s]
             /\ \/ up' = up
                \/ \E m : AsksFor(c, m, s) /\ up' = [up EXCEPT ![<<c, "RECV">>] = Append(@, m)]
  <2> DEFINE m == [Bare("FETCH", Orig[c], "SUCCESS") EXCEPT !.metadata = FetchMetadata(c, s)]
  <2>1. ~IsApp(c)
    BY <1>5 DEF fetch, IsApp
  <2>2. s \in {"", FetchMetadata(c, s).src}
    <3>1. CASE s = ""
      BY <3>1
    <3>2. CASE s # ""
      <4>1. cfg[c].simulator_mode # "PER_NODE"
        BY <1>0, <1>5, <3>2 DEF SourceHeeded, ModeKnown
      <4> QED BY <3>2, <4>1 DEF FetchMetadata, Route
    <3> QED BY <3>1, <3>2
  <2>3. m.metadata = FetchMetadata(c, s)
    BY DEF Bare
  <2>4. AsksFor(c, m, s)
    BY <2>1, <2>2, <2>3 DEF AsksFor
  <2>5. up' = up \/ up' = [up EXCEPT ![<<c, "RECV">>] = Append(@, m)]
    BY <1>5 DEF fetch, SendMessage, UpAfterSend
  <2>6. pc[c] = "idle" /\ UNCHANGED <<down, status>> /\ asked' = [asked EXCEPT ![c] = s]
    BY <1>5 DEF fetch, socketsButUp, daemonVars
  <2> HIDE DEF m
  <2> QED BY <2>4, <2>5, <2>6
<1> QED BY <1>2, <1>3, <1>4, <1>5 DEF ClientNext

(* The daemon is dead only once it wrote nothing. *)
LEMMA LastWrites ==
    ASSUME SystemMode = "PULL", TypeInv, DaemonNext
    PROVE  Alive' \/ down' = down
<1>1. CASE Select \/ Accept \/ Shutdown \/ \E f \in read_fds \cap OpenFds : Disconnect(f)
  BY <1>1 DEF Select, Accept, Shutdown, Disconnect, socketVars
<1>2. ASSUME NEW f \in read_fds \cap OpenFds, NEW n \in 1 .. Len(up[fd_table[f]]), Handle(f, n)
      PROVE  Alive' \/ down' = down
  <2>1. Visit(f)
    BY <1>2 DEF Handle, handle_init, handle_ping, handle_send, handle_fetch, handle_post,
                handle_receive, handle_exit, Receive
  <2>2. UNCHANGED down \/ \E m : SocketSend(fd_table[f], m)
    <3>1. CASE handle_send(f, n) \/ handle_post(f, n) \/ handle_exit(f, n)
      BY <3>1 DEF handle_send, handle_post, handle_exit, NoSend
    <3>2. CASE handle_init(f, n) \/ handle_ping(f, n) \/ handle_fetch(f, n) \/ handle_receive(f, n)
      BY <3>2 DEF handle_init, handle_ping, handle_fetch, handle_receive, Reply
    <3> QED BY <1>2, <3>1, <3>2 DEF Handle
  <2> QED BY <2>1, <2>2 DEF SocketSend, Visit, Alive
<1> QED BY <1>1, <1>2 DEF DaemonNext

(* The daemon answers a request with what it asks for. *)
LEMMA AnswerFits ==
    ASSUME SystemMode = "PULL", AskInv, Alive, NEW c \in Client, NEW ch \in Channel,
           NEW n \in Nat, NEW m \in nsbm, HandlerStepKind(<<c, ch>>, n, m)
    PROVE  \E r : /\ Writes(<<c, ch>>, r)
                  /\ ch = "RECV" => Answers(c, r, asked[c])
<1>0. /\ TypeOK /\ AsksRight /\ RequestsRight /\ asked[c] \in Id /\ up \in [Conn -> Seq(nsbm)]
      /\ tx_buffer \in Seq(MessageEntry) /\ rx_buffer \in Seq(MessageEntry)
  BY DEF AskInv, LockInv, LinkInv, TypeInv, TypeOK, SocketsTypeOK, ClientTypeOK, DaemonTypeOK, KindInv
<1>1. DaemonReads(<<c, ch>>, n, m)
  BY DEF HandlerStepKind, SendStep, PostStep, ReceiveStep, FetchStep, ForwardStep
<1>2. m.op \in AskedOps(c, ch)
  BY <1>0, <1>1, HandlerAsked
<1>3. ASSUME ch = "RECV" PROVE AsksFor(c, m, asked[c])
  <2>1. PICK s : s = up[<<c, ch>>]
    OBVIOUS
  <2>2. s \in Seq(nsbm) /\ n \in 1 .. Len(s) /\ m = Parse(Read(s, n))
    BY <1>0, <1>1, <2>1, ConnFacts DEF DaemonReads
  <2>3. \A i \in DOMAIN s : AsksFor(c, s[i], asked[c])
    BY <1>0, <1>3, <2>1 DEF RequestsRight, Request
  <2> QED BY <1>0, <2>2, <2>3, ParsedAsk
<1>4. CASE SendStep(<<c, ch>>, n, m) \/ PostStep(<<c, ch>>, n, m)
  <2>1. ch # "RECV" /\ down' = down
    BY <1>2, <1>4 DEF AskedOps, SendStep, PostStep
  <2> QED BY <2>1 DEF Writes
<1>5. CASE FetchStep(<<c, ch>>, n, m)
  <2>1. PICK i \in DOMAIN tx_buffer : /\ m.metadata.src \in {"", tx_buffer[i].source}
                                      /\ Writes(<<c, ch>>, EntryReply("FETCH", tx_buffer[i]))
    BY <1>5 DEF FetchStep
  <2>2. PICK e : e = tx_buffer[i]
    OBVIOUS
  <2>3. EntryReply("FETCH", e).metadata.src \in {"", e.source}
    BY DEF EntryReply, Route, Bare, NoMetadata
  <2>4. m.op = "FETCH"
    BY <1>5 DEF FetchStep
  <2>5. ch = "RECV" => ~IsApp(c)
    BY <1>2, <2>4 DEF AskedOps
  <2>6. ASSUME ch = "RECV" PROVE Answers(c, EntryReply("FETCH", e), asked[c])
    <3>1. asked[c] \in {"", m.metadata.src}
      BY <1>3, <2>5, <2>6 DEF AsksFor
    <3>2. asked[c] # "" => e.source = asked[c]
      BY <2>1, <2>2, <3>1
    <3> QED BY <2>3, <2>5, <2>6, <3>2 DEF Answers
  <2> QED BY <2>1, <2>2, <2>6
<1>6. CASE ReceiveStep(<<c, ch>>, n, m)
  <2>1. PICK i \in DOMAIN rx_buffer : /\ m.metadata.dest \in {"", rx_buffer[i].destination}
                                      /\ Writes(<<c, ch>>, EntryReply("RECEIVE", rx_buffer[i]))
    BY <1>6 DEF ReceiveStep
  <2>2. PICK e : e = rx_buffer[i]
    OBVIOUS
  <2>3. EntryReply("RECEIVE", e).metadata.dest \in {"", e.destination}
    BY DEF EntryReply, Route, Bare, NoMetadata
  <2>4. m.op = "RECEIVE"
    BY <1>6 DEF ReceiveStep
  <2>5. ch = "RECV" => IsApp(c)
    BY <1>2, <2>4 DEF AskedOps
  <2>6. ASSUME ch = "RECV" PROVE Answers(c, EntryReply("RECEIVE", e), asked[c])
    <3>1. m.metadata.dest = asked[c] /\ asked[c] # ""
      BY <1>3, <2>5, <2>6 DEF AsksFor
    <3>2. e.destination = asked[c]
      BY <2>1, <2>2, <3>1
    <3> QED BY <2>3, <2>5, <2>6, <3>2 DEF Answers
  <2> QED BY <2>1, <2>2, <2>6
<1> QED BY <1>4, <1>5, <1>6 DEF HandlerStepKind, ForwardStep

(* Right answers stay right: a stream of them loses its beginning, or gets  *)
(* another one.                                                             *)
LEMMA AnswersOn ==
    ASSUME NEW c, NEW a, NEW s \in Seq(nsbm), NEW t, \A i \in DOMAIN s : Answers(c, s[i], a),
           Suffix(s, t) \/ \E m : Answers(c, m, a) /\ t = Append(s, m)
    PROVE  \A i \in DOMAIN t : Answers(c, t[i], a)
<1> SUFFICES ASSUME NEW i \in DOMAIN t PROVE Answers(c, t[i], a)
  OBVIOUS
<1>1. CASE Suffix(s, t)
  <2>1. PICK n \in 0 .. Len(s) : t = SubSeq(s, n + 1, Len(s))
    BY <1>1 DEF Suffix
  <2>2. i + n \in DOMAIN s /\ t[i] = s[i + n]
    BY <2>1, SuffixElements
  <2> QED BY <2>2
<1>2. ASSUME NEW m, Answers(c, m, a), t = Append(s, m) PROVE Answers(c, t[i], a)
  <2>1. s \in Seq(nsbm \cup {m})
    OBVIOUS
  <2>2. i \in DOMAIN Append(s, m)
    BY <1>2
  <2>3. i = Len(s) + 1 \/ i \in DOMAIN s
    BY <2>1, <2>2
  <2>4. (i \in DOMAIN s => Append(s, m)[i] = s[i]) /\ Append(s, m)[Len(s) + 1] = m
    BY <2>1
  <2> QED BY <1>2, <2>3, <2>4
<1> QED BY <1>1, <1>2

(* The daemon's steps keep requests and answers right. *)
LEMMA DaemonAsks ==
    ASSUME SystemMode = "PULL", AskInv, LockInv', DaemonNext, UNCHANGED clientVars
    PROVE  RequestsRight' /\ AnswersRight' /\ AnswersFew'
<1>0. /\ TypeInv /\ TypeOK /\ RequestsRight /\ AnswersRight /\ AnswersFew
      /\ up \in [Conn -> Seq(nsbm)] /\ down \in [Conn -> Seq(nsbm)]
      /\ up' \in [Conn -> Seq(nsbm)] /\ down' \in [Conn -> Seq(nsbm)]
  BY DEF AskInv, LockInv, LinkInv, TypeInv, TypeOK, SocketsTypeOK
<1>1. Alive /\ UNCHANGED <<asked, pc>>
  <2>1. CASE Select \/ Accept \/ Shutdown
    BY <2>1 DEF Select, Accept, Shutdown, Alive, clientVars
  <2>2. CASE \E f \in read_fds \cap OpenFds : Disconnect(f)
    BY <2>2 DEF Disconnect, Visit, Alive, clientVars
  <2>3. ASSUME NEW f \in read_fds \cap OpenFds, NEW n \in 1 .. Len(up[fd_table[f]]), Handle(f, n)
        PROVE  Alive
    <3>1. Visit(f)
      BY <2>3 DEF Handle, handle_init, handle_ping, handle_send, handle_fetch, handle_post,
                  handle_receive, handle_exit, Receive
    <3> QED BY <3>1 DEF Visit, Alive
  <2>4. UNCHANGED <<asked, pc>>
    BY DEF clientVars
  <2> QED BY <2>1, <2>2, <2>3, <2>4 DEF DaemonNext
<1>2. \A d \in Client : <<d, "RECV">> \in Conn
  BY ConnFacts DEF Channel
<1>3. RequestsRight'
  <2> SUFFICES ASSUME NEW d \in Client, NEW i \in DOMAIN up'[<<d, "RECV">>]
               PROVE  AsksFor(d, up'[<<d, "RECV">>][i], asked[d])
    BY <1>1 DEF RequestsRight, Request
  <2>1. PICK s : s = up[<<d, "RECV">>]
    OBVIOUS
  <2>2. PICK t : t = up'[<<d, "RECV">>]
    OBVIOUS
  <2>3. s \in Seq(nsbm) /\ Suffix(s, t)
    BY <1>0, <1>2, <2>1, <2>2, DaemonTakes
  <2>4. PICK n \in 0 .. Len(s) : t = SubSeq(s, n + 1, Len(s))
    BY <2>3 DEF Suffix
  <2>5. i + n \in DOMAIN s /\ t[i] = s[i + n]
    BY <2>2, <2>3, <2>4, SuffixElements
  <2>6. \A j \in DOMAIN s : AsksFor(d, s[j], asked[d])
    BY <1>0, <1>1, <2>1 DEF RequestsRight, Request
  <2> QED BY <2>2, <2>5, <2>6
<1>4. AnswersFew'
  <2> SUFFICES ASSUME NEW d \in Client, pc[d] # "closed" PROVE Len(down'[<<d, "RECV">>]) <= Due(d)
    BY <1>1 DEF AnswersFew, Answer, Due
  <2>1. CASE down' = down
    BY <1>0, <2>1 DEF AnswersFew, Answer
  <2>2. CASE Alive'
    <3>1. Len(up'[<<d, "RECV">>]) + Len(down'[<<d, "RECV">>]) = Due(d)
      BY <1>1, <2>2 DEF LockInv, Lockstep, Due
    <3>2. Len(up'[<<d, "RECV">>]) \in Nat /\ Len(down'[<<d, "RECV">>]) \in Nat
      BY <1>0, <1>2
    <3>3. \A x, y \in Nat : \A z : x + y = z => y <= z
      OBVIOUS
    <3> QED BY <3>1, <3>2, <3>3
  <2> QED BY <1>0, <2>1, <2>2, LastWrites
<1>5. ASSUME NEW d \in Client PROVE \A i \in DOMAIN down'[<<d, "RECV">>] : Answers(d, down'[<<d, "RECV">>][i], asked[d])
  <2>1. PICK s : s = down[<<d, "RECV">>]
    OBVIOUS
  <2>2. PICK t : t = down'[<<d, "RECV">>]
    OBVIOUS
  <2>3. s \in Seq(nsbm) /\ \A i \in DOMAIN s : Answers(d, s[i], asked[d])
    BY <1>0, <1>2, <2>1 DEF AnswersRight, Answer
  <2>4. Suffix(s, s)
    BY <2>3, SuffixFacts
  <2>5. CASE Suffix(s, t) \/ \E m : Answers(d, m, asked[d]) /\ t = Append(s, m)
    BY <2>2, <2>3, <2>5, AnswersOn
  <2>6. CASE t = s
    BY <2>4, <2>5, <2>6
  <2>7. CASE QuietStep
    <3>1. Suffix(s, t) \/ \E m \in nsbm : m.metadata = NoMetadata /\ t = Append(s, m)
      BY <1>2, <2>1, <2>2, <2>7 DEF QuietStep, Plainly
    <3>2. ASSUME NEW m, m.metadata = NoMetadata PROVE Answers(d, m, asked[d])
      <4>1. NoMetadata.src = "" /\ NoMetadata.dest = ""
        BY DEF NoMetadata
      <4>2. m.metadata.src = "" /\ m.metadata.dest = ""
        BY <3>2, <4>1
      <4> QED BY <4>2 DEF Answers
    <3> QED BY <2>5, <3>1, <3>2
  <2>8. ASSUME NEW k \in Conn, NEW n \in Nat, NEW m \in nsbm, HandlerStepKind(k, n, m)
        PROVE  t = s \/ \E r : Answers(d, r, asked[d]) /\ t = Append(s, r)
    <3>1. PICK c \in Client, ch \in Channel : k = <<c, ch>>
      BY DEF Conn
    <3>2. PICK r : Writes(k, r) /\ (ch = "RECV" => Answers(c, r, asked[c]))
      BY <1>1, <2>8, <3>1, AnswerFits
    <3>3. CASE k = <<d, "RECV">>
      <4>1. c = d /\ ch = "RECV"
        BY <3>1, <3>3
      <4>2. t = s \/ t = Append(s, r)
        BY <1>0, <1>2, <2>1, <2>2, <3>2, <3>3 DEF Writes
      <4> QED BY <3>2, <4>1, <4>2
    <3>4. CASE k # <<d, "RECV">>
      BY <1>0, <1>2, <2>1, <2>2, <3>2, <3>4 DEF Writes
    <3> QED BY <3>3, <3>4
  <2>9. CASE down' = down
    BY <2>1, <2>2, <2>6, <2>9
  <2>10. CASE Select \/ Accept \/ Shutdown \/ \E f \in read_fds \cap OpenFds : Disconnect(f)
    <3>1. down' = down
      BY <2>10 DEF Select, Accept, Shutdown, Disconnect, socketVars
    <3> QED BY <2>9, <3>1
  <2>11. ASSUME NEW f \in read_fds \cap OpenFds, NEW n \in 1 .. Len(up[fd_table[f]]), Handle(f, n)
         PROVE  QuietStep \/ \E k \in Conn, j \in Nat, m \in nsbm : HandlerStepKind(k, j, m)
    <3>1. n \in Nat
      OBVIOUS
    <3> QED BY <1>0, <2>11, <3>1, HandlerKinds
  <2> QED BY <2>5, <2>6, <2>7, <2>8, <2>10, <2>11 DEF DaemonNext
<1>6. AnswersRight'
  BY <1>1, <1>5 DEF AnswersRight, Answer
<1> QED BY <1>3, <1>4, <1>6

(* The clients' steps keep requests and answers right. *)
LEMMA ClientsAsk ==
    ASSUME SystemMode = "PULL", MaxTimeouts = 0, SourceHeeded, AskInv, NEW c \in Client, ClientNext(c)
    PROVE  ModeKnown' /\ RequestsRight' /\ AnswersRight' /\ AnswersFew'
<1>0. /\ ModeKnown /\ RequestsRight /\ AnswersRight /\ AnswersFew /\ Lockstep
      /\ up \in [Conn -> Seq(nsbm)] /\ down \in [Conn -> Seq(nsbm)]
      /\ cfg \in [Client -> Config] /\ asked \in [Client -> Id] /\ pc \in [Client -> PcState]
  BY DEF AskInv, LockInv, LinkInv, TypeInv, TypeOK, SocketsTypeOK, ClientTypeOK
<1>1. \A d \in Client : <<d, "RECV">> \in Conn /\ up[<<d, "RECV">>] \in Seq(nsbm) /\ down[<<d, "RECV">>] \in Seq(nsbm)
  BY <1>0, ConnFacts DEF Channel
<1>2. /\ \A d \in Client : Answer(d)' = Answer(d) \/ Answer(d)' = <<>>
      /\ \A d \in Client : d # c => pc'[d] = pc[d]
      /\ pc[c] \in {"recvWait", "fetchWait"} => Answer(c)' = <<>>
  BY AnswersTaken
<1>3. ModeKnown' /\ status' = status
  <2>1. cfg' = cfg \/ cfg' = [cfg EXCEPT ![c] = DaemonConfig]
    BY DEF ClientNext, ConnectChannel, ConnectFails, Close, BrokenPipe, initialize, InitTimeout, ping, exit,
           WaitTimeout, WaitEof, Responded, InitReturn, PingReturn, ReceiveReturn, FetchReturn,
           send, receive, fetch, post
  <2>2. status' = status
    BY DEF ClientNext, ConnectChannel, ConnectFails, Close, BrokenPipe, initialize, InitTimeout, ping, exit,
           WaitTimeout, WaitEof, Responded, InitReturn, PingReturn, ReceiveReturn, FetchReturn,
           send, receive, fetch, post, daemonVars
  <2>3. DaemonConfig.simulator_mode = SimulatorMode
    BY DEF DaemonConfig
  <2> QED BY <1>0, <2>1, <2>2, <2>3 DEF ModeKnown
<1>4. \A d \in Client : Len(Answer(d)) = 0 => Answer(d) = <<>>
  BY <1>1 DEF Answer
<1>5. ASSUME NEW d \in Client, pc[d] \notin {"recvWait", "fetchWait", "closed"} PROVE Answer(d) = <<>>
  <2>1. Len(Answer(d)) <= 0 /\ Len(Answer(d)) \in Nat
    BY <1>0, <1>1, <1>5 DEF AnswersFew, Due, Answer
  <2>2. Len(Answer(d)) = 0
    BY <2>1
  <2> QED BY <1>4, <2>2
<1>6. AnswersFew'
  <2> SUFFICES ASSUME NEW d \in Client, pc'[d] # "closed" PROVE Len(Answer(d)') <= Due(d)'
    BY DEF AnswersFew
  <2>0. Len(<<>>) = 0 /\ Due(d)' \in {0, 1}
    BY DEF Due
  <2>1. CASE Answer(d)' = <<>>
    BY <2>0, <2>1
  <2>2. CASE d # c /\ Answer(d)' = Answer(d)
    <3>1. pc'[d] = pc[d]
      BY <1>2, <2>2
    <3>2. Due(d)' = Due(d)
      BY <3>1 DEF Due
    <3> QED BY <1>0, <2>2, <3>1, <3>2 DEF AnswersFew
  <2>3. CASE d = c /\ Answer(d)' = Answer(d) /\ pc[c] \notin {"recvWait", "fetchWait"}
    <3>1. pc[c] # "closed"
      BY <2>3 DEF ClientNext, ConnectChannel, ConnectFails, Close, BrokenPipe, initialize, InitTimeout, ping, exit,
           WaitTimeout, WaitEof, Responded, InitReturn, PingReturn, ReceiveReturn, FetchReturn,
           send, receive, fetch, post, WaitState
    <3>2. Answer(d) = <<>>
      BY <1>5, <2>3, <3>1
    <3> QED BY <2>1, <2>3, <3>2
  <2> QED BY <1>2, <2>1, <2>2, <2>3
<1>7. CASE asked' = asked /\ \A d \in Client : Request(d)' = Request(d)
  <2>1. RequestsRight'
    BY <1>0, <1>3, <1>7 DEF RequestsRight, Alive
  <2>2. AnswersRight'
    <3> SUFFICES ASSUME NEW d \in Client, NEW i \in DOMAIN Answer(d)' PROVE Answers(d, Answer(d)'[i], asked[d])
      BY <1>7 DEF AnswersRight
    <3>1. Answer(d)' = Answer(d)
      BY <1>2
    <3> QED BY <1>0, <3>1 DEF AnswersRight
  <2> QED BY <1>3, <1>6, <2>1, <2>2
<1>8. ASSUME pc[c] = "idle", UNCHANGED <<down, status>>, NEW x, asked' = [asked EXCEPT ![c] = x],
             \/ up' = up
             \/ \E m : AsksFor(c, m, x) /\ up' = [up EXCEPT ![<<c, "RECV">>] = Append(@, m)]
      PROVE  RequestsRight' /\ AnswersRight'
  <2>1. asked'[c] = x /\ \A d \in Client : d # c => asked'[d] = asked[d]
    BY <1>0, <1>8
  <2>2. AnswersRight'
    <3> SUFFICES ASSUME NEW d \in Client, NEW i \in DOMAIN Answer(d) PROVE Answers(d, Answer(d)[i], asked'[d])
      BY <1>8 DEF AnswersRight, Answer
    <3>1. Answer(c) = <<>>
      BY <1>5, <1>8
    <3>2. d # c
      BY <3>1
    <3> QED BY <1>0, <2>1, <3>2 DEF AnswersRight
  <2>3. ASSUME Alive', NEW d \in Client, NEW i \in DOMAIN up'[<<d, "RECV">>]
        PROVE  AsksFor(d, up'[<<d, "RECV">>][i], asked'[d])
    <3>1. Alive
      BY <1>8, <2>3 DEF Alive
    <3>2. CASE d # c
      <4>1. <<d, "RECV">> # <<c, "RECV">>
        BY <3>2
      <4>2. up'[<<d, "RECV">>] = up[<<d, "RECV">>]
        BY <1>0, <1>1, <1>8, <4>1
      <4> QED BY <1>0, <2>1, <2>3, <3>1, <3>2, <4>2 DEF RequestsRight, Request
    <3>3. CASE d = c
      <4>1. Len(up[<<c, "RECV">>]) + Len(down[<<c, "RECV">>]) = 0
        BY <1>0, <1>8, <3>1 DEF Lockstep
      <4>2. Len(up[<<c, "RECV">>]) \in Nat /\ Len(down[<<c, "RECV">>]) \in Nat
        BY <1>1
      <4>3. Len(up[<<c, "RECV">>]) = 0
        <5>1. \A u, v \in Nat : u + v = 0 => u = 0
          OBVIOUS
        <5> QED BY <4>1, <4>2, <5>1
      <4>4. up[<<c, "RECV">>] = <<>>
        BY <1>1, <4>3
      <4>5. up' # up
        BY <2>3, <3>3, <4>4
      <4>6. PICK m : AsksFor(c, m, x) /\ up' = [up EXCEPT ![<<c, "RECV">>] = Append(@, m)]
        BY <1>8, <4>5
      <4>7. up'[<<c, "RECV">>] = <<m>>
        <5>1. up'[<<c, "RECV">>] = Append(up[<<c, "RECV">>], m)
          BY <1>0, <1>1, <4>6
        <5>2. Append(<<>>, m) = <<m>>
          OBVIOUS
        <5> QED BY <4>4, <5>1, <5>2
      <4>8. i = 1 /\ up'[<<d, "RECV">>][i] = m
        BY <2>3, <3>3, <4>7
      <4> QED BY <2>1, <3>3, <4>6, <4>8
    <3> QED BY <3>2, <3>3
  <2>4. RequestsRight'
    BY <2>3 DEF RequestsRight, Request
  <2> QED BY <2>2, <2>4
<1> QED BY <1>3, <1>6, <1>7, <1>8, RequestsMade

(* AskInv is inductive when no call is abandoned. *)
LEMMA AskInvStep ==
    ASSUME SystemMode = "PULL", MaxTimeouts = 0, SourceHeeded, AskInv, [Next]_vars
    PROVE  AskInv'
<1>1. LockInv' /\ KindInv'
  BY LockInvStep, KindInvStep DEF AskInv, LockInv, LinkInv
<1>2. CASE DaemonNext /\ UNCHANGED clientVars
  <2>1. RequestsRight' /\ AnswersRight' /\ AnswersFew'
    BY <1>1, <1>2, DaemonAsks
  <2>2. ModeKnown'
    BY <1>2 DEF AskInv, ModeKnown, clientVars
  <2> QED BY <1>1, <2>1, <2>2 DEF AskInv
<1>3. CASE \E c \in Client : ClientNext(c)
  BY <1>1, <1>3, ClientsAsk DEF AskInv
<1>4. CASE UNCHANGED vars
  <2>1. UNCHANGED <<up, down, pc, cfg, asked, status>>
    BY <1>4 DEF vars, socketVars, daemonVars, clientVars
  <2> QED BY <1>1, <2>1 DEF AskInv, ModeKnown, RequestsRight, AnswersRight, AnswersFew, Request, Answer, Due, Alive
<1> QED BY <1>2, <1>3, <1>4 DEF Next

(* At the start nothing was asked, and nothing answered. *)
LEMMA AskInvInit == Init => AskInv
<1> SUFFICES ASSUME Init PROVE AskInv
  OBVIOUS
<1>1. LockInv /\ KindInv
  BY LockInvInit, KindInvInit
<1>2. \A d \in Client : Request(d) = <<>> /\ Answer(d) = <<>> /\ pc[d] = "connect" /\ cfg[d] = DefaultConfig
  BY ConnFacts DEF Init, SocketsInit, ClientInit, Channel, Request, Answer
<1>3. ModeKnown
  BY <1>2 DEF ModeKnown, DefaultConfig
<1>4. RequestsRight /\ AnswersRight
  <2>1. \A d \in Client : DOMAIN Request(d) = {} /\ DOMAIN Answer(d) = {}
    BY <1>2
  <2> QED BY <2>1 DEF RequestsRight, AnswersRight
<1>5. AnswersFew
  <2>1. \A d \in Client : Due(d) = 0
    BY <1>2 DEF Due
  <2>2. Len(<<>>) = 0
    OBVIOUS
  <2> QED BY <1>2, <2>1, <2>2 DEF AnswersFew
<1> QED BY <1>1, <1>3, <1>4, <1>5 DEF AskInv

(* What a step gives to a call is what the call asked for. *)
GivenRight ==
    \A c \in Client :
        /\ received'[c] # received[c] => received'[c][Len(received'[c])].destination = asked[c]
        /\ fetched'[c] # fetched[c] => asked[c] \in {"", fetched'[c][Len(fetched'[c])].source}

(* Only the return of a call gives anything, and it gives what was parsed   *)
(* of right answers.                                                        *)
LEMMA GivesRight ==
    ASSUME AskInv, [Next]_vars
    PROVE  GivenRight
<1>0. /\ TypeInv /\ TypeOK /\ KindInv /\ AnswersRight
      /\ down \in [Conn -> Seq(nsbm)] /\ asked \in [Client -> Id]
      /\ received \in [Client -> Seq(MessageEntry)] /\ fetched \in [Client -> Seq(MessageEntry)]
  BY DEF AskInv, LockInv, LinkInv, TypeInv, TypeOK, SocketsTypeOK, ClientTypeOK
<1>1. CASE UNCHANGED <<received, fetched>>
  BY <1>1 DEF GivenRight
<1>2. CASE QuietStep
  BY <1>1, <1>2 DEF QuietStep, dataVars
<1>3. CASE \E k \in Conn, n \in Nat, m \in nsbm : HandlerStepKind(k, n, m)
  <2>1. PICK k \in Conn, n \in Nat, m \in nsbm : HandlerStepKind(k, n, m)
    BY <1>3
  <2>2. DaemonReads(k, n, m)
    BY <2>1 DEF HandlerStepKind, SendStep, PostStep, ReceiveStep, FetchStep, ForwardStep
  <2> QED BY <1>1, <2>2 DEF DaemonReads
<1>4. CASE \E c \in Client : \E d \in SendTo[c] : send(c, d)
  BY <1>1, <1>4 DEF send, logVars
<1>5. ASSUME NEW c \in Client, NEW n \in Nat, NEW m \in nsbm, ReceivedStep(c, n, m) \/ FetchedStep(c, n, m)
      PROVE  GivenRight
  <2>1. PICK s : s = down[<<c, "RECV">>]
    OBVIOUS
  <2>2. n \in 1 .. Len(s) /\ m = Parse(Read(s, n)) /\ s \in Seq(nsbm)
    BY <1>0, <1>5, <2>1, ConnFacts DEF ReceivedStep, FetchedStep, ClientReads, Response, Channel
  <2>3. \A i \in DOMAIN s : Answers(c, s[i], asked[c])
    BY <1>0, <2>1 DEF AnswersRight, Answer
  <2>4. Answers(c, m, asked[c])
    BY <1>0, <2>2, <2>3, ParsedAsk
  <2>5. PICK e : e = Returned(c, m)
    OBVIOUS
  <2>6. e.source = m.metadata.src /\ e.destination = m.metadata.dest
    BY <2>5 DEF Returned
  <2>7. ASSUME NEW log, NEW u, log \in [Client -> Seq(MessageEntry)], u = [log EXCEPT ![c] = Append(@, e)]
        PROVE  u[c][Len(u[c])] = e /\ \A d \in Client : d # c => u[d] = log[d]
    <3>1. log[c] \in Seq(MessageEntry \cup {e}) /\ u[c] = Append(log[c], e)
      BY <2>7
    <3> QED BY <2>7, <3>1
  <2>8. CASE ReceivedStep(c, n, m)
    <3>1. fetched' = fetched /\ pc[c] = "recvWait"
      BY <2>8 DEF ReceivedStep
    <3>2. CASE received' = received
      BY <1>1, <3>1, <3>2
    <3>3. CASE received' # received
      <4>1. exists(e) /\ received' = [received EXCEPT ![c] = Append(@, e)]
        BY <2>5, <2>8, <3>3 DEF ReceivedStep
      <4>2. IsApp(c)
        BY <1>0, <3>1 DEF KindInv, CallsRight
      <4>3. e.destination = asked[c]
        BY <2>4, <2>6, <4>1, <4>2 DEF Answers, exists
      <4>4. received'[c][Len(received'[c])] = e /\ \A d \in Client : d # c => received'[d] = received[d]
        BY <1>0, <2>7, <4>1
      <4> QED BY <3>1, <4>3, <4>4 DEF GivenRight
    <3> QED BY <3>2, <3>3
  <2>9. CASE FetchedStep(c, n, m)
    <3>1. received' = received /\ pc[c] = "fetchWait"
      BY <2>9 DEF FetchedStep
    <3>2. CASE fetched' = fetched
      BY <1>1, <3>1, <3>2
    <3>3. CASE fetched' # fetched
      <4>1. exists(e) /\ fetched' = [fetched EXCEPT ![c] = Append(@, e)]
        BY <2>5, <2>9, <3>3 DEF FetchedStep
      <4>2. ~IsApp(c)
        BY <1>0, <3>1 DEF KindInv, CallsRight
      <4>3. asked[c] \in {"", e.source}
        BY <2>4, <2>6, <4>1, <4>2 DEF Answers, exists
      <4>4. fetched'[c][Len(fetched'[c])] = e /\ \A d \in Client : d # c => fetched'[d] = fetched[d]
        BY <1>0, <2>7, <4>1
      <4> QED BY <3>1, <4>3, <4>4 DEF GivenRight
    <3> QED BY <3>2, <3>3
  <2> QED BY <1>5, <2>8, <2>9
<1>6. CASE \E c \in Client : \E e \in Network : post(c, e)
  BY <1>1, <1>6 DEF post
<1> QED BY <1>0, <1>2, <1>3, <1>4, <1>5, <1>6, DataSteps DEF ClientStepKind

(* In PULL mode, when no call is abandoned, receive(d) returns a payload    *)
(* for d and fetch(s) one of source s, however many clients and payloads    *)
(* there are, whoever closes and whether or not the daemon dies, provided   *)
(* that PER_NODE mode does not replace the source fetch() is called with.   *)
THEOREM PullAnswersMatch ==
    ASSUME SystemMode = "PULL", MaxTimeouts = 0, SourceHeeded
    PROVE  Spec => AnswersMatch
<1>1. Init => AskInv
  BY AskInvInit
<1>2. AskInv /\ [Next]_vars => AskInv'
  BY AskInvStep
<1>3. AskInv /\ [Next]_vars => [GivenRight]_vars
  BY GivesRight
<1>4. Spec => [][GivenRight]_vars
  BY <1>1, <1>2, <1>3, PTL DEF Spec
<1> QED BY <1>4 DEF AnswersMatch, GivenRight
=============================================================================
