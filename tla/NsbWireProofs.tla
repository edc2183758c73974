--------------------------- MODULE NsbWireProofs ---------------------------
(***************************************************************************)
(* What the operators of NsbWire give: the result of a parse is a message, *)
(* and the parse of a read is protobuf's merge of what the read holds.     *)
(* Then lemmas about streams: which positions of a sequence hold a message *)
(* of some kind (Hits) after an append or a read.                          *)
(***************************************************************************)
EXTENDS NsbWire, WellFoundedInduction, TLAPS

(* A nonempty set of naturals has a least element. *)
LEMMA MinExists == ASSUME NEW S, S \subseteq Nat, S # {}
                   PROVE \E i \in S : \A j \in S : i <= j
<1>0. OpToRel(<, Nat) = {ss \in Nat \X Nat : ss[1] < ss[2]}
  BY Zenon DEF OpToRel
<1>1. PICK i \in S : \A j \in S : ~(<<j, i>> \in OpToRel(<, Nat))
  BY NatLessThanWellFounded, WFMin
<1>2. \A j \in S : ~(<<j, i>> \in {ss \in Nat \X Nat : ss[1] < ss[2]})
  BY <1>0, <1>1, Zenon
<1>3. ASSUME NEW j \in S PROVE i <= j
  <2>1. i \in Nat /\ j \in Nat
    OBVIOUS
  <2>2. ~(<<j, i>>[1] < <<j, i>>[2])
    BY <1>2, <2>1, Zenon
  <2> QED BY <2>1, <2>2
<1> QED BY <1>3

(* A nonempty set of positions has a last one. *)
LEMMA LastIsLast == ASSUME NEW n \in Nat, NEW S, S \subseteq 1 .. n, S # {}
                    PROVE LastIn(S) \in S /\ \A j \in S : j <= LastIn(S)
<1> DEFINE T == {n - i : i \in S}
<1>1. T \subseteq Nat /\ T # {}
  <2>1. \A i \in S : n - i \in Nat
    OBVIOUS
  <2> QED BY <2>1
<1>2. PICK t \in T : \A u \in T : t <= u
  BY <1>1, MinExists
<1>3. PICK i \in S : t = n - i
  BY <1>2
<1>4. \A j \in S : j <= i
  BY <1>2, <1>3
<1> QED BY <1>4 DEF LastIn

(* The value a merged read keeps of a field is one of those sent, or the default. *)
LEMMA LastSetType == ASSUME NEW T, NEW q \in Seq(T), NEW d \in T
                     PROVE LastSet(q, d) \in T
<1> DEFINE set == {i \in DOMAIN q : q[i] # d}
<1>1. CASE set = {}
  BY <1>1 DEF LastSet
<1>2. CASE set # {}
  <2>1. LastIn(set) \in set
    BY <1>2, LastIsLast, Len(q) \in Nat, DOMAIN q = 1 .. Len(q)
  <2> QED BY <1>2, <2>1 DEF LastSet
<1> QED BY <1>1, <1>2

(* A read of one message keeps that message's field. *)
LEMMA LastSetOne == ASSUME NEW x, NEW d
                    PROVE LastSet(<<x>>, d) = x
<1>1. CASE x = d
  BY <1>1 DEF LastSet
<1>2. CASE x # d
  <2>1. {i \in DOMAIN <<x>> : <<x>>[i] # d} = {1}
    BY <1>2
  <2>2. LastIn({1}) = 1
    BY DEF LastIn
  <2> QED BY <2>1, <2>2 DEF LastSet
<1> QED BY <1>1, <1>2

(* What was read, parsed as one message, is a message. *)
LEMMA ParseType == ASSUME NEW s \in Seq(nsbm)
                   PROVE Parse(s) \in nsbm
<1>1. \A i \in DOMAIN s : s[i] \in nsbm
  OBVIOUS
<1>2. LastSet([i \in DOMAIN s |-> s[i].op], "PING") \in Op
  <2>1. [i \in DOMAIN s |-> s[i].op] \in Seq(Op)
    BY <1>1 DEF nsbm
  <2> QED BY <2>1, LastSetType DEF Op
<1>3. LastSet([i \in DOMAIN s |-> s[i].og], "DAEMON") \in Og
  <2>1. [i \in DOMAIN s |-> s[i].og] \in Seq(Og)
    BY <1>1 DEF nsbm
  <2> QED BY <2>1, LastSetType DEF Og
<1>4. LastSet([i \in DOMAIN s |-> s[i].code], "SUCCESS") \in Code
  <2>1. [i \in DOMAIN s |-> s[i].code] \in Seq(Code)
    BY <1>1 DEF nsbm
  <2> QED BY <2>1, LastSetType DEF Code
<1>5. LastSet([i \in DOMAIN s |-> s[i].metadata.src], "") \in Id
  <2>1. [i \in DOMAIN s |-> s[i].metadata.src] \in Seq(Id)
    BY <1>1 DEF nsbm, Metadata
  <2> QED BY <2>1, LastSetType DEF Id
<1>6. LastSet([i \in DOMAIN s |-> s[i].metadata.dest], "") \in Id
  <2>1. [i \in DOMAIN s |-> s[i].metadata.dest] \in Seq(Id)
    BY <1>1 DEF nsbm, Metadata
  <2> QED BY <2>1, LastSetType DEF Id
<1>7. LastSet([i \in DOMAIN s |-> s[i].body], NoBody) \in Body
  <2>1. [i \in DOMAIN s |-> s[i].body] \in Seq(Body)
    BY <1>1 DEF nsbm
  <2>2. NoBody \in Body
    BY DEF NoBody, NoValue, Body, Value
  <2> QED BY <2>1, <2>2, LastSetType
<1> QED BY <1>2, <1>3, <1>4, <1>5, <1>6, <1>7 DEF Parse, nsbm, Metadata

(* A read that returns one message gives its operation. *)
LEMMA ParseOneOp == ASSUME NEW m PROVE Parse(<<m>>).op = m.op
<1>1. [i \in DOMAIN <<m>> |-> <<m>>[i].op] = <<m.op>>
  OBVIOUS
<1> QED BY <1>1, LastSetOne DEF Parse

(* A field that every message of the read sets is not left at its default. *)
LEMMA LastSetNoDefault == ASSUME NEW T, NEW q \in Seq(T), q # <<>>, NEW d, d \notin T
                          PROVE LastSet(q, d) \in T
<1> DEFINE set == {i \in DOMAIN q : q[i] # d}
<1>1. DOMAIN q = 1 .. Len(q) /\ Len(q) \in Nat /\ Len(q) # 0
  OBVIOUS
<1>2. set # {}
  <2>1. 1 \in DOMAIN q /\ q[1] \in T
    BY <1>1
  <2> QED BY <2>1
<1>3. LastIn(set) \in set
  BY <1>1, <1>2, LastIsLast
<1> QED BY <1>2, <1>3 DEF LastSet

(* The operation parsed from messages of operations S is one of S, or PING, *)
(* the default; only PING itself can give PING.                             *)
LEMMA ParseOp == ASSUME NEW S \in SUBSET Op, NEW s \in Seq(nsbm), s # <<>>,
                        \A i \in DOMAIN s : s[i].op \in S
                 PROVE Parse(s).op \in S
<1> DEFINE q == [i \in DOMAIN s |-> s[i].op]
<1>1. q \in Seq(S) /\ q # <<>>
  OBVIOUS
<1>2. CASE "PING" \in S
  BY <1>1, <1>2, LastSetType DEF Parse
<1>3. CASE "PING" \notin S
  BY <1>1, <1>3, LastSetNoDefault DEF Parse
<1> QED BY <1>2, <1>3

(* A read of n messages and the rest of the stream. *)
LEMMA SplitType == ASSUME NEW T, NEW s \in Seq(T), NEW n \in 1 .. Len(s)
                   PROVE /\ SubSeq(s, 1, n) \in Seq(T) /\ SubSeq(s, 1, n) # <<>>
                         /\ SubSeq(s, n + 1, Len(s)) \in Seq(T)
                         /\ Len(SubSeq(s, n + 1, Len(s))) = Len(s) - n
                         /\ \A i \in 1 .. n : SubSeq(s, 1, n)[i] = s[i]
  OBVIOUS

(* The messages the daemon and the clients put together are messages of nsb.proto. *)
LEMMA MessageTypes ==
    /\ NoValue \in Value /\ NoEntry \in MessageEntry
    /\ \A op \in Op, og \in Og, code \in Code : Bare(op, og, code) \in nsbm
    /\ \A s, d \in Id : Route(s, d) \in Metadata
    /\ NoMetadata \in Metadata
    /\ \A b \in BOOLEAN, v \in Value : PayloadBody(b, v) \in Body
    /\ \A b \in BOOLEAN, m \in nsbm : PayloadOf(b, m) \in Value /\ Entry(b, m) \in MessageEntry
<1>1. NoValue \in Value
  BY DEF NoValue, Value
<1>2. NoEntry \in MessageEntry
  BY <1>1 DEF NoEntry, MessageEntry, Id
<1>3. NoMetadata \in Metadata
  BY DEF NoMetadata, Metadata, Id
<1>4. NoBody \in Body
  BY <1>1 DEF NoBody, Body
<1>5. \A op \in Op, og \in Og, code \in Code : Bare(op, og, code) \in nsbm
  BY <1>3, <1>4 DEF Bare, nsbm
<1>6. \A s, d \in Id : Route(s, d) \in Metadata
  BY DEF Route, Metadata
<1>7. \A b \in BOOLEAN, v \in Value : PayloadBody(b, v) \in Body
  BY DEF PayloadBody, Body
<1>8. ASSUME NEW b \in BOOLEAN, NEW m \in nsbm
      PROVE PayloadOf(b, m) \in Value /\ Entry(b, m) \in MessageEntry
  <2>1. PayloadOf(b, m) \in Value
    BY <1>1 DEF PayloadOf, nsbm, Body
  <2>2. m.metadata.src \in Id /\ m.metadata.dest \in Id
    BY DEF nsbm, Metadata
  <2> QED BY <2>1, <2>2 DEF Entry, MessageEntry
<1> QED BY <1>1, <1>2, <1>3, <1>5, <1>6, <1>7, <1>8

-----------------------------------------------------------------------------
(* Parse against protobuf's own rule, which says what encodings in a row   *)
(* parse to by merging them one after the other (Message::MergeFrom): a    *)
(* field that is set replaces the one before, a sub-message is merged.     *)

Over(x, y, default) == IF y = default THEN x ELSE y

MergeFrom(a, b) ==
    [op   |-> Over(a.op, b.op, "PING"),
     og   |-> Over(a.og, b.og, "DAEMON"),
     code |-> Over(a.code, b.code, "SUCCESS"),
     metadata |-> [has  |-> a.metadata.has \/ b.metadata.has,
                   src  |-> Over(a.metadata.src, b.metadata.src, ""),
                   dest |-> Over(a.metadata.dest, b.metadata.dest, "")],
     body |-> Over(a.body, b.body, NoBody)]

(* The last of a set of positions is unique. *)
LEMMA LastUnique == ASSUME NEW n \in Nat, NEW S, S \subseteq 1 .. n,
                           NEW k \in S, \A j \in S : j <= k
                    PROVE LastIn(S) = k
<1>1. LastIn(S) \in S /\ \A j \in S : j <= LastIn(S)
  BY DEF LastIn
<1>2. k <= LastIn(S) /\ LastIn(S) <= k
  BY <1>1
<1>3. \A j \in S : j \in 1 .. n
  OBVIOUS
<1>4. k \in 1 .. n /\ LastIn(S) \in 1 .. n
  BY <1>1, <1>3
<1> QED BY <1>2, <1>4

(* A field of two reads in a row: the later one's, where it is set. *)
LEMMA LastSetConcat == ASSUME NEW T, NEW q \in Seq(T), NEW r \in Seq(T), NEW d
                       PROVE LastSet(q \o r, d) = Over(LastSet(q, d), LastSet(r, d), d)
<1> DEFINE Q == {i \in DOMAIN q : q[i] # d}
           R == {i \in DOMAIN r : r[i] # d}
           QR == {i \in DOMAIN (q \o r) : (q \o r)[i] # d}
<1>1. /\ Len(q) \in Nat /\ DOMAIN q = 1 .. Len(q)
      /\ Len(r) \in Nat /\ DOMAIN r = 1 .. Len(r)
      /\ DOMAIN (q \o r) = 1 .. (Len(q) + Len(r))
      /\ \A i \in 1 .. Len(q) : (q \o r)[i] = q[i]
      /\ \A i \in 1 .. Len(r) : (q \o r)[Len(q) + i] = r[i]
  OBVIOUS
<1>2. \A i \in 1 .. (Len(q) + Len(r)) :
          i \in 1 .. Len(q) \/ (i - Len(q) \in 1 .. Len(r) /\ i = Len(q) + (i - Len(q)))
  BY <1>1
<1>3. CASE R # {}
  <2>1. LastIn(R) \in R /\ \A j \in R : j <= LastIn(R)
    BY <1>1, <1>3, LastIsLast
  <2>2. Len(q) + LastIn(R) \in QR
    BY <1>1, <2>1
  <2>3. ASSUME NEW j \in QR PROVE j <= Len(q) + LastIn(R)
    <3>1. CASE j \in 1 .. Len(q)
      BY <1>1, <2>1, <3>1
    <3>2. CASE j - Len(q) \in 1 .. Len(r) /\ j = Len(q) + (j - Len(q))
      <4>1. j - Len(q) \in R
        BY <1>1, <3>2
      <4>2. j - Len(q) <= LastIn(R) /\ LastIn(R) \in Nat
        BY <1>1, <2>1, <4>1
      <4> HIDE DEF R
      <4> QED BY <1>1, <3>2, <4>2
    <3> QED BY <1>1, <1>2, <3>1, <3>2
  <2>4. LastIn(QR) = Len(q) + LastIn(R)
    BY <1>1, <2>2, <2>3, LastUnique, Len(q) + Len(r) \in Nat, QR \subseteq 1 .. (Len(q) + Len(r))
  <2>5. LastSet(q \o r, d) = r[LastIn(R)]
    BY <1>1, <2>1, <2>2, <2>4 DEF LastSet
  <2>6. LastSet(r, d) = r[LastIn(R)] /\ r[LastIn(R)] # d
    BY <1>3, <2>1 DEF LastSet
  <2> QED BY <2>5, <2>6 DEF Over
<1>4. CASE R = {}
  <2>1. QR = Q
    <3>1. Q \subseteq QR
      BY <1>1
    <3>2. ASSUME NEW j \in QR PROVE j \in Q
      <4>1. j \in 1 .. Len(q)
        BY <1>1, <1>2, <1>4
      <4> QED BY <1>1, <4>1
    <3> QED BY <3>1, <3>2
  <2>2. LastSet(r, d) = d
    BY <1>4 DEF LastSet
  <2>3. CASE Q = {}
    BY <2>1, <2>2, <2>3 DEF LastSet, Over
  <2>4. CASE Q # {}
    <3>1. LastIn(Q) \in Q
      BY <1>1, <2>4, LastIsLast
    <3>2. (q \o r)[LastIn(Q)] = q[LastIn(Q)]
      BY <1>1, <3>1
    <3>3. LastSet(q \o r, d) = q[LastIn(Q)] /\ LastSet(q, d) = q[LastIn(Q)]
      BY <2>1, <2>4, <3>2 DEF LastSet
    <3> QED BY <2>2, <3>3 DEF Over
  <2> QED BY <2>3, <2>4
<1> QED BY <1>3, <1>4

(* What the daemon or a client makes of a read is the merge of what it     *)
(* would make of its parts, wherever the read is cut and however many      *)
(* messages it holds: ParseFromArray over a merged read keeps the last     *)
(* value set of each field and no message boundary.                        *)
THEOREM ParseIsMerge ==
    ASSUME NEW s \in Seq(nsbm), NEW t \in Seq(nsbm)
    PROVE  Parse(s \o t) = MergeFrom(Parse(s), Parse(t))
<1>0. /\ \A i \in DOMAIN s : s[i] \in nsbm
      /\ \A i \in DOMAIN t : t[i] \in nsbm
  OBVIOUS
<1>1. /\ DOMAIN s = 1 .. Len(s) /\ DOMAIN t = 1 .. Len(t) /\ s \o t \in Seq(nsbm)
      /\ DOMAIN (s \o t) = 1 .. Len(s) + Len(t) /\ Len(s) \in Nat /\ Len(t) \in Nat
      /\ \A i \in 1 .. Len(s) : (s \o t)[i] = s[i]
      /\ \A i \in 1 .. Len(t) : (s \o t)[Len(s) + i] = t[i]
  OBVIOUS
<1>2. LastSet([i \in DOMAIN (s \o t) |-> (s \o t)[i].op], "PING")
        = Over(LastSet([i \in DOMAIN s |-> s[i].op], "PING"),
               LastSet([i \in DOMAIN t |-> t[i].op], "PING"), "PING")
  <2> DEFINE q == [i \in DOMAIN s |-> s[i].op]
             r == [i \in DOMAIN t |-> t[i].op]
             qr == [i \in DOMAIN (s \o t) |-> (s \o t)[i].op]
  <2>1. q \in Seq(Op) /\ r \in Seq(Op)
    <3>1. q \in Seq(Op)
      BY <1>0 DEF nsbm
    <3>2. r \in Seq(Op)
      BY <1>0 DEF nsbm
    <3> QED BY <3>1, <3>2
  <2>2. qr = q \o r
    BY <1>1, <2>1
  <2>3. LastSet(q \o r, "PING") = Over(LastSet(q, "PING"), LastSet(r, "PING"), "PING")
    BY <2>1, LastSetConcat
  <2> QED BY <2>2, <2>3
<1>3. LastSet([i \in DOMAIN (s \o t) |-> (s \o t)[i].og], "DAEMON")
        = Over(LastSet([i \in DOMAIN s |-> s[i].og], "DAEMON"),
               LastSet([i \in DOMAIN t |-> t[i].og], "DAEMON"), "DAEMON")
  <2> DEFINE q == [i \in DOMAIN s |-> s[i].og]
             r == [i \in DOMAIN t |-> t[i].og]
             qr == [i \in DOMAIN (s \o t) |-> (s \o t)[i].og]
  <2>1. q \in Seq(Og) /\ r \in Seq(Og)
    <3>1. q \in Seq(Og)
      BY <1>0 DEF nsbm
    <3>2. r \in Seq(Og)
      BY <1>0 DEF nsbm
    <3> QED BY <3>1, <3>2
  <2>2. qr = q \o r
    BY <1>1, <2>1
  <2>3. LastSet(q \o r, "DAEMON") = Over(LastSet(q, "DAEMON"), LastSet(r, "DAEMON"), "DAEMON")
    BY <2>1, LastSetConcat
  <2> QED BY <2>2, <2>3
<1>4. LastSet([i \in DOMAIN (s \o t) |-> (s \o t)[i].code], "SUCCESS")
        = Over(LastSet([i \in DOMAIN s |-> s[i].code], "SUCCESS"),
               LastSet([i \in DOMAIN t |-> t[i].code], "SUCCESS"), "SUCCESS")
  <2> DEFINE q == [i \in DOMAIN s |-> s[i].code]
             r == [i \in DOMAIN t |-> t[i].code]
             qr == [i \in DOMAIN (s \o t) |-> (s \o t)[i].code]
  <2>1. q \in Seq(Code) /\ r \in Seq(Code)
    <3>1. q \in Seq(Code)
      BY <1>0 DEF nsbm
    <3>2. r \in Seq(Code)
      BY <1>0 DEF nsbm
    <3> QED BY <3>1, <3>2
  <2>2. qr = q \o r
    BY <1>1, <2>1
  <2>3. LastSet(q \o r, "SUCCESS") = Over(LastSet(q, "SUCCESS"), LastSet(r, "SUCCESS"), "SUCCESS")
    BY <2>1, LastSetConcat
  <2> QED BY <2>2, <2>3
<1>5. LastSet([i \in DOMAIN (s \o t) |-> (s \o t)[i].metadata.src], "")
        = Over(LastSet([i \in DOMAIN s |-> s[i].metadata.src], ""),
               LastSet([i \in DOMAIN t |-> t[i].metadata.src], ""), "")
  <2> DEFINE q == [i \in DOMAIN s |-> s[i].metadata.src]
             r == [i \in DOMAIN t |-> t[i].metadata.src]
             qr == [i \in DOMAIN (s \o t) |-> (s \o t)[i].metadata.src]
  <2>1. q \in Seq(Id) /\ r \in Seq(Id)
    <3>1. q \in Seq(Id)
      BY <1>0 DEF nsbm, Metadata
    <3>2. \A i \in DOMAIN t : t[i].metadata.src \in Id
      BY <1>0 DEF nsbm, Metadata
    <3>3. r \in Seq(Id)
      BY <3>2
    <3> QED BY <3>1, <3>3
  <2>2. qr = q \o r
    BY <1>1, <2>1
  <2>3. LastSet(q \o r, "") = Over(LastSet(q, ""), LastSet(r, ""), "")
    BY <2>1, LastSetConcat
  <2> QED BY <2>2, <2>3
<1>6. LastSet([i \in DOMAIN (s \o t) |-> (s \o t)[i].metadata.dest], "")
        = Over(LastSet([i \in DOMAIN s |-> s[i].metadata.dest], ""),
               LastSet([i \in DOMAIN t |-> t[i].metadata.dest], ""), "")
  <2> DEFINE q == [i \in DOMAIN s |-> s[i].metadata.dest]
             r == [i \in DOMAIN t |-> t[i].metadata.dest]
             qr == [i \in DOMAIN (s \o t) |-> (s \o t)[i].metadata.dest]
  <2>1. q \in Seq(Id) /\ r \in Seq(Id)
    <3>1. q \in Seq(Id)
      BY <1>0 DEF nsbm, Metadata
    <3>2. \A i \in DOMAIN t : t[i].metadata.dest \in Id
      BY <1>0 DEF nsbm, Metadata
    <3>3. r \in Seq(Id)
      BY <3>2
    <3> QED BY <3>1, <3>3
  <2>2. qr = q \o r
    BY <1>1, <2>1
  <2>3. LastSet(q \o r, "") = Over(LastSet(q, ""), LastSet(r, ""), "")
    BY <2>1, LastSetConcat
  <2> QED BY <2>2, <2>3
<1>7. LastSet([i \in DOMAIN (s \o t) |-> (s \o t)[i].body], NoBody)
        = Over(LastSet([i \in DOMAIN s |-> s[i].body], NoBody),
               LastSet([i \in DOMAIN t |-> t[i].body], NoBody), NoBody)
  <2> DEFINE q == [i \in DOMAIN s |-> s[i].body]
             r == [i \in DOMAIN t |-> t[i].body]
             qr == [i \in DOMAIN (s \o t) |-> (s \o t)[i].body]
  <2>1. q \in Seq(Body) /\ r \in Seq(Body)
    <3>1. q \in Seq(Body)
      BY <1>0 DEF nsbm
    <3>2. r \in Seq(Body)
      BY <1>0 DEF nsbm
    <3> QED BY <3>1, <3>2
  <2>2. qr = q \o r
    BY <1>1, <2>1
  <2>3. LastSet(q \o r, NoBody) = Over(LastSet(q, NoBody), LastSet(r, NoBody), NoBody)
    BY <2>1, LastSetConcat
  <2> QED BY <2>2, <2>3
<1>8. (\E i \in DOMAIN (s \o t) : (s \o t)[i].metadata.has)
        <=> (\E i \in DOMAIN s : s[i].metadata.has) \/ (\E i \in DOMAIN t : t[i].metadata.has)
  <2>1. ASSUME NEW i \in DOMAIN (s \o t), (s \o t)[i].metadata.has
        PROVE  (\E j \in DOMAIN s : s[j].metadata.has) \/ (\E j \in DOMAIN t : t[j].metadata.has)
    <3>1. CASE i \in 1 .. Len(s)
      BY <1>1, <2>1, <3>1
    <3>2. CASE i \notin 1 .. Len(s)
      <4>1. i - Len(s) \in 1 .. Len(t) /\ i = Len(s) + (i - Len(s))
        BY <1>1, <3>2
      <4>2. t[i - Len(s)].metadata.has
        BY <1>1, <2>1, <4>1
      <4> QED BY <1>1, <4>1, <4>2
    <3> QED BY <3>1, <3>2
  <2>2. ASSUME NEW j \in DOMAIN s, s[j].metadata.has
        PROVE  \E i \in DOMAIN (s \o t) : (s \o t)[i].metadata.has
    BY <1>1, <2>2
  <2>3. ASSUME NEW j \in DOMAIN t, t[j].metadata.has
        PROVE  \E i \in DOMAIN (s \o t) : (s \o t)[i].metadata.has
    <3>1. Len(s) + j \in DOMAIN (s \o t)
      BY <1>1
    <3>2. (s \o t)[Len(s) + j].metadata.has
      BY <1>1, <2>3
    <3> QED BY <3>1, <3>2
  <2> QED BY <2>1, <2>2, <2>3
<1> HIDE DEF Over
<1> QED BY <1>2, <1>3, <1>4, <1>5, <1>6, <1>7, <1>8 DEF Parse, MergeFrom
-----------------------------------------------------------------------------
(* Streams: what is left of one, and where the members of a set are in it.  *)

(* What is left of a stream after some of it was read, or was dropped. *)
Suffix(s, t) == \E n \in 0 .. Len(s) : t = SubSeq(s, n + 1, Len(s))

(* The positions of the members of C in a sequence. *)
Hits(s, C) == {j \in DOMAIN s : s[j] \in C}

Single(S) == \A a, b \in S : a = b

(* B has no more than A has, up to positions. *)
Fewer(A, B) == (A = {} => B = {}) /\ (Single(A) => Single(B))

(* A suffix has elements of the sequence, moved down. *)
LEMMA SuffixElements ==
    ASSUME NEW T, NEW s \in Seq(T), NEW n \in 0 .. Len(s)
    PROVE  LET t == SubSeq(s, n + 1, Len(s))
           IN  /\ t \in Seq(T) /\ DOMAIN t = 1 .. (Len(s) - n)
               /\ \A j \in DOMAIN t : j + n \in DOMAIN s /\ t[j] = s[j + n]
OBVIOUS

(* A stream that stays, is emptied or is read leaves a suffix. *)
LEMMA SuffixSelf ==
    ASSUME NEW T, NEW s \in Seq(T)
    PROVE  /\ Suffix(s, s) /\ Suffix(s, <<>>)
           /\ \A n \in 0 .. Len(s) : Suffix(s, SubSeq(s, n + 1, Len(s)))
<1>1. Len(s) \in Nat /\ 0 \in 0 .. Len(s) /\ Len(s) \in 0 .. Len(s)
  OBVIOUS
<1>2. SubSeq(s, 0 + 1, Len(s)) = s
  OBVIOUS
<1>3. SubSeq(s, Len(s) + 1, Len(s)) = <<>>
  BY <1>1
<1> QED BY <1>1, <1>2, <1>3 DEF Suffix

(* A suffix holds no more than the sequence. *)
LEMMA HitsSuffix ==
    ASSUME NEW T, NEW s \in Seq(T), NEW t, Suffix(s, t), NEW C
    PROVE  Fewer(Hits(s, C), Hits(t, C)) /\ t \in Seq(T)
<1>1. PICK n \in 0 .. Len(s) : t = SubSeq(s, n + 1, Len(s))
  BY DEF Suffix
<1>2. /\ t \in Seq(T) /\ DOMAIN t = 1 .. (Len(s) - n) /\ Len(s) \in Nat
      /\ \A j \in DOMAIN t : j + n \in DOMAIN s /\ t[j] = s[j + n]
  BY <1>1, SuffixElements
<1>3. \A j \in Hits(t, C) : j + n \in Hits(s, C) /\ j \in Int
  BY <1>2 DEF Hits
<1>4. n \in Int
  OBVIOUS
<1> QED BY <1>2, <1>3, <1>4 DEF Fewer, Single

(* What is read of the only hit of a stream is not in the rest. *)
LEMMA HitsRead ==
    ASSUME NEW T, NEW s \in Seq(T), NEW C, Single(Hits(s, C)),
           NEW n \in 1 .. Len(s), NEW i \in 1 .. n, s[i] \in C
    PROVE  Hits(SubSeq(s, n + 1, Len(s)), C) = {} /\ Hits(s, C) # {}
<1> DEFINE t == SubSeq(s, n + 1, Len(s))
<1>1. /\ DOMAIN t = 1 .. (Len(s) - n) /\ Len(s) \in Nat
      /\ \A j \in DOMAIN t : j + n \in DOMAIN s /\ t[j] = s[j + n]
  BY SuffixElements
<1>2. i \in Hits(s, C)
  BY DEF Hits
<1> HIDE DEF t
<1>3. ASSUME NEW j \in Hits(t, C) PROVE FALSE
  <2>1. j + n \in Hits(s, C) /\ j \in Nat /\ j > 0
    BY <1>1 DEF Hits
  <2>2. j + n = i
    BY <1>2, <2>1 DEF Single
  <2> QED BY <2>1, <2>2
<1> QED BY <1>2, <1>3 DEF t

(* Append adds a hit, at its end, if what is appended is one. *)
LEMMA HitsAppend ==
    ASSUME NEW T, NEW s \in Seq(T), NEW x \in T, NEW C
    PROVE  /\ Hits(Append(s, x), C) = Hits(s, C) \cup (IF x \in C THEN {Len(s) + 1} ELSE {})
           /\ \A j \in DOMAIN Append(s, x) : \/ j \in DOMAIN s /\ Append(s, x)[j] = s[j]
                                             \/ j = Len(s) + 1 /\ Append(s, x)[j] = x
<1>1. /\ DOMAIN Append(s, x) = 1 .. (Len(s) + 1) /\ DOMAIN s = 1 .. Len(s) /\ Len(s) \in Nat
      /\ Append(s, x)[Len(s) + 1] = x
      /\ \A j \in DOMAIN s : Append(s, x)[j] = s[j]
  OBVIOUS
<1> DEFINE t == Append(s, x)
<1> HIDE DEF t
<1>2. /\ DOMAIN t = DOMAIN s \cup {Len(s) + 1} /\ t[Len(s) + 1] = x
      /\ \A j \in DOMAIN s : t[j] = s[j]
  BY <1>1 DEF t
<1>3. Hits(t, C) = Hits(s, C) \cup (IF x \in C THEN {Len(s) + 1} ELSE {})
  BY <1>2 DEF Hits
<1> QED BY <1>2, <1>3 DEF t

(* A larger set has the sequences of a smaller one. *)
LEMMA SeqMono ==
    ASSUME NEW S, NEW T, S \subseteq T, NEW s \in Seq(S)
    PROVE  s \in Seq(T)
OBVIOUS

(* A part of a set has no more. *)
LEMMA FewerSubset ==
    ASSUME NEW A, NEW B, NEW C, Fewer(A, B), C \subseteq B
    PROVE  Fewer(A, C)
BY DEF Fewer, Single

(* Nothing is less than itself. *)
LEMMA FewerSame == \A A : Fewer(A, A)
BY DEF Fewer

(* Streams that are known hold no more of p after they were read or dropped. *)
LEMMA StreamFewer ==
    ASSUME NEW T, NEW s \in Seq(T), NEW t, Suffix(s, t), NEW C, NEW D, T \cap D \subseteq C
    PROVE  Fewer(Hits(s, C), Hits(t, D))
<1>1. Fewer(Hits(s, C), Hits(t, C)) /\ t \in Seq(T)
  BY HitsSuffix
<1>2. \A j \in DOMAIN t : t[j] \in T
  BY <1>1
<1>3. Hits(t, D) \subseteq Hits(t, C)
  BY <1>2 DEF Hits
<1> QED BY <1>1, <1>3, FewerSubset

(* A stream, a buffer or a log that gets x holds one more at most, and no  *)
(* more if x is not one.                                                   *)
LEMMA AppendFewer ==
    ASSUME NEW T, NEW s \in Seq(T), NEW x, NEW C, NEW D, T \cap D \subseteq C
    PROVE  /\ x \notin D => Fewer(Hits(s, C), Hits(Append(s, x), D))
           /\ Hits(s, C) = {} => Single(Hits(Append(s, x), D))
<1>1. s \in Seq(T \cup {x}) /\ x \in T \cup {x}
  BY SeqMono
<1>2. Hits(Append(s, x), D) = Hits(s, D) \cup (IF x \in D THEN {Len(s) + 1} ELSE {})
  BY <1>1, HitsAppend
<1>3. \A j \in DOMAIN s : s[j] \in T
  OBVIOUS
<1>4. Hits(s, D) \subseteq Hits(s, C)
  BY <1>3 DEF Hits
<1> QED BY <1>2, <1>4 DEF Fewer, Single
=============================================================================
