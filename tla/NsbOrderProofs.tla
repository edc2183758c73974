--------------------------- MODULE NsbOrderProofs ---------------------------
(***************************************************************************)
(* How payloads move in PULL mode: FetchOrder and ReceiveOrder, whatever   *)
(* is merged, given up or closed; LossOnlyByMerging, while the daemon      *)
(* lives and the clients stay connected; and that it then lives.           *)
(*                                                                         *)
(* Order.                                                                  *)
(* A payload goes to the caller of fetch() by way of the sender's SEND     *)
(* channel, tx_buffer and the caller's RECV channel, and to the caller of  *)
(* receive() in the same way from the simulator client that posted it,     *)
(* by way of rx_buffer.  A Path is where a payload is on such a way: the   *)
(* positions in the log of the caller (1), on its RECV channel (2), in the *)
(* buffer (3) and on the SEND channel (4).  Ahead says that one payload is *)
(* before another on it.  Every step is a Flow: sequences lose a part, and *)
(* what it stood for may get to the end of the sequence before it.  A Flow *)
(* keeps Ahead, since a channel loses its beginning, and a buffer the      *)
(* first entry that matches.                                               *)
(*                                                                         *)
(* Loss.  A step that takes what stands for a payload from a channel, a    *)
(* buffer or the network puts what stands for it in the next place:        *)
(* nothing under way lacks a field its receiver insists on, none of it is  *)
(* on a channel that is dropped, and no answer misses its client.          *)
(*                                                                         *)
(* Survival.  While no client is destroyed, only a client that waits for   *)
(* its INIT closes: it is owed one answer at most, so the daemon never     *)
(* writes to a connection that was reset.                                  *)
(***************************************************************************)
EXTENDS NsbBridgeProofs

-----------------------------------------------------------------------------
(* Positions.                                                              *)

Segment == 1 .. 4

(* The payload at HR is before the one at HP, or they are one and in one place. *)
Ahead(HP, HR) ==
    \A x, y \in Segment : \A i \in HP[x], j \in HR[y] : y < x \/ (y = x /\ j <= i)

(* G is what is left of H when the n positions from k on are taken away. *)
Thin(H, G, k, n) == \A g \in G : IF g < k THEN g \in H ELSE g + n \in H

(* From every segment y the n[y] positions from k[y] on are taken away, and  *)
(* L[y], if it is not 0, is added at its end.  What is added to segment x    *)
(* was taken away from the one behind it.                                    *)
Flow(H, G, k, n, L, x) ==
    \A y \in Segment :
        /\ Thin(H[y], G[y] \ {L[y]}, k[y], n[y])
        /\ \A i \in H[y] : L[y] = 0 \/ i < L[y]
        /\ L[y] \in G[y] => /\ y = x /\ y + 1 \in Segment
                            /\ \E i \in H[y + 1] : k[y + 1] <= i /\ i < k[y + 1] + n[y + 1]

IsPath(H) == \A y \in Segment : H[y] \subseteq Nat \ {0}

(* A flow keeps one payload before another if nothing that stays behind in  *)
(* its segment was before what is taken.                                    *)
LEMMA FlowAhead ==
    ASSUME NEW HP, NEW HR, NEW GP, NEW GR, IsPath(HP), IsPath(HR), IsPath(GP), IsPath(GR),
           NEW k \in [Segment -> Nat], NEW n \in [Segment -> Nat], NEW L \in [Segment -> Nat], NEW x,
           Flow(HP, GP, k, n, L, x), Flow(HR, GR, k, n, L, x),
           \A y \in Segment : y + 1 \in Segment /\ L[y] \in GP[y] => \A j \in HR[y + 1] : ~(j < k[y + 1]),
           Ahead(HP, HR)
    PROVE  Ahead(GP, GR)
<1> SUFFICES ASSUME NEW u \in Segment, NEW v \in Segment, NEW i \in GP[u], NEW j \in GR[v]
             PROVE  v < u \/ (v = u /\ j <= i)
  BY DEF Ahead
<1>0. /\ i \in Nat /\ j \in Nat /\ i > 0 /\ j > 0 /\ u \in Nat /\ v \in Nat
      /\ \A y \in Segment : k[y] \in Nat /\ n[y] \in Nat /\ L[y] \in Nat /\ y \in Nat
      /\ \A y \in Segment : \A a \in HP[y] : a \in Nat
      /\ \A y \in Segment : \A a \in HR[y] : a \in Nat
  BY DEF IsPath, Segment
<1>1. CASE i # L[u] /\ j # L[v]
  <2>1. PICK a \in HP[u] : a = IF i < k[u] THEN i ELSE i + n[u]
    BY <1>1 DEF Flow, Thin
  <2>2. PICK b \in HR[v] : b = IF j < k[v] THEN j ELSE j + n[v]
    BY <1>1 DEF Flow, Thin
  <2>3. v < u \/ (v = u /\ b <= a)
    BY DEF Ahead
  <2>4. v = u /\ b <= a => j <= i
    BY <1>0, <2>1, <2>2
  <2> QED BY <2>3, <2>4
<1>2. CASE i = L[u] /\ j # L[v]
  <2>1. u + 1 \in Segment
    BY <1>2 DEF Flow
  <2>2. PICK a \in HP[u + 1] : k[u + 1] <= a /\ a < k[u + 1] + n[u + 1]
    BY <1>2 DEF Flow
  <2>3. PICK b \in HR[v] : b = IF j < k[v] THEN j ELSE j + n[v]
    BY <1>2 DEF Flow, Thin
  <2>4. v < u + 1 \/ (v = u + 1 /\ b <= a)
    BY <2>1 DEF Ahead
  <2>5. CASE v = u + 1 /\ b <= a
    <3>1. ~(b < k[v])
      BY <1>2, <2>1, <2>5
    <3> QED BY <1>0, <2>1, <2>2, <2>3, <2>5, <3>1
  <2>6. CASE v = u
    <3>0. L[u] # 0 /\ b \in HR[u]
      BY <1>0, <1>2, <2>6
    <3>1. b < L[u]
      BY <3>0 DEF Flow
    <3> QED BY <1>0, <1>2, <2>3, <2>6, <3>1
  <2> QED BY <1>0, <2>4, <2>5, <2>6
<1>3. CASE i # L[u] /\ j = L[v]
  <2>1. v + 1 \in Segment
    BY <1>3 DEF Flow
  <2>2. PICK b \in HR[v + 1] : TRUE
    BY <1>3 DEF Flow
  <2>3. PICK a \in HP[u] : TRUE
    BY <1>3 DEF Flow, Thin
  <2>4. v + 1 < u \/ v + 1 = u
    BY <2>1 DEF Ahead
  <2> QED BY <1>0, <2>4
<1>4. CASE i = L[u] /\ j = L[v]
  <2>1. u = x /\ v = x
    BY <1>4 DEF Flow
  <2> QED BY <1>0, <1>4, <2>1
<1> QED BY <1>1, <1>2, <1>3, <1>4

-----------------------------------------------------------------------------
(* Sequences.                                                              *)

(* t is what is left of s when the n elements from k on are taken away, and *)
(* one element at L.                                                        *)
Kin(s, t, k, n, L) ==
    \A j \in DOMAIN t :
        \/ j = L
        \/ IF j < k THEN j \in DOMAIN s /\ t[j] = s[j] ELSE j + n \in DOMAIN s /\ t[j] = s[j + n]

(* So is a sequence that is read, appended to or erased from. *)
LEMMA KinKinds ==
    ASSUME NEW T, NEW s \in Seq(T)
    PROVE  /\ Kin(s, s, 1, 0, 0)
           /\ \A n \in 0 .. Len(s) : Kin(s, Unread(s, n), 1, n, 0)
           /\ \A t : Suffix(s, t) => \E n \in Nat : Kin(s, t, 1, n, 0)
           /\ \A x \in T : Kin(s, Append(s, x), 1, 0, Len(s) + 1)
           /\ \A i \in DOMAIN s : Kin(s, RemoveAt(s, i), i, 1, 0)
<1>0. Len(s) \in Nat /\ DOMAIN s = 1 .. Len(s)
  OBVIOUS
<1>1. Kin(s, s, 1, 0, 0)
  BY <1>0 DEF Kin
<1>2. ASSUME NEW n \in 0 .. Len(s) PROVE Kin(s, SubSeq(s, n + 1, Len(s)), 1, n, 0)
  <2>1. PICK t : t = SubSeq(s, n + 1, Len(s))
    OBVIOUS
  <2>2. /\ DOMAIN t = 1 .. (Len(s) - n)
        /\ \A j \in DOMAIN t : j + n \in DOMAIN s /\ t[j] = s[j + n]
    BY <2>1, SuffixElements
  <2>3. \A j \in DOMAIN t : ~(j < 1)
    BY <1>0, <2>2
  <2>4. Kin(s, t, 1, n, 0)
    BY <2>2, <2>3 DEF Kin
  <2> QED BY <2>1, <2>4
<1>3. ASSUME NEW t, Suffix(s, t) PROVE \E n \in Nat : Kin(s, t, 1, n, 0)
  <2>1. PICK n \in 0 .. Len(s) : t = SubSeq(s, n + 1, Len(s))
    BY <1>3 DEF Suffix
  <2>2. n \in Nat
    BY <1>0
  <2> QED BY <1>2, <2>1, <2>2
<1>4. ASSUME NEW x \in T PROVE Kin(s, Append(s, x), 1, 0, Len(s) + 1)
  <2>1. PICK t : t = Append(s, x)
    OBVIOUS
  <2>2. \A j \in DOMAIN t : (j \in DOMAIN s /\ t[j] = s[j]) \/ j = Len(s) + 1
    BY <2>1, HitsAppend
  <2>3. \A j \in DOMAIN s : ~(j < 1) /\ j + 0 = j
    BY <1>0
  <2>4. Kin(s, t, 1, 0, Len(s) + 1)
    BY <1>0, <2>2, <2>3 DEF Kin
  <2> QED BY <2>1, <2>4
<1>5. ASSUME NEW i \in DOMAIN s PROVE Kin(s, RemoveAt(s, i), i, 1, 0)
  <2>1. PICK t : t = RemoveAt(s, i)
    OBVIOUS
  <2>2. /\ DOMAIN t = 1 .. (Len(s) - 1)
        /\ \A j \in 1 .. (Len(s) - 1) : t[j] = IF j < i THEN s[j] ELSE s[j + 1]
    BY <2>1, RemoveAtElements
  <2>3. i \in Nat
    BY <1>0
  <2>4. \A j \in 1 .. (Len(s) - 1) : j \in 1 .. Len(s) /\ j + 1 \in 1 .. Len(s)
    BY <1>0
  <2>5. Kin(s, t, i, 1, 0)
    BY <1>0, <2>2, <2>3, <2>4 DEF Kin
  <2> QED BY <2>1, <2>5
<1> QED BY <1>1, <1>2, <1>3, <1>4, <1>5 DEF Unread

(* What stands for a payload is thinned out with its sequence. *)
LEMMA HitsThin ==
    ASSUME NEW T, NEW s \in Seq(T), NEW t, NEW k \in Nat, NEW n \in Nat, NEW L, Kin(s, t, k, n, L),
           NEW C, NEW D, T \cap D \subseteq C
    PROVE  Thin(Hits(s, C), Hits(t, D) \ {L}, k, n)
<1> SUFFICES ASSUME NEW g \in Hits(t, D), g # L
             PROVE  IF g < k THEN g \in Hits(s, C) ELSE g + n \in Hits(s, C)
  BY DEF Thin
<1>1. g \in DOMAIN t /\ t[g] \in D
  BY DEF Hits
<1>2. IF g < k THEN g \in DOMAIN s /\ t[g] = s[g] ELSE g + n \in DOMAIN s /\ t[g] = s[g + n]
  BY <1>1 DEF Kin
<1>3. \A j \in DOMAIN s : s[j] \in T
  OBVIOUS
<1> QED BY <1>1, <1>2, <1>3 DEF Hits

(* Numbers for the four segments. *)
Quad(a, b, c, d) == [y \in Segment |-> IF y = 1 THEN a ELSE IF y = 2 THEN b ELSE IF y = 3 THEN c ELSE d]

-----------------------------------------------------------------------------
(* Lines: the four sequences a payload goes through.                       *)

(* Where p is in them, now and after a step of the database. *)
Line(s1, s2, s3, s4, p) ==
    <<Hits(s1, Mail(p)), Hits(s2, Bearers(p)), Hits(s3, Entries(p)), Hits(s4, Bearers(p))>>
LineAfter(t1, t2, t3, t4, p) ==
    <<Hits(t1, Mail(p)), Hits(t2, Bearers(p)'), Hits(t3, Entries(p)'), Hits(t4, Bearers(p)')>>

KnownLine(s1, s2, s3, s4) ==
    s1 \in Seq(MessageEntry) /\ s2 \in Seq(KnownMessage) /\ s3 \in Seq(KnownEntry) /\ s4 \in Seq(KnownMessage)

(* Payloads are only stored under new keys, or taken out. *)
DatabaseGrows ==
    DOMAIN db \subseteq DOMAIN db' /\ \A i \in DOMAIN db : db'[i] = db[i] \/ db'[i] = NoValue

(* The segments of a line. *)
LEMMA LineParts ==
    ASSUME NEW a, NEW b, NEW c, NEW d
    PROVE  LET H == <<a, b, c, d>> IN H[1] = a /\ H[2] = b /\ H[3] = c /\ H[4] = d
OBVIOUS

(* What holds of every segment. *)
LEMMA EverySegment ==
    ASSUME NEW y \in Segment
    PROVE  y = 1 \/ y = 2 \/ y = 3 \/ y = 4
BY DEF Segment

(* Positions start at 1. *)
LEMMA LineIsPath ==
    ASSUME NEW S, NEW T, NEW s1 \in Seq(S), NEW s2 \in Seq(T), NEW s3 \in Seq(S), NEW s4 \in Seq(T),
           NEW A, NEW B, NEW C, NEW D
    PROVE  IsPath(<<Hits(s1, A), Hits(s2, B), Hits(s3, C), Hits(s4, D)>>)
<1>1. \A X : Hits(s1, X) \subseteq Nat \ {0} /\ Hits(s3, X) \subseteq Nat \ {0}
  BY DEF Hits
<1>2. \A X : Hits(s2, X) \subseteq Nat \ {0} /\ Hits(s4, X) \subseteq Nat \ {0}
  BY DEF Hits
<1> QED BY <1>1, <1>2, EverySegment DEF IsPath

(* A step of the sequences is a flow of p if what it adds to them does not  *)
(* stand for p, or comes from the next one.                                 *)
LEMMA LineFlow ==
    ASSUME NEW p \in Payload, DatabaseGrows,
           NEW s1, NEW s2, NEW s3, NEW s4, KnownLine(s1, s2, s3, s4), NEW t1, NEW t2, NEW t3, NEW t4,
           NEW k \in [Segment -> Nat], NEW n \in [Segment -> Nat], NEW L \in [Segment -> Nat], NEW x,
           Kin(s1, t1, k[1], n[1], L[1]), Kin(s2, t2, k[2], n[2], L[2]),
           Kin(s3, t3, k[3], n[3], L[3]), Kin(s4, t4, k[4], n[4], L[4]),
           L[1] \in {0, Len(s1) + 1}, L[2] \in {0, Len(s2) + 1},
           L[3] \in {0, Len(s3) + 1}, L[4] \in {0, Len(s4) + 1},
           NEW H, H = Line(s1, s2, s3, s4, p), NEW G, G = LineAfter(t1, t2, t3, t4, p),
           \A y \in Segment : L[y] \in G[y] =>
                /\ y = x /\ y + 1 \in Segment
                /\ \E i \in H[y + 1] : k[y + 1] <= i /\ i < k[y + 1] + n[y + 1]
    PROVE  Flow(H, G, k, n, L, x)
<1>0. /\ \A y \in Segment : k[y] \in Nat /\ n[y] \in Nat
      /\ 1 \in Segment /\ 2 \in Segment /\ 3 \in Segment /\ 4 \in Segment
  BY DEF Segment
<1>1. /\ s1 \in Seq(MessageEntry) /\ s2 \in Seq(KnownMessage)
      /\ s3 \in Seq(KnownEntry) /\ s4 \in Seq(KnownMessage)
  BY DEF KnownLine
<1>2. KnownMessage \cap Bearers(p)' \subseteq Bearers(p) /\ KnownEntry \cap Entries(p)' \subseteq Entries(p)
  BY NamesShrink DEF DatabaseGrows
<1>3. /\ H[1] = Hits(s1, Mail(p)) /\ H[2] = Hits(s2, Bearers(p))
      /\ H[3] = Hits(s3, Entries(p)) /\ H[4] = Hits(s4, Bearers(p))
  BY DEF Line
<1>4. /\ G[1] = Hits(t1, Mail(p)) /\ G[2] = Hits(t2, Bearers(p)')
      /\ G[3] = Hits(t3, Entries(p)') /\ G[4] = Hits(t4, Bearers(p)')
  BY DEF LineAfter
<1>5. Thin(H[1], G[1] \ {L[1]}, k[1], n[1])
  <2>1. Thin(Hits(s1, Mail(p)), Hits(t1, Mail(p)) \ {L[1]}, k[1], n[1])
    BY <1>0, <1>1, HitsThin
  <2> QED BY <1>3, <1>4, <2>1
<1>6. Thin(H[2], G[2] \ {L[2]}, k[2], n[2])
  <2>1. Thin(Hits(s2, Bearers(p)), Hits(t2, Bearers(p)') \ {L[2]}, k[2], n[2])
    BY <1>0, <1>1, <1>2, HitsThin
  <2> QED BY <1>3, <1>4, <2>1
<1>7. Thin(H[3], G[3] \ {L[3]}, k[3], n[3])
  <2>1. Thin(Hits(s3, Entries(p)), Hits(t3, Entries(p)') \ {L[3]}, k[3], n[3])
    BY <1>0, <1>1, <1>2, HitsThin
  <2> QED BY <1>3, <1>4, <2>1
<1>8. Thin(H[4], G[4] \ {L[4]}, k[4], n[4])
  <2>1. Thin(Hits(s4, Bearers(p)), Hits(t4, Bearers(p)') \ {L[4]}, k[4], n[4])
    BY <1>0, <1>1, <1>2, HitsThin
  <2> QED BY <1>3, <1>4, <2>1
<1>9. \A y \in Segment : \A i \in H[y] : L[y] = 0 \/ i < L[y]
  <2>1. ASSUME NEW T, NEW s \in Seq(T), NEW C PROVE \A i \in Hits(s, C) : i < Len(s) + 1
    BY DEF Hits
  <2>2. /\ \A i \in H[1] : i < Len(s1) + 1
        /\ \A i \in H[2] : i < Len(s2) + 1
        /\ \A i \in H[3] : i < Len(s3) + 1
        /\ \A i \in H[4] : i < Len(s4) + 1
    BY <1>1, <1>3, <2>1
  <2>3. /\ \A i \in H[1] : L[1] = 0 \/ i < L[1]
        /\ \A i \in H[2] : L[2] = 0 \/ i < L[2]
        /\ \A i \in H[3] : L[3] = 0 \/ i < L[3]
        /\ \A i \in H[4] : L[4] = 0 \/ i < L[4]
    BY <2>2
  <2> QED BY <2>3, EverySegment
<1> HIDE DEF Thin
<1> QED BY <1>5, <1>6, <1>7, <1>8, <1>9, EverySegment DEF Flow

(* A sequence loses a part, or gets something that is not in C. *)
Calm(s, t, T, C) ==
    \/ Suffix(s, t)
    \/ \E x \in T : x \notin C /\ t = Append(s, x)
    \/ \E i \in DOMAIN s : t = RemoveAt(s, i)

(* In numbers. *)
LEMMA CalmKin ==
    ASSUME NEW T, NEW s \in Seq(T), NEW t, NEW C, Calm(s, t, T, C)
    PROVE  /\ t \in Seq(T)
           /\ \E k, n, L \in Nat : Kin(s, t, k, n, L) /\ L \in {0, Len(s) + 1} /\ L \notin Hits(t, C)
<1>0. Len(s) \in Nat /\ DOMAIN s = 1 .. Len(s)
  OBVIOUS
<1>1. CASE Suffix(s, t)
  <2>1. PICK n \in Nat : Kin(s, t, 1, n, 0)
    BY <1>1, KinKinds
  <2>2. t \in Seq(T)
    BY <1>1, HitsSuffix
  <2>3. 0 \notin Hits(t, C)
    BY <2>2 DEF Hits
  <2> QED BY <2>1, <2>2, <2>3
<1>2. CASE \E x \in T : x \notin C /\ t = Append(s, x)
  <2>1. PICK x \in T : x \notin C /\ t = Append(s, x)
    BY <1>2
  <2>2. Kin(s, t, 1, 0, Len(s) + 1) /\ t \in Seq(T) /\ Len(s) + 1 \in Nat
    BY <1>0, <2>1, KinKinds
  <2>3. t[Len(s) + 1] = x
    BY <2>1
  <2>4. Len(s) + 1 \notin Hits(t, C)
    BY <2>1, <2>3 DEF Hits
  <2> QED BY <2>2, <2>4
<1>3. CASE \E i \in DOMAIN s : t = RemoveAt(s, i)
  <2>1. PICK i \in DOMAIN s : t = RemoveAt(s, i)
    BY <1>3
  <2>2. Kin(s, t, i, 1, 0) /\ i \in Nat
    BY <1>0, <2>1, KinKinds
  <2>3. t \in Seq(T)
    BY <2>1, RemoveAtType
  <2>4. 0 \notin Hits(t, C)
    BY <2>3 DEF Hits
  <2> QED BY <2>2, <2>3, <2>4
<1> QED BY <1>1, <1>2, <1>3 DEF Calm

(* A known sequence is one of messages, or of entries. *)
LEMMA KnownSeq ==
    ASSUME NEW s1, NEW s2, NEW s3, NEW s4, KnownLine(s1, s2, s3, s4)
    PROVE  s1 \in Seq(MessageEntry) /\ s2 \in Seq(nsbm) /\ s3 \in Seq(MessageEntry) /\ s4 \in Seq(nsbm)
BY SeqMono DEF KnownLine, KnownMessage, KnownEntry

(* Nothing that is added stands for p or r. *)
LEMMA LineStill ==
    ASSUME NEW p \in Payload, NEW r \in Payload, DatabaseGrows,
           NEW s1, NEW s2, NEW s3, NEW s4, KnownLine(s1, s2, s3, s4), NEW t1, NEW t2, NEW t3, NEW t4,
           Calm(s1, t1, MessageEntry, Mail(p) \cup Mail(r)),
           Calm(s2, t2, nsbm, Bearers(p)' \cup Bearers(r)'),
           Calm(s3, t3, MessageEntry, Entries(p)' \cup Entries(r)'),
           Calm(s4, t4, nsbm, Bearers(p)' \cup Bearers(r)'),
           Ahead(Line(s1, s2, s3, s4, p), Line(s1, s2, s3, s4, r))
    PROVE  Ahead(LineAfter(t1, t2, t3, t4, p), LineAfter(t1, t2, t3, t4, r))
<1>0. s1 \in Seq(MessageEntry) /\ s2 \in Seq(nsbm) /\ s3 \in Seq(MessageEntry) /\ s4 \in Seq(nsbm)
  BY KnownSeq
<1>1. t1 \in Seq(MessageEntry) /\ t2 \in Seq(nsbm) /\ t3 \in Seq(MessageEntry) /\ t4 \in Seq(nsbm)
  BY <1>0, CalmKin
<1>2. PICK k1, n1, L1 \in Nat : /\ Kin(s1, t1, k1, n1, L1) /\ L1 \in {0, Len(s1) + 1}
                                /\ L1 \notin Hits(t1, Mail(p) \cup Mail(r))
  BY <1>0, CalmKin
<1>3. PICK k2, n2, L2 \in Nat : /\ Kin(s2, t2, k2, n2, L2) /\ L2 \in {0, Len(s2) + 1}
                                /\ L2 \notin Hits(t2, Bearers(p)' \cup Bearers(r)')
  BY <1>0, CalmKin
<1>4. PICK k3, n3, L3 \in Nat : /\ Kin(s3, t3, k3, n3, L3) /\ L3 \in {0, Len(s3) + 1}
                                /\ L3 \notin Hits(t3, Entries(p)' \cup Entries(r)')
  BY <1>0, CalmKin
<1>5. PICK k4, n4, L4 \in Nat : /\ Kin(s4, t4, k4, n4, L4) /\ L4 \in {0, Len(s4) + 1}
                                /\ L4 \notin Hits(t4, Bearers(p)' \cup Bearers(r)')
  BY <1>0, CalmKin
<1>6. PICK k \in [Segment -> Nat] : k[1] = k1 /\ k[2] = k2 /\ k[3] = k3 /\ k[4] = k4
  <2>1. PICK f : f = Quad(k1, k2, k3, k4)
    OBVIOUS
  <2>2. f \in [Segment -> Nat] /\ f[1] = k1 /\ f[2] = k2 /\ f[3] = k3 /\ f[4] = k4
    BY <2>1 DEF Quad, Segment
  <2> QED BY <2>2
<1>7. PICK n \in [Segment -> Nat] : n[1] = n1 /\ n[2] = n2 /\ n[3] = n3 /\ n[4] = n4
  <2>1. PICK f : f = Quad(n1, n2, n3, n4)
    OBVIOUS
  <2>2. f \in [Segment -> Nat] /\ f[1] = n1 /\ f[2] = n2 /\ f[3] = n3 /\ f[4] = n4
    BY <2>1 DEF Quad, Segment
  <2> QED BY <2>2
<1>8. PICK L \in [Segment -> Nat] : L[1] = L1 /\ L[2] = L2 /\ L[3] = L3 /\ L[4] = L4
  <2>1. PICK f : f = Quad(L1, L2, L3, L4)
    OBVIOUS
  <2>2. f \in [Segment -> Nat] /\ f[1] = L1 /\ f[2] = L2 /\ f[3] = L3 /\ f[4] = L4
    BY <2>1 DEF Quad, Segment
  <2> QED BY <2>2
<1>9. ASSUME NEW q \in Payload, q = p \/ q = r
      PROVE  /\ Flow(Line(s1, s2, s3, s4, q), LineAfter(t1, t2, t3, t4, q), k, n, L, 0)
             /\ \A y \in Segment : L[y] \notin LineAfter(t1, t2, t3, t4, q)[y]
  <2> DEFINE G == LineAfter(t1, t2, t3, t4, q)
  <2>1. /\ G[1] = Hits(t1, Mail(q)) /\ G[2] = Hits(t2, Bearers(q)')
        /\ G[3] = Hits(t3, Entries(q)') /\ G[4] = Hits(t4, Bearers(q)')
    BY DEF LineAfter
  <2> HIDE DEF G
  <2>2. L[1] \notin G[1] /\ L[3] \notin G[3]
    BY <1>2, <1>4, <1>8, <1>9, <2>1 DEF Hits
  <2>3. L[2] \notin G[2] /\ L[4] \notin G[4]
    BY <1>3, <1>5, <1>8, <1>9, <2>1 DEF Hits
  <2>4. \A y \in Segment : L[y] \notin G[y]
    BY <2>2, <2>3, EverySegment
  <2>5. Flow(Line(s1, s2, s3, s4, q), G, k, n, L, 0)
    BY <1>2, <1>3, <1>4, <1>5, <1>6, <1>7, <1>8, <2>4, LineFlow DEF G
  <2> QED BY <2>4, <2>5 DEF G
<1>10. ASSUME NEW q
       PROVE  IsPath(Line(s1, s2, s3, s4, q)) /\ IsPath(LineAfter(t1, t2, t3, t4, q))
  BY <1>0, <1>1, LineIsPath DEF Line, LineAfter
<1> QED BY <1>9, <1>10, FlowAhead

(* The daemon reads a SEND channel and buffers what it makes of it. *)
LEMMA LineBuffered ==
    ASSUME NEW p \in Payload, NEW r \in Payload, db' = db,
           NEW s1, NEW s2, NEW s3, NEW s4, KnownLine(s1, s2, s3, s4),
           NEW n \in 1 .. Len(s4), NEW m \in nsbm, m = Parse(Read(s4, n)),
           NEW t3, t3 = Append(s3, Entry(UseDB, m)), NEW t4, t4 = Unread(s4, n),
           Ahead(Line(s1, s2, s3, s4, p), Line(s1, s2, s3, s4, r))
    PROVE  Ahead(LineAfter(s1, s2, t3, t4, p), LineAfter(s1, s2, t3, t4, r))
<1>0. /\ s1 \in Seq(MessageEntry) /\ s2 \in Seq(nsbm) /\ s3 \in Seq(MessageEntry) /\ s4 \in Seq(nsbm)
      /\ DatabaseGrows
  BY KnownSeq DEF DatabaseGrows
<1>1. n \in Nat /\ n \in 0 .. Len(s4) /\ Len(s3) \in Nat
  BY <1>0
<1>2. Entry(UseDB, m) \in MessageEntry
  BY MessageTypes, ConfigAssumption
<1>3. t3 \in Seq(MessageEntry) /\ t4 \in Seq(nsbm)
  <2>1. Suffix(s4, t4)
    BY <1>0, <1>1, SuffixFacts
  <2>2. t4 \in Seq(nsbm)
    BY <1>0, <2>1, HitsSuffix
  <2>3. t3 \in Seq(MessageEntry)
    BY <1>0, <1>2
  <2> QED BY <2>2, <2>3
<1>4. /\ Kin(s1, s1, 1, 0, 0) /\ Kin(s2, s2, 1, 0, 0)
      /\ Kin(s3, t3, 1, 0, Len(s3) + 1) /\ Kin(s4, t4, 1, n, 0)
  <2>1. Kin(s1, s1, 1, 0, 0) /\ Kin(s3, t3, 1, 0, Len(s3) + 1)
    BY <1>0, <1>2, KinKinds
  <2>2. Kin(s2, s2, 1, 0, 0) /\ Kin(s4, t4, 1, n, 0)
    BY <1>0, <1>1, KinKinds
  <2> QED BY <2>1, <2>2
<1>5. PICK k : k = Quad(1, 1, 1, 1)
  OBVIOUS
<1>6. PICK d : d = Quad(0, 0, 0, n)
  OBVIOUS
<1>7. PICK L : L = Quad(0, 0, Len(s3) + 1, 0)
  OBVIOUS
<1>8. k \in [Segment -> Nat] /\ \A y \in Segment : k[y] = 1
  BY <1>5 DEF Quad, Segment
<1>9. d \in [Segment -> Nat] /\ d[1] = 0 /\ d[2] = 0 /\ d[3] = 0 /\ d[4] = n
  BY <1>1, <1>6 DEF Quad, Segment
<1>10. L \in [Segment -> Nat] /\ L[1] = 0 /\ L[2] = 0 /\ L[3] = Len(s3) + 1 /\ L[4] = 0
  BY <1>1, <1>7 DEF Quad, Segment
<1>11. ASSUME NEW q \in Payload
       PROVE  Flow(Line(s1, s2, s3, s4, q), LineAfter(s1, s2, t3, t4, q), k, d, L, 3)
  <2> DEFINE G == LineAfter(s1, s2, t3, t4, q)
             H == Line(s1, s2, s3, s4, q)
  <2>1. /\ G[1] = Hits(s1, Mail(q)) /\ G[2] = Hits(s2, Bearers(q)')
        /\ G[3] = Hits(t3, Entries(q)') /\ G[4] = Hits(t4, Bearers(q)')
    BY DEF LineAfter
  <2>2. H[4] = Hits(s4, Bearers(q))
    BY DEF Line
  <2> HIDE DEF G, H
  <2>3. L[1] \notin G[1] /\ L[2] \notin G[2] /\ L[4] \notin G[4]
    <3>1. 0 \notin DOMAIN s1 /\ 0 \notin DOMAIN s2 /\ 0 \notin DOMAIN t4
      BY <1>0, <1>3
    <3> QED BY <1>10, <2>1, <3>1 DEF Hits
  <2>4. ASSUME L[3] \in G[3] PROVE \E i \in H[4] : 1 <= i /\ i < 1 + n
    <3>1. t3[Len(s3) + 1] = Entry(UseDB, m)
      BY <1>0
    <3>2. Entry(UseDB, m) \in Entries(q)
      BY <1>10, <2>1, <2>4, <3>1, SameNames DEF Hits
    <3>3. m \in Bearers(q)
      BY <3>2, SamePayload
    <3>4. PICK i \in 1 .. n : s4[i] \in nsbm /\ m.body = s4[i].body
      BY <1>0, ParseBody
    <3>5. s4[i] \in Bearers(q)
      BY <3>3, <3>4 DEF Bearers, Carries
    <3>6. i \in DOMAIN s4 /\ 1 <= i /\ i < 1 + n
      BY <1>0, <1>1
    <3> QED BY <2>2, <3>5, <3>6 DEF Hits
  <2>5. \A y \in Segment : L[y] \in G[y] =>
                /\ y = 3 /\ y + 1 \in Segment
                /\ \E i \in H[y + 1] : k[y + 1] <= i /\ i < k[y + 1] + d[y + 1]
    <3>1. 3 + 1 = 4 /\ 4 \in Segment
      BY DEF Segment
    <3> QED BY <1>8, <1>9, <2>3, <2>4, <3>1, EverySegment
  <2>6. 1 \in Segment /\ 2 \in Segment /\ 3 \in Segment /\ 4 \in Segment
    BY DEF Segment
  <2>7. k[1] = 1 /\ k[2] = 1 /\ k[3] = 1 /\ k[4] = 1
    BY <1>8, <2>6
  <2>8. /\ Kin(s1, s1, k[1], d[1], L[1]) /\ Kin(s2, s2, k[2], d[2], L[2])
        /\ Kin(s3, t3, k[3], d[3], L[3]) /\ Kin(s4, t4, k[4], d[4], L[4])
    BY <1>4, <1>9, <1>10, <2>7
  <2>9. H = Line(s1, s2, s3, s4, q) /\ G = LineAfter(s1, s2, t3, t4, q)
    BY DEF G, H
  <2>10. Flow(H, G, k, d, L, 3)
    BY <1>0, <1>8, <1>9, <1>10, <2>5, <2>8, <2>9, LineFlow
  <2> QED BY <2>9, <2>10
<1>12. ASSUME NEW q
       PROVE  IsPath(Line(s1, s2, s3, s4, q)) /\ IsPath(LineAfter(s1, s2, t3, t4, q))
  BY <1>0, <1>3, LineIsPath DEF Line, LineAfter
<1>13. \A y \in Segment : y + 1 \in Segment => \A j \in Line(s1, s2, s3, s4, r)[y + 1] : ~(j < k[y + 1])
  BY <1>8, <1>12 DEF IsPath
<1> QED BY <1>8, <1>9, <1>10, <1>11, <1>12, <1>13, FlowAhead

(* The daemon erases an entry and answers with it. *)
LEMMA LineAnswered ==
    ASSUME NEW p \in Payload, NEW r \in Payload, db' = db,
           NEW s1, NEW s2, NEW s3, NEW s4, KnownLine(s1, s2, s3, s4),
           NEW i \in DOMAIN s3, NEW op \in {"FETCH", "RECEIVE"},
           NEW t2, t2 = Append(s2, EntryReply(op, s3[i])), NEW t3, t3 = RemoveAt(s3, i),
           s3[i] \in Entries(p) => \A j \in 1 .. (i - 1) : s3[j] \notin Entries(r),
           Ahead(Line(s1, s2, s3, s4, p), Line(s1, s2, s3, s4, r))
    PROVE  Ahead(LineAfter(s1, t2, t3, s4, p), LineAfter(s1, t2, t3, s4, r))
<1>0. /\ s1 \in Seq(MessageEntry) /\ s2 \in Seq(nsbm) /\ s3 \in Seq(MessageEntry) /\ s4 \in Seq(nsbm)
      /\ DatabaseGrows
  BY KnownSeq DEF DatabaseGrows
<1>1. i \in Nat /\ Len(s2) \in Nat /\ s3[i] \in MessageEntry
  BY <1>0
<1>2. EntryReply(op, s3[i]) \in nsbm
  BY <1>1, EntryReplyType DEF Op
<1>3. t2 \in Seq(nsbm) /\ t3 \in Seq(MessageEntry)
  <2>1. t2 \in Seq(nsbm)
    BY <1>0, <1>2
  <2>2. t3 \in Seq(MessageEntry)
    BY <1>0, RemoveAtType
  <2> QED BY <2>1, <2>2
<1>4. /\ Kin(s1, s1, 1, 0, 0) /\ Kin(s2, t2, 1, 0, Len(s2) + 1)
      /\ Kin(s3, t3, i, 1, 0) /\ Kin(s4, s4, 1, 0, 0)
  <2>1. Kin(s1, s1, 1, 0, 0) /\ Kin(s3, t3, i, 1, 0)
    BY <1>0, KinKinds
  <2>2. Kin(s4, s4, 1, 0, 0) /\ Kin(s2, t2, 1, 0, Len(s2) + 1)
    BY <1>0, <1>2, KinKinds
  <2> QED BY <2>1, <2>2
<1>5. PICK k : k = Quad(1, 1, i, 1)
  OBVIOUS
<1>6. PICK d : d = Quad(0, 0, 1, 0)
  OBVIOUS
<1>7. PICK L : L = Quad(0, Len(s2) + 1, 0, 0)
  OBVIOUS
<1>8. k \in [Segment -> Nat] /\ k[1] = 1 /\ k[2] = 1 /\ k[3] = i /\ k[4] = 1
  BY <1>1, <1>5 DEF Quad, Segment
<1>9. d \in [Segment -> Nat] /\ d[1] = 0 /\ d[2] = 0 /\ d[3] = 1 /\ d[4] = 0
  BY <1>6 DEF Quad, Segment
<1>10. L \in [Segment -> Nat] /\ L[1] = 0 /\ L[2] = Len(s2) + 1 /\ L[3] = 0 /\ L[4] = 0
  BY <1>1, <1>7 DEF Quad, Segment
<1>11. ASSUME NEW q \in Payload
       PROVE  /\ Flow(Line(s1, s2, s3, s4, q), LineAfter(s1, t2, t3, s4, q), k, d, L, 2)
              /\ \A y \in Segment : L[y] \in LineAfter(s1, t2, t3, s4, q)[y] => y = 2 /\ s3[i] \in Entries(q)
  <2> DEFINE G == LineAfter(s1, t2, t3, s4, q)
             H == Line(s1, s2, s3, s4, q)
  <2>1. /\ G[1] = Hits(s1, Mail(q)) /\ G[2] = Hits(t2, Bearers(q)')
        /\ G[3] = Hits(t3, Entries(q)') /\ G[4] = Hits(s4, Bearers(q)')
    BY DEF LineAfter
  <2>2. H[3] = Hits(s3, Entries(q))
    BY DEF Line
  <2> HIDE DEF G, H
  <2>3. L[1] \notin G[1] /\ L[3] \notin G[3] /\ L[4] \notin G[4]
    <3>1. 0 \notin DOMAIN s1 /\ 0 \notin DOMAIN t3 /\ 0 \notin DOMAIN s4
      BY <1>0, <1>3
    <3> QED BY <1>10, <2>1, <3>1 DEF Hits
  <2>4. ASSUME L[2] \in G[2] PROVE i \in H[3] /\ s3[i] \in Entries(q)
    <3>1. t2[Len(s2) + 1] = EntryReply(op, s3[i])
      BY <1>0
    <3>2. EntryReply(op, s3[i]) \in Bearers(q)
      BY <1>10, <2>1, <2>4, <3>1, SameNames DEF Hits
    <3>3. s3[i] \in Entries(q)
      BY <1>1, <3>2, SamePayload
    <3> QED BY <2>2, <3>3 DEF Hits
  <2>5. \A y \in Segment : L[y] \in G[y] =>
                /\ y = 2 /\ y + 1 \in Segment
                /\ \E j \in H[y + 1] : k[y + 1] <= j /\ j < k[y + 1] + d[y + 1]
    <3>1. 2 + 1 = 3 /\ 3 \in Segment /\ i <= i /\ i < i + 1
      BY <1>1 DEF Segment
    <3> QED BY <1>8, <1>9, <2>3, <2>4, <3>1, EverySegment
  <2>6. /\ Kin(s1, s1, k[1], d[1], L[1]) /\ Kin(s2, t2, k[2], d[2], L[2])
        /\ Kin(s3, t3, k[3], d[3], L[3]) /\ Kin(s4, s4, k[4], d[4], L[4])
    BY <1>4, <1>8, <1>9, <1>10
  <2>7. H = Line(s1, s2, s3, s4, q) /\ G = LineAfter(s1, t2, t3, s4, q)
    BY DEF G, H
  <2>8. Flow(H, G, k, d, L, 2)
    BY <1>0, <1>8, <1>9, <1>10, <2>5, <2>6, <2>7, LineFlow
  <2>9. \A y \in Segment : L[y] \in G[y] => y = 2 /\ s3[i] \in Entries(q)
    BY <2>3, <2>4, EverySegment
  <2> QED BY <2>7, <2>8, <2>9
<1>12. ASSUME NEW q
       PROVE  IsPath(Line(s1, s2, s3, s4, q)) /\ IsPath(LineAfter(s1, t2, t3, s4, q))
  BY <1>0, <1>3, LineIsPath DEF Line, LineAfter
<1>13. ASSUME NEW y \in Segment, y + 1 \in Segment, L[y] \in LineAfter(s1, t2, t3, s4, p)[y]
       PROVE  \A j \in Line(s1, s2, s3, s4, r)[y + 1] : ~(j < k[y + 1])
  <2>1. y = 2 /\ s3[i] \in Entries(p)
    BY <1>11, <1>13
  <2>2. \A j \in 1 .. (i - 1) : s3[j] \notin Entries(r)
    BY <2>1
  <2>3. Line(s1, s2, s3, s4, r)[3] = Hits(s3, Entries(r))
    BY DEF Line
  <2>4. \A j \in DOMAIN s3 : j < i => j \in 1 .. (i - 1)
    BY <1>0, <1>1
  <2>5. \A j \in Hits(s3, Entries(r)) : ~(j < i)
    BY <2>2, <2>4 DEF Hits
  <2> QED BY <1>8, <2>1, <2>3, <2>5
<1> QED BY <1>8, <1>9, <1>10, <1>11, <1>12, <1>13, FlowAhead

(* A call returns with what it makes of its RECV channel. *)
LEMMA LineReturned ==
    ASSUME NEW p \in Payload, NEW r \in Payload, DatabaseGrows,
           NEW s1, NEW s2, NEW s3, NEW s4, KnownLine(s1, s2, s3, s4),
           NEW n \in 1 .. Len(s2), NEW m \in nsbm, m = Parse(Read(s2, n)),
           NEW e \in MessageEntry, \A q \in Payload : e.payload_obj = q => m \in Bearers(q),
           NEW t1, t1 = Append(s1, e), NEW t2, t2 = Unread(s2, n),
           Ahead(Line(s1, s2, s3, s4, p), Line(s1, s2, s3, s4, r))
    PROVE  Ahead(LineAfter(t1, t2, s3, s4, p), LineAfter(t1, t2, s3, s4, r))
<1>0. s1 \in Seq(MessageEntry) /\ s2 \in Seq(nsbm) /\ s3 \in Seq(MessageEntry) /\ s4 \in Seq(nsbm)
  BY KnownSeq
<1>1. n \in Nat /\ n \in 0 .. Len(s2) /\ Len(s1) \in Nat
  BY <1>0
<1>3. t1 \in Seq(MessageEntry) /\ t2 \in Seq(nsbm)
  <2>1. Suffix(s2, t2)
    BY <1>0, <1>1, SuffixFacts
  <2>2. t2 \in Seq(nsbm)
    BY <1>0, <2>1, HitsSuffix
  <2>3. t1 \in Seq(MessageEntry)
    BY <1>0
  <2> QED BY <2>2, <2>3
<1>4. /\ Kin(s1, t1, 1, 0, Len(s1) + 1) /\ Kin(s2, t2, 1, n, 0)
      /\ Kin(s3, s3, 1, 0, 0) /\ Kin(s4, s4, 1, 0, 0)
  <2>1. Kin(s3, s3, 1, 0, 0) /\ Kin(s1, t1, 1, 0, Len(s1) + 1)
    BY <1>0, KinKinds
  <2>2. Kin(s4, s4, 1, 0, 0) /\ Kin(s2, t2, 1, n, 0)
    BY <1>0, <1>1, KinKinds
  <2> QED BY <2>1, <2>2
<1>5. PICK k : k = Quad(1, 1, 1, 1)
  OBVIOUS
<1>6. PICK d : d = Quad(0, n, 0, 0)
  OBVIOUS
<1>7. PICK L : L = Quad(Len(s1) + 1, 0, 0, 0)
  OBVIOUS
<1>8. k \in [Segment -> Nat] /\ \A y \in Segment : k[y] = 1
  BY <1>5 DEF Quad, Segment
<1>9. d \in [Segment -> Nat] /\ d[1] = 0 /\ d[2] = n /\ d[3] = 0 /\ d[4] = 0
  BY <1>1, <1>6 DEF Quad, Segment
<1>10. L \in [Segment -> Nat] /\ L[1] = Len(s1) + 1 /\ L[2] = 0 /\ L[3] = 0 /\ L[4] = 0
  BY <1>1, <1>7 DEF Quad, Segment
<1>11. ASSUME NEW q \in Payload
       PROVE  Flow(Line(s1, s2, s3, s4, q), LineAfter(t1, t2, s3, s4, q), k, d, L, 1)
  <2> DEFINE G == LineAfter(t1, t2, s3, s4, q)
             H == Line(s1, s2, s3, s4, q)
  <2>1. /\ G[1] = Hits(t1, Mail(q)) /\ G[2] = Hits(t2, Bearers(q)')
        /\ G[3] = Hits(s3, Entries(q)') /\ G[4] = Hits(s4, Bearers(q)')
    BY DEF LineAfter
  <2>2. H[2] = Hits(s2, Bearers(q))
    BY DEF Line
  <2> HIDE DEF G, H
  <2>3. L[2] \notin G[2] /\ L[3] \notin G[3] /\ L[4] \notin G[4]
    <3>1. 0 \notin DOMAIN t2 /\ 0 \notin DOMAIN s3 /\ 0 \notin DOMAIN s4
      BY <1>0, <1>3
    <3> QED BY <1>10, <2>1, <3>1 DEF Hits
  <2>4. ASSUME L[1] \in G[1] PROVE \E i \in H[2] : 1 <= i /\ i < 1 + n
    <3>1. t1[Len(s1) + 1] = e
      BY <1>0
    <3>2. e.payload_obj = q
      BY <1>10, <2>1, <2>4, <3>1 DEF Hits, Mail
    <3>3. m \in Bearers(q)
      BY <3>2
    <3>4. PICK i \in 1 .. n : s2[i] \in nsbm /\ m.body = s2[i].body
      BY <1>0, ParseBody
    <3>5. s2[i] \in Bearers(q)
      BY <3>3, <3>4 DEF Bearers, Carries
    <3>6. i \in DOMAIN s2 /\ 1 <= i /\ i < 1 + n
      BY <1>0, <1>1
    <3> QED BY <2>2, <3>5, <3>6 DEF Hits
  <2>5. \A y \in Segment : L[y] \in G[y] =>
                /\ y = 1 /\ y + 1 \in Segment
                /\ \E i \in H[y + 1] : k[y + 1] <= i /\ i < k[y + 1] + d[y + 1]
    <3>1. 1 + 1 = 2 /\ 2 \in Segment
      BY DEF Segment
    <3> QED BY <1>8, <1>9, <2>3, <2>4, <3>1, EverySegment
  <2>6. 1 \in Segment /\ 2 \in Segment /\ 3 \in Segment /\ 4 \in Segment
    BY DEF Segment
  <2>7. k[1] = 1 /\ k[2] = 1 /\ k[3] = 1 /\ k[4] = 1
    BY <1>8, <2>6
  <2>8. /\ Kin(s1, t1, k[1], d[1], L[1]) /\ Kin(s2, t2, k[2], d[2], L[2])
        /\ Kin(s3, s3, k[3], d[3], L[3]) /\ Kin(s4, s4, k[4], d[4], L[4])
    BY <1>4, <1>9, <1>10, <2>7
  <2>9. H = Line(s1, s2, s3, s4, q) /\ G = LineAfter(t1, t2, s3, s4, q)
    BY DEF G, H
  <2>10. Flow(H, G, k, d, L, 1)
    BY <1>8, <1>9, <1>10, <2>5, <2>8, <2>9, LineFlow
  <2> QED BY <2>9, <2>10
<1>12. ASSUME NEW q
       PROVE  IsPath(Line(s1, s2, s3, s4, q)) /\ IsPath(LineAfter(t1, t2, s3, s4, q))
  BY <1>0, <1>3, LineIsPath DEF Line, LineAfter
<1>13. \A y \in Segment : y + 1 \in Segment => \A j \in Line(s1, s2, s3, s4, r)[y + 1] : ~(j < k[y + 1])
  BY <1>8, <1>12 DEF IsPath
<1> QED BY <1>8, <1>9, <1>10, <1>11, <1>12, <1>13, FlowAhead

(* What is put at the end of a SEND channel, and nowhere else, is behind    *)
(* everything.                                                              *)
LEMMA LineEntered ==
    ASSUME NEW s \in Seq(nsbm), NEW GP, NEW GR, IsPath(GP), IsPath(GR),
           GP[1] = {}, GP[2] = {}, GP[3] = {}, GP[4] \subseteq {Len(s)},
           NEW C, GR[4] = Hits(s, C)
    PROVE  Ahead(GP, GR)
<1> SUFFICES ASSUME NEW x \in Segment, NEW y \in Segment, NEW i \in GP[x], NEW j \in GR[y]
             PROVE  y < x \/ (y = x /\ j <= i)
  BY DEF Ahead
<1>1. x = 4 /\ i = Len(s)
  BY EverySegment
<1>2. CASE y = 4
  <2>1. j \in DOMAIN s
    BY <1>2 DEF Hits
  <2> QED BY <1>1, <1>2, <2>1
<1>3. CASE y # 4
  BY <1>1, <1>3 DEF Segment
<1> QED BY <1>2, <1>3

-----------------------------------------------------------------------------
(* The logs.  A payload is fetched before it is posted, and posted once.    *)

(* Who keeps which log. *)
LogsKept ==
    \A c \in Client : /\ IsApp(c) => fetched[c] = <<>> /\ posted[c] = <<>>
                      /\ ~IsApp(c) => received[c] = <<>> /\ nsent[c] = 0

FetchedReal ==
    /\ \A e \in Logged(fetched) : e.payload_obj \in Payload /\ exists(e)
    /\ Logged(posted) \subseteq Logged(fetched)

OnBoard(p) == StageOf(p) \notin {"unsent", "outgoing"}
Back(p) == OnBoard(p) /\ StageOf(p) # "network"

FetchedLate == \A e \in Logged(fetched) : OnBoard(e.payload_obj)
PostedLate == \A e \in Logged(posted) : Back(e.payload_obj)

PostedOnce ==
    \A c, d \in Client : \A i \in DOMAIN posted[c], j \in DOMAIN posted[d] :
        posted[c][i].payload_obj = posted[d][j].payload_obj => c = d /\ i = j

LogInv == BridgeInv /\ LogsKept /\ FetchedReal /\ FetchedLate /\ PostedLate /\ PostedOnce

(* No stage of the way is left backwards. *)
LEMMA NoTurning ==
    ASSUME SystemMode = "PULL", BridgeInv, BridgeInv', [Next]_vars, NEW p \in Payload
    PROVE  (OnBoard(p) => OnBoard(p)') /\ (Back(p) => Back(p)')
<1>1. Stays(p) \/ Forth(p)
  BY OneForth
<1> QED BY <1>1 DEF Stays, Forth, Moves, OnBoard, Back

(* A log that gets an entry. *)
Logs(log, c, e, new) == new = [log EXCEPT ![c] = Append(@, e)]

LEMMA LogGrows ==
    ASSUME NEW log \in [Client -> Seq(MessageEntry)], NEW c \in Client, NEW e \in MessageEntry,
           NEW new, Logs(log, c, e, new)
    PROVE  /\ Logged(new) = Logged(log) \cup {e}
           /\ \A d \in Client : d # c => new[d] = log[d]
           /\ \E a : /\ DOMAIN new[c] = DOMAIN log[c] \cup {a} /\ new[c][a] = e
                     /\ \A i \in DOMAIN log[c] : new[c][i] = log[c][i]
<1>1. PICK a : /\ \A d \in Client : d # c => new[d] = log[d]
               /\ DOMAIN new[c] = DOMAIN log[c] \cup {a} /\ new[c][a] = e
               /\ \A i \in DOMAIN log[c] : new[c][i] = log[c][i]
  BY LoggedAppend DEF Logs
<1>2. \A x : x \in Logged(new) <=> x \in Logged(log) \cup {e}
  BY <1>1 DEF Logged
<1>3. Logged(new) = Logged(log) \cup {e}
  BY <1>2
<1> QED BY <1>1, <1>3

(* What fetch() returns with was on its way out, and is in the network now. *)
LEMMA FetchedNow ==
    ASSUME LogInv, BridgeInv', NEW c \in Client, NEW n \in Nat, NEW m \in nsbm, FetchedStep(c, n, m),
           fetched' # fetched, NEW e, e = Returned(c, m)
    PROVE  /\ fetched' = [fetched EXCEPT ![c] = Append(@, e)]
           /\ e \in MessageEntry /\ e.payload_obj \in Payload /\ exists(e) /\ ~IsApp(c)
           /\ OnBoard(e.payload_obj)'
<1> DEFINE k == <<c, "RECV">>
<1>0. /\ TypeOK /\ KeysKnown /\ CallsRight /\ PlaceInv /\ PlaceInv'
      /\ fetched \in [Client -> Seq(MessageEntry)] /\ down \in [Conn -> Seq(KnownMessage)]
  BY DEF LogInv, BridgeInv, PlaceInv, TypeInv, KindInv, KeysKnown, TypeOK, ClientTypeOK
<1>2. /\ exists(e) /\ fetched' = [fetched EXCEPT ![c] = Append(@, e)]
      /\ pc[c] = "fetchWait" /\ posted' = posted
      /\ n \in 1 .. Len(down[k]) /\ m = Parse(Read(down[k], n))
  BY DEF FetchedStep, ClientReads, Response
<1>3. ~IsApp(c) /\ k \in Conn
  BY <1>0, <1>2, ConnFacts DEF CallsRight, Channel
<1>4. down[k] \in Seq(KnownMessage) /\ down[k] \in Seq(nsbm)
  BY <1>0, <1>3, SeqMono DEF KnownMessage
<1>5. m \in KnownMessage
  BY <1>2, <1>4, ParsedKnown
<1>6. e \in PlainEntry
  BY <1>0, <1>5, ReturnedPlain DEF KeysKnown
<1>7. PICK q \in Payload : e.payload_obj = q
  BY <1>2, <1>6 DEF PlainEntry, Plain, exists
<1>8. m \in Bearers(q)
  BY <1>0, <1>5, <1>7, CheckOutNames DEF Returned
<1>9. StageOf(q) = "outgoing"
  <2>1. PICK i \in 1 .. n : down[k][i] \in nsbm /\ m.body = down[k][i].body
    BY <1>2, <1>4, ParseBody
  <2>2. down[k][i] \in Bearers(q) /\ i \in DOMAIN down[k]
    BY <1>2, <1>4, <1>8, <2>1 DEF Bearers, Carries
  <2>3. Boxes(q)[<<"down", k>>] # {}
    <3>1. Boxes(q)[<<"down", k>>] = Hits(down[k], Bearers(q))
      BY <1>3, BoxesAre
    <3> HIDE DEF k
    <3> QED BY <2>2, <3>1 DEF Hits
  <2>4. <<"down", k>> \in Box /\ BoxStage(<<"down", k>>) = "outgoing"
    BY <1>3, BoxKinds, BoxStages DEF Channel
  <2>5. StageRight(q)
    BY <1>0, StageIs
  <2> QED BY <2>3, <2>4, <2>5 DEF StageRight
<1>10. e \notin Logged(posted)
  BY <1>7, <1>9 DEF LogInv, PostedLate, Back, OnBoard
<1>11. e \in MessageEntry
  BY <1>6 DEF PlainEntry
<1>12. e \in Network'
  <2>1. Logged(fetched') = Logged(fetched) \cup {e}
    <3>1. Logs(fetched, c, e, fetched')
      BY <1>2 DEF Logs
    <3> QED BY <1>0, <1>11, <3>1, LogGrows
  <2>2. Logged(posted)' = Logged(posted) /\ Logged(fetched)' = Logged(fetched')
    BY <1>2 DEF Logged
  <2> QED BY <1>10, <2>1, <2>2 DEF Network
<1>13. StageOf(q)' = "network"
  <2>1. Boxes(q)'[NetworkBox] # {}
    BY <1>7, <1>11, <1>12, BoxesAfter DEF Mail
  <2>2. (PlaceInv => \A p \in Payload : StageRight(p))'
    BY StageIs, PTL
  <2>3. StageRight(q)'
    BY <1>0, <2>2
  <2>4. NetworkBox \in Box /\ BoxStage(NetworkBox) = "network"
    BY BoxKinds, BoxStages
  <2> QED BY <2>1, <2>3, <2>4 DEF StageRight
<1>14. OnBoard(q)'
  BY <1>13 DEF OnBoard
<1>15. e.payload_obj \in Payload /\ OnBoard(e.payload_obj)'
  BY <1>7, <1>14
<1> QED BY <1>2, <1>3, <1>11, <1>15

(* What post() sends was in the network, and was not posted before. *)
LEMMA PostedNow ==
    ASSUME SystemMode = "PULL", LogInv, BridgeInv', NEW c \in Client, NEW e \in Network, post(c, e)
    PROVE  /\ e \in MessageEntry /\ e.payload_obj \in Payload /\ exists(e) /\ e \in Logged(fetched)
           /\ posted' = [posted EXCEPT ![c] = Append(@, e)] /\ ~IsApp(c)
           /\ StageOf(e.payload_obj) = "network" /\ Back(e.payload_obj)'
           /\ \A d \in Client : \A i \in DOMAIN posted[d] : posted[d][i].payload_obj # e.payload_obj
<1>0. /\ TypeOK /\ PlaceInv /\ PlaceInv' /\ posted \in [Client -> Seq(MessageEntry)]
  BY DEF LogInv, BridgeInv, PlaceInv, TypeInv, TypeOK, ClientTypeOK
<1>1. /\ posted' = [posted EXCEPT ![c] = Append(@, e)] /\ fetched' = fetched /\ nsent' = nsent /\ ~IsApp(c)
  BY DEF post, IsApp
<1>2. e \in MessageEntry /\ e.payload_obj \in Payload /\ exists(e) /\ e \in Logged(fetched)
  <2>1. e \in MessageEntry
    BY <1>0, NetworkType
  <2>2. e \in Logged(fetched)
    BY DEF Network
  <2> QED BY <2>1, <2>2 DEF LogInv, FetchedReal
<1>3. PICK q \in Payload : e.payload_obj = q
  BY <1>2
<1>4. StageRight(q) /\ StageRight(q)'
  <2>1. (PlaceInv => \A p \in Payload : StageRight(p))'
    BY StageIs, PTL
  <2>2. StageRight(q)
    BY <1>0, StageIs
  <2>3. StageRight(q)'
    BY <1>0, <2>1
  <2> QED BY <2>2, <2>3
<1>5. NetworkBox \in Box /\ BoxStage(NetworkBox) = "network"
  BY BoxKinds, BoxStages
<1>6. StageOf(q) = "network"
  <2>1. Boxes(q)[NetworkBox] # {}
    BY <1>2, <1>3, BoxesAre DEF Mail
  <2> QED BY <1>4, <1>5, <2>1 DEF StageRight
<1>7. \A x \in Logged(posted) : x.payload_obj # q
  BY <1>6 DEF LogInv, PostedLate, Back
<1>8. Network' = Network \ {e}
  <2>1. Logs(posted, c, e, posted')
    BY <1>1 DEF Logs
  <2>2. Logged(posted') = Logged(posted) \cup {e}
    BY <1>0, <1>2, <2>1, LogGrows
  <2>3. Logged(posted)' = Logged(posted') /\ Logged(fetched)' = Logged(fetched)
    BY <1>1
  <2> QED BY <2>2, <2>3 DEF Network
<1>9. Boxes(q)'[NetworkBox] = {}
  <2>1. Boxes(q)[NetworkBox] = Network \cap Mail(q) /\ Boxes(q)'[NetworkBox] = Network' \cap Mail(q)
    BY BoxesAre, BoxesAfter
  <2>2. Single(Boxes(q)[NetworkBox])
    BY <1>0, <1>5 DEF PlaceInv, Unique
  <2>3. e \in Network \cap Mail(q)
    BY <1>2, <1>3 DEF Mail
  <2> QED BY <1>8, <2>1, <2>2, <2>3 DEF Single
<1>10. Back(q)'
  <2>1. Before(q)
    BY <1>0, <1>1, <1>4 DEF Before, Sent
  <2>2. Stays(q) \/ Moves(q, "network", "returning")
    BY <2>1, PostStages
  <2>3. StageOf(q)' \in {"network", "lost", "returning"}
    BY <1>6, <2>2 DEF Stays, Moves
  <2>4. StageOf(q)' # "network"
    <3>1. InNetwork(q)' = {}
      <4>1. Network' \cap Mail(q) = {}
        BY <1>9, BoxesAfter
      <4>2. \A x \in Network' : x \in MessageEntry
        BY <1>0, <1>8, NetworkType
      <4>3. \A x \in Network' : x.payload_obj # q
        BY <4>1, <4>2 DEF Mail
      <4> QED BY <4>3 DEF InNetwork
    <3> QED BY <3>1 DEF StageOf
  <2> QED BY <2>3, <2>4 DEF Back, OnBoard
<1>11. StageOf(e.payload_obj) = "network" /\ Back(e.payload_obj)'
  BY <1>3, <1>6, <1>10
<1>12. \A d \in Client : \A i \in DOMAIN posted[d] : posted[d][i].payload_obj # e.payload_obj
  BY <1>3, <1>7 DEF Logged
<1> QED BY <1>1, <1>2, <1>11, <1>12

(* LogInv is inductive. *)
LEMMA LogInvStep ==
    ASSUME SystemMode = "PULL", LogInv, [Next]_vars
    PROVE  LogInv'
<1>0. /\ BridgeInv /\ TypeInv /\ CallsRight
      /\ fetched \in [Client -> Seq(MessageEntry)] /\ posted \in [Client -> Seq(MessageEntry)]
      /\ received \in [Client -> Seq(MessageEntry)] /\ nsent \in [Client -> 0 .. MaxSends]
  BY DEF LogInv, BridgeInv, PlaceInv, TypeInv, KindInv, TypeOK, ClientTypeOK
<1>1. BridgeInv'
  BY <1>0, PlaceInvStep, KindInvStep DEF BridgeInv, PlaceInv
<1>2. \A p \in Payload : (OnBoard(p) => OnBoard(p)') /\ (Back(p) => Back(p)')
  BY <1>0, <1>1, NoTurning
<1>3. /\ LogsKept /\ FetchedReal /\ FetchedLate /\ PostedLate /\ PostedOnce
  BY DEF LogInv
<1>4. ASSUME fetched' = fetched PROVE FetchedLate'
  BY <1>2, <1>3, <1>4 DEF FetchedLate, FetchedReal
<1>5. ASSUME posted' = posted PROVE PostedLate' /\ PostedOnce'
  <2>1. PostedLate'
    BY <1>2, <1>3, <1>5 DEF PostedLate, FetchedReal
  <2>2. PostedOnce'
    BY <1>3, <1>5 DEF PostedOnce
  <2> QED BY <2>1, <2>2
<1>6. ASSUME UNCHANGED <<fetched, posted>>, LogsKept' PROVE LogInv'
  <2>1. FetchedReal'
    BY <1>3, <1>6 DEF FetchedReal
  <2> QED BY <1>1, <1>4, <1>5, <1>6, <2>1 DEF LogInv
<1>7. CASE UNCHANGED <<fetched, posted, received, nsent>>
  BY <1>3, <1>6, <1>7 DEF LogsKept
<1>8. ASSUME NEW c \in Client, NEW n \in Nat, NEW m \in nsbm, ReceivedStep(c, n, m) PROVE LogInv'
  <2>1. /\ UNCHANGED <<fetched, posted, nsent>> /\ IsApp(c)
        /\ \E e : received' = received \/ received' = [received EXCEPT ![c] = Append(@, e)]
    BY <1>0, <1>8 DEF ReceivedStep, ClientReads, CallsRight
  <2>2. \A d \in Client : d # c => received'[d] = received[d]
    BY <1>0, <2>1
  <2>3. LogsKept'
    BY <1>3, <2>1, <2>2 DEF LogsKept
  <2> QED BY <1>6, <2>1, <2>3
<1>9. ASSUME NEW c \in Client, NEW n \in Nat, NEW m \in nsbm, FetchedStep(c, n, m), fetched' # fetched
      PROVE  LogInv'
  <2>1. PICK e : e = Returned(c, m)
    OBVIOUS
  <2>2. /\ fetched' = [fetched EXCEPT ![c] = Append(@, e)]
        /\ e \in MessageEntry /\ e.payload_obj \in Payload /\ exists(e) /\ ~IsApp(c)
        /\ OnBoard(e.payload_obj)'
    BY <1>1, <1>9, <2>1, FetchedNow
  <2>3. UNCHANGED <<posted, received, nsent>>
    BY <1>9 DEF FetchedStep, ClientReads
  <2>4. Logs(fetched, c, e, fetched')
    BY <2>2 DEF Logs
  <2>5. fetched \in [Client -> Seq(MessageEntry)] /\ e \in MessageEntry
    BY <1>0, <2>2
  <2>6. Logged(fetched') = Logged(fetched) \cup {e} /\ \A d \in Client : d # c => fetched'[d] = fetched[d]
    BY <2>4, <2>5, LogGrows
  <2>7. LogsKept'
    BY <1>3, <2>2, <2>3, <2>6 DEF LogsKept
  <2>8. FetchedReal'
    BY <1>3, <2>2, <2>3, <2>6 DEF FetchedReal
  <2>9. FetchedLate'
    <3> SUFFICES ASSUME NEW x \in Logged(fetched') PROVE OnBoard(x.payload_obj)'
      BY DEF FetchedLate
    <3>1. CASE x = e
      BY <2>2, <3>1
    <3>2. CASE x \in Logged(fetched)
      BY <1>2, <1>3, <3>2 DEF FetchedLate, FetchedReal
    <3> QED BY <2>6, <3>1, <3>2
  <2> QED BY <1>1, <1>5, <2>3, <2>7, <2>8, <2>9 DEF LogInv
<1>10. ASSUME NEW c \in Client, NEW d \in SendTo[c], send(c, d) PROVE LogInv'
  <2>1. UNCHANGED <<fetched, posted, received>> /\ IsApp(c) /\ nsent' = [nsent EXCEPT ![c] = @ + 1]
    BY <1>10 DEF send, logVars, IsApp
  <2>2. LogsKept'
    BY <1>0, <1>3, <2>1 DEF LogsKept
  <2> QED BY <1>6, <2>1, <2>2
<1>11. ASSUME NEW c \in Client, NEW e \in Network, post(c, e) PROVE LogInv'
  <2>1. UNCHANGED <<fetched, received, nsent>>
    BY <1>11 DEF post
  <2>2. /\ e \in MessageEntry /\ e.payload_obj \in Payload /\ exists(e) /\ e \in Logged(fetched)
        /\ posted' = [posted EXCEPT ![c] = Append(@, e)] /\ ~IsApp(c) /\ Back(e.payload_obj)'
        /\ \A d \in Client : \A i \in DOMAIN posted[d] : posted[d][i].payload_obj # e.payload_obj
    BY <1>1, <1>11, PostedNow
  <2>3. Logs(posted, c, e, posted')
    BY <2>2 DEF Logs
  <2>4. posted \in [Client -> Seq(MessageEntry)] /\ e \in MessageEntry
    BY <1>0, <2>2
  <2>5. /\ Logged(posted') = Logged(posted) \cup {e}
        /\ \A d \in Client : d # c => posted'[d] = posted[d]
        /\ \E a : /\ DOMAIN posted'[c] = DOMAIN posted[c] \cup {a} /\ posted'[c][a] = e
                  /\ \A i \in DOMAIN posted[c] : posted'[c][i] = posted[c][i]
    BY <2>3, <2>4, LogGrows
  <2>6. LogsKept'
    BY <1>3, <2>1, <2>2, <2>5 DEF LogsKept
  <2>7. FetchedReal'
    BY <1>3, <2>1, <2>2, <2>5 DEF FetchedReal
  <2>8. PostedLate'
    <3> SUFFICES ASSUME NEW x \in Logged(posted') PROVE Back(x.payload_obj)'
      BY DEF PostedLate
    <3>1. CASE x = e
      BY <2>2, <3>1
    <3>2. CASE x \in Logged(posted)
      BY <1>2, <1>3, <3>2 DEF PostedLate, FetchedReal
    <3> QED BY <2>5, <3>1, <3>2
  <2>9. PostedOnce'
    <3> SUFFICES ASSUME NEW d \in Client, NEW b \in Client, NEW i \in DOMAIN posted'[d], NEW j \in DOMAIN posted'[b],
                        posted'[d][i].payload_obj = posted'[b][j].payload_obj
                 PROVE  d = b /\ i = j
      BY DEF PostedOnce
    <3>0. PICK a : /\ DOMAIN posted'[c] = DOMAIN posted[c] \cup {a} /\ posted'[c][a] = e
                   /\ \A z \in DOMAIN posted[c] : posted'[c][z] = posted[c][z]
      BY <2>5
    <3>1. \A y \in Client : \A z \in DOMAIN posted'[y] :
             \/ z \in DOMAIN posted[y] /\ posted'[y][z] = posted[y][z]
             \/ y = c /\ z = a /\ posted'[y][z] = e
      BY <2>5, <3>0
    <3> QED BY <1>3, <2>2, <3>1 DEF PostedOnce
  <2> QED BY <1>1, <1>4, <2>1, <2>6, <2>7, <2>8, <2>9 DEF LogInv
<1>12. CASE QuietStep
  BY <1>7, <1>12 DEF QuietStep, dataVars
<1>13. ASSUME NEW k \in Conn, NEW n \in Nat, NEW m \in nsbm, HandlerStepKind(k, n, m) PROVE LogInv'
  <2>1. UNCHANGED <<fetched, posted, received, nsent>>
    BY <1>13 DEF HandlerStepKind, SendStep, PostStep, FetchStep, ReceiveStep, ForwardStep, DaemonReads
  <2> QED BY <1>7, <2>1
<1>14. ASSUME NEW c \in Client, NEW n \in Nat, NEW m \in nsbm, FetchedStep(c, n, m) PROVE LogInv'
  <2>1. UNCHANGED <<posted, received, nsent>>
    BY <1>14 DEF FetchedStep, ClientReads
  <2> QED BY <1>7, <1>9, <1>14, <2>1
<1> QED BY <1>0, <1>8, <1>10, <1>11, <1>12, <1>13, <1>14, DataSteps DEF ClientStepKind

(* At the start the logs are empty. *)
LEMMA LogInvInit == Init => LogInv
<1> SUFFICES ASSUME Init PROVE LogInv
  OBVIOUS
<1>1. BridgeInv
  BY PlaceInvInit, KindInvInit DEF BridgeInv
<1>2. \A c \in Client : fetched[c] = <<>> /\ posted[c] = <<>> /\ received[c] = <<>> /\ nsent[c] = 0
  BY DEF Init, ClientInit
<1>3. Logged(fetched) = {} /\ Logged(posted) = {}
  BY <1>2 DEF Logged
<1>4. PostedOnce
  <2>1. \A c \in Client : DOMAIN posted[c] = {}
    BY <1>2
  <2> QED BY <2>1 DEF PostedOnce
<1> QED BY <1>1, <1>2, <1>3, <1>4 DEF LogInv, LogsKept, FetchedReal, FetchedLate, PostedLate

-----------------------------------------------------------------------------
(* The SEND channels and the buffers.  An application signs what it sends,  *)
(* and a simulator client addresses what it posts as it fetched it.         *)

Wrote(s, p, d) == \E i \in DOMAIN posted[s] : posted[s][i].payload_obj = p /\ posted[s][i].destination = d

SignedBy(c) == {m \in nsbm : m.metadata.src = Ident[c] /\ \A p \in Payload : m \in Bearers(p) => p[1] = c}
AddressedBy(c) ==
    {m \in nsbm : /\ Bears(m) /\ m.metadata.dest # ""
                  /\ \A p \in Payload : m \in Bearers(p) => Wrote(c, p, m.metadata.dest)}
Outgoings(c) == IF IsApp(c) THEN SignedBy(c) ELSE AddressedBy(c)

SignedEntry == {e \in MessageEntry : \A p \in Payload : e \in Entries(p) => e.source = Ident[p[1]]}
AddressedEntry ==
    {e \in MessageEntry : \A p \in Payload : e \in Entries(p) => \E s \in Client : Wrote(s, p, e.destination)}

SendsRight ==
    /\ \A c \in Client : up[<<c, "SEND">>] \in Seq(Outgoings(c))
    /\ tx_buffer \in Seq(SignedEntry) /\ rx_buffer \in Seq(AddressedEntry)

(* What send() writes. *)
LEMMA SendPuts ==
    ASSUME TypeOK, NEW c \in Client, NEW d \in SendTo[c], send(c, d)
    PROVE  \E m \in nsbm :
              /\ SendMessage(c, "SEND", m) /\ m.metadata.src = Ident[c]
              /\ \A p \in Payload : m \in Bearers(p)' => p = <<c, nsent[c] + 1>>
              /\ DatabaseGrows /\ IsApp(c)
              /\ UNCHANGED <<down, tx_buffer, rx_buffer, fetched, posted, received>>
<1>1. PICK v \in {<<c, nsent[c] + 1>>} \cup (IF EmptyPayloads THEN {NoValue} ELSE {}) :
          /\ SendMessage(c, "SEND", DataMessage(c, "SEND", Ident[c], d, StoredBody(c, v)))
          /\ db' = Stored(c, v)
  BY DEF send
<1>2. PICK m : m = DataMessage(c, "SEND", Ident[c], d, StoredBody(c, v))
  OBVIOUS
<1>3. v \in PlainValue
  <2>1. nsent \in [Client -> 0 .. MaxSends] /\ MaxSends \in Nat /\ nsent[c] < MaxSends
    BY WireAssumption DEF TypeOK, ClientTypeOK, send
  <2>2. nsent[c] + 1 \in Nat /\ nsent[c] + 1 \in 1 .. MaxSends
    BY <2>1
  <2>3. <<c, nsent[c] + 1>> \in PlainValue
    BY <2>2, WireAssumption DEF PlainValue, Plain, Value, Payload
  <2>4. NoValue \in PlainValue
    BY MessageTypes DEF PlainValue, Plain, NoValue
  <2> QED BY <1>1, <2>3, <2>4
<1>4. m \in nsbm /\ m.body = StoredBody(c, v) /\ m.metadata.src = Ident[c]
  <2>1. Ident[c] \in Id /\ d \in Id /\ StoredBody(c, v) \in Body
    BY <1>3, ClientAssumption, WireAssumption, DatabaseTypes DEF Id, Identifier, PlainValue
  <2> QED BY <1>2, <2>1, DataMessageType DEF Op, DataMessage, Route
<1>5. ASSUME NEW p \in Payload
      PROVE  /\ DOMAIN db \subseteq DOMAIN db' /\ \A i \in DOMAIN db : db'[i] = db[i]
             /\ m \in Bearers(p)' => p = <<c, nsent[c] + 1>>
  <2>1. /\ DOMAIN db \subseteq DOMAIN db' /\ \A i \in DOMAIN db : db'[i] = db[i]
        /\ m \in Bearers(p)' => v = p
    BY <1>1, <1>3, <1>4, PutNames
  <2> QED BY <1>1, <2>1, NoValueNoPayload
<1>6. /\ UNCHANGED <<down, tx_buffer, rx_buffer, fetched, posted, received>> /\ IsApp(c)
      /\ SendMessage(c, "SEND", m) /\ \E p : p \in Payload
  <2>1. <<c, 1>> \in Payload
    <3>1. nsent \in [Client -> 0 .. MaxSends] /\ MaxSends \in Nat /\ nsent[c] < MaxSends
      BY WireAssumption DEF TypeOK, ClientTypeOK, send
    <3>2. 1 \in 1 .. MaxSends
      BY <3>1
    <3> QED BY <3>2 DEF Payload
  <2> QED BY <1>1, <1>2, <2>1 DEF send, socketsButUp, daemonVars, bufferVars, logVars, IsApp
<1> QED BY <1>4, <1>5, <1>6 DEF DatabaseGrows

(* What post() writes. *)
LEMMA PostPuts ==
    ASSUME LogInv, NEW c \in Client, NEW e \in Network, post(c, e)
    PROVE  \E m \in nsbm :
              /\ SendMessage(c, "SEND", m) /\ Bears(m) /\ m.metadata.dest = e.destination /\ e.destination # ""
              /\ \A p \in Payload : m \in Bearers(p)' => p = e.payload_obj
              /\ DatabaseGrows /\ ~IsApp(c)
              /\ UNCHANGED <<down, tx_buffer, rx_buffer, fetched, received, nsent>>
              /\ posted' = [posted EXCEPT ![c] = Append(@, e)]
<1> DEFINE v == e.payload_obj
<1>0. TypeOK /\ KeysKnown /\ v \in Payload /\ exists(e)
  BY DEF LogInv, BridgeInv, PlaceInv, TypeInv, FetchedReal, Network
<1>1. e \in PlainEntry /\ e \in MessageEntry /\ v \in PlainValue
  BY <1>0, NetworkPlain DEF PlainEntry, PlainValue, MessageEntry
<1>2. PICK m : m = DataMessage(c, "POST", e.source, e.destination, PostBody(c, v))
  OBVIOUS
<1>3. /\ SendMessage(c, "SEND", m) /\ db' = (IF Impl[c] = "py" THEN db ELSE Stored(c, v))
      /\ posted' = [posted EXCEPT ![c] = Append(@, e)]
      /\ UNCHANGED <<down, tx_buffer, rx_buffer, received, fetched, nsent>> /\ ~IsApp(c)
  BY <1>2 DEF post, socketsButUp, daemonVars, bufferVars, IsApp
<1>4. m \in nsbm /\ m.body = PostBody(c, v) /\ m.metadata.dest = e.destination
  <2>1. e.source \in Id /\ e.destination \in Id
    BY <1>1 DEF MessageEntry
  <2>2. PostBody(c, v) \in Body
    BY <1>0, <1>1, DatabaseTypes, MessageTypes DEF PostBody, PlainValue
  <2> QED BY <1>2, <2>1, <2>2, DataMessageType DEF Op, DataMessage, Route
<1>5. Bears(m)
  BY <1>4 DEF PostBody, StoredBody, PayloadBody, Bears
<1>6. \/ db' = Stored(c, v) /\ m.body = StoredBody(c, v)
      \/ db' = db /\ m.body.val = v
  BY <1>3, <1>4 DEF PostBody, PayloadBody
<1>7. ASSUME NEW p \in Payload
      PROVE  /\ DOMAIN db \subseteq DOMAIN db' /\ \A i \in DOMAIN db : db'[i] = db[i]
             /\ m \in Bearers(p)' => v = p
  BY <1>0, <1>1, <1>4, <1>6, PutNames
<1>8. e.destination # ""
  BY <1>0 DEF exists
<1>9. DatabaseGrows
  BY <1>0, <1>7 DEF DatabaseGrows
<1> QED BY <1>3, <1>4, <1>5, <1>7, <1>8, <1>9

(* What is merged of messages that all carry a destination and a payload is *)
(* the last of them.                                                        *)
LEMMA LastSetLast ==
    ASSUME NEW n \in Nat \ {0}, NEW q, DOMAIN q = 1 .. n, NEW d, q[n] # d
    PROVE  LastSet(q, d) = q[n]
<1> DEFINE set == {i \in DOMAIN q : q[i] # d}
<1>1. n \in set /\ set \subseteq 1 .. n /\ \A j \in set : j <= n
  OBVIOUS
<1>2. LastIn(set) = n
  BY <1>1, LastUnique
<1>3. set # {}
  BY <1>1
<1> QED BY <1>2, <1>3 DEF LastSet

LEMMA ParsedLast ==
    ASSUME NEW s \in Seq(nsbm), NEW n \in 1 .. Len(s), NEW m, m = Parse(Read(s, n)),
           NEW c, NEW x, x \in AddressedBy(c), x = s[n]
    PROVE  m.body = x.body /\ m.metadata.dest = x.metadata.dest
<1>0. Len(s) \in Nat /\ DOMAIN s = 1 .. Len(s)
  OBVIOUS
<1>1. PICK r : r = Read(s, n)
  OBVIOUS
<1>2. DOMAIN r = 1 .. n /\ n \in Nat \ {0} /\ n \in 1 .. n /\ r[n] = x
  <2>1. n \in Nat \ {0} /\ n \in 1 .. n
    BY <1>0
  <2>2. DOMAIN r = 1 .. n /\ \A i \in 1 .. n : r[i] = s[i]
    BY <1>0, <1>1 DEF Read
  <2> QED BY <2>1, <2>2
<1>3. x.body # NoBody
  <2>1. x.body.kind # "none"
    BY DEF Bears, AddressedBy
  <2>2. NoBody.kind = "none"
    BY DEF NoBody
  <2> QED BY <2>1, <2>2
<1>4. LastSet([i \in DOMAIN r |-> r[i].body], NoBody) = x.body
  <2>1. PICK q : q = [i \in DOMAIN r |-> r[i].body]
    OBVIOUS
  <2>2. DOMAIN q = 1 .. n /\ q[n] = x.body
    BY <1>2, <2>1
  <2>3. LastSet(q, NoBody) = q[n]
    BY <1>2, <1>3, <2>2, LastSetLast
  <2> QED BY <2>1, <2>2, <2>3
<1>5. LastSet([i \in DOMAIN r |-> r[i].metadata.dest], "") = x.metadata.dest
  <2>1. PICK q : q = [i \in DOMAIN r |-> r[i].metadata.dest]
    OBVIOUS
  <2>2. DOMAIN q = 1 .. n /\ q[n] = x.metadata.dest
    BY <1>2, <2>1
  <2>3. LastSet(q, "") = q[n]
    BY <1>2, <2>2, LastSetLast DEF AddressedBy
  <2> QED BY <2>1, <2>2, <2>3
<1> QED BY <1>1, <1>4, <1>5 DEF Parse

(* SendsRight moves to the next state while the database only grows. *)
LEMMA SeqMeet ==
    ASSUME NEW S, NEW T, NEW s \in Seq(S), s \in Seq(T), NEW U, S \cap T \subseteq U
    PROVE  s \in Seq(U)
<1>1. \A i \in DOMAIN s : s[i] \in S /\ s[i] \in T
  OBVIOUS
<1>2. \A i \in DOMAIN s : s[i] \in U
  BY <1>1
<1> QED BY <1>2

(* The database grows, and what was posted stays so. *)
PostsKept == \A s \in Client, p \in Payload, d \in Id : Wrote(s, p, d) => Wrote(s, p, d)'

LEMMA RightStays ==
    ASSUME DatabaseGrows, PostsKept
    PROVE  /\ \A c \in Client : KnownMessage \cap Outgoings(c) \subseteq Outgoings(c)'
           /\ KnownEntry \cap SignedEntry \subseteq SignedEntry'
           /\ KnownEntry \cap AddressedEntry \subseteq AddressedEntry'
<1>0. \A p \in Payload : /\ KnownMessage \cap Bearers(p)' \subseteq Bearers(p)
                         /\ KnownEntry \cap Entries(p)' \subseteq Entries(p)
  BY NamesShrink DEF DatabaseGrows
<1>1. ASSUME NEW c \in Client, NEW m \in KnownMessage, m \in SignedBy(c) PROVE m \in SignedBy(c)'
  BY <1>0, <1>1 DEF SignedBy
<1>2. ASSUME NEW c \in Client, NEW m \in KnownMessage, m \in AddressedBy(c) PROVE m \in AddressedBy(c)'
  <2>1. m.metadata.dest \in Id
    BY DEF KnownMessage, nsbm, Metadata
  <2>2. \A p \in Payload : m \in Bearers(p)' => Wrote(c, p, m.metadata.dest)'
    BY <1>0, <1>2, <2>1 DEF AddressedBy, PostsKept
  <2> QED BY <1>2, <2>2 DEF AddressedBy
<1>3. ASSUME NEW e \in KnownEntry, e \in SignedEntry PROVE e \in SignedEntry'
  BY <1>0, <1>3 DEF SignedEntry
<1>4. ASSUME NEW e \in KnownEntry, e \in AddressedEntry PROVE e \in AddressedEntry'
  <2>1. e.destination \in Id
    BY DEF KnownEntry, MessageEntry
  <2>2. \A p \in Payload : e \in Entries(p)' => \E s \in Client : Wrote(s, p, e.destination)'
    BY <1>0, <1>4, <2>1 DEF AddressedEntry, PostsKept
  <2> QED BY <1>4, <2>2 DEF AddressedEntry
<1> QED BY <1>1, <1>2, <1>3, <1>4 DEF Outgoings

(* Where the data rests, no SEND channel gets anything. *)
LEMMA QuietSends ==
    ASSUME TypeInv, [Next]_vars, UNCHANGED dataVars, NEW d \in Client
    PROVE  Suffix(up[<<d, "SEND">>], up'[<<d, "SEND">>])
<1> DEFINE k == <<d, "SEND">>
           Asks == up'[k] = up[k]
           Goal == Suffix(up[k], up'[k])
<1> SUFFICES Goal
  OBVIOUS
<1>0. up \in [Conn -> Seq(nsbm)] /\ k \in Conn /\ up[k] \in Seq(nsbm) /\ TypeOK
  BY ConnFacts DEF TypeInv, TypeOK, SocketsTypeOK, Channel
<1>1. ASSUME Asks PROVE Goal
  BY <1>0, <1>1, SuffixFacts
<1>2. ASSUME NEW c \in Client, ClientNext(c) PROVE Asks
  <2>1. ASSUME NEW ch \in {"CTRL", "RECV"}, NEW m, SendMessage(c, ch, m) PROVE Asks
    <3>1. <<c, ch>> # k
      OBVIOUS
    <3> QED BY <1>0, <2>1, <3>1 DEF SendMessage, UpAfterSend
  <2>2. CASE \/ \E ch \in Channel : ConnectChannel(c, ch)
             \/ ConnectFails(c) \/ Close(c) \/ BrokenPipe(c) \/ InitTimeout(c) \/ WaitTimeout(c) \/ WaitEof(c)
             \/ Responded(c)
    BY <2>2 DEF ConnectChannel, ConnectFails, Close, BrokenPipe, InitTimeout, WaitTimeout, WaitEof,
                Responded, InitReturn, PingReturn, ReceiveReturn, FetchReturn, socketsButDown, socketVars
  <2>3. CASE \/ initialize(c) \/ ping(c) \/ exit(c)
             \/ (\E e \in ReceiveAs \cup {Ident[c]} : receive(c, e)) \/ (\E e \in FetchFrom : fetch(c, e))
    <3>1. up' = up \/ \E ch \in {"CTRL", "RECV"} : \E m : SendMessage(c, ch, m)
      BY <2>3 DEF initialize, ping, exit, receive, fetch
    <3> QED BY <2>1, <3>1
  <2>4. CASE \E e \in SendTo[c] : send(c, e)
    <3>1. nsent' = [nsent EXCEPT ![c] = @ + 1] /\ nsent' = nsent
      BY <2>4 DEF send, dataVars
    <3>2. nsent \in [Client -> 0 .. MaxSends] /\ MaxSends \in Nat
      BY <1>0, WireAssumption DEF TypeOK, ClientTypeOK
    <3>3. nsent[c] \in Nat /\ nsent[c] = nsent[c] + 1
      BY <3>1, <3>2
    <3> QED BY <3>3
  <2>5. CASE \E e \in Network : post(c, e)
    <3>1. PICK e : posted' = [posted EXCEPT ![c] = Append(@, e)] /\ posted' = posted
      BY <2>5 DEF post, dataVars
    <3>2. posted \in [Client -> Seq(MessageEntry)]
      BY <1>0 DEF TypeOK, ClientTypeOK
    <3>3. posted[c] = Append(posted[c], e) /\ posted[c] \in Seq(MessageEntry)
      BY <3>1, <3>2
    <3>4. Len(posted[c]) \in Nat /\ Len(Append(posted[c], e)) = Len(posted[c]) + 1
      BY <3>3
    <3> QED BY <3>3, <3>4
  <2> QED BY <1>2, <2>2, <2>3, <2>4, <2>5 DEF ClientNext
<1>3. CASE DaemonNext
  BY <1>0, <1>3, DaemonTakes
<1>4. CASE UNCHANGED vars
  BY <1>1, <1>4 DEF vars, socketVars
<1> HIDE DEF Goal, Asks
<1> QED BY <1>1, <1>2, <1>3, <1>4 DEF Next

(* The source parsed from messages c signed is c's. *)
LEMMA ParsedSigned ==
    ASSUME NEW c \in Client, NEW s \in Seq(SignedBy(c)), NEW n \in 1 .. Len(s), NEW m \in nsbm, m = Parse(Read(s, n))
    PROVE  m \in SignedBy(c)
<1> DEFINE r == Read(s, n)
           q == [i \in DOMAIN r |-> r[i].metadata.src]
<1>0. s \in Seq(nsbm) /\ \A i \in DOMAIN s : s[i] \in SignedBy(c)
  BY SeqMono DEF SignedBy
<1>1. r \in Seq(SignedBy(c)) /\ r # <<>>
  BY SplitType DEF Read
<1>2. \A i \in DOMAIN r : r[i] \in SignedBy(c)
  BY <1>1
<1>3. q \in Seq({Ident[c]}) /\ q # <<>>
  <2>1. \A i \in DOMAIN r : r[i].metadata.src = Ident[c]
    BY <1>2 DEF SignedBy
  <2> HIDE DEF r
  <2> QED BY <1>1, <2>1
<1>4. "" \notin {Ident[c]}
  BY WireAssumption DEF Identifier
<1> HIDE DEF q
<1>5. LastSet(q, "") \in {Ident[c]}
  BY <1>3, <1>4, LastSetNoDefault
<1>6. m.metadata.src = Ident[c]
  BY <1>5 DEF Parse, q, r
<1>7. ASSUME NEW p \in Payload, m \in Bearers(p) PROVE p[1] = c
  <2>1. PICK i \in 1 .. n : s[i] \in nsbm /\ m.body = s[i].body
    BY <1>0, ParseBody
  <2>2. s[i] \in Bearers(p)
    BY <1>7, <2>1 DEF Bearers, Carries
  <2>3. i \in DOMAIN s
    BY <1>0
  <2> QED BY <1>0, <2>2, <2>3 DEF SignedBy
<1> QED BY <1>6, <1>7 DEF SignedBy

(* So is what is parsed from messages c addressed. *)
LEMMA ParsedAddressed ==
    ASSUME NEW c \in Client, NEW s \in Seq(AddressedBy(c)), NEW n \in 1 .. Len(s), NEW m \in nsbm, m = Parse(Read(s, n))
    PROVE  m \in AddressedBy(c)
<1>1. s \in Seq(nsbm)
  BY SeqMono DEF AddressedBy
<1>2. PICK x : x = s[n]
  OBVIOUS
<1>3. x \in AddressedBy(c)
  BY <1>2
<1>4. m.body = x.body /\ m.metadata.dest = x.metadata.dest
  BY <1>1, <1>2, <1>3, ParsedLast
<1>5. \A p : m \in Bearers(p) <=> x \in Bearers(p)
  BY <1>3, <1>4 DEF Bearers, Carries, AddressedBy
<1> QED BY <1>3, <1>4, <1>5 DEF AddressedBy, Bears

(* Checking out a key takes the payload out of the database. *)
LEMMA CheckOutGrows ==
    ASSUME TypeOK, NEW c \in Client, NEW m, db' = AfterCheckOut(c, m)
    PROVE  DatabaseGrows
<1>1. db \in Seq(Value)
  BY DEF TypeOK, ClientTypeOK
<1> QED BY <1>1 DEF DatabaseGrows, AfterCheckOut, IsKey

(* What was posted stays posted. *)
LEMMA PostsStay ==
    ASSUME posted \in [Client -> Seq(MessageEntry)],
           posted' = posted \/ \E c \in Client, e \in MessageEntry : Logs(posted, c, e, posted')
    PROVE  PostsKept
<1>1. CASE posted' = posted
  BY <1>1 DEF PostsKept, Wrote
<1>2. ASSUME NEW c \in Client, NEW e \in MessageEntry, Logs(posted, c, e, posted')
      PROVE  PostsKept
  <2>1. /\ \A d \in Client : d # c => posted'[d] = posted[d]
        /\ \E a : /\ DOMAIN posted'[c] = DOMAIN posted[c] \cup {a} /\ posted'[c][a] = e
                  /\ \A i \in DOMAIN posted[c] : posted'[c][i] = posted[c][i]
    BY <1>2, LogGrows
  <2>2. \A d \in Client : \A i \in DOMAIN posted[d] : i \in DOMAIN posted'[d] /\ posted'[d][i] = posted[d][i]
    BY <2>1
  <2> QED BY <2>2 DEF PostsKept, Wrote
<1> QED BY <1>1, <1>2

(* What is under way is carried over to the next state. *)
LEMMA CarriedOver ==
    ASSUME DatabaseGrows, PostsKept, KeysKnown, SendsRight
    PROVE  /\ \A c \in Client : up[<<c, "SEND">>] \in Seq(Outgoings(c)')
           /\ tx_buffer \in Seq(SignedEntry') /\ rx_buffer \in Seq(AddressedEntry')
<1>1. /\ \A c \in Client : KnownMessage \cap Outgoings(c) \subseteq Outgoings(c)'
      /\ KnownEntry \cap SignedEntry \subseteq SignedEntry'
      /\ KnownEntry \cap AddressedEntry \subseteq AddressedEntry'
  BY RightStays
<1>2. ASSUME NEW c \in Client PROVE up[<<c, "SEND">>] \in Seq(Outgoings(c)')
  <2>1. up[<<c, "SEND">>] \in Seq(KnownMessage) /\ up[<<c, "SEND">>] \in Seq(Outgoings(c))
    BY ConnFacts DEF KeysKnown, SendsRight, Channel
  <2>2. KnownMessage \cap Outgoings(c) \subseteq Outgoings(c)'
    BY <1>1
  <2> QED BY <2>1, <2>2, SeqMeet
<1>3. tx_buffer \in Seq(SignedEntry')
  BY <1>1, SeqMeet DEF KeysKnown, SendsRight
<1>4. rx_buffer \in Seq(AddressedEntry')
  BY <1>1, SeqMeet DEF KeysKnown, SendsRight
<1> QED BY <1>2, <1>3, <1>4

(* A step that adds to a SEND channel what its client may put there, and    *)
(* nothing to the buffers.                                                  *)
LEMMA SendsOn ==
    ASSUME DatabaseGrows, PostsKept, KeysKnown, SendsRight, UNCHANGED <<tx_buffer, rx_buffer>>,
           \A c \in Client : \/ Suffix(up[<<c, "SEND">>], up'[<<c, "SEND">>])
                             \/ \E m \in Outgoings(c)' : up'[<<c, "SEND">>] = Append(up[<<c, "SEND">>], m)
    PROVE  SendsRight'
<1>1. /\ \A c \in Client : up[<<c, "SEND">>] \in Seq(Outgoings(c)')
      /\ tx_buffer \in Seq(SignedEntry') /\ rx_buffer \in Seq(AddressedEntry')
  BY CarriedOver
<1>2. ASSUME NEW c \in Client PROVE up'[<<c, "SEND">>] \in Seq(Outgoings(c)')
  <2>1. PICK S : S = Outgoings(c)'
    OBVIOUS
  <2>2. PICK s : s = up[<<c, "SEND">>]
    OBVIOUS
  <2>3. PICK t : t = up'[<<c, "SEND">>]
    OBVIOUS
  <2>4. s \in Seq(S) /\ (Suffix(s, t) \/ \E m \in S : t = Append(s, m))
    BY <1>1, <2>1, <2>2, <2>3
  <2>5. t \in Seq(S)
    BY <2>4, StreamOf
  <2> QED BY <2>1, <2>3, <2>5
<1> QED BY <1>1, <1>2 DEF SendsRight

(* What the daemon reads on a SEND channel it buffers as it was sent. *)
LEMMA HandlerSends ==
    ASSUME SystemMode = "PULL", LogInv, SendsRight,
           NEW k \in Conn, NEW n \in Nat, NEW m \in nsbm, HandlerStepKind(k, n, m)
    PROVE  SendsRight'
<1>0. /\ TypeOK /\ AsksRight /\ up \in [Conn -> Seq(nsbm)]
      /\ tx_buffer \in Seq(SignedEntry) /\ rx_buffer \in Seq(AddressedEntry)
  BY DEF LogInv, BridgeInv, PlaceInv, TypeInv, KindInv, TypeOK, SocketsTypeOK, SendsRight
<1>1. PICK c \in Client, ch \in Channel : k = <<c, ch>>
  BY DEF Conn
<1>2. DaemonReads(k, n, m)
  BY DEF HandlerStepKind, SendStep, PostStep, ReceiveStep, FetchStep, ForwardStep
<1>3. UNCHANGED <<db, posted>> /\ n \in 1 .. Len(up[k]) /\ m = Parse(Read(up[k], n)) /\ up' = [up EXCEPT ![k] = Unread(@, n)]
  BY <1>2 DEF DaemonReads
<1>4. SignedEntry' = SignedEntry /\ AddressedEntry' = AddressedEntry /\ \A d \in Client : Outgoings(d)' = Outgoings(d)
  BY <1>3 DEF SignedEntry, AddressedEntry, Outgoings, SignedBy, AddressedBy, Entries, Bearers, Carries, Names, IsKey, Wrote
<1>5. ASSUME NEW d \in Client PROVE up'[<<d, "SEND">>] \in Seq(Outgoings(d)')
  <2>1. up[<<d, "SEND">>] \in Seq(Outgoings(d)) /\ <<d, "SEND">> \in Conn /\ up[<<d, "SEND">>] \in Seq(nsbm)
    BY <1>0, ConnFacts DEF SendsRight, Channel
  <2>2. /\ k = <<d, "SEND">> => up'[<<d, "SEND">>] = Unread(up[k], n)
        /\ k # <<d, "SEND">> => up'[<<d, "SEND">>] = up[<<d, "SEND">>]
    <3>1. PICK v \in Conn : v = <<d, "SEND">>
      BY <2>1
    <3>2. n \in 0 .. Len(up[k])
      BY <1>3
    <3>3. up'[k] = Unread(up[k], n) /\ \A j \in Conn : j # k => up'[j] = up[j]
      BY <1>0, <1>3, <3>2, ReadAt
    <3>4. (k = v => up'[v] = Unread(up[k], n)) /\ (k # v => up'[v] = up[v])
      BY <3>3
    <3> QED BY <3>1, <3>4
  <2>3. ASSUME k = <<d, "SEND">> PROVE Unread(up[k], n) \in Seq(Outgoings(d))
    <3>1. PICK s : s = up[k]
      OBVIOUS
    <3>2. s \in Seq(Outgoings(d)) /\ n \in 0 .. Len(s)
      BY <1>3, <2>1, <2>3, <3>1
    <3>3. Suffix(s, Unread(s, n))
      BY <3>2 DEF Suffix, Unread
    <3> QED BY <3>1, <3>2, <3>3, HitsSuffix
  <2>4. up'[<<d, "SEND">>] \in Seq(Outgoings(d))
    BY <2>1, <2>2, <2>3
  <2> QED BY <1>4, <2>4
<1>6. m.op \in AskedOps(c, ch)
  BY <1>0, <1>1, <1>2, HandlerAsked
<1>7. CASE SendStep(k, n, m)
  <2>1. IsApp(c) /\ ch = "SEND"
    BY <1>6, <1>7 DEF SendStep, AskedOps, Channel
  <2>2. up[k] \in Seq(SignedBy(c))
    BY <1>1, <2>1 DEF SendsRight, Outgoings
  <2>3. m \in SignedBy(c)
    BY <1>3, <2>2, ParsedSigned
  <2>4. PICK e : e = Entry(UseDB, m)
    OBVIOUS
  <2>5. e \in MessageEntry /\ e.source = Ident[c]
    BY <2>3, <2>4, MessageTypes, ConfigAssumption DEF Entry, SignedBy
  <2>6. e \in SignedEntry
    BY <2>3, <2>4, <2>5, SamePayload DEF SignedEntry, SignedBy
  <2>7. tx_buffer' \in Seq(SignedEntry)
    BY <1>0, <1>7, <2>4, <2>6 DEF SendStep
  <2>8. rx_buffer' \in Seq(AddressedEntry)
    BY <1>0, <1>7 DEF SendStep
  <2> QED BY <1>4, <1>5, <2>7, <2>8 DEF SendsRight
<1>8. CASE PostStep(k, n, m)
  <2>1. ~IsApp(c) /\ ch = "SEND"
    BY <1>6, <1>8 DEF PostStep, AskedOps, Channel
  <2>2. up[k] \in Seq(AddressedBy(c))
    BY <1>1, <2>1 DEF SendsRight, Outgoings
  <2>3. m \in AddressedBy(c)
    BY <1>3, <2>2, ParsedAddressed
  <2>4. PICK e : e = Entry(UseDB, m)
    OBVIOUS
  <2>5. e \in MessageEntry /\ e.destination = m.metadata.dest
    BY <2>4, MessageTypes, ConfigAssumption DEF Entry
  <2>6. e \in AddressedEntry
    BY <2>3, <2>4, <2>5, SamePayload DEF AddressedEntry, AddressedBy
  <2>7. rx_buffer' \in Seq(AddressedEntry)
    BY <1>0, <1>8, <2>4, <2>6 DEF PostStep
  <2>8. tx_buffer' \in Seq(SignedEntry)
    BY <1>0, <1>8 DEF PostStep
  <2> QED BY <1>4, <1>5, <2>7, <2>8 DEF SendsRight
<1>9. CASE FetchStep(k, n, m)
  <2>1. tx_buffer' \in Seq(SignedEntry)
    <3>1. PICK i \in DOMAIN tx_buffer : tx_buffer' = RemoveAt(tx_buffer, i)
      BY <1>9 DEF FetchStep
    <3> QED BY <1>0, <3>1, RemoveAtType
  <2>2. rx_buffer' \in Seq(AddressedEntry)
    BY <1>0, <1>9 DEF FetchStep
  <2> QED BY <1>4, <1>5, <2>1, <2>2 DEF SendsRight
<1>10. CASE ReceiveStep(k, n, m)
  <2>1. rx_buffer' \in Seq(AddressedEntry)
    <3>1. PICK i \in DOMAIN rx_buffer : rx_buffer' = RemoveAt(rx_buffer, i)
      BY <1>10 DEF ReceiveStep
    <3> QED BY <1>0, <3>1, RemoveAtType
  <2>2. tx_buffer' \in Seq(SignedEntry)
    BY <1>0, <1>10 DEF ReceiveStep
  <2> QED BY <1>4, <1>5, <2>1, <2>2 DEF SendsRight
<1> QED BY <1>7, <1>8, <1>9, <1>10 DEF HandlerStepKind, ForwardStep

(* SendsRight is kept by every step. *)
LEMMA SendsRightStep ==
    ASSUME SystemMode = "PULL", LogInv, LogInv', SendsRight, [Next]_vars
    PROVE  SendsRight'
<1>0. /\ TypeInv /\ TypeOK /\ KeysKnown /\ BridgeInv' /\ up \in [Conn -> Seq(nsbm)] /\ posted \in [Client -> Seq(MessageEntry)]
      /\ \A c \in Client : <<c, "SEND">> \in Conn /\ Suffix(up[<<c, "SEND">>], up[<<c, "SEND">>])
  <2>1. /\ TypeInv /\ TypeOK /\ KeysKnown /\ BridgeInv' /\ up \in [Conn -> Seq(nsbm)] /\ posted \in [Client -> Seq(MessageEntry)]
    BY DEF LogInv, BridgeInv, PlaceInv, TypeInv, TypeOK, SocketsTypeOK, ClientTypeOK
  <2>2. \A c \in Client : <<c, "SEND">> \in Conn
    BY ConnFacts DEF Channel
  <2> QED BY <2>1, <2>2, SuffixFacts
<1>1. ASSUME NEW c \in Client, NEW m \in Outgoings(c)', SendMessage(c, "SEND", m), NEW d \in Client
      PROVE  \/ Suffix(up[<<d, "SEND">>], up'[<<d, "SEND">>])
             \/ \E x \in Outgoings(d)' : up'[<<d, "SEND">>] = Append(up[<<d, "SEND">>], x)
  <2>1. CASE c = d
    <3>1. up'[<<d, "SEND">>] = up[<<d, "SEND">>] \/ up'[<<d, "SEND">>] = Append(up[<<d, "SEND">>], m)
      BY <1>0, <1>1, <2>1 DEF SendMessage, UpAfterSend
    <3> QED BY <1>0, <1>1, <2>1, <3>1
  <2>2. CASE c # d
    <3>1. <<c, "SEND">> # <<d, "SEND">>
      BY <2>2
    <3>2. up'[<<d, "SEND">>] = up[<<d, "SEND">>]
      BY <1>0, <1>1, <3>1 DEF SendMessage, UpAfterSend
    <3> QED BY <1>0, <3>2
  <2> QED BY <2>1, <2>2
<1>2. ASSUME posted' = posted PROVE PostsKept
  BY <1>0, <1>2, PostsStay
<1>3. CASE QuietStep
  <2>1. UNCHANGED <<db, posted, tx_buffer, rx_buffer>> /\ UNCHANGED dataVars
    BY <1>3 DEF QuietStep, dataVars
  <2>2. DatabaseGrows
    BY <2>1 DEF DatabaseGrows
  <2>3. \A d \in Client : Suffix(up[<<d, "SEND">>], up'[<<d, "SEND">>])
    BY <1>0, <2>1, QuietSends
  <2> QED BY <1>0, <1>2, <2>1, <2>2, <2>3, SendsOn
<1>4. ASSUME NEW k \in Conn, NEW n \in Nat, NEW m \in nsbm, HandlerStepKind(k, n, m) PROVE SendsRight'
  BY <1>4, HandlerSends
<1>5. ASSUME NEW c \in Client, NEW n \in Nat, NEW m \in nsbm, ReceivedStep(c, n, m) \/ FetchedStep(c, n, m)
      PROVE  SendsRight'
  <2>1. UNCHANGED <<up, posted, tx_buffer, rx_buffer>> /\ db' = AfterCheckOut(c, m)
    BY <1>5 DEF ReceivedStep, FetchedStep, ClientReads
  <2>2. DatabaseGrows
    BY <1>0, <2>1, CheckOutGrows
  <2> QED BY <1>0, <1>2, <2>1, <2>2, SendsOn
<1>6. ASSUME NEW c \in Client, NEW d \in SendTo[c], send(c, d) PROVE SendsRight'
  <2>1. PICK m \in nsbm :
          /\ SendMessage(c, "SEND", m) /\ m.metadata.src = Ident[c]
          /\ \A p \in Payload : m \in Bearers(p)' => p = <<c, nsent[c] + 1>>
          /\ DatabaseGrows /\ IsApp(c)
          /\ UNCHANGED <<tx_buffer, rx_buffer, posted>>
    BY <1>0, <1>6, SendPuts
  <2>2. m \in Outgoings(c)'
    <3>1. \A p \in Payload : m \in Bearers(p)' => p[1] = c
      BY <2>1
    <3> QED BY <2>1, <3>1 DEF Outgoings, SignedBy
  <2>3. \A a \in Client : \/ Suffix(up[<<a, "SEND">>], up'[<<a, "SEND">>])
                          \/ \E x \in Outgoings(a)' : up'[<<a, "SEND">>] = Append(up[<<a, "SEND">>], x)
    BY <1>1, <2>1, <2>2
  <2> QED BY <1>0, <1>2, <2>1, <2>3, SendsOn
<1>7. ASSUME NEW c \in Client, NEW e \in Network, post(c, e) PROVE SendsRight'
  <2>1. PICK m \in nsbm :
          /\ SendMessage(c, "SEND", m) /\ Bears(m) /\ m.metadata.dest = e.destination /\ e.destination # ""
          /\ \A p \in Payload : m \in Bearers(p)' => p = e.payload_obj
          /\ DatabaseGrows /\ ~IsApp(c)
          /\ UNCHANGED <<tx_buffer, rx_buffer>>
    BY <1>7, PostPuts
  <2>2. e \in MessageEntry /\ posted' = [posted EXCEPT ![c] = Append(@, e)]
    BY <1>0, <1>7, PostedNow
  <2>3. Logs(posted, c, e, posted')
    BY <2>2 DEF Logs
  <2>4. PostsKept
    BY <1>0, <2>2, <2>3, PostsStay
  <2>5. \E i \in DOMAIN posted'[c] : posted'[c][i] = e
    <3>1. \E a : DOMAIN posted'[c] = DOMAIN posted[c] \cup {a} /\ posted'[c][a] = e
      BY <1>0, <2>2, <2>3, LogGrows
    <3> QED BY <3>1
  <2>6. \A p \in Payload : m \in Bearers(p)' => Wrote(c, p, m.metadata.dest)'
    BY <2>1, <2>5 DEF Wrote
  <2>7. m \in Outgoings(c)'
    BY <2>1, <2>6 DEF Outgoings, AddressedBy
  <2>8. \A a \in Client : \/ Suffix(up[<<a, "SEND">>], up'[<<a, "SEND">>])
                          \/ \E x \in Outgoings(a)' : up'[<<a, "SEND">>] = Append(up[<<a, "SEND">>], x)
    BY <1>1, <2>1, <2>7
  <2> QED BY <1>0, <2>1, <2>4, <2>8, SendsOn
<1> QED BY <1>0, <1>3, <1>4, <1>5, <1>6, <1>7, DataSteps DEF ClientStepKind

(* At the start nothing was sent. *)
LEMMA SendsRightInit == Init => SendsRight
<1>1. \A S : <<>> \in Seq(S)
  OBVIOUS
<1>2. Init => up = [k \in Conn |-> <<>>] /\ tx_buffer = <<>> /\ rx_buffer = <<>>
  BY DEF Init, SocketsInit, DaemonInit
<1>3. \A c \in Client : <<c, "SEND">> \in Conn
  BY ConnFacts DEF Channel
<1> QED BY <1>1, <1>2, <1>3 DEF SendsRight

-----------------------------------------------------------------------------
(* The two ways.                                                           *)

FetchPath(c, p) == Line(fetched[c], down[<<c, "RECV">>], tx_buffer, up[<<p[1], "SEND">>], p)
ReceivePath(c, s, p) == Line(received[c], down[<<c, "RECV">>], rx_buffer, up[<<s, "SEND">>], p)

(* An application's payloads come to a simulator client in the order of the *)
(* send() calls.                                                            *)
FetchAhead ==
    \A c \in Client : ~IsApp(c) =>
        \A p, r \in Payload :
            IsApp(p[1]) /\ r[1] = p[1] /\ r[2] <= p[2] => Ahead(FetchPath(c, p), FetchPath(c, r))

PostedBefore(s, r, p) ==
    \E k, l \in DOMAIN posted[s] :
        /\ l <= k /\ posted[s][k].payload_obj = p /\ posted[s][l].payload_obj = r
        /\ posted[s][k].destination = posted[s][l].destination

(* What a simulator client posts to one destination comes to an application *)
(* in the order of the post() calls.                                        *)
ReceiveAhead ==
    \A c, s \in Client : IsApp(c) /\ ~IsApp(s) =>
        \A p, r \in Payload : PostedBefore(s, r, p) => Ahead(ReceivePath(c, s, p), ReceivePath(c, s, r))

OrderInv == LogInv /\ SendsRight /\ FetchAhead /\ ReceiveAhead

(* What is on them is known. *)
LEMMA LinesKnown ==
    ASSUME LogInv, NEW c \in Client, NEW a \in Client
    PROVE  /\ KnownLine(fetched[c], down[<<c, "RECV">>], tx_buffer, up[<<a, "SEND">>])
           /\ KnownLine(received[c], down[<<c, "RECV">>], rx_buffer, up[<<a, "SEND">>])
<1>1. /\ up \in [Conn -> Seq(KnownMessage)] /\ down \in [Conn -> Seq(KnownMessage)]
      /\ tx_buffer \in Seq(KnownEntry) /\ rx_buffer \in Seq(KnownEntry)
  BY DEF LogInv, BridgeInv, PlaceInv, KeysKnown
<1>2. fetched[c] \in Seq(MessageEntry) /\ received[c] \in Seq(MessageEntry)
  BY DEF LogInv, BridgeInv, PlaceInv, TypeInv, TypeOK, ClientTypeOK
<1>3. <<c, "RECV">> \in Conn /\ <<a, "SEND">> \in Conn
  BY ConnFacts DEF Channel
<1> QED BY <1>1, <1>2, <1>3 DEF KnownLine

(* Steps that leave a sequence calm. *)
LEMMA CalmKinds ==
    ASSUME NEW T, NEW s \in Seq(T), NEW C
    PROVE  /\ Calm(s, s, T, C)
           /\ \A t : Suffix(s, t) => Calm(s, t, T, C)
           /\ \A n \in 1 .. Len(s) : Calm(s, Unread(s, n), T, C)
           /\ \A x \in T : x \notin C => Calm(s, Append(s, x), T, C)
           /\ \A i \in DOMAIN s : Calm(s, RemoveAt(s, i), T, C)
<1>1. Suffix(s, s)
  BY SuffixSelf
<1>2. ASSUME NEW n \in 1 .. Len(s) PROVE Suffix(s, Unread(s, n))
  <2>1. n \in 0 .. Len(s)
    OBVIOUS
  <2> QED BY <2>1 DEF Suffix, Unread
<1> QED BY <1>1, <1>2 DEF Calm

LEMMA QuietCalm ==
    ASSUME NEW s \in Seq(nsbm), NEW t, Quiet(s, t), NEW p, NEW r
    PROVE  Calm(s, t, nsbm, Bearers(p)' \cup Bearers(r)')
<1>1. ASSUME NEW m \in nsbm, ~Bears(m) PROVE m \notin Bearers(p)' \cup Bearers(r)'
  BY <1>1 DEF Bears, Bearers, Carries
<1> QED BY <1>1 DEF Quiet, Calm

(* A write to a SEND channel, and a read of one. *)
LEMMA SendEnds ==
    ASSUME TypeOK, NEW c \in Client, NEW m, SendMessage(c, "SEND", m), NEW a \in Client
    PROVE  \/ up'[<<a, "SEND">>] = up[<<a, "SEND">>]
           \/ a = c /\ up'[<<a, "SEND">>] = Append(up[<<a, "SEND">>], m)
<1>1. up \in [Conn -> Seq(nsbm)] /\ <<a, "SEND">> \in Conn
  BY ConnFacts DEF TypeOK, SocketsTypeOK, Channel
<1>2. CASE a = c
  BY <1>1, <1>2 DEF SendMessage, UpAfterSend
<1>3. CASE a # c
  <2>1. <<c, "SEND">> # <<a, "SEND">>
    BY <1>3
  <2> QED BY <1>1, <2>1 DEF SendMessage, UpAfterSend
<1> QED BY <1>2, <1>3

LEMMA ReadEnds ==
    ASSUME TypeOK, NEW k \in Conn, NEW n, NEW m, DaemonReads(k, n, m)
    PROVE  /\ up[k] \in Seq(nsbm) /\ n \in 1 .. Len(up[k]) /\ m = Parse(Read(up[k], n))
           /\ up'[k] = Unread(up[k], n) /\ \A j \in Conn : j # k => up'[j] = up[j]
<1>1. up \in [Conn -> Seq(nsbm)] /\ n \in 1 .. Len(up[k]) /\ up' = [up EXCEPT ![k] = Unread(@, n)]
  BY DEF TypeOK, SocketsTypeOK, DaemonReads
<1>2. n \in 0 .. Len(up[k])
  BY <1>1
<1> QED BY <1>1, <1>2, ReadAt DEF DaemonReads

(* What comes onto a way at its start is behind everything on it. *)
LEMMA LineStarts ==
    ASSUME NEW p \in Payload, NEW r \in Payload, DatabaseGrows,
           NEW s1, NEW s2, NEW s3, NEW s4, KnownLine(s1, s2, s3, s4), NEW m \in nsbm,
           NEW t4, t4 = s4 \/ t4 = Append(s4, m),
           Hits(s1, Mail(p)) = {}, Hits(s2, Bearers(p)) = {}, Hits(s3, Entries(p)) = {}, Hits(s4, Bearers(p)) = {}
    PROVE  Ahead(LineAfter(s1, s2, s3, t4, p), LineAfter(s1, s2, s3, t4, r))
<1>0. /\ s1 \in Seq(MessageEntry) /\ s2 \in Seq(nsbm) /\ s3 \in Seq(MessageEntry) /\ s4 \in Seq(nsbm)
      /\ s2 \in Seq(KnownMessage) /\ s3 \in Seq(KnownEntry) /\ s4 \in Seq(KnownMessage)
  BY KnownSeq DEF KnownLine
<1>1. KnownMessage \cap Bearers(p)' \subseteq Bearers(p) /\ KnownEntry \cap Entries(p)' \subseteq Entries(p)
  BY NamesShrink DEF DatabaseGrows
<1>2. Hits(s2, Bearers(p)') = {} /\ Hits(s3, Entries(p)') = {} /\ Hits(s4, Bearers(p)') = {}
  <2>1. \A i \in DOMAIN s2 : s2[i] \in KnownMessage /\ s2[i] \notin Bearers(p)
    BY <1>0 DEF Hits
  <2>2. \A i \in DOMAIN s3 : s3[i] \in KnownEntry /\ s3[i] \notin Entries(p)
    BY <1>0 DEF Hits
  <2>3. \A i \in DOMAIN s4 : s4[i] \in KnownMessage /\ s4[i] \notin Bearers(p)
    BY <1>0 DEF Hits
  <2> QED BY <1>1, <2>1, <2>2, <2>3 DEF Hits
<1>3. t4 \in Seq(nsbm) /\ Hits(t4, Bearers(p)') \subseteq {Len(t4)}
  <2>1. CASE t4 = s4
    BY <1>0, <1>2, <2>1
  <2>2. CASE t4 = Append(s4, m)
    <3>1. t4 \in Seq(nsbm) /\ Len(t4) = Len(s4) + 1
      BY <1>0, <2>2
    <3>2. \A j \in DOMAIN t4 : (j \in DOMAIN s4 /\ t4[j] = s4[j]) \/ j = Len(s4) + 1
      BY <1>0, <2>2, HitsAppend
    <3> QED BY <1>2, <3>1, <3>2 DEF Hits
  <2> QED BY <2>1, <2>2
<1>4. IsPath(LineAfter(s1, s2, s3, t4, p)) /\ IsPath(LineAfter(s1, s2, s3, t4, r))
  BY <1>0, <1>3, LineIsPath DEF LineAfter
<1>5. /\ LineAfter(s1, s2, s3, t4, p)[1] = {} /\ LineAfter(s1, s2, s3, t4, p)[2] = {}
      /\ LineAfter(s1, s2, s3, t4, p)[3] = {} /\ LineAfter(s1, s2, s3, t4, p)[4] \subseteq {Len(t4)}
      /\ LineAfter(s1, s2, s3, t4, r)[4] = Hits(t4, Bearers(r)')
  BY <1>2, <1>3 DEF LineAfter
<1> QED BY <1>3, <1>4, <1>5, LineEntered

(* What was not sent is nowhere on the way to a caller of fetch(), and what *)
(* is in the network is nowhere on the way to one of receive().             *)
LEMMA NotYet ==
    ASSUME LogInv, NEW p \in Payload, NEW c \in Client, NEW a \in Client
    PROVE  /\ ~Sent(p) => /\ Hits(fetched[c], Mail(p)) = {} /\ Hits(down[<<c, "RECV">>], Bearers(p)) = {}
                          /\ Hits(tx_buffer, Entries(p)) = {} /\ Hits(up[<<a, "SEND">>], Bearers(p)) = {}
           /\ StageOf(p) = "network" =>
                 /\ Hits(received[c], Mail(p)) = {} /\ Hits(rx_buffer, Entries(p)) = {}
                 /\ IsApp(c) => Hits(down[<<c, "RECV">>], Bearers(p)) = {}
                 /\ ~IsApp(a) => Hits(up[<<a, "SEND">>], Bearers(p)) = {}
<1>1. PlaceInv /\ StageRight(p) /\ Unique(Boxes(p), Sent(p))
  BY StageIs DEF LogInv, BridgeInv, PlaceInv
<1>2. <<c, "RECV">> \in Conn /\ <<a, "SEND">> \in Conn
  BY ConnFacts DEF Channel
<1>3. ASSUME ~Sent(p)
      PROVE  /\ Hits(fetched[c], Mail(p)) = {} /\ Hits(down[<<c, "RECV">>], Bearers(p)) = {}
             /\ Hits(tx_buffer, Entries(p)) = {} /\ Hits(up[<<a, "SEND">>], Bearers(p)) = {}
  <2>1. \A x \in Box : Boxes(p)[x] = {}
    BY <1>1, <1>3 DEF Unique
  <2>2. StageOf(p) = "unsent"
    BY <1>1, <1>3, <2>1 DEF StageRight
  <2>3. Hits(fetched[c], Mail(p)) = {}
    <3>1. ASSUME NEW i \in DOMAIN fetched[c] PROVE fetched[c][i].payload_obj # p
      <4>1. fetched[c][i] \in Logged(fetched)
        BY DEF Logged
      <4> QED BY <2>2, <4>1 DEF LogInv, FetchedLate, OnBoard
    <3> QED BY <3>1 DEF Hits, Mail
  <2> QED BY <1>2, <2>1, <2>3, BoxKinds, BoxesAre
<1>4. ASSUME StageOf(p) = "network"
      PROVE  /\ Hits(received[c], Mail(p)) = {} /\ Hits(rx_buffer, Entries(p)) = {}
             /\ IsApp(c) => Hits(down[<<c, "RECV">>], Bearers(p)) = {}
             /\ ~IsApp(a) => Hits(up[<<a, "SEND">>], Bearers(p)) = {}
  <2>1. \A x \in Box : BoxStage(x) # "network" => Boxes(p)[x] = {}
    BY <1>1, <1>4 DEF StageRight
  <2>2. /\ BoxStage(<<"received", c>>) = "delivered" /\ BoxStage(RxBox) = "returning"
        /\ IsApp(c) => BoxStage(<<"down", <<c, "RECV">> >>) = "returning"
        /\ ~IsApp(a) => BoxStage(<<"up", <<a, "SEND">> >>) = "returning"
    BY BoxStages DEF Channel
  <2>3. Boxes(p)[<<"received", c>>] = {} /\ Boxes(p)[RxBox] = {}
    BY <2>1, <2>2, BoxKinds
  <2>4. IsApp(c) => Boxes(p)[<<"down", <<c, "RECV">> >>] = {}
    BY <1>2, <2>1, <2>2, BoxKinds
  <2>5. ~IsApp(a) => Boxes(p)[<<"up", <<a, "SEND">> >>] = {}
    BY <1>2, <2>1, <2>2, BoxKinds
  <2> QED BY <1>2, <2>3, <2>4, <2>5, BoxesAre
<1> QED BY <1>3, <1>4

(* FetchAhead is kept by every step. *)
LEMMA FetchAheadStep ==
    ASSUME SystemMode = "PULL", LogInv, LogInv', SendsRight, [Next]_vars,
           NEW c \in Client, ~IsApp(c), NEW a \in Client, IsApp(a),
           NEW p \in Payload, NEW r \in Payload, p[1] = a, r[1] = a, r[2] <= p[2],
           Ahead(FetchPath(c, p), FetchPath(c, r))
    PROVE  Ahead(FetchPath(c, p)', FetchPath(c, r)')
<1>0. /\ TypeInv /\ TypeOK /\ KeysKnown /\ AsksRight /\ CallsRight /\ BridgeInv'
      /\ up \in [Conn -> Seq(nsbm)] /\ down \in [Conn -> Seq(nsbm)] /\ fetched \in [Client -> Seq(MessageEntry)]
      /\ tx_buffer \in Seq(SignedEntry)
  BY DEF LogInv, BridgeInv, PlaceInv, TypeInv, KindInv, TypeOK, SocketsTypeOK, ClientTypeOK, SendsRight
<1>1. <<c, "RECV">> \in Conn /\ <<a, "SEND">> \in Conn /\ \A d \in Client : <<d, "RECV">> \in Conn
  BY ConnFacts DEF Channel
<1>2. PICK s1, s2, s3, s4 : s1 = fetched[c] /\ s2 = down[<<c, "RECV">>] /\ s3 = tx_buffer /\ s4 = up[<<a, "SEND">>]
  OBVIOUS
<1>3. PICK t1, t2, t3, t4 : t1 = fetched'[c] /\ t2 = down'[<<c, "RECV">>] /\ t3 = tx_buffer' /\ t4 = up'[<<a, "SEND">>]
  OBVIOUS
<1>4. KnownLine(s1, s2, s3, s4)
  BY <1>2, LinesKnown
<1>5. s1 \in Seq(MessageEntry) /\ s2 \in Seq(nsbm) /\ s3 \in Seq(MessageEntry) /\ s4 \in Seq(nsbm)
  BY <1>4, KnownSeq
<1>6. Ahead(Line(s1, s2, s3, s4, p), Line(s1, s2, s3, s4, r))
  BY <1>2 DEF FetchPath
<1> DEFINE Goal == Ahead(LineAfter(t1, t2, t3, t4, p), LineAfter(t1, t2, t3, t4, r))
<1>7. SUFFICES Goal
  BY <1>3 DEF FetchPath, Line, LineAfter, Bearers, Entries, Mail
<1>8. /\ Calm(s1, s1, MessageEntry, Mail(p) \cup Mail(r))
      /\ Calm(s2, s2, nsbm, Bearers(p)' \cup Bearers(r)')
      /\ Calm(s3, s3, MessageEntry, Entries(p)' \cup Entries(r)')
      /\ Calm(s4, s4, nsbm, Bearers(p)' \cup Bearers(r)')
  BY <1>5, CalmKinds
<1>9. ASSUME DatabaseGrows, t1 = s1,
             Calm(s2, t2, nsbm, Bearers(p)' \cup Bearers(r)'),
             Calm(s3, t3, MessageEntry, Entries(p)' \cup Entries(r)'),
             Calm(s4, t4, nsbm, Bearers(p)' \cup Bearers(r)')
      PROVE  Goal
  BY <1>4, <1>6, <1>8, <1>9, LineStill
<1>10. ASSUME db' = db PROVE DatabaseGrows
  BY <1>10 DEF DatabaseGrows
<1>11. CASE QuietStep
  <2>1. UNCHANGED <<db, fetched, tx_buffer>> /\ Quiet(up[<<a, "SEND">>], up'[<<a, "SEND">>])
      /\ Quiet(down[<<c, "RECV">>], down'[<<c, "RECV">>])
    BY <1>1, <1>11 DEF QuietStep, Plainly, dataVars
  <2>2. t1 = s1 /\ t3 = s3 /\ Quiet(s2, t2) /\ Quiet(s4, t4)
    BY <1>2, <1>3, <2>1
  <2>3. Calm(s2, t2, nsbm, Bearers(p)' \cup Bearers(r)') /\ Calm(s4, t4, nsbm, Bearers(p)' \cup Bearers(r)')
    BY <1>5, <2>2, QuietCalm
  <2> QED BY <1>8, <1>9, <1>10, <2>1, <2>2, <2>3
<1>12. ASSUME NEW k \in Conn, NEW n \in Nat, NEW m \in nsbm, HandlerStepKind(k, n, m) PROVE Goal
  <2>1. PICK d \in Client, ch \in Channel : k = <<d, ch>>
    BY DEF Conn
  <2>2. DaemonReads(k, n, m)
    BY <1>12 DEF HandlerStepKind, SendStep, PostStep, ReceiveStep, FetchStep, ForwardStep
  <2>3. /\ up[k] \in Seq(nsbm) /\ n \in 1 .. Len(up[k]) /\ m = Parse(Read(up[k], n))
        /\ up'[k] = Unread(up[k], n) /\ \A j \in Conn : j # k => up'[j] = up[j]
    BY <1>0, <2>2, ReadEnds
  <2>4. db' = db /\ t1 = s1 /\ m.op \in AskedOps(d, ch)
    BY <1>0, <1>2, <1>3, <2>1, <2>2, HandlerAsked DEF DaemonReads
  <2>5. (k = <<a, "SEND">> => n \in 1 .. Len(s4) /\ m = Parse(Read(s4, n)) /\ t4 = Unread(s4, n)) /\ (k # <<a, "SEND">> => t4 = s4)
    BY <1>1, <1>2, <1>3, <2>3
  <2>6. Calm(s4, t4, nsbm, Bearers(p)' \cup Bearers(r)')
    BY <1>5, <1>8, <2>5, CalmKinds
  <2>7. CASE SendStep(k, n, m)
    <3>1. IsApp(d) /\ ch = "SEND" /\ t2 = s2 /\ t3 = Append(s3, Entry(UseDB, m))
      BY <1>2, <1>3, <2>4, <2>7 DEF SendStep, AskedOps, Channel
    <3>2. CASE d = a
      <4>1. n \in 1 .. Len(s4) /\ m = Parse(Read(s4, n)) /\ t4 = Unread(s4, n)
        BY <2>1, <2>5, <3>1, <3>2
      <4> QED BY <1>4, <1>6, <2>4, <3>1, <4>1, LineBuffered
    <3>3. CASE d # a
      <4>1. up[k] \in Seq(SignedBy(d))
        BY <2>1, <3>1 DEF SendsRight, Outgoings
      <4>2. m \in SignedBy(d)
        BY <2>3, <4>1, ParsedSigned
      <4>3. m \notin Bearers(p) /\ m \notin Bearers(r)
        BY <3>3, <4>2 DEF SignedBy
      <4>4. Entry(UseDB, m) \notin Entries(p)' \cup Entries(r)'
        BY <2>4, <4>3, SamePayload, SameNames
      <4>5. Entry(UseDB, m) \in MessageEntry
        BY MessageTypes, ConfigAssumption
      <4>6. Calm(s3, t3, MessageEntry, Entries(p)' \cup Entries(r)')
        BY <1>5, <3>1, <4>4, <4>5, CalmKinds
      <4> QED BY <1>8, <1>9, <1>10, <2>4, <2>6, <3>1, <4>6
    <3> QED BY <3>2, <3>3
  <2>8. CASE PostStep(k, n, m)
    <3>1. t2 = s2 /\ t3 = s3
      BY <1>2, <1>3, <2>8 DEF PostStep
    <3> QED BY <1>8, <1>9, <1>10, <2>4, <2>6, <3>1
  <2>9. CASE ReceiveStep(k, n, m)
    <3>1. IsApp(d) /\ ch = "RECV" /\ t3 = s3
      BY <1>2, <1>3, <2>4, <2>9 DEF ReceiveStep, AskedOps, Channel
    <3>2. PICK x : Writes(k, x)
      BY <2>9 DEF ReceiveStep
    <3>3. k # <<c, "RECV">>
      BY <2>1, <3>1
    <3>4. t2 = s2
      BY <1>0, <1>1, <1>2, <1>3, <3>2, <3>3 DEF Writes
    <3> QED BY <1>8, <1>9, <1>10, <2>4, <2>6, <3>1, <3>4
  <2>10. CASE FetchStep(k, n, m)
    <3>1. ~IsApp(d) /\ ch = "RECV" /\ t4 = s4
      <4>1. ~IsApp(d) /\ ch = "RECV"
        BY <2>4, <2>10 DEF FetchStep, AskedOps, Channel
      <4>2. k # <<a, "SEND">>
        BY <2>1, <4>1
      <4> QED BY <2>5, <4>1, <4>2
    <3>2. PICK i \in DOMAIN tx_buffer :
              /\ m.metadata.src \in {"", tx_buffer[i].source}
              /\ \A j \in 1 .. (i - 1) : m.metadata.src \notin {"", tx_buffer[j].source}
              /\ tx_buffer' = RemoveAt(tx_buffer, i)
              /\ Writes(k, EntryReply("FETCH", tx_buffer[i]))
      BY <2>10 DEF FetchStep
    <3>3. i \in DOMAIN s3 /\ t3 = RemoveAt(s3, i) /\ Writes(k, EntryReply("FETCH", s3[i]))
      BY <1>2, <1>3, <3>2
    <3>4. Calm(s3, t3, MessageEntry, Entries(p)' \cup Entries(r)')
      BY <1>5, <3>3, CalmKinds
    <3>5. CASE t2 = s2
      BY <1>8, <1>9, <1>10, <2>4, <2>6, <3>4, <3>5
    <3>6. CASE t2 # s2
      <4>1. k = <<c, "RECV">> /\ t2 = Append(s2, EntryReply("FETCH", s3[i]))
        BY <1>0, <1>1, <1>2, <1>3, <3>3, <3>6 DEF Writes
      <4>2. ASSUME s3[i] \in Entries(p), NEW j \in 1 .. (i - 1) PROVE s3[j] \notin Entries(r)
        <5>1. s3 \in Seq(SignedEntry)
          BY <1>0, <1>2
        <5>2. i \in 1 .. Len(s3) /\ j \in 1 .. Len(s3) /\ Len(s3) \in Nat
          BY <3>3, <5>1
        <5>3. s3[i] \in SignedEntry /\ s3[j] \in SignedEntry
          BY <5>1, <5>2
        <5>4. s3[i].source = Ident[a] /\ (s3[j] \in Entries(r) => s3[j].source = Ident[a])
          BY <4>2, <5>3 DEF SignedEntry
        <5>5. m.metadata.src \in {"", s3[i].source} /\ m.metadata.src \notin {"", s3[j].source}
          BY <1>2, <3>2
        <5> QED BY <5>4, <5>5
      <4>3. s3[i] \in Entries(p) => \A j \in 1 .. (i - 1) : s3[j] \notin Entries(r)
        BY <4>2
      <4>4. t1 = s1 /\ t4 = s4 /\ db' = db
        BY <2>4, <3>1
      <4>5. Ahead(LineAfter(s1, t2, t3, s4, p), LineAfter(s1, t2, t3, s4, r))
        BY <1>4, <1>6, <3>3, <4>1, <4>3, <4>4, LineAnswered
      <4> QED BY <4>4, <4>5
    <3> QED BY <3>5, <3>6
  <2> QED BY <1>12, <2>7, <2>8, <2>9, <2>10 DEF HandlerStepKind, ForwardStep
<1>13. ASSUME NEW d \in Client, NEW n \in Nat, NEW m \in nsbm, ClientReads(d, n, m) PROVE
          /\ DatabaseGrows /\ t3 = s3 /\ t4 = s4
          /\ d # c => t2 = s2
  <2>1. /\ db' = AfterCheckOut(d, m) /\ UNCHANGED <<up, tx_buffer>>
        /\ down' = [down EXCEPT ![<<d, "RECV">>] = Unread(@, n)]
    BY <1>13 DEF ClientReads
  <2>2. DatabaseGrows
    BY <1>0, <2>1, CheckOutGrows
  <2>3. d # c => t2 = s2
    <3>1. d # c => <<d, "RECV">> # <<c, "RECV">>
      OBVIOUS
    <3> QED BY <1>0, <1>1, <1>2, <1>3, <2>1, <3>1
  <2> QED BY <1>2, <1>3, <2>1, <2>2, <2>3
<1>14. ASSUME NEW d \in Client, NEW n \in Nat, NEW m \in nsbm, ReceivedStep(d, n, m) PROVE Goal
  <2>1. d # c /\ t1 = s1
    BY <1>0, <1>2, <1>3, <1>14 DEF ReceivedStep, CallsRight
  <2>2. DatabaseGrows /\ t3 = s3 /\ t4 = s4 /\ t2 = s2
    BY <1>13, <1>14, <2>1 DEF ReceivedStep
  <2> QED BY <1>8, <1>9, <2>1, <2>2
<1>15. ASSUME NEW d \in Client, NEW n \in Nat, NEW m \in nsbm, FetchedStep(d, n, m) PROVE Goal
  <2>1. DatabaseGrows /\ t3 = s3 /\ t4 = s4 /\ (d # c => t2 = s2)
    BY <1>13, <1>15 DEF FetchedStep
  <2>2. PICK e : e = Returned(d, m)
    OBVIOUS
  <2>3. fetched' = IF exists(e) THEN [fetched EXCEPT ![d] = Append(@, e)] ELSE fetched
    BY <1>15, <2>2 DEF FetchedStep
  <2>4. CASE d # c
    <3>1. t1 = s1
      BY <1>0, <1>2, <1>3, <2>3, <2>4
    <3> QED BY <1>8, <1>9, <2>1, <2>4, <3>1
  <2>5. CASE d = c
    <3>1. n \in 1 .. Len(down[<<c, "RECV">>]) /\ m = Response(c, "RECV", n)
          /\ down' = [down EXCEPT ![<<c, "RECV">>] = Unread(@, n)]
      BY <1>15, <2>5 DEF FetchedStep, ClientReads
    <3>2. n \in 1 .. Len(s2) /\ m = Parse(Read(s2, n)) /\ t2 = Unread(s2, n)
      BY <1>0, <1>1, <1>2, <1>3, <3>1 DEF Response
    <3>3. Calm(s2, t2, nsbm, Bearers(p)' \cup Bearers(r)')
      BY <1>5, <3>2, CalmKinds
    <3>4. CASE ~exists(e)
      <4>1. t1 = s1
        BY <1>2, <1>3, <2>3, <3>4
      <4> QED BY <1>8, <1>9, <2>1, <3>3, <4>1
    <3>5. CASE exists(e)
      <4>1. t1 = Append(s1, e)
        BY <1>0, <1>2, <1>3, <2>3, <2>5, <3>5
      <4>2. m \in KnownMessage
        <5>1. s2 \in Seq(KnownMessage)
          BY <1>4 DEF KnownLine
        <5> QED BY <3>2, <5>1, ParsedKnown
      <4>3. e \in MessageEntry
        <5>1. e \in PlainEntry
          BY <1>0, <2>2, <4>2, ReturnedPlain DEF KeysKnown
        <5> QED BY <5>1 DEF PlainEntry
      <4>4. \A q \in Payload : e.payload_obj = q => m \in Bearers(q)
        BY <1>0, <2>2, <4>2, CheckOutNames DEF Returned
      <4>5. Ahead(LineAfter(t1, t2, s3, s4, p), LineAfter(t1, t2, s3, s4, r))
        BY <1>4, <1>6, <2>1, <3>2, <4>1, <4>3, <4>4, LineReturned
      <4> QED BY <2>1, <4>5
    <3> QED BY <3>4, <3>5
  <2> QED BY <2>4, <2>5
<1>16. ASSUME NEW d \in Client, NEW x \in SendTo[d], send(d, x) PROVE Goal
  <2>1. PICK m \in nsbm :
            /\ SendMessage(d, "SEND", m)
            /\ \A q \in Payload : m \in Bearers(q)' => q = <<d, nsent[d] + 1>>
            /\ DatabaseGrows /\ UNCHANGED <<down, tx_buffer, fetched>>
    BY <1>0, <1>16, SendPuts
  <2>2. t1 = s1 /\ t2 = s2 /\ t3 = s3
    BY <1>2, <1>3, <2>1
  <2>3. t4 = s4 \/ (a = d /\ t4 = Append(s4, m))
    BY <1>0, <1>2, <1>3, <2>1, SendEnds
  <2>4. CASE Sent(p)
    <3>1. p[2] \in Nat /\ r[2] \in Nat /\ nsent[a] \in Nat
      <4>1. nsent \in [Client -> 0 .. MaxSends] /\ MaxSends \in Nat
        BY <1>0, WireAssumption DEF TypeOK, ClientTypeOK
      <4>2. p[2] \in 1 .. MaxSends /\ r[2] \in 1 .. MaxSends
        BY DEF Payload
      <4> QED BY <4>1, <4>2
    <3>2. p[2] <= nsent[a] /\ r[2] <= nsent[a]
      BY <2>4, <3>1 DEF Sent
    <3>3. p # <<d, nsent[d] + 1>> /\ r # <<d, nsent[d] + 1>>
      <4>1. p[2] # nsent[a] + 1 /\ r[2] # nsent[a] + 1
        BY <3>1, <3>2
      <4>2. <<d, nsent[d] + 1>>[1] = d /\ <<d, nsent[d] + 1>>[2] = nsent[d] + 1
        OBVIOUS
      <4> QED BY <4>1, <4>2
    <3>4. m \notin Bearers(p)' \cup Bearers(r)'
      BY <2>1, <3>3
    <3>5. Calm(s4, t4, nsbm, Bearers(p)' \cup Bearers(r)')
      BY <1>5, <1>8, <2>3, <3>4, CalmKinds
    <3> QED BY <1>8, <1>9, <2>1, <2>2, <3>5
  <2>5. CASE ~Sent(p)
    <3>1. /\ Hits(s1, Mail(p)) = {} /\ Hits(s2, Bearers(p)) = {}
          /\ Hits(s3, Entries(p)) = {} /\ Hits(s4, Bearers(p)) = {}
      BY <1>2, <2>5, NotYet
    <3>2. Ahead(LineAfter(s1, s2, s3, t4, p), LineAfter(s1, s2, s3, t4, r))
      BY <1>4, <2>1, <2>3, <3>1, LineStarts
    <3> QED BY <2>2, <3>2
  <2> QED BY <2>4, <2>5
<1>17. ASSUME NEW d \in Client, NEW e \in Network, post(d, e) PROVE Goal
  <2>1. PICK m \in nsbm :
          /\ SendMessage(d, "SEND", m) /\ ~IsApp(d)
          /\ DatabaseGrows /\ UNCHANGED <<down, tx_buffer, fetched>>
    BY <1>17, PostPuts
  <2>2. t1 = s1 /\ t2 = s2 /\ t3 = s3
    BY <1>2, <1>3, <2>1
  <2>3. t4 = s4
    BY <1>0, <1>2, <1>3, <2>1, SendEnds
  <2> QED BY <1>8, <1>9, <2>1, <2>2, <2>3
<1> HIDE DEF Goal
<1> QED BY <1>0, <1>11, <1>12, <1>14, <1>15, <1>16, <1>17, DataSteps DEF ClientStepKind

(* Who posted what stands for a payload, and where to. *)
LEMMA PostedTo ==
    ASSUME PostedOnce, NEW s \in Client, NEW p \in Payload, NEW k \in DOMAIN posted[s], posted[s][k].payload_obj = p,
           NEW d \in Client, NEW x, Wrote(d, p, x)
    PROVE  d = s /\ x = posted[s][k].destination
BY DEF PostedOnce, Wrote

(* Two payloads that s posted to one destination: only its messages stand   *)
(* for them, and entries that do are for one destination.                   *)
LEMMA PostedAlike ==
    ASSUME PostedOnce, NEW s \in Client, NEW p \in Payload, NEW r \in Payload, PostedBefore(s, r, p)
    PROVE  /\ \A d \in Client : d # s => \A m \in AddressedBy(d) : m \notin Bearers(p) /\ m \notin Bearers(r)
           /\ \A e, x \in AddressedEntry : e \in Entries(p) /\ x \in Entries(r) => e.destination = x.destination
<1>1. PICK k, l \in DOMAIN posted[s] :
           /\ posted[s][k].payload_obj = p /\ posted[s][l].payload_obj = r
           /\ posted[s][k].destination = posted[s][l].destination
  BY DEF PostedBefore
<1>2. ASSUME NEW d \in Client, NEW x, Wrote(d, p, x)
      PROVE  d = s /\ x = posted[s][k].destination
  BY <1>1, <1>2, PostedTo
<1>3. ASSUME NEW d \in Client, NEW x, Wrote(d, r, x)
      PROVE  d = s /\ x = posted[s][l].destination
  BY <1>1, <1>3, PostedTo
<1>4. ASSUME NEW d \in Client, d # s, NEW m \in AddressedBy(d)
      PROVE  m \notin Bearers(p) /\ m \notin Bearers(r)
  <2>1. PICK x : x = m.metadata.dest
    OBVIOUS
  <2>2. ~Wrote(d, p, x) /\ ~Wrote(d, r, x)
    BY <1>2, <1>3, <1>4
  <2> QED BY <2>1, <2>2 DEF AddressedBy
<1>5. ASSUME NEW e \in AddressedEntry, NEW x \in AddressedEntry, e \in Entries(p), x \in Entries(r)
      PROVE  e.destination = x.destination
  <2>1. PICK y, z : y = e.destination /\ z = x.destination
    OBVIOUS
  <2>2. PICK d \in Client : Wrote(d, p, y)
    BY <1>5, <2>1 DEF AddressedEntry
  <2>3. PICK b \in Client : Wrote(b, r, z)
    BY <1>5, <2>1 DEF AddressedEntry
  <2>4. y = posted[s][k].destination /\ z = posted[s][l].destination
    BY <1>2, <1>3, <2>2, <2>3
  <2> QED BY <1>1, <2>1, <2>4
<1> QED BY <1>4, <1>5

NotPosted(p) == \A d \in Client : \A i \in DOMAIN posted[d] : posted[d][i].payload_obj # p

(* What was posted before is so, but for what is posted now. *)
LEMMA PostedOrder ==
    ASSUME posted \in [Client -> Seq(MessageEntry)], NEW c \in Client, NEW e \in MessageEntry,
           Logs(posted, c, e, posted'),
           NotPosted(e.payload_obj),
           NEW s \in Client, NEW p, NEW r, PostedBefore(s, r, p)'
    PROVE  \/ s = c /\ p = e.payload_obj
           \/ PostedBefore(s, r, p) /\ p # e.payload_obj /\ r # e.payload_obj
<1>1. PICK k, l \in DOMAIN posted'[s] :
           /\ l <= k /\ posted'[s][k].payload_obj = p /\ posted'[s][l].payload_obj = r
           /\ posted'[s][k].destination = posted'[s][l].destination
  BY DEF PostedBefore
<1>2. CASE s # c
  <2>1. posted'[s] = posted[s]
    BY <1>2 DEF Logs
  <2>2. PostedBefore(s, r, p)
    BY <1>1, <2>1 DEF PostedBefore
  <2>3. p # e.payload_obj /\ r # e.payload_obj
    BY <1>1, <2>1 DEF NotPosted
  <2> QED BY <2>2, <2>3
<1>3. CASE s = c
  <2>0. PICK q : q = posted[s]
    OBVIOUS
  <2>1. q \in Seq(MessageEntry) /\ posted'[s] = Append(q, e)
    BY <1>3, <2>0 DEF Logs
  <2>2. /\ Len(q) \in Nat /\ DOMAIN q = 1 .. Len(q) /\ DOMAIN Append(q, e) = 1 .. (Len(q) + 1)
        /\ Append(q, e)[Len(q) + 1] = e /\ \A j \in DOMAIN q : Append(q, e)[j] = q[j]
    BY <2>1
  <2>3. CASE k = Len(q) + 1
    BY <1>1, <1>3, <2>1, <2>2, <2>3
  <2>4. CASE k # Len(q) + 1
    <3>1. k \in DOMAIN q /\ l \in DOMAIN q
      BY <1>1, <2>1, <2>2, <2>4
    <3>2. posted'[s][k] = posted[s][k] /\ posted'[s][l] = posted[s][l]
      BY <2>0, <2>1, <2>2, <3>1
    <3>3. PostedBefore(s, r, p)
      BY <1>1, <2>0, <3>1, <3>2 DEF PostedBefore
    <3>4. p # e.payload_obj /\ r # e.payload_obj
      BY <1>1, <2>0, <3>1, <3>2 DEF NotPosted
    <3> QED BY <3>3, <3>4
  <2> QED BY <2>3, <2>4
<1> QED BY <1>2, <1>3

(* ReceiveAhead is kept by every step. *)
LEMMA ReceiveAheadStep ==
    ASSUME SystemMode = "PULL", LogInv, LogInv', SendsRight, [Next]_vars,
           NEW c \in Client, IsApp(c), NEW s \in Client, ~IsApp(s),
           NEW p \in Payload, NEW r \in Payload, PostedBefore(s, r, p)',
           PostedBefore(s, r, p) => Ahead(ReceivePath(c, s, p), ReceivePath(c, s, r))
    PROVE  Ahead(ReceivePath(c, s, p)', ReceivePath(c, s, r)')
<1>0. /\ TypeInv /\ TypeOK /\ KeysKnown /\ AsksRight /\ CallsRight /\ BridgeInv' /\ PostedOnce
      /\ up \in [Conn -> Seq(nsbm)] /\ down \in [Conn -> Seq(nsbm)] /\ received \in [Client -> Seq(MessageEntry)]
      /\ rx_buffer \in Seq(AddressedEntry) /\ posted \in [Client -> Seq(MessageEntry)]
  BY DEF LogInv, BridgeInv, PlaceInv, TypeInv, KindInv, TypeOK, SocketsTypeOK, ClientTypeOK, SendsRight
<1>1. <<c, "RECV">> \in Conn /\ <<s, "SEND">> \in Conn /\ \A d \in Client : <<d, "RECV">> \in Conn
  BY ConnFacts DEF Channel
<1>2. PICK s1, s2, s3, s4 : s1 = received[c] /\ s2 = down[<<c, "RECV">>] /\ s3 = rx_buffer /\ s4 = up[<<s, "SEND">>]
  OBVIOUS
<1>3. PICK t1, t2, t3, t4 : t1 = received'[c] /\ t2 = down'[<<c, "RECV">>] /\ t3 = rx_buffer' /\ t4 = up'[<<s, "SEND">>]
  OBVIOUS
<1>4. KnownLine(s1, s2, s3, s4)
  BY <1>2, LinesKnown
<1>5. s1 \in Seq(MessageEntry) /\ s2 \in Seq(nsbm) /\ s3 \in Seq(MessageEntry) /\ s4 \in Seq(nsbm)
  BY <1>4, KnownSeq
<1>6. PostedBefore(s, r, p) => Ahead(Line(s1, s2, s3, s4, p), Line(s1, s2, s3, s4, r))
  BY <1>2 DEF ReceivePath
<1> DEFINE Goal == Ahead(LineAfter(t1, t2, t3, t4, p), LineAfter(t1, t2, t3, t4, r))
<1>7. SUFFICES Goal
  BY <1>3 DEF ReceivePath, Line, LineAfter, Bearers, Entries, Mail
<1>8. /\ Calm(s1, s1, MessageEntry, Mail(p) \cup Mail(r))
      /\ Calm(s2, s2, nsbm, Bearers(p)' \cup Bearers(r)')
      /\ Calm(s3, s3, MessageEntry, Entries(p)' \cup Entries(r)')
      /\ Calm(s4, s4, nsbm, Bearers(p)' \cup Bearers(r)')
  BY <1>5, CalmKinds
<1>9. ASSUME DatabaseGrows, PostedBefore(s, r, p), t1 = s1,
             Calm(s2, t2, nsbm, Bearers(p)' \cup Bearers(r)'),
             Calm(s3, t3, MessageEntry, Entries(p)' \cup Entries(r)'),
             Calm(s4, t4, nsbm, Bearers(p)' \cup Bearers(r)')
      PROVE  Goal
  BY <1>4, <1>6, <1>8, <1>9, LineStill
<1>10. /\ db' = db => DatabaseGrows
       /\ posted' = posted => PostedBefore(s, r, p)
  BY DEF DatabaseGrows, PostedBefore
<1>11. CASE QuietStep
  <2>1. /\ UNCHANGED <<db, received, rx_buffer, posted>> /\ Quiet(up[<<s, "SEND">>], up'[<<s, "SEND">>])
        /\ Quiet(down[<<c, "RECV">>], down'[<<c, "RECV">>])
    BY <1>1, <1>11 DEF QuietStep, Plainly, dataVars
  <2>2. t1 = s1 /\ t3 = s3 /\ Quiet(s2, t2) /\ Quiet(s4, t4)
    BY <1>2, <1>3, <2>1
  <2>3. Calm(s2, t2, nsbm, Bearers(p)' \cup Bearers(r)') /\ Calm(s4, t4, nsbm, Bearers(p)' \cup Bearers(r)')
    BY <1>5, <2>2, QuietCalm
  <2> QED BY <1>8, <1>9, <1>10, <2>1, <2>2, <2>3
<1>12. ASSUME NEW k \in Conn, NEW n \in Nat, NEW m \in nsbm, HandlerStepKind(k, n, m) PROVE Goal
  <2>1. PICK d \in Client, ch \in Channel : k = <<d, ch>>
    BY DEF Conn
  <2>2. DaemonReads(k, n, m)
    BY <1>12 DEF HandlerStepKind, SendStep, PostStep, ReceiveStep, FetchStep, ForwardStep
  <2>3. /\ up[k] \in Seq(nsbm) /\ n \in 1 .. Len(up[k]) /\ m = Parse(Read(up[k], n))
        /\ up'[k] = Unread(up[k], n) /\ \A j \in Conn : j # k => up'[j] = up[j]
    BY <1>0, <2>2, ReadEnds
  <2>4. db' = db /\ posted' = posted /\ t1 = s1 /\ m.op \in AskedOps(d, ch)
    BY <1>0, <1>2, <1>3, <2>1, <2>2, HandlerAsked DEF DaemonReads
  <2>5. /\ k = <<s, "SEND">> => n \in 1 .. Len(s4) /\ m = Parse(Read(s4, n)) /\ t4 = Unread(s4, n)
        /\ k # <<s, "SEND">> => t4 = s4
    BY <1>1, <1>2, <1>3, <2>3
  <2>6. Calm(s4, t4, nsbm, Bearers(p)' \cup Bearers(r)')
    BY <1>5, <1>8, <2>5, CalmKinds
  <2>7. PostedBefore(s, r, p) /\ DatabaseGrows
    BY <1>10, <2>4
  <2>8. CASE PostStep(k, n, m)
    <3>1. ~IsApp(d) /\ ch = "SEND" /\ t2 = s2 /\ t3 = Append(s3, Entry(UseDB, m))
      BY <1>2, <1>3, <2>4, <2>8 DEF PostStep, AskedOps, Channel
    <3>2. CASE d = s
      <4>1. n \in 1 .. Len(s4) /\ m = Parse(Read(s4, n)) /\ t4 = Unread(s4, n)
        BY <2>1, <2>5, <3>1, <3>2
      <4> QED BY <1>4, <1>6, <2>4, <2>7, <3>1, <4>1, LineBuffered
    <3>3. CASE d # s
      <4>1. up[k] \in Seq(AddressedBy(d))
        BY <2>1, <3>1 DEF SendsRight, Outgoings
      <4>2. m \in AddressedBy(d)
        BY <2>3, <4>1, ParsedAddressed
      <4>3. m \notin Bearers(p) /\ m \notin Bearers(r)
        BY <1>0, <2>7, <3>3, <4>2, PostedAlike
      <4>4. Entry(UseDB, m) \notin Entries(p)' \cup Entries(r)'
        BY <2>4, <4>3, SamePayload, SameNames
      <4>5. Entry(UseDB, m) \in MessageEntry
        BY MessageTypes, ConfigAssumption
      <4>6. Calm(s3, t3, MessageEntry, Entries(p)' \cup Entries(r)')
        BY <1>5, <3>1, <4>4, <4>5, CalmKinds
      <4> QED BY <1>8, <1>9, <2>4, <2>6, <2>7, <3>1, <4>6
    <3> QED BY <3>2, <3>3
  <2>9. CASE SendStep(k, n, m)
    <3>1. t2 = s2 /\ t3 = s3
      BY <1>2, <1>3, <2>9 DEF SendStep
    <3> QED BY <1>8, <1>9, <2>4, <2>6, <2>7, <3>1
  <2>10. CASE FetchStep(k, n, m)
    <3>1. ~IsApp(d) /\ ch = "RECV" /\ t3 = s3
      BY <1>2, <1>3, <2>4, <2>10 DEF FetchStep, AskedOps, Channel
    <3>2. PICK x : Writes(k, x)
      BY <2>10 DEF FetchStep
    <3>3. k # <<c, "RECV">>
      BY <2>1, <3>1
    <3>4. t2 = s2
      BY <1>0, <1>1, <1>2, <1>3, <3>2, <3>3 DEF Writes
    <3> QED BY <1>8, <1>9, <2>4, <2>6, <2>7, <3>1, <3>4
  <2>11. CASE ReceiveStep(k, n, m)
    <3>1. IsApp(d) /\ ch = "RECV" /\ t4 = s4
      <4>1. IsApp(d) /\ ch = "RECV"
        BY <2>4, <2>11 DEF ReceiveStep, AskedOps, Channel
      <4>2. k # <<s, "SEND">>
        BY <2>1, <4>1
      <4> QED BY <2>5, <4>1, <4>2
    <3>2. PICK i \in DOMAIN rx_buffer :
              /\ m.metadata.dest \in {"", rx_buffer[i].destination}
              /\ \A j \in 1 .. (i - 1) : m.metadata.dest \notin {"", rx_buffer[j].destination}
              /\ rx_buffer' = RemoveAt(rx_buffer, i)
              /\ Writes(k, EntryReply("RECEIVE", rx_buffer[i]))
      BY <2>11 DEF ReceiveStep
    <3>3. i \in DOMAIN s3 /\ t3 = RemoveAt(s3, i) /\ Writes(k, EntryReply("RECEIVE", s3[i]))
      BY <1>2, <1>3, <3>2
    <3>4. Calm(s3, t3, MessageEntry, Entries(p)' \cup Entries(r)')
      BY <1>5, <3>3, CalmKinds
    <3>5. CASE t2 = s2
      BY <1>8, <1>9, <2>4, <2>6, <2>7, <3>4, <3>5
    <3>6. CASE t2 # s2
      <4>1. k = <<c, "RECV">> /\ t2 = Append(s2, EntryReply("RECEIVE", s3[i]))
        BY <1>0, <1>1, <1>2, <1>3, <3>3, <3>6 DEF Writes
      <4>2. ASSUME s3[i] \in Entries(p), NEW j \in 1 .. (i - 1) PROVE s3[j] \notin Entries(r)
        <5>1. s3 \in Seq(AddressedEntry)
          BY <1>0, <1>2
        <5>2. i \in 1 .. Len(s3) /\ j \in 1 .. Len(s3) /\ Len(s3) \in Nat
          BY <3>3, <5>1
        <5>3. s3[i] \in AddressedEntry /\ s3[j] \in AddressedEntry
          BY <5>1, <5>2
        <5>4. s3[j] \in Entries(r) => s3[i].destination = s3[j].destination
          BY <1>0, <2>7, <4>2, <5>3, PostedAlike
        <5>5. m.metadata.dest \in {"", s3[i].destination} /\ m.metadata.dest \notin {"", s3[j].destination}
          BY <1>2, <3>2
        <5> QED BY <5>4, <5>5
      <4>3. s3[i] \in Entries(p) => \A j \in 1 .. (i - 1) : s3[j] \notin Entries(r)
        BY <4>2
      <4>4. t1 = s1 /\ t4 = s4 /\ db' = db
        BY <2>4, <3>1
      <4>5. Ahead(LineAfter(s1, t2, t3, s4, p), LineAfter(s1, t2, t3, s4, r))
        BY <1>4, <1>6, <2>7, <3>3, <4>1, <4>3, <4>4, LineAnswered
      <4> QED BY <4>4, <4>5
    <3> QED BY <3>5, <3>6
  <2> QED BY <1>12, <2>8, <2>9, <2>10, <2>11 DEF HandlerStepKind, ForwardStep
<1>13. ASSUME NEW d \in Client, NEW n \in Nat, NEW m \in nsbm, ClientReads(d, n, m)
       PROVE  /\ DatabaseGrows /\ PostedBefore(s, r, p) /\ t3 = s3 /\ t4 = s4
              /\ d # c => t2 = s2
  <2>1. /\ db' = AfterCheckOut(d, m) /\ UNCHANGED <<up, rx_buffer, posted>>
        /\ down' = [down EXCEPT ![<<d, "RECV">>] = Unread(@, n)]
    BY <1>13 DEF ClientReads
  <2>2. DatabaseGrows
    BY <1>0, <2>1, CheckOutGrows
  <2>3. d # c => t2 = s2
    <3>1. d # c => <<d, "RECV">> # <<c, "RECV">>
      OBVIOUS
    <3> QED BY <1>0, <1>1, <1>2, <1>3, <2>1, <3>1
  <2> QED BY <1>2, <1>3, <1>10, <2>1, <2>2, <2>3
<1>14. ASSUME NEW d \in Client, NEW n \in Nat, NEW m \in nsbm, FetchedStep(d, n, m) PROVE Goal
  <2>1. d # c /\ t1 = s1
    BY <1>0, <1>2, <1>3, <1>14 DEF FetchedStep, CallsRight, ClientReads
  <2>2. DatabaseGrows /\ PostedBefore(s, r, p) /\ t3 = s3 /\ t4 = s4 /\ t2 = s2
    BY <1>13, <1>14, <2>1 DEF FetchedStep
  <2> QED BY <1>8, <1>9, <2>1, <2>2
<1>15. ASSUME NEW d \in Client, NEW n \in Nat, NEW m \in nsbm, ReceivedStep(d, n, m) PROVE Goal
  <2>1. DatabaseGrows /\ PostedBefore(s, r, p) /\ t3 = s3 /\ t4 = s4 /\ (d # c => t2 = s2)
    BY <1>13, <1>15 DEF ReceivedStep
  <2>2. PICK e : e = Returned(d, m)
    OBVIOUS
  <2>3. received' = IF exists(e) THEN [received EXCEPT ![d] = Append(@, e)] ELSE received
    BY <1>15, <2>2 DEF ReceivedStep
  <2>4. CASE d # c
    <3>1. t1 = s1
      BY <1>0, <1>2, <1>3, <2>3, <2>4
    <3> QED BY <1>8, <1>9, <2>1, <2>4, <3>1
  <2>5. CASE d = c
    <3>1. /\ n \in 1 .. Len(down[<<c, "RECV">>]) /\ m = Response(c, "RECV", n)
          /\ down' = [down EXCEPT ![<<c, "RECV">>] = Unread(@, n)]
      BY <1>15, <2>5 DEF ReceivedStep, ClientReads
    <3>2. n \in 1 .. Len(s2) /\ m = Parse(Read(s2, n)) /\ t2 = Unread(s2, n)
      BY <1>0, <1>1, <1>2, <1>3, <3>1 DEF Response
    <3>3. Calm(s2, t2, nsbm, Bearers(p)' \cup Bearers(r)')
      BY <1>5, <3>2, CalmKinds
    <3>4. CASE ~exists(e)
      <4>1. t1 = s1
        BY <1>2, <1>3, <2>3, <3>4
      <4> QED BY <1>8, <1>9, <2>1, <3>3, <4>1
    <3>5. CASE exists(e)
      <4>1. t1 = Append(s1, e)
        BY <1>0, <1>2, <1>3, <2>3, <2>5, <3>5
      <4>2. m \in KnownMessage
        <5>1. s2 \in Seq(KnownMessage)
          BY <1>4 DEF KnownLine
        <5> QED BY <3>2, <5>1, ParsedKnown
      <4>3. e \in MessageEntry
        <5>1. e \in PlainEntry
          BY <1>0, <2>2, <4>2, ReturnedPlain DEF KeysKnown
        <5> QED BY <5>1 DEF PlainEntry
      <4>4. \A q \in Payload : e.payload_obj = q => m \in Bearers(q)
        BY <1>0, <2>2, <4>2, CheckOutNames DEF Returned
      <4>5. Ahead(LineAfter(t1, t2, s3, s4, p), LineAfter(t1, t2, s3, s4, r))
        BY <1>4, <1>6, <2>1, <3>2, <4>1, <4>3, <4>4, LineReturned
      <4> QED BY <2>1, <4>5
    <3> QED BY <3>4, <3>5
  <2> QED BY <2>4, <2>5
<1>16. ASSUME NEW d \in Client, NEW x \in SendTo[d], send(d, x) PROVE Goal
  <2>1. PICK m \in nsbm :
            /\ SendMessage(d, "SEND", m) /\ IsApp(d)
            /\ DatabaseGrows /\ UNCHANGED <<down, rx_buffer, received, posted>>
    BY <1>0, <1>16, SendPuts
  <2>2. t1 = s1 /\ t2 = s2 /\ t3 = s3 /\ PostedBefore(s, r, p)
    BY <1>2, <1>3, <1>10, <2>1
  <2>3. t4 = s4
    BY <1>0, <1>2, <1>3, <2>1, SendEnds
  <2> QED BY <1>8, <1>9, <2>1, <2>2, <2>3
<1>17. ASSUME NEW d \in Client, NEW e \in Network, post(d, e) PROVE Goal
  <2>1. PICK m \in nsbm :
            /\ SendMessage(d, "SEND", m)
            /\ \A q \in Payload : m \in Bearers(q)' => q = e.payload_obj
            /\ DatabaseGrows /\ UNCHANGED <<down, rx_buffer, received>>
    BY <1>17, PostPuts
  <2>2. t1 = s1 /\ t2 = s2 /\ t3 = s3
    BY <1>2, <1>3, <2>1
  <2>3. t4 = s4 \/ (s = d /\ t4 = Append(s4, m))
    BY <1>0, <1>2, <1>3, <2>1, SendEnds
  <2>4. /\ e \in MessageEntry /\ posted' = [posted EXCEPT ![d] = Append(@, e)]
        /\ StageOf(e.payload_obj) = "network"
        /\ \A b \in Client : \A i \in DOMAIN posted[b] : posted[b][i].payload_obj # e.payload_obj
    BY <1>0, <1>17, PostedNow
  <2>5. \/ s = d /\ p = e.payload_obj
        \/ PostedBefore(s, r, p) /\ p # e.payload_obj /\ r # e.payload_obj
    <3>1. Logs(posted, d, e, posted') /\ posted \in [Client -> Seq(MessageEntry)]
      BY <1>0, <2>4 DEF Logs
    <3>2. NotPosted(e.payload_obj) /\ e \in MessageEntry
      BY <2>4 DEF NotPosted
    <3> QED BY <3>1, <3>2, PostedOrder
  <2>6. CASE p = e.payload_obj
    <3>1. /\ Hits(s1, Mail(p)) = {} /\ Hits(s2, Bearers(p)) = {}
          /\ Hits(s3, Entries(p)) = {} /\ Hits(s4, Bearers(p)) = {}
      BY <1>2, <2>4, <2>6, NotYet
    <3>2. Ahead(LineAfter(s1, s2, s3, t4, p), LineAfter(s1, s2, s3, t4, r))
      BY <1>4, <2>1, <2>3, <3>1, LineStarts
    <3> QED BY <2>2, <3>2
  <2>7. CASE PostedBefore(s, r, p) /\ p # e.payload_obj /\ r # e.payload_obj
    <3>1. m \notin Bearers(p)' \cup Bearers(r)'
      BY <2>1, <2>7
    <3>2. Calm(s4, t4, nsbm, Bearers(p)' \cup Bearers(r)')
      BY <1>5, <1>8, <2>3, <3>1, CalmKinds
    <3> QED BY <1>8, <1>9, <2>1, <2>2, <2>7, <3>2
  <2> QED BY <2>5, <2>6, <2>7
<1> HIDE DEF Goal
<1> QED BY <1>0, <1>11, <1>12, <1>14, <1>15, <1>16, <1>17, DataSteps DEF ClientStepKind

-----------------------------------------------------------------------------
(* FetchOrder and ReceiveOrder.                                            *)

(* OrderInv is inductive. *)
LEMMA OrderInvStep ==
    ASSUME SystemMode = "PULL", OrderInv, [Next]_vars
    PROVE  OrderInv'
<1>1. LogInv' /\ SendsRight'
  BY LogInvStep, SendsRightStep DEF OrderInv
<1>2. FetchAhead'
  <2> SUFFICES ASSUME NEW c \in Client, ~IsApp(c), NEW p \in Payload, NEW r \in Payload,
                      IsApp(p[1]), r[1] = p[1], r[2] <= p[2]
               PROVE  Ahead(FetchPath(c, p)', FetchPath(c, r)')
    BY DEF FetchAhead, Ahead, IsApp
  <2>1. Ahead(FetchPath(c, p), FetchPath(c, r))
    BY DEF OrderInv, FetchAhead
  <2>2. p[1] \in Client
    BY DEF Payload
  <2> QED BY <1>1, <2>1, <2>2, FetchAheadStep DEF OrderInv
<1>3. ReceiveAhead'
  <2> SUFFICES ASSUME NEW c \in Client, IsApp(c), NEW s \in Client, ~IsApp(s),
                      NEW p \in Payload, NEW r \in Payload, PostedBefore(s, r, p)'
               PROVE  Ahead(ReceivePath(c, s, p)', ReceivePath(c, s, r)')
    BY DEF ReceiveAhead, Ahead, IsApp
  <2>1. PostedBefore(s, r, p) => Ahead(ReceivePath(c, s, p), ReceivePath(c, s, r))
    BY DEF OrderInv, ReceiveAhead
  <2> QED BY <1>1, <2>1, ReceiveAheadStep DEF OrderInv
<1> QED BY <1>1, <1>2, <1>3 DEF OrderInv

(* At the start the ways are empty. *)
LEMMA OrderInvInit == Init => OrderInv
<1> SUFFICES ASSUME Init PROVE OrderInv
  OBVIOUS
<1>1. LogInv /\ SendsRight
  BY LogInvInit, SendsRightInit
<1>2. /\ \A c \in Client : fetched[c] = <<>> /\ posted[c] = <<>>
      /\ up = [k \in Conn |-> <<>>] /\ down = [k \in Conn |-> <<>>] /\ tx_buffer = <<>>
  BY DEF Init, ClientInit, SocketsInit, DaemonInit
<1>3. \A c \in Client : up[<<c, "SEND">>] = <<>> /\ down[<<c, "RECV">>] = <<>>
  BY <1>2, ConnFacts DEF Channel
<1>4. \A C : Hits(<<>>, C) = {}
  BY DEF Hits
<1>5. FetchAhead
  <2>1. ASSUME NEW c \in Client, NEW p \in Payload, NEW x \in Segment PROVE FetchPath(c, p)[x] = {}
    <3>1. p[1] \in Client
      BY DEF Payload
    <3>2. FetchPath(c, p) = <<{}, {}, {}, {}>>
      BY <1>2, <1>3, <1>4, <3>1 DEF FetchPath, Line
    <3> QED BY <3>2, EverySegment
  <2> QED BY <2>1 DEF FetchAhead, Ahead
<1>6. ReceiveAhead
  BY <1>2 DEF ReceiveAhead, PostedBefore
<1> QED BY <1>1, <1>5, <1>6 DEF OrderInv

(* What a log holds of a payload is on the first segment of its way. *)
LEMMA LogHits ==
    ASSUME NEW s \in Seq(MessageEntry), NEW i \in DOMAIN s
    PROVE  i \in Nat /\ i \in Hits(s, Mail(s[i].payload_obj))
<1>1. i \in Nat /\ s[i] \in MessageEntry
  OBVIOUS
<1> QED BY <1>1 DEF Hits, Mail

(* What was fetched an application sent. *)
LEMMA FetchedSent ==
    ASSUME LogInv, NEW e \in Logged(fetched)
    PROVE  e.payload_obj \in Payload /\ IsApp(e.payload_obj[1])
<1>1. PICK p : p = e.payload_obj
  OBVIOUS
<1>2. p \in Payload /\ OnBoard(p) /\ PlaceInv
  BY <1>1 DEF LogInv, FetchedReal, FetchedLate, BridgeInv
<1>3. StageRight(p) /\ Unique(Boxes(p), Sent(p))
  BY <1>2, StageIs DEF PlaceInv
<1>4. Sent(p)
  <2>1. ASSUME ~Sent(p) PROVE FALSE
    <3>1. \A x \in Box : Boxes(p)[x] = {}
      BY <1>3, <2>1 DEF Unique
    <3>2. StageOf(p) = "unsent"
      BY <1>3, <2>1, <3>1 DEF StageRight
    <3> QED BY <1>2, <3>2 DEF OnBoard
  <2> QED BY <2>1
<1>5. p[1] \in Client /\ p[2] \in 1 .. MaxSends
  BY <1>2 DEF Payload
<1>6. nsent[p[1]] # 0
  <2>1. MaxSends \in Nat /\ p[2] <= nsent[p[1]]
    BY <1>4, WireAssumption DEF Sent
  <2> QED BY <1>5, <2>1
<1>7. ~IsApp(p[1]) => nsent[p[1]] = 0
  BY <1>5 DEF LogInv, LogsKept
<1> QED BY <1>1, <1>2, <1>6, <1>7

LEMMA FetchAheadOrder ==
    ASSUME OrderInv
    PROVE  FetchOrder
<1>1. LogInv /\ LogsKept /\ fetched \in [Client -> Seq(MessageEntry)]
  BY DEF OrderInv, LogInv, BridgeInv, PlaceInv, TypeInv, TypeOK, ClientTypeOK
<1> SUFFICES ASSUME NEW c \in Client, NEW i \in DOMAIN fetched[c], NEW j \in DOMAIN fetched[c], i < j,
                    fetched[c][i].payload_obj[1] = fetched[c][j].payload_obj[1],
                    ~(fetched[c][i].payload_obj[2] < fetched[c][j].payload_obj[2])
             PROVE  FALSE
  BY DEF FetchOrder
<1>2. PICK p, r : p = fetched[c][i].payload_obj /\ r = fetched[c][j].payload_obj
  OBVIOUS
<1>3. p \in Payload /\ r \in Payload /\ IsApp(p[1])
  <2>1. fetched[c][i] \in Logged(fetched) /\ fetched[c][j] \in Logged(fetched)
    BY DEF Logged
  <2> QED BY <1>1, <1>2, <2>1, FetchedSent
<1>4. ~IsApp(c)
  <2>1. DOMAIN fetched[c] # {}
    OBVIOUS
  <2>2. fetched[c] # <<>>
    BY <2>1
  <2> QED BY <1>1, <2>2 DEF LogsKept
<1>5. r[2] <= p[2] /\ r[1] = p[1]
  <2>1. p[2] \in 1 .. MaxSends /\ r[2] \in 1 .. MaxSends
    BY <1>3 DEF Payload
  <2>2. p[2] \in Nat /\ r[2] \in Nat
    <3>1. MaxSends \in Nat
      BY WireAssumption
    <3> QED BY <2>1, <3>1
  <2>3. r[1] = p[1] /\ ~(p[2] < r[2])
    BY <1>2
  <2> QED BY <2>2, <2>3
<1>6. Ahead(FetchPath(c, p), FetchPath(c, r))
  BY <1>3, <1>4, <1>5 DEF OrderInv, FetchAhead
<1>7. i \in Nat /\ j \in Nat /\ i \in FetchPath(c, p)[1] /\ j \in FetchPath(c, r)[1]
  <2>1. fetched[c] \in Seq(MessageEntry)
    BY <1>1
  <2>2. i \in Nat /\ j \in Nat /\ i \in Hits(fetched[c], Mail(p)) /\ j \in Hits(fetched[c], Mail(r))
    BY <1>2, <2>1, LogHits
  <2> QED BY <2>2 DEF FetchPath, Line
<1>8. j <= i
  BY <1>6, <1>7 DEF Ahead, Segment
<1> QED BY <1>7, <1>8

LEMMA ReceiveAheadOrder ==
    ASSUME OrderInv
    PROVE  ReceiveOrder
<1>1. /\ LogInv /\ LogsKept /\ FetchedReal /\ received \in [Client -> Seq(MessageEntry)]
      /\ posted \in [Client -> Seq(MessageEntry)]
  BY DEF OrderInv, LogInv, BridgeInv, PlaceInv, TypeInv, TypeOK, ClientTypeOK
<1> SUFFICES ASSUME NEW c \in Client, NEW s \in Client,
                    NEW i \in DOMAIN received[c], NEW j \in DOMAIN received[c], i < j,
                    NEW k \in DOMAIN posted[s], NEW l \in DOMAIN posted[s], ~(k < l),
                    received[c][i] = posted[s][k], received[c][j] = posted[s][l],
                    posted[s][k].destination = posted[s][l].destination
             PROVE  FALSE
  BY DEF ReceiveOrder
<1>2. PICK p, r : p = posted[s][k].payload_obj /\ r = posted[s][l].payload_obj
  OBVIOUS
<1>3. p \in Payload /\ r \in Payload
  <2>1. posted[s][k] \in Logged(posted) /\ posted[s][l] \in Logged(posted)
    BY DEF Logged
  <2> QED BY <1>1, <1>2, <2>1 DEF FetchedReal
<1>4. IsApp(c) /\ ~IsApp(s)
  <2>1. received[c] # <<>> /\ posted[s] # <<>>
    OBVIOUS
  <2> QED BY <1>1, <2>1 DEF LogsKept
<1>5. PostedBefore(s, r, p)
  <2>1. posted[s] \in Seq(MessageEntry)
    BY <1>1
  <2>2. l <= k
    BY <2>1
  <2> QED BY <1>2, <2>2 DEF PostedBefore
<1>6. Ahead(ReceivePath(c, s, p), ReceivePath(c, s, r))
  BY <1>3, <1>4, <1>5 DEF OrderInv, ReceiveAhead
<1>7. i \in Nat /\ j \in Nat /\ i \in ReceivePath(c, s, p)[1] /\ j \in ReceivePath(c, s, r)[1]
  <2>1. received[c] \in Seq(MessageEntry)
    BY <1>1
  <2>2. i \in Nat /\ j \in Nat /\ i \in Hits(received[c], Mail(p)) /\ j \in Hits(received[c], Mail(r))
    BY <1>2, <2>1, LogHits
  <2> QED BY <2>2 DEF ReceivePath, Line
<1>8. j <= i
  BY <1>6, <1>7 DEF Ahead, Segment
<1> QED BY <1>7, <1>8

(* In PULL mode fetch() gives a simulator client what one application sent  *)
(* in the order of its send() calls, whatever the interleaving, the         *)
(* timeouts, the answers that come late and the clients that close: the     *)
(* buffer search takes the first entry that matches.                        *)
THEOREM PullFetchOrder ==
    ASSUME SystemMode = "PULL"
    PROVE  Spec => []FetchOrder
<1>1. Init => OrderInv
  BY OrderInvInit
<1>2. OrderInv /\ [Next]_vars => OrderInv'
  BY OrderInvStep
<1>3. OrderInv => FetchOrder
  BY FetchAheadOrder
<1> QED BY <1>1, <1>2, <1>3, PTL DEF Spec

(* In PULL mode receive() gives an application what one simulator client    *)
(* posted to one destination in the order of the post() calls.              *)
THEOREM PullReceiveOrder ==
    ASSUME SystemMode = "PULL"
    PROVE  Spec => []ReceiveOrder
<1>1. Init => OrderInv
  BY OrderInvInit
<1>2. OrderInv /\ [Next]_vars => OrderInv'
  BY OrderInvStep
<1>3. OrderInv => ReceiveOrder
  BY ReceiveAheadOrder
<1> QED BY <1>1, <1>2, <1>3, PTL DEF Spec

-----------------------------------------------------------------------------
(* LossOnlyByMerging.  What travels: a message with a payload has all that *)
(* its receiver looks at before it takes the payload out, and the operation *)
(* it waits for.                                                            *)

(* With a database, a client that started without the daemon's              *)
(* configuration sends a payload where the receiver looks for a key, and so *)
(* does post() of Python always.                                            *)
KeysTravel == UseDB => NoBlindStart /\ \A c \in Client : ~IsApp(c) => Impl[c] = "cpp"

Silent == {m \in nsbm : ~Bears(m)}
Sound == {m \in nsbm : /\ m.code = "MESSAGE" /\ m.metadata.src # "" /\ m.metadata.dest # ""
                       /\ m.body.kind = (IF UseDB THEN "msg_key" ELSE "payload")
                       /\ UseDB => m.body.val[1] = "#"}
Answering(c) == Silent \cup {m \in Sound : m.op = IF IsApp(c) THEN "RECEIVE" ELSE "FETCH"}
SoundEntry == {e \in MessageEntry : /\ e.source # "" /\ e.destination # ""
                                    /\ UseDB => e.payload_obj[1] = "#"}
UpOf(ch) == IF ch = "SEND" THEN Sound ELSE Silent
DownOf(c, ch) == IF ch = "RECV" THEN Answering(c) ELSE Silent
DataSound ==
    /\ \A c \in Client : \A ch \in Channel : up[<<c, ch>>] \in Seq(UpOf(ch)) /\ down[<<c, ch>>] \in Seq(DownOf(c, ch))
    /\ tx_buffer \in Seq(SoundEntry) /\ rx_buffer \in Seq(SoundEntry)

(* A client in use runs on the daemon's setting of the database. *)
Configured == IF UseDB THEN StartInv ELSE \A c \in Client : ~cfg[c].use_db

(* No client in use hangs, and only clients in use have anything on their   *)
(* SEND and RECV channels.                                                  *)
Fresh ==
    Alive => \A c \in Client :
        /\ pc[c] # "spin"
        /\ ~Admitted(c) => \A ch \in {"SEND", "RECV"} : up[<<c, ch>>] = <<>> /\ down[<<c, ch>>] = <<>>

LossInv == LogInv /\ LinkInv /\ EndsFollowPc /\ Configured /\ DataSound /\ Fresh

(* The setting of a client in use. *)
LEMMA UsesSetting ==
    ASSUME TypeOK, Configured, NEW c \in Client, Admitted(c)
    PROVE  cfg[c].use_db = UseDB
<1>1. CASE UseDB
  <2>1. cfg[c] = DaemonConfig
    BY <1>1 DEF Configured, StartInv, StartRight
  <2> QED BY <2>1 DEF DaemonConfig
<1>2. CASE ~UseDB
  <2>1. ~cfg[c].use_db
    BY <1>2 DEF Configured
  <2>2. cfg[c].use_db \in BOOLEAN /\ UseDB \in BOOLEAN
    BY DatabaseTypes, ConfigAssumption
  <2> QED BY <1>2, <2>1, <2>2
<1> QED BY <1>1, <1>2

(* Configured is kept by every step. *)
LEMMA ConfiguredStep ==
    ASSUME SystemMode = "PULL", KeysTravel, TypeInv, Configured, [Next]_vars
    PROVE  Configured'
<1>1. CASE UseDB
  BY <1>1, StartInvStep DEF Configured, KeysTravel
<1>2. CASE ~UseDB
  <2>1. cfg \in [Client -> Config] /\ \A c \in Client : ~cfg[c].use_db
    BY <1>2 DEF Configured, TypeInv, TypeOK, ClientTypeOK
  <2>2. ~DaemonConfig.use_db
    BY <1>2 DEF DaemonConfig
  <2>3. cfg' = cfg \/ \E c \in Client : cfg' = [cfg EXCEPT ![c] = DaemonConfig]
    <3>1. CASE UNCHANGED vars
      BY <3>1 DEF vars, clientVars
    <3>2. CASE DaemonNext /\ UNCHANGED clientVars
      BY <3>2 DEF clientVars
    <3>3. ASSUME NEW c \in Client, ClientNext(c) PROVE cfg' = cfg \/ cfg' = [cfg EXCEPT ![c] = DaemonConfig]
      BY <3>3 DEF ClientNext, ConnectChannel, ConnectFails, Close, BrokenPipe, initialize, InitTimeout, ping, exit,
                  WaitTimeout, WaitEof, Responded, InitReturn, PingReturn, ReceiveReturn, FetchReturn,
                  send, receive, fetch, post
    <3> QED BY <3>1, <3>2, <3>3 DEF Next
  <2>4. \A c \in Client : ~cfg'[c].use_db
    BY <2>1, <2>2, <2>3
  <2> QED BY <1>2, <2>4 DEF Configured
<1> QED BY <1>1, <1>2

-----------------------------------------------------------------------------
(* The ends of the connections.                                            *)

(* A client that neither connects nor closes keeps its ends as they are. *)
LEMMA EndsStay ==
    ASSUME TypeOK, EndsFollowPc, NEW c \in Client, client_end' = client_end,
           NEW to, pc' = pc \/ pc' = [pc EXCEPT ![c] = to],
           pc[c] \notin {"connect", "closed"}, to \notin {"connect", "closed"}
    PROVE  EndsFollowPc'
<1>1. pc \in [Client -> PcState]
  BY DEF TypeOK, ClientTypeOK
<1>2. \A d \in Client : pc'[d] = pc[d] \/ (d = c /\ pc'[d] = to)
  BY <1>1
<1> QED BY <1>2 DEF EndsFollowPc

(* A client that closes has no end open. *)
LEMMA EndsClose ==
    ASSUME TypeOK, EndsFollowPc, NEW c \in Client, NEW unread, CloseConnections(c, unread)
    PROVE  EndsFollowPc'
<1>1. pc \in [Client -> PcState] /\ pc' = [pc EXCEPT ![c] = "closed"]
  BY DEF TypeOK, ClientTypeOK, CloseConnections, Goto
<1>2. \A d \in Client : pc'[d] = IF d = c THEN "closed" ELSE pc[d]
  BY <1>1
<1>3. \A d \in Client : \A ch \in Channel :
          /\ d # c => client_end'[<<d, ch>>] = client_end[<<d, ch>>]
          /\ client_end'[<<d, ch>>] = "none" <=> client_end[<<d, ch>>] = "none"
  BY ConnFacts DEF CloseConnections
<1>4. \A d \in Client : client_end'[<<d, "SEND">>] # "none" => client_end'[<<d, "CTRL">>] # "none"
  BY <1>3 DEF EndsFollowPc, Channel
<1>5. ASSUME NEW d \in Client, NEW ch \in Channel
      PROVE  /\ pc'[d] \notin {"connect", "closed"} => client_end'[<<d, ch>>] = "open"
             /\ pc'[d] = "connect" => client_end'[<<d, ch>>] # "closed"
  <2>1. CASE d = c
    BY <1>2, <2>1
  <2>2. CASE d # c
    <3>1. pc'[d] = pc[d] /\ client_end'[<<d, ch>>] = client_end[<<d, ch>>]
      BY <1>2, <1>3, <2>2
    <3> QED BY <3>1 DEF EndsFollowPc
  <2> QED BY <2>1, <2>2
<1> QED BY <1>4, <1>5 DEF EndsFollowPc

(* A client that connects opens its channels one by one. *)
LEMMA EndsConnect ==
    ASSUME TypeOK, EndsFollowPc, NEW c \in Client, NEW ch \in Channel, ConnectChannel(c, ch)
    PROVE  EndsFollowPc'
<1>1. /\ pc \in [Client -> PcState] /\ client_end \in [Conn -> {"none", "open", "closed"}]
      /\ pc[c] = "connect" /\ pc' = [pc EXCEPT ![c] = IF ch = "RECV" THEN "init" ELSE "connect"]
      /\ client_end' = [client_end EXCEPT ![<<c, ch>>] = "open"]
      /\ ch = "SEND" => client_end[<<c, "CTRL">>] # "none"
      /\ ch = "RECV" => client_end[<<c, "SEND">>] # "none"
  BY DEF TypeOK, ClientTypeOK, SocketsTypeOK, ConnectChannel, Goto
<1>2. \A d \in Client : pc'[d] = IF d = c THEN (IF ch = "RECV" THEN "init" ELSE "connect") ELSE pc[d]
  BY <1>1
<1>3. \A d \in Client : \A h \in Channel :
          client_end'[<<d, h>>] = IF d = c /\ h = ch THEN "open" ELSE client_end[<<d, h>>]
  BY <1>1, ConnFacts
<1>4. \A h \in Channel : client_end[<<c, h>>] \in {"none", "open"}
  BY <1>1, ConnFacts DEF EndsFollowPc
<1>5. ASSUME NEW d \in Client
      PROVE  /\ \A h \in Channel :
                  /\ pc'[d] \notin {"connect", "closed"} => client_end'[<<d, h>>] = "open"
                  /\ pc'[d] = "connect" => client_end'[<<d, h>>] # "closed"
             /\ client_end'[<<d, "SEND">>] # "none" => client_end'[<<d, "CTRL">>] # "none"
  <2>1. CASE d # c
    BY <1>2, <1>3, <2>1 DEF EndsFollowPc, Channel
  <2>2. CASE d = c
    <3>1. client_end[<<c, "SEND">>] # "none" => client_end[<<c, "CTRL">>] # "none"
      BY DEF EndsFollowPc
    <3>2. ch = "RECV" => \A h \in Channel : client_end'[<<c, h>>] = "open"
      BY <1>1, <1>3, <1>4, <3>1 DEF Channel
    <3>3. \A h \in Channel : client_end'[<<c, h>>] # "closed"
      BY <1>3, <1>4
    <3>4. client_end'[<<c, "SEND">>] # "none" => client_end'[<<c, "CTRL">>] # "none"
      BY <1>1, <1>3, <3>1 DEF Channel
    <3> QED BY <1>2, <2>2, <3>2, <3>3, <3>4
  <2> QED BY <2>1, <2>2
<1> QED BY <1>5 DEF EndsFollowPc

(* EndsFollowPc is kept by every step. *)
LEMMA EndsStep ==
    ASSUME TypeOK, EndsFollowPc, [Next]_vars
    PROVE  EndsFollowPc'
<1>1. ASSUME UNCHANGED <<pc, client_end>> PROVE EndsFollowPc'
  BY <1>1 DEF EndsFollowPc
<1>2. CASE UNCHANGED vars
  BY <1>1, <1>2 DEF vars, socketVars, clientVars
<1>3. CASE DaemonNext /\ UNCHANGED clientVars
  <2>1. UNCHANGED client_end
    <3>1. ASSUME NEW f, NEW n, Handle(f, n) PROVE UNCHANGED client_end
      <4>1. Receive(f, n)
        BY <3>1 DEF Handle, handle_init, handle_ping, handle_send, handle_fetch, handle_post, handle_receive, handle_exit
      <4> QED BY <4>1 DEF Receive
    <3>2. CASE Select \/ Accept \/ Shutdown \/ \E f : Disconnect(f)
      BY <3>2 DEF Select, Disconnect, Accept, Shutdown, socketVars
    <3> QED BY <1>3, <3>1, <3>2 DEF DaemonNext
  <2> QED BY <1>1, <1>3, <2>1 DEF clientVars
<1>4. ASSUME NEW c \in Client, ClientNext(c) PROVE EndsFollowPc'
  <2>1. CASE \E ch \in Channel : ConnectChannel(c, ch)
    BY <2>1, EndsConnect
  <2>2. CASE \E unread : CloseConnections(c, unread)
    BY <2>2, EndsClose
  <2>3. ASSUME UNCHANGED client_end, pc[c] \notin {"connect", "closed"},
               pc' = pc \/ \E to : to \notin {"connect", "closed"} /\ Goto(c, to)
        PROVE  EndsFollowPc'
    BY <1>1, <2>3, EndsStay DEF Goto
  <2>4. CASE ConnectFails(c) \/ Close(c) \/ BrokenPipe(c)
    BY <2>2, <2>4 DEF ConnectFails, Close, BrokenPipe
  <2>5. CASE initialize(c)
    BY <2>3, <2>5 DEF initialize, socketsButUp
  <2>6. CASE InitTimeout(c)
    BY <2>2, <2>3, <2>6 DEF InitTimeout
  <2>7. CASE ping(c) \/ exit(c)
    BY <2>3, <2>7 DEF ping, exit, socketsButUp
  <2>8. CASE WaitTimeout(c)
    BY <2>3, <2>8 DEF WaitTimeout, socketVars
  <2>9. CASE WaitEof(c)
    BY <2>2, <2>3, <2>9 DEF WaitEof, WaitState
  <2>10. CASE Responded(c)
    <3>1. PICK n : InitReturn(c, n) \/ PingReturn(c, n) \/ ReceiveReturn(c, n) \/ FetchReturn(c, n)
      BY <2>10 DEF Responded
    <3>2. CASE InitReturn(c, n)
      BY <2>2, <2>3, <3>2 DEF InitReturn
    <3>3. CASE PingReturn(c, n)
      BY <2>3, <3>3 DEF PingReturn, socketsButDown
    <3>4. CASE ReceiveReturn(c, n)
      BY <2>3, <3>4 DEF ReceiveReturn, socketsButDown
    <3>5. CASE FetchReturn(c, n)
      BY <2>3, <3>5 DEF FetchReturn, socketsButDown
    <3> QED BY <3>1, <3>2, <3>3, <3>4, <3>5
  <2>11. CASE \/ \E d \in SendTo[c] : send(c, d)
              \/ \E d \in ReceiveAs \cup {Ident[c]} : receive(c, d)
              \/ \E s \in FetchFrom : fetch(c, s)
              \/ \E e \in Network : post(c, e)
    BY <2>3, <2>11 DEF send, receive, fetch, post, socketsButUp
  <2> QED BY <1>4, <2>1, <2>4, <2>5, <2>6, <2>7, <2>8, <2>9, <2>10, <2>11 DEF ClientNext
<1> QED BY <1>2, <1>3, <1>4 DEF Next

-----------------------------------------------------------------------------
(* The clients while the daemon lives and none of them is destroyed.       *)

InUse == {"idle", "pingWait", "recvWait", "fetchWait"}

(* A call that moves no payload: it does nothing to the channels, asks for  *)
(* something, reads the CTRL channel, or ends a client that waits for the   *)
(* answer to its INIT.                                                      *)
CalmCall(c) ==
    /\ UNCHANGED dataVars
    /\ \E to : /\ pc' = pc \/ pc' = [pc EXCEPT ![c] = to]
               /\ to # "spin" /\ (Admitted(c) => to \in InUse)
    /\ \/ UNCHANGED <<up, down>>
       \/ \E ch \in {"CTRL", "RECV"} : \E m \in Silent :
             SendMessage(c, ch, m) /\ UNCHANGED down /\ (ch = "CTRL" \/ Admitted(c))
       \/ \E n : TakeFrom(c, "CTRL", n) /\ UNCHANGED up
       \/ /\ pc[c] = "initWait" /\ UNCHANGED up
          /\ down' = [k \in Conn |-> IF k[1] = c THEN <<>> ELSE down[k]]

(* One that may move a payload. *)
DataCall(c) ==
    \/ \E n : ReceiveReturn(c, n) \/ FetchReturn(c, n)
    \/ \E d \in SendTo[c] : send(c, d)
    \/ \E e \in Network : post(c, e)

(* The daemon holds its ends of the channels of a client in use. *)
LEMMA EndsHeld ==
    ASSUME Alive, DescriptorsConsistent, EndsFollowPc, NEW c \in Client, pc[c] \notin {"connect", "closed"},
           NEW ch \in Channel
    PROVE  ServerEnd(<<c, ch>>) /\ client_end[<<c, ch>>] = "open"
  BY ConnFacts DEF DescriptorsConsistent, ServerEndsRight, EndsFollowPc

(* So there is no other call. *)
LEMMA LivingClient ==
    ASSUME Alive, MayClose = {}, TypeInv, DescriptorsConsistent, EndsFollowPc, NEW c \in Client, ClientNext(c)
    PROVE  CalmCall(c) \/ DataCall(c)
<1>0. TypeOK /\ \A ch \in Channel : pc[c] \notin {"connect", "closed"} => ServerEnd(<<c, ch>>)
  BY EndsHeld DEF TypeInv
<1>1. CASE \E ch \in Channel : ConnectChannel(c, ch)
  <2>1. /\ UNCHANGED <<up, down>> /\ UNCHANGED dataVars /\ ~Admitted(c)
        /\ Goto(c, "init") \/ Goto(c, "connect")
    BY <1>1 DEF ConnectChannel, daemonVars, bufferVars, logVars, dataVars, Admitted
  <2> QED BY <2>1 DEF CalmCall, Goto
<1>2. ~ConnectFails(c) /\ ~Close(c)
  BY DEF ConnectFails, Close, Alive
<1>3. ~BrokenPipe(c)
  BY <1>0 DEF BrokenPipe
<1>4. ~WaitEof(c)
  BY <1>0 DEF WaitEof, WaitState, WaitChannel, Channel
<1>5. CASE initialize(c)
  <2>1. IntroMessage(c) \in Silent
    BY BareTypes, PlainMessages DEF Op, Silent
  <2>2. SendMessage(c, "CTRL", IntroMessage(c)) /\ UNCHANGED down /\ UNCHANGED dataVars
    BY <1>5 DEF initialize, socketsButUp, daemonVars, bufferVars, logVars, dataVars
  <2>3. pc' = [pc EXCEPT ![c] = "initWait"] /\ ~Admitted(c)
    BY <1>5 DEF initialize, Goto, Admitted
  <2> QED BY <2>1, <2>2, <2>3 DEF CalmCall
<1>6. CASE InitTimeout(c)
  <2>1. UNCHANGED up /\ UNCHANGED dataVars /\ pc[c] = "initWait" /\ ~Admitted(c)
    BY <1>6 DEF InitTimeout, daemonVars, bufferVars, logVars, dataVars, Admitted
  <2>2. CASE Goto(c, "idle") /\ UNCHANGED down
    BY <2>1, <2>2 DEF CalmCall, Goto
  <2>3. CASE CloseConnections(c, down)
    BY <2>1, <2>3 DEF CalmCall, CloseConnections, Goto
  <2> QED BY <1>6, <2>2, <2>3 DEF InitTimeout
<1>7. CASE ping(c) \/ exit(c)
  <2>1. \A op \in Op : Bare(op, Orig[c], "SUCCESS") \in Silent
    BY BareTypes, PlainMessages DEF Silent
  <2>2. UNCHANGED down /\ UNCHANGED dataVars
    BY <1>7 DEF ping, exit, socketsButUp, daemonVars, bufferVars, logVars, dataVars
  <2>3. \E m \in Silent : SendMessage(c, "CTRL", m)
    BY <1>7, <2>1 DEF ping, exit, Op
  <2>4. pc' = pc \/ pc' = [pc EXCEPT ![c] = "pingWait"]
    BY <1>7 DEF ping, exit, Goto
  <2> QED BY <2>2, <2>3, <2>4 DEF CalmCall, InUse
<1>8. CASE WaitTimeout(c)
  <2>1. UNCHANGED <<up, down>> /\ UNCHANGED dataVars /\ pc' = [pc EXCEPT ![c] = "idle"]
    BY <1>8 DEF WaitTimeout, socketVars, daemonVars, bufferVars, logVars, dataVars, Goto
  <2> QED BY <2>1 DEF CalmCall, InUse
<1>9. CASE Responded(c)
  <2>1. PICK n : InitReturn(c, n) \/ PingReturn(c, n) \/ ReceiveReturn(c, n) \/ FetchReturn(c, n)
    BY <1>9 DEF Responded
  <2>2. CASE InitReturn(c, n)
    <3>1. UNCHANGED up /\ UNCHANGED dataVars /\ pc[c] = "initWait" /\ ~Admitted(c)
      BY <2>2 DEF InitReturn, daemonVars, bufferVars, logVars, dataVars, Admitted
    <3>2. CASE TakeFrom(c, "CTRL", n) /\ Goto(c, "idle")
      BY <3>1, <3>2 DEF CalmCall, Goto
    <3>3. CASE CloseConnections(c, [down EXCEPT ![<<c, "CTRL">>] = Unread(@, n)])
      BY <3>1, <3>3 DEF CalmCall, CloseConnections, Goto
    <3> QED BY <2>2, <3>2, <3>3 DEF InitReturn
  <2>3. CASE PingReturn(c, n)
    <3>1. TakeFrom(c, "CTRL", n) /\ UNCHANGED up /\ UNCHANGED dataVars /\ pc' = [pc EXCEPT ![c] = "idle"]
      BY <2>3 DEF PingReturn, socketsButDown, daemonVars, bufferVars, logVars, dataVars, Goto
    <3> QED BY <3>1 DEF CalmCall, InUse
  <2> QED BY <2>1, <2>2, <2>3 DEF DataCall
<1>10. CASE \E d \in ReceiveAs \cup {Ident[c]} : receive(c, d)
  <2>1. PICK d \in ReceiveAs \cup {Ident[c]} : receive(c, d)
    BY <1>10
  <2> DEFINE m == [Bare("RECEIVE", Orig[c], "SUCCESS") EXCEPT !.metadata = Route("", d)]
  <2>2. /\ UNCHANGED down /\ UNCHANGED dataVars /\ Admitted(c)
        /\ pc' = [pc EXCEPT ![c] = "recvWait"] /\ (UNCHANGED up \/ SendMessage(c, "RECV", m))
    BY <2>1 DEF receive, socketsButUp, daemonVars, bufferVars, logVars, dataVars, Goto, Admitted
  <2>3. m \in Silent
    <3>1. d \in Id /\ "" \in Id
      BY ClientAssumption, WireAssumption DEF Id, Identifier
    <3>2. Route("", d) \in Metadata /\ ~Bears(m)
      BY <3>1, MessageTypes DEF Bears, Bare, NoBody
    <3> QED BY <3>2, BareTypes DEF Op, Silent
  <2> HIDE DEF m
  <2> QED BY <2>2, <2>3 DEF CalmCall, InUse
<1>11. CASE \E s \in FetchFrom : fetch(c, s)
  <2>1. PICK s \in FetchFrom : fetch(c, s)
    BY <1>11
  <2> DEFINE m == [Bare("FETCH", Orig[c], "SUCCESS") EXCEPT !.metadata = FetchMetadata(c, s)]
  <2>2. /\ UNCHANGED down /\ UNCHANGED dataVars /\ Admitted(c)
        /\ pc' = [pc EXCEPT ![c] = "fetchWait"] /\ (UNCHANGED up \/ SendMessage(c, "RECV", m))
    BY <2>1 DEF fetch, socketsButUp, daemonVars, bufferVars, logVars, dataVars, Goto, Admitted
  <2>3. m \in Silent
    <3>1. s \in Id /\ "" \in Id /\ Ident[c] \in Id
      BY ClientAssumption, WireAssumption DEF Id, Identifier
    <3>2. FetchMetadata(c, s) \in Metadata
      BY <3>1, MessageTypes DEF FetchMetadata
    <3>3. ~Bears(m)
      BY DEF Bears, Bare, NoBody
    <3> QED BY <3>2, <3>3, BareTypes DEF Op, Silent
  <2> HIDE DEF m
  <2> QED BY <2>2, <2>3 DEF CalmCall, InUse
<1> QED BY <1>1, <1>2, <1>3, <1>4, <1>5, <1>6, <1>7, <1>8, <1>9, <1>10, <1>11 DEF ClientNext, DataCall

-----------------------------------------------------------------------------
(* DataSound.                                                              *)

(* What is parsed of sound messages has the fields of the last of them. *)
LEMMA ParsedSound ==
    ASSUME NEW s \in Seq(Sound), NEW n \in 1 .. Len(s), NEW m \in nsbm, m = Parse(Read(s, n))
    PROVE  m \in Sound
<1>1. PICK x : x = s[n]
  OBVIOUS
<1>2. x \in Sound /\ s \in Seq(nsbm)
  <2>1. Sound \subseteq nsbm
    BY DEF Sound
  <2>2. s \in Seq(nsbm)
    BY <2>1, SeqMono
  <2>3. s[n] \in Sound
    OBVIOUS
  <2> QED BY <1>1, <2>2, <2>3
<1>3. n \in Nat \ {0} /\ DOMAIN Read(s, n) = 1 .. n /\ Read(s, n)[n] = x
  BY <1>1, <1>2 DEF Read
<1>4. /\ x.code = "MESSAGE" /\ x.metadata.src # "" /\ x.metadata.dest # "" /\ x.body # NoBody
      /\ x.body.kind = (IF UseDB THEN "msg_key" ELSE "payload")
  <2>1. /\ x.code = "MESSAGE" /\ x.metadata.src # "" /\ x.metadata.dest # ""
        /\ x.body.kind = (IF UseDB THEN "msg_key" ELSE "payload")
    BY <1>2 DEF Sound
  <2>2. x.body.kind # "none"
    BY <2>1
  <2>3. NoBody.kind = "none"
    BY DEF NoBody
  <2>4. x.body # NoBody
    BY <2>2, <2>3
  <2> QED BY <2>1, <2>4
<1> DEFINE r == Read(s, n)
           q1 == [i \in DOMAIN r |-> r[i].code]
           q2 == [i \in DOMAIN r |-> r[i].metadata.src]
           q3 == [i \in DOMAIN r |-> r[i].metadata.dest]
           q4 == [i \in DOMAIN r |-> r[i].body]
<1>5. /\ DOMAIN q1 = 1 .. n /\ DOMAIN q2 = 1 .. n /\ DOMAIN q3 = 1 .. n /\ DOMAIN q4 = 1 .. n
      /\ q1[n] = x.code /\ q2[n] = x.metadata.src /\ q3[n] = x.metadata.dest /\ q4[n] = x.body
  BY <1>3
<1>6. /\ m.code = LastSet(q1, "SUCCESS") /\ m.metadata.src = LastSet(q2, "")
      /\ m.metadata.dest = LastSet(q3, "") /\ m.body = LastSet(q4, NoBody)
  BY DEF Parse
<1> HIDE DEF q1, q2, q3, q4
<1>7. /\ LastSet(q1, "SUCCESS") = x.code /\ LastSet(q2, "") = x.metadata.src
      /\ LastSet(q3, "") = x.metadata.dest /\ LastSet(q4, NoBody) = x.body
  BY <1>3, <1>4, <1>5, LastSetLast
<1> QED BY <1>2, <1>6, <1>7 DEF Sound

(* A sound message is buffered as a sound entry. *)
LEMMA SoundBuffered ==
    ASSUME NEW m \in Sound
    PROVE  Entry(UseDB, m) \in SoundEntry /\ Entry(UseDB, m).payload_obj = m.body.val
<1>1. m \in nsbm /\ Entry(UseDB, m) \in MessageEntry
  BY MessageTypes, ConfigAssumption DEF Sound
<1>2. PayloadOf(UseDB, m) = m.body.val
  BY DEF Sound, PayloadOf
<1> QED BY <1>1, <1>2 DEF Sound, SoundEntry, Entry

(* A sound entry is answered with a sound message, if at all. *)
LEMMA SoundAnswered ==
    ASSUME NEW c \in Client, NEW e \in SoundEntry
    PROVE  EntryReply(IF IsApp(c) THEN "RECEIVE" ELSE "FETCH", e) \in Answering(c)
<1>1. PICK op \in {"FETCH", "RECEIVE"} : op = IF IsApp(c) THEN "RECEIVE" ELSE "FETCH"
  OBVIOUS
<1>2. EntryReply(op, e) \in nsbm
  BY EntryReplyType DEF SoundEntry, Op
<1>3. CASE exists(e)
  BY <1>1, <1>2, <1>3 DEF EntryReply, Answering, Sound, SoundEntry, Route, PayloadBody
<1>4. CASE ~exists(e)
  BY <1>1, <1>2, <1>4, PlainMessages DEF EntryReply, Answering, Silent
<1> QED BY <1>1, <1>3, <1>4

(* What a client in use writes on its SEND channel is sound. *)
LEMMA SoundSent ==
    ASSUME KeysTravel, LogInv, Configured, NEW c \in Client,
           (\E d \in SendTo[c] : send(c, d)) \/ (\E e \in Network : post(c, e))
    PROVE  /\ \E m \in Sound : SendMessage(c, "SEND", m)
           /\ UNCHANGED <<down, tx_buffer, rx_buffer>>
<1>0. /\ TypeOK /\ TypeInv /\ FetchedReal /\ KeysKnown
  BY DEF LogInv, BridgeInv, PlaceInv, TypeInv
<1>1. Admitted(c)
  BY DEF send, post, Admitted
<1>2. cfg[c].use_db = UseDB
  BY <1>0, <1>1, UsesSetting
<1>3. ASSUME NEW op \in Op, NEW s \in Id, NEW d \in Id, s # "", d # "", NEW v \in Value
      PROVE  DataMessage(c, op, s, d, StoredBody(c, v)) \in Sound
  <2>1. StoredBody(c, v) \in Body
    BY <1>0, DatabaseTypes
  <2>2. DataMessage(c, op, s, d, StoredBody(c, v)) \in nsbm
    BY <1>3, <2>1, DataMessageType
  <2>3. /\ StoredBody(c, v).kind = (IF UseDB THEN "msg_key" ELSE "payload")
        /\ UseDB => StoredBody(c, v).val[1] = "#"
    BY <1>2 DEF StoredBody, PayloadBody
  <2> QED BY <1>3, <2>2, <2>3 DEF DataMessage, Sound, Route
<1>4. ASSUME NEW d \in SendTo[c], send(c, d)
      PROVE  /\ \E m \in Sound : SendMessage(c, "SEND", m)
             /\ UNCHANGED <<down, tx_buffer, rx_buffer>>
  <2>1. PICK v \in {<<c, nsent[c] + 1>>} \cup (IF EmptyPayloads THEN {NoValue} ELSE {}) :
            SendMessage(c, "SEND", DataMessage(c, "SEND", Ident[c], d, StoredBody(c, v)))
    BY <1>4 DEF send
  <2>2. v \in Value
    <3>0. nsent \in [Client -> 0 .. MaxSends]
      BY <1>0 DEF TypeOK, ClientTypeOK
    <3>1. MaxSends \in Nat
      BY WireAssumption
    <3>a. nsent[c] \in 0 .. MaxSends
      BY <3>0
    <3>b. nsent[c] + 1 \in Nat
      BY <3>1, <3>a
    <3>2. <<c, nsent[c] + 1>> \in Value
      BY <3>b DEF Value
    <3> QED BY <2>1, <3>2, MessageTypes
  <2>3. Ident[c] \in Id /\ d \in Id /\ Ident[c] # "" /\ d # ""
    BY ClientAssumption, WireAssumption DEF Id, Identifier
  <2>4. DataMessage(c, "SEND", Ident[c], d, StoredBody(c, v)) \in Sound
    BY <1>3, <2>2, <2>3 DEF Op
  <2> QED BY <1>4, <2>1, <2>4 DEF send, socketsButUp, daemonVars, bufferVars
<1>5. ASSUME NEW e \in Network, post(c, e)
      PROVE  /\ \E m \in Sound : SendMessage(c, "SEND", m)
             /\ UNCHANGED <<down, tx_buffer, rx_buffer>>
  <2>1. e \in MessageEntry /\ exists(e)
    BY <1>0, NetworkType DEF FetchedReal, Network
  <2>2. PICK v : v = e.payload_obj
    OBVIOUS
  <2>3. v \in Value /\ e.source \in Id /\ e.destination \in Id /\ e.source # "" /\ e.destination # ""
    BY <2>1, <2>2 DEF MessageEntry, exists
  <2>4. PostBody(c, v) = StoredBody(c, v)
    <3>1. ~IsApp(c)
      BY <1>5 DEF post, IsApp
    <3>2. Impl[c] = "py" => ~UseDB
      BY <3>1 DEF KeysTravel
    <3> QED BY <1>2, <3>2 DEF PostBody, StoredBody, PayloadBody
  <2>5. DataMessage(c, "POST", e.source, e.destination, StoredBody(c, v)) \in Sound
    BY <1>3, <2>3 DEF Op
  <2>6. SendMessage(c, "SEND", DataMessage(c, "POST", e.source, e.destination, PostBody(c, v)))
    BY <1>5, <2>2 DEF post
  <2> QED BY <1>5, <2>4, <2>5, <2>6 DEF post, socketsButUp, daemonVars, bufferVars
<1> QED BY <1>4, <1>5

(* A step that leaves the data as it is keeps the streams sound. *)
LEMMA QuietSound ==
    ASSUME TypeInv, DataSound, [Next]_vars, QuietStep
    PROVE  DataSound'
<1>1. ASSUME NEW c \in Client, NEW ch \in Channel
      PROVE  up'[<<c, ch>>] \in Seq(UpOf(ch)) /\ down'[<<c, ch>>] \in Seq(DownOf(c, ch))
  <2>1. PICK k : k = <<c, ch>>
    OBVIOUS
  <2>2. k \in Conn
    BY <2>1, ConnFacts
  <2>3. up[k] \in Seq(UpOf(ch)) /\ down[k] \in Seq(DownOf(c, ch))
    BY <2>1 DEF DataSound
  <2>4. Quiet(up[k], up'[k]) /\ Quiet(down[k], down'[k])
    BY <2>2 DEF QuietStep, Plainly
  <2>5. UpOf(ch) \subseteq nsbm /\ DownOf(c, ch) \subseteq nsbm
    BY DEF UpOf, DownOf, Answering, Sound, Silent
  <2>6. \A m \in nsbm : ~Bears(m) => m \in DownOf(c, ch)
    BY DEF DownOf, Answering, Silent
  <2>7. down'[k] \in Seq(DownOf(c, ch))
    BY <2>3, <2>4, <2>5, <2>6, QuietKnown
  <2>8. CASE ch = "SEND"
    <3>1. Suffix(up[k], up'[k])
      BY <2>1, <2>8, QuietSends DEF QuietStep
    <3>2. up'[k] \in Seq(UpOf(ch))
      BY <2>3, <3>1, StreamOf
    <3> QED BY <2>1, <2>7, <3>2
  <2>9. CASE ch # "SEND"
    <3>1. \A m \in nsbm : ~Bears(m) => m \in UpOf(ch)
      BY <2>9 DEF UpOf, Silent
    <3>2. up'[k] \in Seq(UpOf(ch))
      BY <2>3, <2>4, <2>5, <3>1, QuietKnown
    <3> QED BY <2>1, <2>7, <3>2
  <2> QED BY <2>8, <2>9
<1>2. tx_buffer' = tx_buffer /\ rx_buffer' = rx_buffer
  BY DEF QuietStep, dataVars
<1> QED BY <1>1, <1>2 DEF DataSound, UpOf, DownOf, Answering, Sound, Silent, SoundEntry

(* The daemon buffers sound messages as sound entries, and answers with them. *)
LEMMA HandlerSound ==
    ASSUME SystemMode = "PULL", LogInv, DataSound,
           NEW k \in Conn, NEW n \in Nat, NEW m \in nsbm, HandlerStepKind(k, n, m)
    PROVE  DataSound'
<1>0. TypeOK /\ TypeInv /\ AsksRight
  BY DEF LogInv, BridgeInv, PlaceInv, TypeInv, KindInv
<1>1. PICK c \in Client, ch \in Channel : k = <<c, ch>>
  BY DEF Conn
<1>2. DaemonReads(k, n, m)
  BY DEF HandlerStepKind, SendStep, PostStep, FetchStep, ReceiveStep, ForwardStep
<1>3. m.op \in AskedOps(c, ch)
  BY <1>0, <1>1, <1>2, HandlerAsked
<1>4. /\ up[k] \in Seq(UpOf(ch)) /\ down[k] \in Seq(DownOf(c, ch))
      /\ tx_buffer \in Seq(SoundEntry) /\ rx_buffer \in Seq(SoundEntry)
  BY <1>1 DEF DataSound
<1>5. /\ n \in 1 .. Len(up[k]) /\ m = Parse(Read(up[k], n))
      /\ up'[k] = Unread(up[k], n) /\ \A j \in Conn : j # k => up'[j] = up[j]
  BY <1>0, <1>2, ReadEnds
<1>6. m.op \in {"SEND", "POST"} => m \in Sound
  <2>1. m.op \in {"SEND", "POST"} => ch = "SEND"
    BY <1>3 DEF AskedOps
  <2>2. ch = "SEND" => up[k] \in Seq(Sound)
    BY <1>4 DEF UpOf
  <2> QED BY <1>5, <2>1, <2>2, ParsedSound
<1>7. m.op = "FETCH" => ch = "RECV" /\ ~IsApp(c)
  BY <1>3 DEF AskedOps, Channel
<1>8. m.op = "RECEIVE" => ch = "RECV" /\ IsApp(c)
  BY <1>3 DEF AskedOps, Channel
<1>9. /\ tx_buffer' \in Seq(SoundEntry) /\ rx_buffer' \in Seq(SoundEntry)
      /\ down' = down \/ \E r \in DownOf(c, ch) : Writes(k, r)
  <2>1. CASE SendStep(k, n, m)
    <3>1. Entry(UseDB, m) \in SoundEntry
      BY <1>6, <2>1, SoundBuffered DEF SendStep
    <3> QED BY <1>4, <2>1, <3>1 DEF SendStep
  <2>2. CASE PostStep(k, n, m)
    <3>1. Entry(UseDB, m) \in SoundEntry
      BY <1>6, <2>2, SoundBuffered DEF PostStep
    <3> QED BY <1>4, <2>2, <3>1 DEF PostStep
  <2>3. CASE FetchStep(k, n, m)
    <3>1. PICK i \in DOMAIN tx_buffer :
              /\ tx_buffer' = RemoveAt(tx_buffer, i) /\ Writes(k, EntryReply("FETCH", tx_buffer[i]))
      BY <2>3 DEF FetchStep
    <3>2. tx_buffer[i] \in SoundEntry /\ tx_buffer' \in Seq(SoundEntry)
      BY <1>4, <3>1, RemoveAtType
    <3>3. EntryReply("FETCH", tx_buffer[i]) \in DownOf(c, ch)
      BY <1>7, <2>3, <3>2, SoundAnswered DEF FetchStep, DownOf
    <3> QED BY <1>4, <2>3, <3>1, <3>2, <3>3 DEF FetchStep
  <2>4. CASE ReceiveStep(k, n, m)
    <3>1. PICK i \in DOMAIN rx_buffer :
              /\ rx_buffer' = RemoveAt(rx_buffer, i) /\ Writes(k, EntryReply("RECEIVE", rx_buffer[i]))
      BY <2>4 DEF ReceiveStep
    <3>2. rx_buffer[i] \in SoundEntry /\ rx_buffer' \in Seq(SoundEntry)
      BY <1>4, <3>1, RemoveAtType
    <3>3. EntryReply("RECEIVE", rx_buffer[i]) \in DownOf(c, ch)
      BY <1>8, <2>4, <3>2, SoundAnswered DEF ReceiveStep, DownOf
    <3> QED BY <1>4, <2>4, <3>1, <3>2, <3>3 DEF ReceiveStep
  <2> QED BY <2>1, <2>2, <2>3, <2>4 DEF HandlerStepKind, ForwardStep
<1>10. ASSUME NEW d \in Client, NEW h \in Channel
       PROVE  up'[<<d, h>>] \in Seq(UpOf(h)) /\ down'[<<d, h>>] \in Seq(DownOf(d, h))
  <2>1. PICK j : j = <<d, h>>
    OBVIOUS
  <2>2. j \in Conn /\ up[j] \in Seq(UpOf(h)) /\ down[j] \in Seq(DownOf(d, h))
    BY <2>1, ConnFacts DEF DataSound
  <2>3. down \in [Conn -> Seq(nsbm)]
    BY <1>0 DEF TypeOK, SocketsTypeOK
  <2>4. CASE j # k
    <3>1. up'[j] = up[j]
      BY <1>5, <2>2, <2>4
    <3>2. down'[j] = down[j]
      BY <1>9, <2>2, <2>3, <2>4 DEF Writes
    <3> QED BY <2>1, <2>2, <3>1, <3>2
  <2>5. CASE j = k
    <3>1. d = c /\ h = ch
      BY <1>1, <2>1, <2>5
    <3>2. Suffix(up[j], up'[j])
      BY <1>5, <2>2, <2>5, SuffixFacts
    <3>3. up'[j] \in Seq(UpOf(h))
      BY <2>2, <3>2, StreamOf
    <3>4. down'[j] = down[j] \/ \E r \in DownOf(d, h) : down'[j] = Append(down[j], r)
      BY <1>9, <2>2, <2>3, <2>5, <3>1 DEF Writes
    <3>5. down'[j] \in Seq(DownOf(d, h))
      BY <2>2, <3>4, StreamOf
    <3> QED BY <2>1, <3>3, <3>5
  <2> QED BY <2>4, <2>5
<1> QED BY <1>9, <1>10 DEF DataSound, UpOf, DownOf, Answering, Sound, Silent, SoundEntry

(* A client that sends writes a sound message, one that reads takes some. *)
LEMMA ClientSound ==
    ASSUME KeysTravel, LogInv, Configured, DataSound, NEW c \in Client, ClientStepKind(c)
    PROVE  DataSound'
<1>0. TypeOK /\ up \in [Conn -> Seq(nsbm)] /\ down \in [Conn -> Seq(nsbm)]
  BY DEF LogInv, BridgeInv, PlaceInv, TypeInv, TypeOK, SocketsTypeOK
<1>1. CASE (\E d \in SendTo[c] : send(c, d)) \/ (\E e \in Network : post(c, e))
  <2>1. PICK m \in Sound : SendMessage(c, "SEND", m)
    BY <1>1, SoundSent
  <2>2. UNCHANGED <<down, tx_buffer, rx_buffer>>
    BY <1>1, SoundSent
  <2>3. ASSUME NEW d \in Client, NEW h \in Channel
        PROVE  up'[<<d, h>>] \in Seq(UpOf(h))
    <3>1. PICK j : j = <<d, h>>
      OBVIOUS
    <3>2. j \in Conn /\ up[j] \in Seq(UpOf(h)) /\ <<c, "SEND">> \in Conn
      BY <3>1, ConnFacts DEF DataSound, Channel
    <3>3. up'[j] = up[j] \/ (h = "SEND" /\ up'[j] = Append(up[j], m))
      BY <1>0, <2>1, <3>1, <3>2 DEF SendMessage, UpAfterSend
    <3>4. h = "SEND" => m \in UpOf(h)
      BY DEF UpOf
    <3>5. up'[j] \in Seq(UpOf(h))
      BY <3>2, <3>3, <3>4, StreamOf
    <3> QED BY <3>1, <3>5
  <2> QED BY <2>2, <2>3 DEF DataSound, UpOf, DownOf, Answering, Sound, Silent, SoundEntry
<1>2. ASSUME NEW n \in Nat, NEW m \in nsbm, ReceivedStep(c, n, m) \/ FetchedStep(c, n, m)
      PROVE  DataSound'
  <2>1. /\ n \in 1 .. Len(down[<<c, "RECV">>]) /\ down' = [down EXCEPT ![<<c, "RECV">>] = Unread(@, n)]
        /\ UNCHANGED <<up, tx_buffer, rx_buffer>>
    BY <1>2 DEF ReceivedStep, FetchedStep, ClientReads
  <2>2. ASSUME NEW d \in Client, NEW h \in Channel
        PROVE  down'[<<d, h>>] \in Seq(DownOf(d, h))
    <3>1. PICK j, k : j = <<d, h>> /\ k = <<c, "RECV">>
      OBVIOUS
    <3>2. j \in Conn /\ down[j] \in Seq(DownOf(d, h)) /\ k \in Conn
      BY <3>1, ConnFacts DEF DataSound, Channel
    <3>3. CASE j # k
      BY <1>0, <2>1, <3>1, <3>2, <3>3
    <3>4. CASE j = k
      <4>1. down'[j] = Unread(down[j], n) /\ n \in 1 .. Len(down[j])
        BY <1>0, <2>1, <3>1, <3>2, <3>4
      <4>2. Suffix(down[j], down'[j])
        BY <3>2, <4>1, SuffixFacts
      <4> QED BY <3>1, <3>2, <4>2, StreamOf
    <3> QED BY <3>3, <3>4
  <2> QED BY <2>1, <2>2 DEF DataSound, UpOf, DownOf, Answering, Sound, Silent, SoundEntry
<1> QED BY <1>1, <1>2 DEF ClientStepKind

(* DataSound is kept by every step. *)
LEMMA DataSoundStep ==
    ASSUME SystemMode = "PULL", KeysTravel, LogInv, Configured, DataSound, [Next]_vars
    PROVE  DataSound'
<1>1. TypeInv
  BY DEF LogInv, BridgeInv, PlaceInv
<1> QED BY <1>1, DataSteps, QuietSound, HandlerSound, ClientSound

-----------------------------------------------------------------------------
(* Fresh.                                                                  *)

(* A call leaves the others alone. *)
LEMMA OthersStay ==
    ASSUME TypeOK, NEW c \in Client, CalmCall(c) \/ DataCall(c), NEW d \in Client, d # c, NEW ch \in Channel
    PROVE  pc'[d] = pc[d] /\ up'[<<d, ch>>] = up[<<d, ch>>] /\ down'[<<d, ch>>] = down[<<d, ch>>]
<1>1. PICK j : j = <<d, ch>>
  OBVIOUS
<1>2. j \in Conn /\ \A h : j # <<c, h>>
  BY <1>1, ConnFacts
<1>3. /\ pc \in [Client -> PcState] /\ up \in [Conn -> Seq(nsbm)] /\ down \in [Conn -> Seq(nsbm)]
  BY DEF TypeOK, ClientTypeOK, SocketsTypeOK
<1>4. ASSUME NEW h, NEW m, SendMessage(c, h, m) PROVE up'[j] = up[j]
  BY <1>2, <1>3, <1>4 DEF SendMessage, UpAfterSend
<1>5. ASSUME NEW h, NEW n, TakeFrom(c, h, n) PROVE down'[j] = down[j]
  BY <1>2, <1>3, <1>5 DEF TakeFrom
<1>6. CASE CalmCall(c)
  <2>1. pc'[d] = pc[d]
    BY <1>3, <1>6 DEF CalmCall
  <2>2. CASE UNCHANGED <<up, down>>
    BY <1>1, <2>1, <2>2
  <2>3. CASE \E h \in {"CTRL", "RECV"} : \E m \in Silent : SendMessage(c, h, m) /\ UNCHANGED down
    BY <1>1, <1>4, <2>1, <2>3
  <2>4. CASE \E n : TakeFrom(c, "CTRL", n) /\ UNCHANGED up
    BY <1>1, <1>5, <2>1, <2>4
  <2>5. CASE UNCHANGED up /\ down' = [k \in Conn |-> IF k[1] = c THEN <<>> ELSE down[k]]
    BY <1>1, <1>2, <2>1, <2>5
  <2> QED BY <1>6, <2>2, <2>3, <2>4, <2>5 DEF CalmCall
<1>7. CASE DataCall(c)
  <2>1. CASE \E n : ReceiveReturn(c, n) \/ FetchReturn(c, n)
    <3>1. \E n : TakeFrom(c, "RECV", n) /\ Goto(c, "idle") /\ UNCHANGED up
      BY <2>1 DEF ReceiveReturn, FetchReturn, socketsButDown
    <3> QED BY <1>1, <1>3, <1>5, <3>1 DEF Goto
  <2>2. CASE \E e \in SendTo[c] : send(c, e)
    <3>1. \E m : SendMessage(c, "SEND", m)
      BY <2>2 DEF send
    <3>2. UNCHANGED <<pc, down>>
      BY <2>2 DEF send, socketsButUp
    <3> QED BY <1>1, <1>4, <3>1, <3>2
  <2>3. CASE \E e \in Network : post(c, e)
    <3>1. \E m : SendMessage(c, "SEND", m)
      BY <2>3 DEF post
    <3>2. UNCHANGED <<pc, down>>
      BY <2>3 DEF post, socketsButUp
    <3> QED BY <1>1, <1>4, <3>1, <3>2
  <2> QED BY <1>7, <2>1, <2>2, <2>3 DEF DataCall
<1> QED BY <1>6, <1>7

(* The channels of a client that is not in use stay empty. *)
LEMMA CalmFresh ==
    ASSUME TypeOK, NEW c \in Client, CalmCall(c), pc[c] # "spin",
           ~Admitted(c) => \A ch \in {"SEND", "RECV"} : up[<<c, ch>>] = <<>> /\ down[<<c, ch>>] = <<>>
    PROVE  /\ pc'[c] # "spin"
           /\ ~Admitted(c)' => \A ch \in {"SEND", "RECV"} : up'[<<c, ch>>] = <<>> /\ down'[<<c, ch>>] = <<>>
<1>1. /\ pc \in [Client -> PcState] /\ up \in [Conn -> Seq(nsbm)] /\ down \in [Conn -> Seq(nsbm)]
  BY DEF TypeOK, ClientTypeOK, SocketsTypeOK
<1>2. PICK to : /\ pc' = pc \/ pc' = [pc EXCEPT ![c] = to]
                /\ to # "spin" /\ (Admitted(c) => to \in InUse)
  BY DEF CalmCall
<1>3. pc'[c] # "spin" /\ (Admitted(c) => Admitted(c)')
  BY <1>1, <1>2 DEF Admitted, InUse
<1>4. ASSUME ~Admitted(c), NEW ch \in {"SEND", "RECV"}
      PROVE  up'[<<c, ch>>] = <<>> /\ down'[<<c, ch>>] = <<>>
  <2>1. PICK j : j = <<c, ch>>
    OBVIOUS
  <2>2. j \in Conn /\ j # <<c, "CTRL">> /\ j[1] = c /\ up[j] = <<>> /\ down[j] = <<>>
    BY <1>4, <2>1, ConnFacts DEF Channel
  <2>3. CASE UNCHANGED <<up, down>>
    BY <2>1, <2>2, <2>3
  <2>4. CASE \E m \in Silent : SendMessage(c, "CTRL", m) /\ UNCHANGED down
    BY <1>1, <2>1, <2>2, <2>4 DEF SendMessage, UpAfterSend
  <2>5. CASE \E n : TakeFrom(c, "CTRL", n) /\ UNCHANGED up
    BY <1>1, <2>1, <2>2, <2>5 DEF TakeFrom
  <2>6. CASE UNCHANGED up /\ down' = [k \in Conn |-> IF k[1] = c THEN <<>> ELSE down[k]]
    BY <2>1, <2>2, <2>6
  <2> QED BY <1>4, <2>3, <2>4, <2>5, <2>6 DEF CalmCall
<1> QED BY <1>3, <1>4

(* A client that moves a payload is in use, and stays so. *)
LEMMA DataInUse ==
    ASSUME TypeOK, NEW c \in Client, DataCall(c)
    PROVE  pc'[c] = "idle" /\ Admitted(c)
<1>1. pc \in [Client -> PcState]
  BY DEF TypeOK, ClientTypeOK
<1>2. CASE \E n : ReceiveReturn(c, n) \/ FetchReturn(c, n)
  <2>1. Goto(c, "idle") /\ pc[c] \in {"recvWait", "fetchWait"}
    BY <1>2 DEF ReceiveReturn, FetchReturn
  <2> QED BY <1>1, <2>1 DEF Goto, Admitted
<1>3. CASE (\E e \in SendTo[c] : send(c, e)) \/ (\E e \in Network : post(c, e))
  <2>1. pc' = pc /\ pc[c] = "idle"
    BY <1>3 DEF send, post
  <2> QED BY <1>1, <2>1 DEF Admitted
<1> QED BY <1>2, <1>3 DEF DataCall

(* Fresh is kept by every step. *)
LEMMA FreshStep ==
    ASSUME SystemMode = "PULL", MayClose = {}, LinkInv, EndsFollowPc, Fresh, [Next]_vars
    PROVE  Fresh'
<1> SUFFICES ASSUME Alive'
             PROVE  \A c \in Client :
                       /\ pc'[c] # "spin"
                       /\ ~Admitted(c)' => \A ch \in {"SEND", "RECV"} :
                                              up'[<<c, ch>>] = <<>> /\ down'[<<c, ch>>] = <<>>
  BY DEF Fresh
<1>0. TypeInv /\ TypeOK /\ DescriptorsConsistent /\ Alive
  BY LeadsOn DEF LinkInv, TypeInv
<1>1. CASE UNCHANGED vars
  <2>1. UNCHANGED <<pc, up, down>>
    BY <1>1 DEF vars, clientVars, socketVars
  <2> QED BY <1>0, <2>1 DEF Fresh, Admitted
<1>2. CASE DaemonNext /\ UNCHANGED clientVars
  <2>1. pc' = pc /\ \A k \in Conn : Suffix(up[k], up'[k])
    BY <1>0, <1>2, DaemonTakes DEF clientVars
  <2>2. ASSUME NEW j \in Conn, up[j] = <<>>, down[j] = <<>> PROVE up'[j] = <<>> /\ down'[j] = <<>>
    <3>1. up'[j] = <<>>
      BY <2>1, <2>2 DEF Suffix
    <3>2. down'[j] = <<>>
      <4>1. CASE Select \/ Accept \/ Shutdown \/ \E f : Disconnect(f)
        BY <2>2, <4>1 DEF Select, Disconnect, Accept, Shutdown, socketVars
      <4>2. ASSUME NEW f \in read_fds \cap OpenFds, NEW n \in 1 .. Len(up[fd_table[f]]), Handle(f, n)
            PROVE  down'[j] = <<>>
        <5>1. fd_table[f] \in Conn
          BY <1>0, <1>2, <4>2, HandlersTyped, ReadOutcome
        <5>2. j # fd_table[f]
          BY <2>2
        <5> QED BY <1>0, <2>2, <4>2, <5>1, <5>2, HandlerWrites
      <4> QED BY <1>2, <4>1, <4>2 DEF DaemonNext
    <3> QED BY <3>1, <3>2
  <2>3. \A c \in Client : \A ch \in {"SEND", "RECV"} : <<c, ch>> \in Conn
    BY ConnFacts DEF Channel
  <2> QED BY <1>0, <2>1, <2>2, <2>3 DEF Fresh, Admitted
<1>3. ASSUME NEW c \in Client, ClientNext(c), NEW d \in Client
      PROVE  /\ pc'[d] # "spin"
             /\ ~Admitted(d)' => \A ch \in {"SEND", "RECV"} : up'[<<d, ch>>] = <<>> /\ down'[<<d, ch>>] = <<>>
  <2>1. CalmCall(c) \/ DataCall(c)
    BY <1>0, <1>3, LivingClient
  <2>2. /\ pc[d] # "spin"
        /\ ~Admitted(d) => \A ch \in {"SEND", "RECV"} : up[<<d, ch>>] = <<>> /\ down[<<d, ch>>] = <<>>
    BY <1>0 DEF Fresh
  <2>3. CASE d # c
    BY <1>0, <2>1, <2>2, <2>3, OthersStay DEF Admitted, Channel
  <2>4. CASE d = c /\ CalmCall(c)
    BY <1>0, <2>2, <2>4, CalmFresh
  <2>5. CASE d = c /\ DataCall(c)
    BY <1>0, <2>5, DataInUse DEF Admitted
  <2> QED BY <2>1, <2>3, <2>4, <2>5
<1> QED BY <1>1, <1>2, <1>3 DEF Next

-----------------------------------------------------------------------------
(* Keeping hold of a payload.                                              *)

Held(p) == \E x \in Box : Boxes(p)[x] # {}
HeldRight(p) == Places(p) # {} <=> Held(p)

(* A payload has a place where it is in a box. *)
LEMMA HeldPlaces == TypeOK => \A p \in Payload : HeldRight(p)
<1> SUFFICES ASSUME TypeOK, NEW p \in Payload
             PROVE  Places(p) # {} <=> Held(p)
  BY DEF HeldRight
<1>1. Places(p) # {} => Held(p)
  BY PlaceInBox DEF Held
<1>2. ASSUME NEW x \in Box, Boxes(p)[x] # {} PROVE Places(p) # {}
  <2>1. CASE \E k \in Conn : x = <<"up", k>> \/ x = <<"down", k>>
    BY <1>2, <2>1, BoxIsPlace DEF Places
  <2>2. CASE x = TxBox \/ x = RxBox \/ x = NetworkBox
    BY <1>2, <2>2, BoxIsPlace DEF Places
  <2>3. CASE \E c \in Client : x = <<"received", c>>
    BY <1>2, <2>3, BoxIsPlace DEF Places
  <2> QED BY <2>1, <2>2, <2>3, BoxKinds
<1> QED BY <1>1, <1>2 DEF Held

(* Where it is after a step. *)
LEMMA HeldAfter ==
    ASSUME NEW p,
           \/ \E k \in Conn : Hits(up'[k], Bearers(p)') # {} \/ Hits(down'[k], Bearers(p)') # {}
           \/ Hits(tx_buffer', Entries(p)') # {} \/ Hits(rx_buffer', Entries(p)') # {}
           \/ Network' \cap Mail(p) # {}
           \/ \E c \in Client : Hits(received'[c], Mail(p)) # {}
    PROVE  Held(p)'
<1>1. \E x \in Box : Boxes(p)'[x] # {}
  BY BoxesAfter, BoxKinds
<1> QED BY <1>1 DEF Held

(* All of s but what is in X is still in t. *)
Left(s, t, X) == \A i \in DOMAIN s : s[i] \in X \/ \E j \in DOMAIN t : t[j] = s[i]

(* What streams and buffers go through leaves them all but what was taken. *)
LEMMA LeftKinds ==
    ASSUME NEW T, NEW s \in Seq(T)
    PROVE  /\ \A X : Left(s, s, X)
           /\ \A X, x : Left(s, Append(s, x), X)
           /\ \A n \in 1 .. Len(s) : n = 1 => Left(s, Unread(s, n), {s[1]})
           /\ \A i \in DOMAIN s : Left(s, RemoveAt(s, i), {s[i]})
           /\ \A X, t : T \subseteq X => Left(s, t, X)
<1>1. \A X : Left(s, s, X)
  BY DEF Left
<1>2. ASSUME NEW X, NEW x PROVE Left(s, Append(s, x), X)
  <2>1. \A i \in DOMAIN s : i \in DOMAIN Append(s, x) /\ Append(s, x)[i] = s[i]
    OBVIOUS
  <2> QED BY <2>1 DEF Left
<1>3. ASSUME NEW n \in 1 .. Len(s), n = 1 PROVE Left(s, Unread(s, n), {s[1]})
  <2>1. DOMAIN Unread(s, n) = 1 .. (Len(s) - 1) /\ \A j \in 1 .. (Len(s) - 1) : Unread(s, n)[j] = s[j + 1]
    BY <1>3 DEF Unread
  <2>2. ASSUME NEW i \in DOMAIN s, i # 1 PROVE \E j \in DOMAIN Unread(s, n) : Unread(s, n)[j] = s[i]
    <3>1. i - 1 \in 1 .. (Len(s) - 1) /\ (i - 1) + 1 = i
      BY <2>2
    <3> QED BY <2>1, <3>1
  <2> QED BY <2>2 DEF Left
<1>4. ASSUME NEW i \in DOMAIN s PROVE Left(s, RemoveAt(s, i), {s[i]})
  <2>1. /\ DOMAIN RemoveAt(s, i) = 1 .. (Len(s) - 1)
        /\ \A j \in 1 .. (Len(s) - 1) : RemoveAt(s, i)[j] = IF j < i THEN s[j] ELSE s[j + 1]
    BY RemoveAtElements
  <2>2. ASSUME NEW a \in DOMAIN s, a # i PROVE \E j \in DOMAIN RemoveAt(s, i) : RemoveAt(s, i)[j] = s[a]
    <3>1. i \in 1 .. Len(s) /\ a \in 1 .. Len(s) /\ Len(s) \in Nat
      OBVIOUS
    <3>2. CASE a < i
      <4>1. a \in 1 .. (Len(s) - 1)
        BY <3>1, <3>2
      <4> QED BY <2>1, <3>2, <4>1
    <3>3. CASE ~(a < i)
      <4>1. a - 1 \in 1 .. (Len(s) - 1) /\ ~(a - 1 < i) /\ (a - 1) + 1 = a
        BY <2>2, <3>1, <3>3
      <4> QED BY <2>1, <4>1
    <3> QED BY <3>2, <3>3
  <2> QED BY <2>2 DEF Left
<1>5. ASSUME NEW X, NEW t, T \subseteq X PROVE Left(s, t, X)
  BY <1>5 DEF Left
<1> QED BY <1>1, <1>2, <1>3, <1>4, <1>5

(* What stands for p goes on doing so. *)
NamesStay(p) == Bearers(p) \subseteq Bearers(p)' /\ Entries(p) \subseteq Entries(p)'

(* It does while p stays stored. *)
LEMMA NamesKept ==
    ASSUME NEW p \in Payload, DOMAIN db \subseteq DOMAIN db', \A i \in DOMAIN db : db'[i] = db[i] \/ db[i] # p
    PROVE  NamesStay(p)
<1>1. ASSUME NEW v, Names(v, p) PROVE Names(v, p)'
  <2>1. CASE IsKey(v)
    BY <1>1, <2>1 DEF Names, IsKey
  <2>2. CASE ~IsKey(v)
    <3>1. v = p /\ v[1] # "#"
      BY <1>1, <2>2, NoValueNoPayload DEF Names, Plain
    <3> QED BY <3>1 DEF Names, IsKey
  <2> QED BY <2>1, <2>2
<1>2. \A m \in nsbm : Carries(m, p) => Carries(m, p)'
  BY <1>1 DEF Carries
<1> QED BY <1>1, <1>2 DEF NamesStay, Bearers, Entries

(* So a payload is held on where it was, or where nothing is lost. *)
LEMMA HeldOn ==
    ASSUME NEW p, NamesStay(p), Held(p), NEW X, X \cap Bearers(p) = {}, NEW Y, Y \cap Entries(p) = {},
           \A k \in Conn : Left(up[k], up'[k], X) /\ Left(down[k], down'[k], X),
           Left(tx_buffer, tx_buffer', Y), Left(rx_buffer, rx_buffer', Y),
           Network \cap Mail(p) \subseteq Network',
           \A c \in Client : Left(received[c], received'[c], {})
    PROVE  Held(p)'
<1>1. ASSUME NEW s, NEW t, NEW Z, NEW A, NEW B, Left(s, t, Z), Z \cap A = {}, A \subseteq B, Hits(s, A) # {}
      PROVE  Hits(t, B) # {}
  BY <1>1 DEF Hits, Left
<1>2. PICK x \in Box : Boxes(p)[x] # {}
  BY DEF Held
<1>3. Bearers(p) \subseteq Bearers(p)' /\ Entries(p) \subseteq Entries(p)'
  BY DEF NamesStay
<1>4. CASE \E k \in Conn : x = <<"up", k>> \/ x = <<"down", k>>
  <2>1. PICK k \in Conn : x = <<"up", k>> \/ x = <<"down", k>>
    BY <1>4
  <2>2. Hits(up[k], Bearers(p)) # {} \/ Hits(down[k], Bearers(p)) # {}
    BY <1>2, <2>1, BoxesAre
  <2>3. Hits(up'[k], Bearers(p)') # {} \/ Hits(down'[k], Bearers(p)') # {}
    BY <1>1, <1>3, <2>2
  <2> QED BY <2>3, HeldAfter
<1>5. CASE x = TxBox \/ x = RxBox
  <2>1. Hits(tx_buffer, Entries(p)) # {} \/ Hits(rx_buffer, Entries(p)) # {}
    BY <1>2, <1>5, BoxesAre
  <2>2. Hits(tx_buffer', Entries(p)') # {} \/ Hits(rx_buffer', Entries(p)') # {}
    BY <1>1, <1>3, <2>1
  <2> QED BY <2>2, HeldAfter
<1>6. CASE x = NetworkBox
  <2>1. Network' \cap Mail(p) # {}
    BY <1>2, <1>6, BoxesAre
  <2> QED BY <2>1, HeldAfter
<1>7. CASE \E c \in Client : x = <<"received", c>>
  <2>1. PICK c \in Client : x = <<"received", c>>
    BY <1>7
  <2>2. Hits(received[c], Mail(p)) # {}
    BY <1>2, <2>1, BoxesAre
  <2>3. Hits(received'[c], Mail(p)) # {}
    BY <1>1, <2>2
  <2> QED BY <2>3, HeldAfter
<1> QED BY <1>2, <1>4, <1>5, <1>6, <1>7, BoxKinds

-----------------------------------------------------------------------------
(* The steps, while the daemon lives and nothing is merged.                *)

NoMerge == \A k \in Conn : ~(Len(up'[k]) + 2 <= Len(up[k])) /\ ~(Len(down'[k]) + 2 <= Len(down[k]))

(* A read that merges nothing takes the first message as it was written. *)
LEMMA OneRead ==
    ASSUME NEW s \in Seq(nsbm), NEW n \in 1 .. Len(s), ~(Len(Unread(s, n)) + 2 <= Len(s))
    PROVE  n = 1 /\ s[1] \in nsbm /\ Parse(Read(s, n)) = s[1] /\ Left(s, Unread(s, n), {s[1]})
<1>1. n = 1
  <2>1. Len(Unread(s, n)) = Len(s) - n
    BY DEF Unread
  <2> QED BY <2>1
<1>2. s[1] \in nsbm
  BY <1>1
<1>3. Read(s, n) = <<s[1]>>
  <2>1. Read(s, n) \in Seq(nsbm) /\ Len(Read(s, n)) = 1 /\ Read(s, n)[1] = s[1]
    BY <1>1 DEF Read
  <2> HIDE DEF Read
  <2> QED BY <2>1
<1> QED BY <1>1, <1>2, <1>3, ParseOne, LeftKinds

(* A message without a payload stands for none. *)
LEMMA SilentStand == \A p : Silent \cap Bearers(p) = {}
  BY DEF Silent, Bears, Bearers, Carries

(* A write leaves what was there. *)
LEMMA WritesLeave ==
    ASSUME TypeOK, NEW j, NEW r, NEW X, down' = down \/ Writes(j, r), NEW k \in Conn
    PROVE  Left(down[k], down'[k], X)
<1>1. down \in [Conn -> Seq(nsbm)]
  BY DEF TypeOK, SocketsTypeOK
<1>2. down'[k] = down[k] \/ down'[k] = Append(down[k], r)
  BY <1>1 DEF Writes
<1>3. down[k] \in Seq(nsbm)
  BY <1>1
<1> QED BY <1>2, <1>3, LeftKinds
(* So does a client's. *)
LEMMA SendLeaves ==
    ASSUME TypeOK, NEW c, NEW ch, NEW m, NEW X, SendMessage(c, ch, m), NEW k \in Conn
    PROVE  Left(up[k], up'[k], X)
<1>1. up \in [Conn -> Seq(nsbm)]
  BY DEF TypeOK, SocketsTypeOK
<1>2. up'[k] = up[k] \/ up'[k] = Append(up[k], m)
  BY <1>1 DEF SendMessage, UpAfterSend
<1>3. up[k] \in Seq(nsbm)
  BY <1>1
<1> QED BY <1>2, <1>3, LeftKinds

(* What a call that moves no payload takes stands for none. *)
LEMMA CalmHolds ==
    ASSUME TypeOK, Alive, DataSound, Fresh, NEW p \in Payload, Held(p), NEW c \in Client, CalmCall(c)
    PROVE  Held(p)'
<1>1. /\ up \in [Conn -> Seq(nsbm)] /\ down \in [Conn -> Seq(nsbm)]
      /\ tx_buffer \in Seq(MessageEntry) /\ rx_buffer \in Seq(MessageEntry)
      /\ received \in [Client -> Seq(MessageEntry)]
  BY DEF TypeOK, SocketsTypeOK, DaemonTypeOK, ClientTypeOK
<1>2. UNCHANGED <<tx_buffer, rx_buffer, db, fetched, posted, received>>
  BY DEF CalmCall, dataVars
<1>3. NamesStay(p) /\ Network' = Network
  BY <1>2, SameNames DEF NamesStay, Network, Logged
<1>4. /\ Left(tx_buffer, tx_buffer', {}) /\ Left(rx_buffer, rx_buffer', {})
      /\ \A d \in Client : Left(received[d], received'[d], {})
  BY <1>1, <1>2, LeftKinds
<1>5. \A k \in Conn : Left(up[k], up[k], Silent) /\ Left(down[k], down[k], Silent)
  BY <1>1, LeftKinds
<1>6. ASSUME NEW k \in Conn, down[k] \in Seq(Silent) PROVE Left(down[k], down'[k], Silent)
  BY <1>6, LeftKinds
<1>7. down[<<c, "CTRL">>] \in Seq(Silent)
  BY DEF DataSound, DownOf, Channel
<1>8. ASSUME NEW k \in Conn PROVE Left(up[k], up'[k], Silent) /\ Left(down[k], down'[k], Silent)
  <2>1. CASE UNCHANGED <<up, down>>
    BY <1>5, <2>1
  <2>2. CASE \E ch \in {"CTRL", "RECV"} : \E m \in Silent : SendMessage(c, ch, m) /\ UNCHANGED down
    BY <1>5, <2>2, SendLeaves
  <2>3. CASE \E n : TakeFrom(c, "CTRL", n) /\ UNCHANGED up
    <3>1. k # <<c, "CTRL">> => down'[k] = down[k]
      BY <1>1, <2>3 DEF TakeFrom
    <3> QED BY <1>5, <1>6, <1>7, <2>3, <3>1
  <2>4. CASE pc[c] = "initWait" /\ UNCHANGED up /\ down' = [j \in Conn |-> IF j[1] = c THEN <<>> ELSE down[j]]
    <3>1. k[1] # c => down'[k] = down[k]
      BY <2>4
    <3>2. ASSUME k[1] = c PROVE down[k] \in Seq(Silent)
      <4>1. PICK ch \in Channel : k = <<c, ch>>
        BY <3>2 DEF Conn
      <4>2. ch \in {"SEND", "RECV"} => down[k] = <<>>
        BY <2>4, <4>1 DEF Fresh, Admitted
      <4>3. <<>> \in Seq(Silent)
        OBVIOUS
      <4> QED BY <1>7, <4>1, <4>2, <4>3 DEF Channel
    <3> QED BY <1>5, <1>6, <2>4, <3>1, <3>2
  <2> QED BY <2>1, <2>2, <2>3, <2>4 DEF CalmCall
<1> QED BY <1>3, <1>4, <1>8, HeldOn, SilentStand

(* What the daemon drops with a connection stands for none either. *)
LEMMA DisconnectHolds ==
    ASSUME Alive, LinkInv, EndsFollowPc, DataSound, Fresh, NEW p \in Payload, Held(p),
           NEW f \in read_fds \cap OpenFds, Disconnect(f), UNCHANGED clientVars
    PROVE  Held(p)'
<1>1. /\ up \in [Conn -> Seq(nsbm)] /\ down \in [Conn -> Seq(nsbm)]
      /\ tx_buffer \in Seq(MessageEntry) /\ rx_buffer \in Seq(MessageEntry)
      /\ received \in [Client -> Seq(MessageEntry)]
  BY DEF LinkInv, TypeInv, TypeOK, SocketsTypeOK, DaemonTypeOK, ClientTypeOK
<1>2. UNCHANGED <<down, tx_buffer, rx_buffer, db, fetched, posted, received>>
  BY DEF Disconnect, bufferVars, clientVars, logVars
<1>3. NamesStay(p) /\ Network' = Network
  BY <1>2, SameNames DEF NamesStay, Network, Logged
<1>4. /\ Left(tx_buffer, tx_buffer', {}) /\ Left(rx_buffer, rx_buffer', {})
      /\ \A d \in Client : Left(received[d], received'[d], {})
  BY <1>1, <1>2, LeftKinds
<1>5. \A k \in Conn : Left(up[k], up[k], Silent) /\ Left(down[k], down[k], Silent)
  BY <1>1, LeftKinds
<1>6. fd_table[f] \in Conn /\ client_end[fd_table[f]] = "closed"
  BY DroppedClosed
<1>7. PICK c \in Client, ch \in Channel : fd_table[f] = <<c, ch>>
  BY <1>6 DEF Conn
<1>8. pc[c] = "closed"
  BY <1>6, <1>7 DEF EndsFollowPc
<1>9. up[<<c, ch>>] \in Seq(Silent)
  <2>1. ch = "SEND" => up[<<c, ch>>] = <<>>
    BY <1>8 DEF Fresh, Admitted
  <2>2. ch # "SEND" => up[<<c, ch>>] \in Seq(Silent)
    BY DEF DataSound, UpOf
  <2>3. <<>> \in Seq(Silent)
    OBVIOUS
  <2> QED BY <2>1, <2>2, <2>3
<1>10. ASSUME NEW k \in Conn PROVE Left(up[k], up'[k], Silent)
  <2>1. k # <<c, ch>> => up'[k] = up[k]
    BY <1>1, <1>7 DEF Disconnect
  <2>2. k = <<c, ch>> => Left(up[k], up'[k], Silent)
    BY <1>9, LeftKinds
  <2> QED BY <1>5, <2>1, <2>2
<1> QED BY <1>2, <1>3, <1>4, <1>5, <1>10, HeldOn, SilentStand

(* Where nothing but the loop's own records changes. *)
LEMMA LoopHolds ==
    ASSUME NEW p \in Payload, Held(p), UNCHANGED <<up, down, tx_buffer, rx_buffer, db, fetched, posted, received>>
    PROVE  Held(p)'
<1>1. NamesStay(p) /\ Network' = Network
  BY SameNames DEF NamesStay, Network, Logged
<1>2. \A s : Left(s, s, {})
  BY DEF Left
<1> QED BY <1>1, <1>2, HeldOn

(* The entry made of a sound message stands for what it does, and so does  *)
(* the answer made of a sound entry.                                       *)
LEMMA SoundCarries ==
    ASSUME NEW p \in Payload, db' = db
    PROVE  /\ \A m \in Sound : m \in Bearers(p) => Entry(UseDB, m) \in Entries(p)'
           /\ \A e \in SoundEntry, op \in {"FETCH", "RECEIVE"} :
                 e \in Entries(p) => EntryReply(op, e) \in Bearers(p)'
<1>1. Bearers(p)' = Bearers(p) /\ Entries(p)' = Entries(p)
  BY SameNames
<1>2. ASSUME NEW m \in Sound, m \in Bearers(p) PROVE Entry(UseDB, m) \in Entries(p)
  <2>1. Entry(UseDB, m) \in MessageEntry /\ Entry(UseDB, m).payload_obj = m.body.val
    BY SoundBuffered DEF SoundEntry
  <2>2. Names(m.body.val, p)
    BY <1>2 DEF Bearers, Carries
  <2> QED BY <2>1, <2>2 DEF Entries
<1>3. ASSUME NEW e \in SoundEntry, NEW op \in {"FETCH", "RECEIVE"}, e \in Entries(p)
      PROVE  EntryReply(op, e) \in Bearers(p)
  <2>1. EntryReply(op, e) \in nsbm
    BY EntryReplyType DEF SoundEntry, Op
  <2>2. Names(e.payload_obj, p)
    BY <1>3 DEF Entries
  <2>3. e.payload_obj # NoValue
    <3>1. ~Names(NoValue, p)
      BY NoValueNoPayload DEF Names, IsKey, NoValue
    <3> QED BY <2>2, <3>1
  <2>4. exists(e)
    BY <2>3 DEF SoundEntry, exists
  <2>5. EntryReply(op, e).body = PayloadBody(UseDB, e.payload_obj)
    BY <2>4 DEF EntryReply
  <2>6. Carries(EntryReply(op, e), p)
    BY <2>2, <2>5 DEF Carries, PayloadBody
  <2> QED BY <2>1, <2>6 DEF Bearers
<1> QED BY <1>1, <1>2, <1>3

(* The daemon's answer on a RECV channel arrives. *)
LEMMA AnswerArrives ==
    ASSUME Alive, Alive', LinkInv, EndsFollowPc, Fresh, NEW c \in Client, up[<<c, "RECV">>] # <<>>,
           NEW r \in nsbm, SocketSend(<<c, "RECV">>, r), NEW C, r \in C
    PROVE  Hits(down'[<<c, "RECV">>], C) # {}
<1>1. Admitted(c)
  BY DEF Fresh
<1>2. client_end[<<c, "RECV">>] = "open"
  BY <1>1 DEF EndsFollowPc, Admitted, Channel
<1>3. /\ down \in [Conn -> Seq(nsbm)] /\ <<c, "RECV">> \in Conn
  BY ConnFacts DEF LinkInv, TypeInv, TypeOK, SocketsTypeOK, Channel
<1>4. ~Die
  BY DEF Die, Alive
<1>5. down' = [down EXCEPT ![<<c, "RECV">>] = Append(@, r)]
  BY <1>2, <1>4 DEF SocketSend
<1>6. down'[<<c, "RECV">>] = Append(down[<<c, "RECV">>], r) /\ down[<<c, "RECV">>] \in Seq(nsbm)
  BY <1>3, <1>5
<1>7. PICK s \in Seq(nsbm) : s = down[<<c, "RECV">>]
  BY <1>6
<1>8. Len(s) + 1 \in DOMAIN Append(s, r) /\ Append(s, r)[Len(s) + 1] = r
  OBVIOUS
<1> QED BY <1>6, <1>7, <1>8 DEF Hits

(* What the daemon reads it buffers, and what it takes out of a buffer it  *)
(* answers with.                                                           *)
LEMMA HandlerHolds ==
    ASSUME SystemMode = "PULL", Alive, Alive', LossInv, NoMerge, NEW p \in Payload, Held(p),
           NEW f \in read_fds \cap OpenFds, NEW n \in 1 .. Len(up[fd_table[f]]), Handle(f, n), UNCHANGED clientVars
    PROVE  Held(p)'
<1>0. /\ TypeOK /\ TypeInv /\ AsksRight /\ LinkInv /\ EndsFollowPc /\ DataSound /\ Fresh
  BY DEF LossInv, LogInv, BridgeInv, PlaceInv, TypeInv, KindInv
<1>1. Receive(f, n)
  BY <1>0, HandlersTyped
<1>2. PICK k, m : k = fd_table[f] /\ m = Incoming(f, n)
  OBVIOUS
<1>3. k \in Conn /\ m \in nsbm
  BY <1>0, <1>1, <1>2, ReadOutcome
<1>4. PICK c \in Client, ch \in Channel : k = <<c, ch>>
  BY <1>3 DEF Conn
<1>5. /\ up \in [Conn -> Seq(nsbm)] /\ down \in [Conn -> Seq(nsbm)]
      /\ tx_buffer \in Seq(SoundEntry) /\ rx_buffer \in Seq(SoundEntry)
      /\ received \in [Client -> Seq(MessageEntry)]
  BY <1>0 DEF TypeOK, SocketsTypeOK, ClientTypeOK, DataSound
<1>6. UNCHANGED <<db, nsent, fetched, posted, received>>
  BY DEF clientVars, logVars
<1>7. DaemonReads(k, n, m)
  BY <1>1, <1>2, <1>6 DEF Receive, DaemonReads, Incoming
<1>8. m.op \in AskedOps(c, ch)
  BY <1>0, <1>3, <1>4, <1>7, HandlerAsked
<1>9. /\ m = up[k][1] /\ up[k] # <<>> /\ Left(up[k], up'[k], {m})
      /\ \A j \in Conn : j # k => up'[j] = up[j]
  <2>1. /\ up[k] \in Seq(nsbm) /\ n \in 1 .. Len(up[k]) /\ m = Parse(Read(up[k], n))
        /\ up'[k] = Unread(up[k], n) /\ \A j \in Conn : j # k => up'[j] = up[j]
    BY <1>0, <1>3, <1>7, ReadEnds
  <2>2. ~(Len(up'[k]) + 2 <= Len(up[k]))
    BY <1>3 DEF NoMerge
  <2>3. n = 1 /\ Parse(Read(up[k], n)) = up[k][1] /\ Left(up[k], Unread(up[k], n), {up[k][1]})
    BY <2>1, <2>2, OneRead
  <2>4. m = up[k][1] /\ Left(up[k], up'[k], {m})
    BY <2>1, <2>3
  <2>5. up[k] # <<>>
    BY <2>1
  <2> QED BY <2>1, <2>4, <2>5
<1>10. \A j \in Conn : Left(up[j], up'[j], {m})
  BY <1>5, <1>9, LeftKinds
<1>11. up[k][1] \in UpOf(ch)
  <2>1. up[k] \in Seq(UpOf(ch))
    BY <1>0, <1>4 DEF DataSound
  <2> QED BY <1>9, <2>1
<1>12. NamesStay(p) /\ Network' = Network
  BY <1>6, SameNames DEF NamesStay, Network, Logged
<1>13. \A d \in Client : Left(received[d], received'[d], {})
  BY <1>5, <1>6, LeftKinds
<1>14. ASSUME NEW r, down' = down \/ Writes(k, r), NEW Y, Y \cap Entries(p) = {}, {m} \cap Bearers(p) = {},
              Left(tx_buffer, tx_buffer', Y), Left(rx_buffer, rx_buffer', Y)
       PROVE  Held(p)'
  <2>1. \A j \in Conn : Left(down[j], down'[j], {m})
    BY <1>0, <1>14, WritesLeave
  <2> QED BY <1>10, <1>12, <1>13, <1>14, <2>1, HeldOn
<1>15. /\ \A X : Left(tx_buffer, tx_buffer, X) /\ Left(rx_buffer, rx_buffer, X)
       /\ \A X, x : Left(tx_buffer, Append(tx_buffer, x), X) /\ Left(rx_buffer, Append(rx_buffer, x), X)
       /\ \A i \in DOMAIN tx_buffer : Left(tx_buffer, RemoveAt(tx_buffer, i), {tx_buffer[i]})
       /\ \A i \in DOMAIN rx_buffer : Left(rx_buffer, RemoveAt(rx_buffer, i), {rx_buffer[i]})
  BY <1>5, LeftKinds
<1>16. m.op \notin {"SEND", "POST"} => {m} \cap Bearers(p) = {}
  <2>1. m.op \notin {"SEND", "POST"} => ch # "SEND"
    BY <1>8 DEF AskedOps
  <2>2. ch # "SEND" => m \in Silent
    BY <1>9, <1>11 DEF UpOf
  <2> QED BY <2>1, <2>2, SilentStand
<1>17. m.op \in {"SEND", "POST"} => m \in Sound
  <2>1. m.op \in {"SEND", "POST"} => ch = "SEND"
    BY <1>8 DEF AskedOps
  <2>2. ch = "SEND" => m \in Sound
    BY <1>9, <1>11 DEF UpOf
  <2> QED BY <2>1, <2>2
<1>18. m.op \in {"FETCH", "RECEIVE"} => ch = "RECV"
  BY <1>8 DEF AskedOps, Channel
<1>19. CASE handle_init(f, n) \/ handle_ping(f, n)
  <2>1. m.op \in {"INIT", "PING"} /\ UNCHANGED <<tx_buffer, rx_buffer>>
    BY <1>2, <1>19 DEF handle_init, handle_ping, bufferVars
  <2>2. \E r : SocketSend(k, r)
    BY <1>2, <1>19 DEF handle_init, handle_ping, Reply
  <2>3. \E r : Writes(k, r)
    BY <2>2, SendWrites
  <2> QED BY <1>14, <1>15, <1>16, <2>1, <2>3
<1>20. CASE handle_exit(f, n)
  <2>1. m.op = "EXIT" /\ UNCHANGED <<tx_buffer, rx_buffer>> /\ down' = down
    BY <1>2, <1>20 DEF handle_exit, bufferVars
  <2> QED BY <1>14, <1>15, <1>16, <2>1
<1>21. CASE handle_send(f, n)
  <2>1. m.op = "SEND" /\ tx_buffer' = Append(tx_buffer, Entry(UseDB, m)) /\ rx_buffer' = rx_buffer /\ down' = down
    BY <1>2, <1>21 DEF handle_send, NoSend
  <2>2. CASE m \notin Bearers(p)
    <3>1. Left(tx_buffer, tx_buffer', {}) /\ Left(rx_buffer, rx_buffer', {})
      BY <1>15, <2>1
    <3>2. {m} \cap Bearers(p) = {} /\ {} \cap Entries(p) = {}
      BY <2>2
    <3> QED BY <1>14, <2>1, <3>1, <3>2
  <2>3. CASE m \in Bearers(p)
    <3>1. Entry(UseDB, m) \in Entries(p)'
      BY <1>6, <1>17, <2>1, <2>3, SoundCarries
    <3>2. Len(tx_buffer) + 1 \in DOMAIN tx_buffer' /\ tx_buffer'[Len(tx_buffer) + 1] = Entry(UseDB, m)
      BY <1>5, <2>1
    <3>3. Hits(tx_buffer', Entries(p)') # {}
      BY <3>1, <3>2 DEF Hits
    <3> QED BY <3>3, HeldAfter
  <2> QED BY <2>2, <2>3
<1>22. CASE handle_post(f, n)
  <2>1. m.op = "POST" /\ m.code = "MESSAGE"
    BY <1>2, <1>17, <1>22 DEF handle_post, Sound
  <2>2. rx_buffer' = Append(rx_buffer, Entry(UseDB, m)) /\ tx_buffer' = tx_buffer /\ down' = down
    BY <1>2, <1>22, <2>1 DEF handle_post, NoSend
  <2>3. CASE m \notin Bearers(p)
    <3>1. Left(tx_buffer, tx_buffer', {}) /\ Left(rx_buffer, rx_buffer', {})
      BY <1>15, <2>2
    <3>2. {m} \cap Bearers(p) = {} /\ {} \cap Entries(p) = {}
      BY <2>3
    <3> QED BY <1>14, <2>2, <3>1, <3>2
  <2>4. CASE m \in Bearers(p)
    <3>1. Entry(UseDB, m) \in Entries(p)'
      BY <1>6, <1>17, <2>1, <2>4, SoundCarries
    <3>2. Len(rx_buffer) + 1 \in DOMAIN rx_buffer' /\ rx_buffer'[Len(rx_buffer) + 1] = Entry(UseDB, m)
      BY <1>5, <2>2
    <3>3. Hits(rx_buffer', Entries(p)') # {}
      BY <3>1, <3>2 DEF Hits
    <3> QED BY <3>3, HeldAfter
  <2> QED BY <2>3, <2>4
<1>23. CASE handle_fetch(f, n)
  <2>1. m.op = "FETCH" /\ rx_buffer' = rx_buffer
    BY <1>2, <1>23 DEF handle_fetch
  <2>2. CASE FetchMatches(m) = {}
    <3>1. tx_buffer' = tx_buffer /\ SocketSend(k, EntryReply("FETCH", NoEntry))
      BY <1>2, <1>23, <2>2 DEF handle_fetch, Reply
    <3> QED BY <1>14, <1>15, <1>16, <2>1, <3>1, SendWrites
  <2>3. CASE FetchMatches(m) # {}
    <3>1. PICK i : i = FirstIn(FetchMatches(m))
      OBVIOUS
    <3>2. tx_buffer' = RemoveAt(tx_buffer, i) /\ SocketSend(k, EntryReply("FETCH", tx_buffer[i]))
      BY <1>2, <1>23, <2>3, <3>1 DEF handle_fetch, Reply, erase
    <3>3. i \in DOMAIN tx_buffer
      <4>1. Len(tx_buffer) \in Nat /\ DOMAIN tx_buffer = 1 .. Len(tx_buffer)
        BY <1>5
      <4>2. FetchMatches(m) \subseteq 1 .. Len(tx_buffer)
        BY <4>1 DEF FetchMatches
      <4> QED BY <2>3, <3>1, <4>1, <4>2, FirstInType
    <3>4. tx_buffer[i] \in SoundEntry
      BY <1>5, <3>3
    <3>5. CASE tx_buffer[i] \notin Entries(p)
      BY <1>14, <1>15, <1>16, <2>1, <3>2, <3>3, <3>5, SendWrites
    <3>6. CASE tx_buffer[i] \in Entries(p)
      <4>1. EntryReply("FETCH", tx_buffer[i]) \in Bearers(p)'
        BY <1>6, <3>4, <3>6, SoundCarries
      <4>2. EntryReply("FETCH", tx_buffer[i]) \in nsbm
        BY <3>4, EntryReplyType DEF SoundEntry, Op
      <4>3. Hits(down'[k], Bearers(p)') # {}
        BY <1>0, <1>4, <1>9, <1>18, <2>1, <3>2, <4>1, <4>2, AnswerArrives
      <4> QED BY <1>3, <4>3, HeldAfter
    <3> QED BY <3>5, <3>6
  <2> QED BY <2>2, <2>3
<1>24. CASE handle_receive(f, n)
  <2>1. m.op = "RECEIVE" /\ tx_buffer' = tx_buffer
    BY <1>2, <1>24 DEF handle_receive
  <2>2. CASE ReceiveMatches(m) = {}
    <3>1. rx_buffer' = rx_buffer /\ SocketSend(k, EntryReply("RECEIVE", NoEntry))
      BY <1>2, <1>24, <2>2 DEF handle_receive, Reply
    <3> QED BY <1>14, <1>15, <1>16, <2>1, <3>1, SendWrites
  <2>3. CASE ReceiveMatches(m) # {}
    <3>1. PICK i : i = FirstIn(ReceiveMatches(m))
      OBVIOUS
    <3>2. rx_buffer' = RemoveAt(rx_buffer, i) /\ SocketSend(k, EntryReply("RECEIVE", rx_buffer[i]))
      BY <1>2, <1>24, <2>3, <3>1 DEF handle_receive, Reply, erase
    <3>3. i \in DOMAIN rx_buffer
      <4>1. Len(rx_buffer) \in Nat /\ DOMAIN rx_buffer = 1 .. Len(rx_buffer)
        BY <1>5
      <4>2. ReceiveMatches(m) \subseteq 1 .. Len(rx_buffer)
        BY <4>1 DEF ReceiveMatches
      <4> QED BY <2>3, <3>1, <4>1, <4>2, FirstInType
    <3>4. rx_buffer[i] \in SoundEntry
      BY <1>5, <3>3
    <3>5. CASE rx_buffer[i] \notin Entries(p)
      BY <1>14, <1>15, <1>16, <2>1, <3>2, <3>3, <3>5, SendWrites
    <3>6. CASE rx_buffer[i] \in Entries(p)
      <4>1. EntryReply("RECEIVE", rx_buffer[i]) \in Bearers(p)'
        BY <1>6, <3>4, <3>6, SoundCarries
      <4>2. EntryReply("RECEIVE", rx_buffer[i]) \in nsbm
        BY <3>4, EntryReplyType DEF SoundEntry, Op
      <4>3. Hits(down'[k], Bearers(p)') # {}
        BY <1>0, <1>4, <1>9, <1>18, <2>1, <3>2, <4>1, <4>2, AnswerArrives
      <4> QED BY <1>3, <4>3, HeldAfter
    <3> QED BY <3>5, <3>6
  <2> QED BY <2>2, <2>3
<1> QED BY <1>19, <1>20, <1>21, <1>22, <1>23, <1>24 DEF Handle

(* What is checked out for another payload leaves p stored. *)
LEMMA OtherCheckOut ==
    ASSUME TypeOK, NEW p \in Payload, NEW c \in Client, NEW m, db' = AfterCheckOut(c, m), CheckOut(c, m) # p
    PROVE  NamesStay(p)
<1>1. db \in Seq(Value)
  BY DEF TypeOK, ClientTypeOK
<1>2. DOMAIN db \subseteq DOMAIN db' /\ \A i \in DOMAIN db : db'[i] = db[i] \/ db[i] # p
  BY <1>1 DEF AfterCheckOut, CheckOut, IsKey
<1> QED BY <1>2, NamesKept

(* A client in use gets out of a sound message what it stands for. *)
LEMMA SoundReturned ==
    ASSUME TypeOK, KeysKnown, Configured, NEW c \in Client, Admitted(c), NEW p \in Payload,
           NEW m \in Sound, m \in KnownMessage, m \in Bearers(p)
    PROVE  Returned(c, m) \in Mail(p) /\ exists(Returned(c, m))
<1>1. cfg[c].use_db = UseDB
  BY UsesSetting
<1>2. m.body \in KnownBody /\ Names(m.body.val, p)
  BY DEF KnownMessage, Bearers, Carries
<1>3. PayloadOf(UseDB, m) = m.body.val
  BY DEF Sound, PayloadOf
<1>4. CheckOut(c, m) = p
  <2>1. CASE UseDB
    <3>1. IsKey(m.body.val)
      BY <1>2, <2>1 DEF Sound, KnownBody, IsKey
    <3> QED BY <1>1, <1>2, <1>3, <2>1, <3>1 DEF Names, CheckOut
  <2>2. CASE ~UseDB
    <3>1. ~IsKey(m.body.val)
      BY <1>2, <2>2 DEF Sound, KnownBody, Plain, IsKey
    <3> QED BY <1>1, <1>2, <1>3, <2>2, <3>1 DEF Names, CheckOut
  <2> QED BY <2>1, <2>2
<1>5. Returned(c, m) \in MessageEntry
  BY ReturnedPlain DEF KeysKnown, PlainEntry
<1>6. p # NoValue
  BY NoValueNoPayload
<1> QED BY <1>4, <1>5, <1>6 DEF Returned, Mail, Sound, exists

(* What a call takes off its channel it hands to its caller.               *)
LEMMA ReturnHolds ==
    ASSUME LossInv, NoMerge, NEW p \in Payload, Held(p),
           NEW c \in Client, NEW n, ReceiveReturn(c, n) \/ FetchReturn(c, n)
    PROVE  Held(p)'
<1>0. /\ TypeOK /\ KeysKnown /\ CallsRight /\ PlaceInv /\ Configured /\ DataSound /\ PostedLate
  BY DEF LossInv, LogInv, BridgeInv, PlaceInv, TypeInv, KindInv
<1>1. PICK k : k = <<c, "RECV">>
  OBVIOUS
<1>2. k \in Conn
  BY <1>1, ConnFacts DEF Channel
<1>3. /\ up \in [Conn -> Seq(nsbm)] /\ down \in [Conn -> Seq(nsbm)]
      /\ tx_buffer \in Seq(MessageEntry) /\ rx_buffer \in Seq(MessageEntry)
      /\ fetched \in [Client -> Seq(MessageEntry)] /\ received \in [Client -> Seq(MessageEntry)]
  BY <1>0 DEF TypeOK, SocketsTypeOK, DaemonTypeOK, ClientTypeOK
<1>4. UNCHANGED <<up, tx_buffer, rx_buffer, posted>>
  BY DEF ReceiveReturn, FetchReturn, socketsButDown, daemonVars, bufferVars
<1>5. /\ n \in 1 .. Len(down[k]) /\ down' = [down EXCEPT ![k] = Unread(@, n)]
      /\ Response(c, "RECV", n) = Parse(Read(down[k], n))
  BY <1>1 DEF ReceiveReturn, FetchReturn, TakeFrom, Response
<1>6. down'[k] = Unread(down[k], n) /\ \A j \in Conn : j # k => down'[j] = down[j]
  BY <1>2, <1>3, <1>5
<1>7. PICK m : m = down[k][1]
  OBVIOUS
<1>8. n = 1 /\ Parse(Read(down[k], n)) = m /\ Left(down[k], down'[k], {m}) /\ m \in nsbm
  <2>1. down[k] \in Seq(nsbm) /\ n \in 1 .. Len(down[k])
    BY <1>2, <1>3, <1>5
  <2>2. ~(Len(Unread(down[k], n)) + 2 <= Len(down[k]))
    BY <1>2, <1>6 DEF NoMerge
  <2>3. /\ n = 1 /\ Parse(Read(down[k], n)) = down[k][1] /\ down[k][1] \in nsbm
        /\ Left(down[k], Unread(down[k], n), {down[k][1]})
    BY <2>1, <2>2, OneRead
  <2> QED BY <1>6, <1>7, <2>3
<1>9. m \in Answering(c) /\ m \in KnownMessage /\ 1 \in DOMAIN down[k]
  <2>1. down[k] \in Seq(Answering(c)) /\ down[k] \in Seq(KnownMessage)
    BY <1>0, <1>1, <1>2 DEF DataSound, DownOf, Channel, KeysKnown
  <2>2. 1 \in DOMAIN down[k]
    BY <1>5, <2>1
  <2> QED BY <1>7, <2>1, <2>2
<1>10. Response(c, "RECV", n) = m
  BY <1>5, <1>8
<1>11. Admitted(c)
  BY DEF ReceiveReturn, FetchReturn, Admitted
<1>12. PICK e : e = Returned(c, m)
  OBVIOUS
<1>13. e \in MessageEntry
  BY <1>0, <1>9, <1>12, ReturnedPlain DEF KeysKnown, PlainEntry
<1>14. CASE m \notin Bearers(p)
  <2>1. NamesStay(p)
    <3>1. CheckOut(c, m) # p
      BY <1>0, <1>9, <1>14, CheckOutNames
    <3>2. db' = db \/ db' = AfterCheckOut(c, m)
      BY <1>10 DEF ReceiveReturn, FetchReturn
    <3> QED BY <1>0, <3>1, <3>2, OtherCheckOut, SameNames DEF NamesStay
  <2>2. \A d \in Client : Left(received[d], received'[d], {})
    <3>1. received' = received \/ received' = [received EXCEPT ![c] = Append(@, e)]
      BY <1>10, <1>12 DEF ReceiveReturn, FetchReturn
    <3>2. ASSUME NEW d \in Client
          PROVE  received'[d] = received[d] \/ received'[d] = Append(received[d], e)
      BY <1>3, <3>1
    <3>3. ASSUME NEW d \in Client PROVE Left(received[d], received'[d], {})
      <4>1. received[d] \in Seq(MessageEntry)
        BY <1>3
      <4> QED BY <3>2, <4>1, LeftKinds
    <3> QED BY <3>3
  <2>3. Network \cap Mail(p) \subseteq Network'
    <3>1. fetched' = fetched \/ fetched' = [fetched EXCEPT ![c] = Append(@, e)]
      BY <1>10, <1>12 DEF ReceiveReturn, FetchReturn
    <3>2. Logged(fetched) \subseteq Logged(fetched')
      <4>1. CASE fetched' = fetched
        BY <4>1
      <4>2. CASE fetched' = [fetched EXCEPT ![c] = Append(@, e)]
        <5>1. Logs(fetched, c, e, fetched') /\ fetched \in [Client -> Seq(MessageEntry)]
          BY <1>3, <4>2 DEF Logs
        <5>2. Logged(fetched') = Logged(fetched) \cup {e}
          BY <1>13, <5>1, LogGrows
        <5> QED BY <5>2
      <4> QED BY <3>1, <4>1, <4>2
    <3>3. Logged(fetched)' = Logged(fetched') /\ Logged(posted)' = Logged(posted)
      BY <1>4 DEF Logged
    <3> QED BY <3>2, <3>3 DEF Network
  <2>4. ASSUME NEW j \in Conn PROVE Left(up[j], up'[j], {m}) /\ Left(down[j], down'[j], {m})
    BY <1>3, <1>4, <1>6, <1>8, LeftKinds
  <2>5. Left(tx_buffer, tx_buffer', {}) /\ Left(rx_buffer, rx_buffer', {})
    BY <1>3, <1>4, LeftKinds
  <2>6. {m} \cap Bearers(p) = {} /\ {} \cap Entries(p) = {}
    BY <1>14
  <2> QED BY <2>1, <2>2, <2>3, <2>4, <2>5, <2>6, HeldOn
<1>15. CASE m \in Bearers(p)
  <2>1. m \in Sound /\ m.op = IF IsApp(c) THEN "RECEIVE" ELSE "FETCH"
    BY <1>9, <1>15, SilentStand DEF Answering
  <2>2. e \in Mail(p) /\ exists(e)
    BY <1>0, <1>9, <1>11, <1>12, <1>15, <2>1, SoundReturned
  <2>3. m.code = "MESSAGE"
    BY <2>1 DEF Sound
  <2>4. CASE ReceiveReturn(c, n)
    <3>1. m.op = "RECEIVE"
      BY <1>0, <2>1, <2>4 DEF ReceiveReturn, CallsRight
    <3>2. received' = [received EXCEPT ![c] = Append(@, e)]
      BY <1>10, <1>12, <2>2, <2>3, <2>4, <3>1 DEF ReceiveReturn
    <3>3. received'[c] = Append(received[c], e) /\ received[c] \in Seq(MessageEntry)
      BY <1>3, <3>2
    <3>4. Len(received[c]) + 1 \in DOMAIN received'[c] /\ received'[c][Len(received[c]) + 1] = e
      BY <3>3
    <3>5. Hits(received'[c], Mail(p)) # {}
      BY <2>2, <3>4 DEF Hits
    <3> QED BY <3>5, HeldAfter
  <2>5. CASE FetchReturn(c, n)
    <3>1. m.op = "FETCH" /\ ~IsApp(c)
      BY <1>0, <2>1, <2>5 DEF FetchReturn, CallsRight
    <3>2. fetched' = [fetched EXCEPT ![c] = Append(@, e)]
      BY <1>10, <1>12, <2>2, <2>3, <2>5, <3>1 DEF FetchReturn
    <3>3. Logged(fetched') = Logged(fetched) \cup {e}
      <4>1. Logs(fetched, c, e, fetched') /\ fetched \in [Client -> Seq(MessageEntry)]
        BY <1>3, <3>2 DEF Logs
      <4> QED BY <1>13, <4>1, LogGrows
    <3>4. StageOf(p) = "outgoing"
      <4>1. Boxes(p)[<<"down", k>>] # {}
        <5>1. 1 \in DOMAIN down[k] /\ down[k][1] \in Bearers(p)
          BY <1>7, <1>9, <1>15
        <5>2. Hits(down[k], Bearers(p)) # {}
          BY <5>1 DEF Hits
        <5> QED BY <1>2, <5>2, BoxesAre
      <4>2. <<"down", k>> \in Box /\ BoxStage(<<"down", k>>) = "outgoing"
        BY <1>1, <1>2, <3>1, BoxKinds, BoxStages DEF Channel
      <4> QED BY <1>0, <4>1, <4>2, StageIs DEF StageRight
    <3>5. e \notin Logged(posted)
      BY <1>0, <2>2, <3>4 DEF PostedLate, Back, OnBoard, Mail
    <3>6. Logged(posted)' = Logged(posted) /\ Logged(fetched)' = Logged(fetched')
      BY <1>4 DEF Logged
    <3>7. e \in Network'
      BY <3>3, <3>5, <3>6 DEF Network
    <3> QED BY <2>2, <3>7, HeldAfter
  <2> QED BY <2>4, <2>5
<1> QED BY <1>14, <1>15

(* What is stored leaves p stored. *)
LEMMA StoreKeeps ==
    ASSUME TypeOK, NEW p \in Payload, NEW c, NEW v, db' = db \/ db' = Stored(c, v)
    PROVE  NamesStay(p)
<1>1. db \in Seq(Value)
  BY DEF TypeOK, ClientTypeOK
<1>2. DOMAIN db \subseteq DOMAIN db' /\ \A i \in DOMAIN db : db'[i] = db[i] \/ db[i] # p
  BY <1>1 DEF Stored
<1> QED BY <1>2, NamesKept

(* send() takes nothing away. *)
LEMMA SendHolds ==
    ASSUME TypeOK, NEW p \in Payload, Held(p), NEW c \in Client, NEW d, send(c, d)
    PROVE  Held(p)'
<1>1. UNCHANGED <<down, tx_buffer, rx_buffer, fetched, posted, received>>
  BY DEF send, socketsButUp, daemonVars, bufferVars, logVars
<1>2. NamesStay(p)
  BY StoreKeeps DEF send
<1>3. \A k \in Conn : Left(up[k], up'[k], {})
  BY SendLeaves DEF send
<1>4. Network' = Network
  BY <1>1 DEF Network, Logged
<1>5. \A s : Left(s, s, {})
  BY DEF Left
<1> QED BY <1>1, <1>2, <1>3, <1>4, <1>5, HeldOn

(* post() puts on its channel what it takes out of the network. *)
LEMMA PostHolds ==
    ASSUME KeysTravel, LossInv, Alive, NEW p \in Payload, Held(p), NEW c \in Client, NEW e \in Network, post(c, e)
    PROVE  Held(p)'
<1>0. TypeOK /\ KeysKnown /\ Configured /\ FetchedReal /\ DescriptorsConsistent /\ EndsFollowPc
  BY DEF LossInv, LinkInv, LogInv, BridgeInv, PlaceInv, TypeInv
<1>1. /\ UNCHANGED <<down, tx_buffer, rx_buffer, fetched, received>>
      /\ posted' = [posted EXCEPT ![c] = Append(@, e)]
      /\ Admitted(c) /\ ~IsApp(c) /\ pc[c] \notin {"connect", "closed"}
  BY DEF post, socketsButUp, daemonVars, bufferVars, Admitted, IsApp
<1>2. PICK v : v = e.payload_obj
  OBVIOUS
<1>3. e \in MessageEntry /\ v \in Value /\ e.source \in Id /\ e.destination \in Id
  BY <1>0, <1>2, NetworkType DEF MessageEntry
<1>4. PICK m : m = DataMessage(c, "POST", e.source, e.destination, PostBody(c, v))
  OBVIOUS
<1>5. SendMessage(c, "SEND", m) /\ db' = (IF Impl[c] = "py" THEN db ELSE Stored(c, v))
  BY <1>2, <1>4 DEF post
<1>6. CASE v # p
  <2>1. NamesStay(p)
    BY <1>0, <1>5, StoreKeeps
  <2>2. \A k \in Conn : Left(up[k], up'[k], {})
    BY <1>0, <1>5, SendLeaves
  <2>3. \A s : Left(s, s, {})
    BY DEF Left
  <2>4. Network \cap Mail(p) \subseteq Network'
    <3>1. Logs(posted, c, e, posted') /\ posted \in [Client -> Seq(MessageEntry)]
      BY <1>0, <1>1 DEF Logs, TypeOK, ClientTypeOK
    <3>2. Logged(posted') = Logged(posted) \cup {e}
      BY <1>3, <3>1, LogGrows
    <3>3. Logged(posted)' = Logged(posted') /\ Logged(fetched)' = Logged(fetched)
      BY <1>1 DEF Logged
    <3>4. e \notin Mail(p)
      BY <1>2, <1>6 DEF Mail
    <3> QED BY <3>2, <3>3, <3>4 DEF Network
  <2> QED BY <1>1, <2>1, <2>2, <2>3, <2>4, HeldOn
<1>7. CASE v = p
  <2>1. m \in nsbm /\ m.body = PostBody(c, v)
    <3>1. PostBody(c, v) \in Body
      BY <1>0, <1>3, DatabaseTypes, MessageTypes DEF PostBody
    <3> QED BY <1>3, <1>4, <3>1, DataMessageType DEF Op, DataMessage
  <2>2. cfg[c].use_db = UseDB /\ (UseDB => Impl[c] = "cpp")
    BY <1>0, <1>1, UsesSetting DEF KeysTravel
  <2>3. m \in Bearers(p)'
    <3>1. CASE UseDB
      <4>1. m.body = PayloadBody(UseDB, <<"#", Len(db) + 1>>) /\ db' = Append(db, p)
        BY <1>5, <1>7, <2>1, <2>2, <3>1 DEF PostBody, StoredBody, Stored
      <4>2. db \in Seq(Value)
        BY <1>0 DEF TypeOK, ClientTypeOK
      <4>3. Len(db) + 1 \in DOMAIN db' /\ db'[Len(db) + 1] = p
        BY <4>1, <4>2
      <4>4. m.body.kind = "msg_key" /\ m.body.val = <<"#", Len(db) + 1>>
        BY <3>1, <4>1 DEF PayloadBody
      <4>5. Carries(m, p)'
        BY <4>3, <4>4 DEF Carries, Names, IsKey
      <4> QED BY <2>1, <4>5 DEF Bearers
    <3>2. CASE ~UseDB
      <4>1. m.body.kind = "payload" /\ m.body.val = p
        BY <1>7, <2>1, <2>2, <3>2 DEF PostBody, StoredBody, PayloadBody
      <4>2. p[1] # "#"
        BY NoValueNoPayload DEF Plain
      <4>3. Carries(m, p)'
        BY <4>1, <4>2 DEF Carries, Names, IsKey
      <4> QED BY <2>1, <4>3 DEF Bearers
    <3> QED BY <3>1, <3>2
  <2>4. PICK k : k = <<c, "SEND">>
    OBVIOUS
  <2>5. k \in Conn /\ ServerEnd(k)
    BY <1>0, <1>1, <2>4, EndsHeld, ConnFacts DEF Channel
  <2>6. up \in [Conn -> Seq(nsbm)]
    BY <1>0 DEF TypeOK, SocketsTypeOK
  <2>7. up' = [up EXCEPT ![k] = Append(@, m)]
    BY <1>5, <2>4, <2>5 DEF SendMessage, UpAfterSend
  <2>8. up'[k] = Append(up[k], m) /\ up[k] \in Seq(nsbm)
    BY <2>5, <2>6, <2>7
  <2>9. Len(up[k]) + 1 \in DOMAIN up'[k] /\ up'[k][Len(up[k]) + 1] = m
    BY <2>1, <2>8
  <2>10. Hits(up'[k], Bearers(p)') # {}
    BY <2>3, <2>9 DEF Hits
  <2> QED BY <2>5, <2>10, HeldAfter
<1> QED BY <1>6, <1>7

(* What every step holds on to, while the daemon lives and nothing is merged. *)
LEMMA LossStep ==
    ASSUME SystemMode = "PULL", MayClose = {}, KeysTravel, LossInv, Alive, Alive', [Next]_vars, NoMerge,
           NEW p \in Payload, Held(p)
    PROVE  Held(p)'
<1>0. /\ TypeOK /\ TypeInv /\ DescriptorsConsistent /\ EndsFollowPc /\ LinkInv /\ DataSound /\ Fresh
  BY LeadsOn DEF LossInv, LinkInv, TypeInv
<1>1. CASE UNCHANGED vars
  <2>1. UNCHANGED <<up, down, tx_buffer, rx_buffer, db, fetched, posted, received>>
    BY <1>1 DEF vars, clientVars, logVars, socketVars, daemonVars, bufferVars
  <2> QED BY <2>1, LoopHolds
<1>2. CASE DaemonNext /\ UNCHANGED clientVars
  <2>1. CASE Select \/ Accept
    <3>1. UNCHANGED <<up, down, tx_buffer, rx_buffer, db, fetched, posted, received>>
      BY <1>2, <2>1 DEF Select, Accept, clientVars, logVars, socketVars, bufferVars
    <3> QED BY <3>1, LoopHolds
  <2>2. ~Shutdown
    BY DEF Shutdown, Alive
  <2>3. ASSUME NEW f \in read_fds \cap OpenFds, Disconnect(f) PROVE Held(p)'
    BY <1>0, <1>2, <2>3, DisconnectHolds
  <2>4. ASSUME NEW f \in read_fds \cap OpenFds, NEW n \in 1 .. Len(up[fd_table[f]]), Handle(f, n)
        PROVE  Held(p)'
    BY <1>2, <2>4, HandlerHolds
  <2> QED BY <1>2, <2>1, <2>2, <2>3, <2>4 DEF DaemonNext
<1>3. ASSUME NEW c \in Client, ClientNext(c) PROVE Held(p)'
  <2>1. CalmCall(c) \/ DataCall(c)
    BY <1>0, <1>3, LivingClient
  <2>2. CASE CalmCall(c)
    BY <1>0, <2>2, CalmHolds
  <2>3. CASE DataCall(c)
    BY <1>0, <2>3, ReturnHolds, SendHolds, PostHolds DEF DataCall
  <2> QED BY <2>1, <2>2, <2>3
<1> QED BY <1>1, <1>2, <1>3 DEF Next

(* LossInv is inductive. *)
LEMMA LossInvStep ==
    ASSUME SystemMode = "PULL", MayClose = {}, KeysTravel, LossInv, [Next]_vars
    PROVE  LossInv'
<1>1. TypeOK /\ TypeInv
  BY DEF LossInv, LinkInv, TypeInv
<1> QED BY <1>1, LogInvStep, LinkInvStep, EndsStep, ConfiguredStep, DataSoundStep, FreshStep DEF LossInv

(* At the start nothing is under way. *)
LEMMA LossInvInit == Init => LossInv
<1> SUFFICES ASSUME Init PROVE LossInv
  OBVIOUS
<1>1. LogInv /\ LinkInv /\ StartInv
  BY LogInvInit, LinkInvInit, StartInvInit
<1>2. /\ pc = [c \in Client |-> "connect"] /\ cfg = [c \in Client |-> DefaultConfig]
      /\ client_end = [k \in Conn |-> "none"]
      /\ up = [k \in Conn |-> <<>>] /\ down = [k \in Conn |-> <<>>] /\ tx_buffer = <<>> /\ rx_buffer = <<>>
  BY DEF Init, SocketsInit, DaemonInit, ClientInit
<1>3. EndsFollowPc
  <2>1. /\ \A c \in Client : pc[c] = "connect"
        /\ \A k \in Conn : client_end[k] = "none"
    BY <1>2
  <2>2. \A c \in Client : \A ch \in Channel : <<c, ch>> \in Conn
    BY ConnFacts
  <2>3. "SEND" \in Channel
    BY DEF Channel
  <2> QED BY <2>1, <2>2, <2>3 DEF EndsFollowPc
<1>4. Configured
  BY <1>1, <1>2 DEF Configured, DefaultConfig
<1>5. \A S : <<>> \in Seq(S)
  OBVIOUS
<1>6. DataSound
  BY <1>2, <1>5, ConnFacts DEF DataSound
<1>7. Fresh
  BY <1>2, ConnFacts DEF Fresh, Channel
<1> QED BY <1>1, <1>3, <1>4, <1>6, <1>7 DEF LossInv

(* While clients stay connected and the daemon lives, in PULL mode, a read  *)
(* that takes two or more messages off one channel is the only step that    *)
(* loses a payload: no answer misses its client, no accepted answer is      *)
(* without its payload, no descriptor is dropped that carries one, and      *)
(* checkOut(), fetch() and post() hand over what they take.                 *)
THEOREM PullLossOnlyByMerging ==
    ASSUME SystemMode = "PULL", MayClose = {}, KeysTravel
    PROVE  Spec /\ []Alive => LossOnlyByMerging
<1>1. Init => LossInv
  BY LossInvInit
<1>2. LossInv /\ [Next]_vars => LossInv'
  BY LossInvStep
<1>3. LossInv /\ LossInv' /\ Alive /\ Alive' /\ [Next]_vars =>
        [\A p \in Payload :
            Places(p) # {} /\ Places(p)' = {} =>
                \E k \in Conn : \/ Len(up'[k]) + 2 <= Len(up[k])
                                \/ Len(down'[k]) + 2 <= Len(down[k])]_vars
  <2> SUFFICES ASSUME LossInv, LossInv', Alive, Alive', [Next]_vars,
                      NEW q \in Payload, Places(q) # {}, Places(q)' = {}, NoMerge
               PROVE  FALSE
    BY DEF NoMerge
  <2>1. TypeOK /\ TypeOK'
    BY DEF LossInv, LinkInv, TypeInv
  <2>2. (TypeOK => \A p \in Payload : HeldRight(p))'
    BY HeldPlaces, PTL
  <2>3. Held(q)
    BY <2>1, HeldPlaces DEF HeldRight
  <2>4. Held(q)'
    BY <2>3, LossStep
  <2> QED BY <2>1, <2>2, <2>4 DEF HeldRight
<1> QED BY <1>1, <1>2, <1>3, PTL DEF Spec, LossOnlyByMerging

-----------------------------------------------------------------------------
(* The daemon's survival.  While no client is destroyed, a client closes    *)
(* only in initialize(), when it is refused or gives up, with no other      *)
(* request of its own to answer than its INIT.  So a connection that is     *)
(* reset has nothing left to answer.                                        *)

(* A client that waits for its INIT has one request or one answer.          *)
OneInit(c) ==
    /\ pc[c] \in {"connect", "init"} => CtrlUp(c) = <<>> /\ CtrlDown(c) = <<>>
    /\ pc[c] = "initWait" => Len(CtrlUp(c)) + Len(CtrlDown(c)) <= 1

OneInits == Alive => \A c \in Client : OneInit(c)

Clean ==
    /\ DaemonSurvives
    /\ Alive => \A c \in Client : \A ch \in Channel :
                   /\ reset[<<c, ch>>] => pc[c] = "closed" /\ up[<<c, ch>>] = <<>>
                   /\ pc[c] = "closed" => Len(up[<<c, ch>>]) <= 1

(* What does not stop the daemon.                                           *)
NoExits == {m \in nsbm : m.op # "EXIT"}
Steady == MaxCalls = 0 => status = "running" /\ \A c \in Client : CtrlUp(c) \in Seq(NoExits)

SurviveInv == KindInv /\ LinkInv /\ EndsFollowPc /\ Fresh /\ OneInits /\ Clean /\ Steady

(* Lengths.                                                                 *)
LEMMA ShortReads ==
    ASSUME NEW T, NEW s \in Seq(T)
    PROVE  /\ s = <<>> <=> Len(s) = 0
           /\ \A n \in 1 .. Len(s) : /\ Len(Unread(s, n)) = Len(s) - n
                                     /\ Len(s) <= 1 => Unread(s, n) = <<>>
           /\ \A t : Suffix(s, t) => t \in Seq(T) /\ Len(t) <= Len(s) /\ (s = <<>> => t = <<>>)
<1>1. s = <<>> <=> Len(s) = 0
  OBVIOUS
<1>2. ASSUME NEW n \in 0 .. Len(s)
      PROVE  SubSeq(s, n + 1, Len(s)) \in Seq(T) /\ Len(SubSeq(s, n + 1, Len(s))) = Len(s) - n
  OBVIOUS
<1>3. Len(s) \in Nat
  OBVIOUS
<1>4. ASSUME NEW n \in 1 .. Len(s)
      PROVE  /\ Len(Unread(s, n)) = Len(s) - n
             /\ Len(s) <= 1 => Unread(s, n) = <<>>
  <2>1. Unread(s, n) \in Seq(T) /\ Len(Unread(s, n)) = Len(s) - n
    BY <1>2, <1>3 DEF Unread
  <2>2. Len(s) <= 1 => Len(Unread(s, n)) = 0
    BY <1>3, <2>1
  <2> QED BY <2>1, <2>2
<1>5. ASSUME NEW t, Suffix(s, t) PROVE t \in Seq(T) /\ Len(t) <= Len(s) /\ (s = <<>> => t = <<>>)
  <2>1. PICK n \in 0 .. Len(s) : t = SubSeq(s, n + 1, Len(s))
    BY <1>5 DEF Suffix
  <2>2. t \in Seq(T) /\ Len(t) = Len(s) - n
    BY <1>2, <2>1
  <2>3. Len(t) <= Len(s) /\ (Len(s) = 0 => Len(t) = 0)
    BY <1>3, <2>2
  <2> QED BY <1>1, <2>2, <2>3
<1> QED BY <1>1, <1>4, <1>5

(* What is written on a stream is one message.                              *)
LEMMA OneWritten ==
    ASSUME NEW T, NEW s \in Seq(T), NEW m
    PROVE  Len(Append(s, m)) = Len(s) + 1
  OBVIOUS

(* A handler answers a client that is there, or one that has closed and is  *)
(* owed nothing else; and only EXIT stops the daemon.                       *)
LEMMA HandlerSafe ==
    ASSUME SystemMode = "PULL", TypeInv, Clean,
           NEW f \in read_fds \cap OpenFds, NEW n \in 1 .. Len(up[fd_table[f]]), Handle(f, n), UNCHANGED clientVars
    PROVE  /\ \A j \in Conn : reset'[j] => reset[j] \/ (j = fd_table[f] /\ client_end[j] = "closed")
           /\ status' = status \/ (status' = "stopping" /\ Incoming(f, n).op = "EXIT")
<1>0. TypeOK /\ Receive(f, n) /\ reset \in [Conn -> BOOLEAN]
  BY HandlersTyped DEF TypeInv, TypeOK, SocketsTypeOK
<1>1. PICK k : k = fd_table[f]
  OBVIOUS
<1>2. k \in Conn /\ Alive
  BY <1>0, <1>1, ReadOutcome
<1>3. PICK c \in Client, ch \in Channel : k = <<c, ch>>
  BY <1>2 DEF Conn
<1>4. ~reset[k]
  <2>1. up[k] # <<>>
    BY <1>1
  <2> QED BY <1>2, <1>3, <2>1 DEF Clean
<1>5. ASSUME NEW m, SocketSend(k, m)
      PROVE  /\ \A j \in Conn : reset'[j] => reset[j] \/ (j = k /\ client_end[j] = "closed")
             /\ status' = status
  BY <1>0, <1>2, <1>4, <1>5 DEF SocketSend
<1>6. CASE handle_init(f, n) \/ handle_ping(f, n) \/ handle_fetch(f, n) \/ handle_receive(f, n)
  <2>1. \E m : SocketSend(k, m)
    BY <1>1, <1>6 DEF handle_init, handle_ping, handle_fetch, handle_receive, Reply
  <2> QED BY <1>1, <1>5, <2>1
<1>7. CASE handle_send(f, n) \/ handle_post(f, n)
  BY <1>7 DEF handle_send, handle_post, NoSend
<1>8. CASE handle_exit(f, n)
  BY <1>8 DEF handle_exit
<1> QED BY <1>6, <1>7, <1>8 DEF Handle

(* The daemon's steps.                                                      *)
LEMMA DaemonSafe ==
    ASSUME SystemMode = "PULL", TypeInv, KindInv, EndsFollowPc, Clean, Steady, DaemonNext, UNCHANGED clientVars
    PROVE  Clean' /\ Steady'
<1>0. TypeOK /\ AsksRight /\ up \in [Conn -> Seq(nsbm)]
  BY DEF TypeInv, KindInv, TypeOK, SocketsTypeOK
<1>1. \A c \in Client : \A ch \in Channel : <<c, ch>> \in Conn
  BY ConnFacts
<1>2. \A k \in Conn : Suffix(up[k], up'[k])
  BY DaemonTakes
<1> DEFINE NewReset(j) == client_end[j] = "closed" /\ (Len(up[j]) <= 1 => up'[j] = <<>>)
<1>3. /\ Alive /\ \A j \in Conn : reset'[j] => reset[j] \/ NewReset(j)
      /\ status' \in {status, "stopping", "stopped"}
      /\ MaxCalls = 0 => status' = status
  <2>1. CASE Select \/ Accept
    BY <2>1 DEF Select, Accept, socketVars, Alive
  <2>2. CASE Shutdown
    BY <2>2 DEF Shutdown, Alive, Steady
  <2>3. CASE \E f \in read_fds \cap OpenFds : Disconnect(f)
    BY <2>3 DEF Disconnect, Visit, Alive
  <2>4. ASSUME NEW f \in read_fds \cap OpenFds, NEW n \in 1 .. Len(up[fd_table[f]]), Handle(f, n)
        PROVE  /\ Alive /\ \A j \in Conn : reset'[j] => reset[j] \/ NewReset(j)
               /\ status' \in {status, "stopping", "stopped"}
               /\ MaxCalls = 0 => status' = status
    <3>1. Receive(f, n)
      BY <2>4, HandlersTyped
    <3>2. fd_table[f] \in Conn /\ Alive
      BY <1>0, <3>1, ReadOutcome
    <3>3. /\ \A j \in Conn : reset'[j] => reset[j] \/ (j = fd_table[f] /\ client_end[j] = "closed")
          /\ status' = status \/ (status' = "stopping" /\ Incoming(f, n).op = "EXIT")
      BY <2>4, HandlerSafe
    <3>4. ASSUME MaxCalls = 0, Incoming(f, n).op = "EXIT" PROVE FALSE
      <4>1. PICK c \in Client, ch \in Channel : fd_table[f] = <<c, ch>>
        BY <3>2 DEF Conn
      <4>2. PICK s : s = up[<<c, ch>>]
        OBVIOUS
      <4>3. PICK m : m = Incoming(f, n)
        OBVIOUS
      <4>4. s \in Seq(nsbm) /\ n \in 1 .. Len(s) /\ m = Parse(Read(s, n)) /\ m \in nsbm
        BY <1>0, <1>1, <3>1, <4>1, <4>2, <4>3, ReadOutcome DEF Incoming
      <4>5. PICK S : S = IF ch = "CTRL" THEN Op \ {"EXIT"} ELSE AskedOps(c, ch)
        OBVIOUS
      <4>6. S \in SUBSET Op /\ "EXIT" \notin S
        BY <4>5 DEF AskedOps, Op
      <4>7. \A i \in DOMAIN s : s[i].op \in S
        <5>1. CASE ch = "CTRL"
          <6>1. s \in Seq(NoExits)
            BY <3>4, <4>2, <5>1 DEF Steady, CtrlUp
          <6>2. \A i \in DOMAIN s : s[i] \in NoExits
            BY <6>1
          <6> QED BY <4>5, <5>1, <6>2 DEF NoExits, nsbm
        <5>2. CASE ch # "CTRL"
          BY <1>0, <4>2, <4>5, <5>2 DEF AsksRight, Asked
        <5> QED BY <5>1, <5>2
      <4>8. /\ Read(s, n) \in Seq(nsbm) /\ Read(s, n) # <<>> /\ \A i \in 1 .. n : Read(s, n)[i] = s[i]
        BY <4>4, SplitType DEF Read
      <4>9. \A i \in DOMAIN Read(s, n) : i \in 1 .. n /\ i \in DOMAIN s
        BY <4>4 DEF Read
      <4>10. \A i \in DOMAIN Read(s, n) : Read(s, n)[i].op \in S
        BY <4>7, <4>8, <4>9
      <4>11. m.op \in S
        BY <4>4, <4>6, <4>8, <4>10, ParseOp
      <4> QED BY <3>4, <4>3, <4>6, <4>11
    <3>5. up'[fd_table[f]] = Unread(up[fd_table[f]], n)
      BY <1>0, <3>1, <3>2 DEF Receive
    <3>6. Len(up[fd_table[f]]) <= 1 => up'[fd_table[f]] = <<>>
      BY <1>0, <3>2, <3>5, ShortReads
    <3>7. \A j \in Conn : reset'[j] => reset[j] \/ NewReset(j)
      BY <3>3, <3>6
    <3> HIDE DEF NewReset
    <3> QED BY <3>2, <3>3, <3>4, <3>7
  <2> QED BY <2>1, <2>2, <2>3, <2>4 DEF DaemonNext
<1>4. Clean'
  <2>1. DaemonSurvives'
    BY <1>3 DEF Clean, DaemonSurvives
  <2>2. ASSUME NEW c \in Client, NEW ch \in Channel
        PROVE  /\ reset'[<<c, ch>>] => pc[c] = "closed" /\ up'[<<c, ch>>] = <<>>
               /\ pc[c] = "closed" => Len(up'[<<c, ch>>]) <= 1
    <3>1. PICK k \in Conn : k = <<c, ch>>
      BY <1>1
    <3>2. /\ reset[k] => pc[c] = "closed" /\ up[k] = <<>>
          /\ pc[c] = "closed" => Len(up[k]) <= 1
      BY <1>3, <3>1 DEF Clean
    <3>3. up[k] \in Seq(nsbm) /\ Suffix(up[k], up'[k])
      BY <1>0, <1>2
    <3>4. Len(up'[k]) <= Len(up[k]) /\ (up[k] = <<>> => up'[k] = <<>>) /\ Len(up[k]) \in Nat /\ Len(up'[k]) \in Nat
      <4>1. up'[k] \in Seq(nsbm) /\ Len(up'[k]) <= Len(up[k]) /\ (up[k] = <<>> => up'[k] = <<>>)
        BY <3>3, ShortReads
      <4>2. \A s \in Seq(nsbm) : Len(s) \in Nat
        OBVIOUS
      <4> QED BY <3>3, <4>1, <4>2
    <3>5. pc[c] = "closed" => Len(up'[k]) <= 1
      BY <3>2, <3>4
    <3>6. ASSUME NewReset(k) PROVE pc[c] = "closed" /\ up'[k] = <<>>
      <4>1. pc[c] = "closed"
        BY <3>1, <3>6 DEF EndsFollowPc
      <4> QED BY <3>2, <3>6, <4>1
    <3> HIDE DEF NewReset
    <3> QED BY <1>3, <3>1, <3>2, <3>4, <3>5, <3>6
  <2>3. pc' = pc
    BY DEF clientVars
  <2> QED BY <1>3, <2>1, <2>2, <2>3 DEF Clean
<1>5. Steady'
  <2> SUFFICES ASSUME MaxCalls = 0, NEW c \in Client PROVE CtrlUp(c)' \in Seq(NoExits)
    BY <1>3 DEF Steady
  <2>1. up[<<c, "CTRL">>] \in Seq(NoExits)
    BY DEF Steady, CtrlUp
  <2>2. Suffix(up[<<c, "CTRL">>], up'[<<c, "CTRL">>])
    BY <1>1, <1>2 DEF Channel
  <2>3. up'[<<c, "CTRL">>] \in Seq(NoExits)
    BY <2>1, <2>2, StreamOf
  <2> QED BY <2>3 DEF CtrlUp
<1> QED BY <1>4, <1>5

(* A client that starts.                                                    *)
LEMMA ClientOneInit ==
    ASSUME MayClose = {}, TypeInv, DescriptorsConsistent, EndsFollowPc, OneInits, Alive,
           NEW c \in Client, ClientNext(c)
    PROVE  OneInit(c)'
<1> DEFINE k == <<c, "CTRL">>
<1>0. /\ TypeOK /\ OneInit(c) /\ k \in Conn
      /\ pc \in [Client -> PcState] /\ up \in [Conn -> Seq(nsbm)]
  BY ConnFacts DEF OneInits, TypeInv, TypeOK, ClientTypeOK, SocketsTypeOK, Channel
<1>1. ASSUME NEW to \in {"idle", "pingWait", "recvWait", "fetchWait", "closed", "spin"},
             Goto(c, to) \/ (pc' = pc /\ pc[c] = to)
      PROVE  OneInit(c)'
  <2>1. pc'[c] = to
    BY <1>0, <1>1 DEF Goto
  <2> QED BY <2>1 DEF OneInit
<1>2. CASE \E ch \in Channel : ConnectChannel(c, ch)
  <2>1. pc[c] = "connect" /\ UNCHANGED <<up, down>> /\ (Goto(c, "init") \/ Goto(c, "connect"))
    BY <1>2 DEF ConnectChannel
  <2>2. pc'[c] \in {"init", "connect"}
    BY <1>0, <2>1 DEF Goto
  <2> QED BY <1>0, <2>1, <2>2 DEF OneInit, CtrlUp, CtrlDown
<1>3. CASE initialize(c)
  <2>1. /\ pc[c] = "init" /\ pc'[c] = "initWait" /\ UNCHANGED down
        /\ up' = up \/ up' = [up EXCEPT ![k] = Append(@, IntroMessage(c))]
    BY <1>0, <1>3 DEF initialize, Goto, socketsButUp, SendMessage, UpAfterSend
  <2>2. up[k] = <<>> /\ down[k] = <<>>
    BY <1>0, <2>1 DEF OneInit, CtrlUp, CtrlDown
  <2>3. up'[k] = <<>> \/ up'[k] = <<IntroMessage(c)>>
    <3>1. up'[k] = up[k] \/ up'[k] = Append(up[k], IntroMessage(c))
      BY <1>0, <2>1
    <3>2. Append(<<>>, IntroMessage(c)) = <<IntroMessage(c)>>
      OBVIOUS
    <3> QED BY <2>2, <3>1, <3>2
  <2>4. Len(<<>>) = 0 /\ Len(<<IntroMessage(c)>>) = 1
    OBVIOUS
  <2>5. Len(up'[k]) + Len(down'[k]) <= 1
    BY <2>1, <2>2, <2>3, <2>4
  <2> QED BY <2>1, <2>5 DEF OneInit, CtrlUp, CtrlDown
<1>4. CASE ping(c) \/ exit(c) \/ WaitTimeout(c) \/ WaitEof(c) \/ (\E e \in SendTo[c] : send(c, e))
             \/ (\E e \in Network : post(c, e)) \/ (\E e \in ReceiveAs \cup {Ident[c]} : receive(c, e))
             \/ (\E s \in FetchFrom : fetch(c, s))
  <2>1. \E to \in {"idle", "pingWait", "recvWait", "fetchWait", "closed", "spin"} :
            Goto(c, to) \/ (pc' = pc /\ pc[c] = to)
    BY <1>4 DEF ping, exit, WaitTimeout, WaitEof, CloseConnections, send, post, receive, fetch
  <2> QED BY <1>1, <2>1
<1>5. CASE ConnectFails(c) \/ Close(c) \/ BrokenPipe(c) \/ InitTimeout(c)
  <2>1. Goto(c, "closed") \/ Goto(c, "idle")
    BY <1>5 DEF ConnectFails, Close, BrokenPipe, InitTimeout, CloseConnections
  <2> QED BY <1>1, <2>1
<1>6. CASE Responded(c)
  <2>1. Goto(c, "closed") \/ Goto(c, "idle")
    BY <1>6 DEF Responded, InitReturn, PingReturn, ReceiveReturn, FetchReturn, CloseConnections
  <2> QED BY <1>1, <2>1
<1> QED BY <1>2, <1>3, <1>4, <1>5, <1>6 DEF ClientNext

(* OneInits is inductive: INIT has one answer.                              *)
LEMMA OneInitsStep ==
    ASSUME SystemMode = "PULL", MayClose = {}, LinkInv, EndsFollowPc, OneInits, [Next]_vars
    PROVE  OneInits'
<1> SUFFICES ASSUME Alive', NEW d \in Client PROVE OneInit(d)'
  BY DEF OneInits
<1> DEFINE k == <<d, "CTRL">>
<1>0. /\ TypeInv /\ TypeOK /\ DescriptorsConsistent /\ Alive /\ OneInit(d) /\ k \in Conn
      /\ up \in [Conn -> Seq(nsbm)] /\ down \in [Conn -> Seq(nsbm)]
  BY LeadsOn, ConnFacts DEF LinkInv, TypeInv, TypeOK, SocketsTypeOK, OneInits, Channel
<1>1. CASE UNCHANGED vars
  <2>1. UNCHANGED <<pc, up, down>>
    BY <1>1 DEF vars, clientVars, socketVars
  <2> QED BY <1>0, <2>1 DEF OneInit, CtrlUp, CtrlDown
<1>2. CASE DaemonNext /\ UNCHANGED clientVars
  <2>1. pc' = pc /\ Suffix(up[k], up'[k])
    BY <1>0, <1>2, DaemonTakes DEF clientVars
  <2>2. \/ down'[k] = down[k]
        \/ up[k] # <<>> /\ Len(up'[k]) <= Len(up[k]) - 1 /\ \E m : down'[k] = Append(down[k], m)
    <3>1. CASE Select \/ Accept \/ Shutdown \/ \E f : Disconnect(f)
      BY <3>1 DEF Select, Disconnect, Accept, Shutdown, socketVars
    <3>2. ASSUME NEW f \in read_fds \cap OpenFds, NEW n \in 1 .. Len(up[fd_table[f]]), Handle(f, n),
                 down'[k] # down[k]
          PROVE  up[k] # <<>> /\ Len(up'[k]) <= Len(up[k]) - 1 /\ \E m : down'[k] = Append(down[k], m)
      <4>1. Receive(f, n) /\ fd_table[f] \in Conn
        BY <1>0, <1>2, <3>2, HandlersTyped, ReadOutcome
      <4>2. k = fd_table[f]
        BY <1>0, <1>2, <3>2, <4>1, HandlerWrites
      <4>3. up'[k] = Unread(up[k], n)
        BY <1>0, <4>1, <4>2 DEF Receive
      <4>4. Len(up'[k]) = Len(up[k]) - n /\ n \in 1 .. Len(up[k]) /\ up[k] \in Seq(nsbm)
        BY <1>0, <3>2, <4>2, <4>3, ShortReads
      <4>5. up[k] # <<>> /\ Len(up[k]) \in Nat
        BY <4>4
      <4>6. \E m : SocketSend(k, m)
        <5>1. ~handle_send(f, n) /\ ~handle_post(f, n) /\ ~handle_exit(f, n)
          BY <3>2 DEF handle_send, handle_post, handle_exit, NoSend
        <5> QED BY <3>2, <4>2, <5>1 DEF Handle, handle_init, handle_ping, handle_fetch, handle_receive, Reply
      <4>7. \E m : down'[k] = Append(down[k], m)
        BY <1>0, <3>2, <4>6 DEF SocketSend
      <4> QED BY <4>4, <4>5, <4>7
    <3> QED BY <1>2, <3>1, <3>2 DEF DaemonNext
  <2>3. (up[k] = <<>> => up'[k] = <<>>) /\ Len(up'[k]) <= Len(up[k]) /\ up'[k] \in Seq(nsbm)
    BY <1>0, <2>1, ShortReads
  <2>4. \A s \in Seq(nsbm) : Len(s) \in Nat
    OBVIOUS
  <2>5. Len(up[k]) \in Nat /\ Len(down[k]) \in Nat /\ Len(up'[k]) \in Nat
    BY <1>0, <2>3, <2>4
  <2>6. Len(up'[k]) + Len(down'[k]) <= Len(up[k]) + Len(down[k])
    <3>1. CASE down'[k] = down[k]
      BY <2>3, <2>5, <3>1
    <3>2. CASE down'[k] # down[k]
      <4>1. PICK m : down'[k] = Append(down[k], m)
        BY <2>2, <3>2
      <4>2. Len(down'[k]) = Len(down[k]) + 1
        BY <1>0, <4>1, OneWritten
      <4>3. Len(up'[k]) <= Len(up[k]) - 1
        BY <2>2, <3>2
      <4>4. \A x, y, z \in Nat : x <= y - 1 => x + (z + 1) <= y + z
        OBVIOUS
      <4> QED BY <2>5, <4>2, <4>3, <4>4
    <3> QED BY <3>1, <3>2
  <2>7. Len(down'[k]) \in Nat
    <3>1. ASSUME NEW m, down'[k] = Append(down[k], m) PROVE Len(down'[k]) = Len(down[k]) + 1
      BY <1>0, <3>1, OneWritten
    <3> QED BY <2>2, <2>5, <3>1
  <2>8. pc[d] = "initWait" => Len(up'[k]) + Len(down'[k]) <= 1
    <3>1. pc[d] = "initWait" => Len(up[k]) + Len(down[k]) <= 1
      BY <1>0 DEF OneInit, CtrlUp, CtrlDown
    <3>2. PICK x \in Nat, y \in Nat, z \in Nat, w \in Nat :
              x = Len(up'[k]) /\ y = Len(down'[k]) /\ z = Len(up[k]) /\ w = Len(down[k])
      BY <2>5, <2>7
    <3>3. x + y <= z + w /\ (pc[d] = "initWait" => z + w <= 1)
      BY <2>6, <3>1, <3>2
    <3>4. pc[d] = "initWait" => x + y <= 1
      BY <3>3
    <3> QED BY <3>2, <3>4
  <2>9. pc[d] \in {"connect", "init"} => up'[k] = <<>> /\ down'[k] = <<>>
    BY <1>0, <2>2, <2>3 DEF OneInit, CtrlUp, CtrlDown
  <2> QED BY <2>1, <2>8, <2>9 DEF OneInit, CtrlUp, CtrlDown
<1>3. ASSUME NEW c \in Client, ClientNext(c) PROVE OneInit(d)'
  <2>1. CASE d = c
    BY <1>0, <1>3, <2>1, ClientOneInit
  <2>2. CASE d # c
    <3>1. CalmCall(c) \/ DataCall(c)
      BY <1>0, <1>3, LivingClient
    <3>2. pc'[d] = pc[d] /\ up'[k] = up[k] /\ down'[k] = down[k]
      BY <1>0, <2>2, <3>1, OthersStay DEF Channel
    <3> QED BY <1>0, <3>2 DEF OneInit, CtrlUp, CtrlDown
  <2> QED BY <2>1, <2>2
<1> QED BY <1>1, <1>2, <1>3 DEF Next

(* What a client step does besides, while the daemon lives: it does not     *)
(* close, or it does so before it was used, and then owes or is owed one    *)
(* message at most.                                                         *)
LEMMA ClientSafe ==
    ASSUME MayClose = {}, TypeInv, DescriptorsConsistent, EndsFollowPc, Fresh, OneInits, Clean, Alive,
           NEW c \in Client, ClientNext(c)
    PROVE  /\ \A k \in Conn : k[1] # c => reset'[k] = reset[k]
           /\ \/ reset' = reset /\ pc'[c] # "closed"
              \/ \A ch \in Channel : /\ Len(up'[<<c, ch>>]) <= 1 /\ pc'[c] = "closed"
                                     /\ reset'[<<c, ch>>] => up'[<<c, ch>>] = <<>>
<1>0. /\ TypeOK /\ OneInit(c)
      /\ pc \in [Client -> PcState] /\ down \in [Conn -> Seq(nsbm)] /\ up \in [Conn -> Seq(nsbm)]
      /\ reset \in [Conn -> BOOLEAN]
  BY DEF OneInits, TypeInv, TypeOK, ClientTypeOK, SocketsTypeOK
<1>1. \A ch \in Channel : pc[c] \notin {"connect", "closed"} => ServerEnd(<<c, ch>>)
  BY EndsHeld, <1>0
<1>2. ~ConnectFails(c) /\ ~Close(c) /\ ~BrokenPipe(c) /\ ~WaitEof(c)
  BY <1>1 DEF ConnectFails, Close, Alive, BrokenPipe, WaitEof, WaitState, WaitChannel, Channel
<1>3. SUFFICES ASSUME ~(reset' = reset /\ pc'[c] # "closed")
               PROVE  /\ \A k \in Conn : k[1] # c => reset'[k] = reset[k]
                      /\ \A ch \in Channel : /\ Len(up'[<<c, ch>>]) <= 1 /\ pc'[c] = "closed"
                                             /\ reset'[<<c, ch>>] => up'[<<c, ch>>] = <<>>
  OBVIOUS
<1>4. ASSUME NEW to \in PcState \ {"closed"}, Goto(c, to) \/ (pc' = pc /\ pc[c] = to) PROVE pc'[c] # "closed"
  BY <1>0, <1>4 DEF Goto
<1>5. ASSUME \E ch \in Channel : ConnectChannel(c, ch)
      PROVE  reset' = reset /\ pc'[c] # "closed"
  <2>1. reset' = reset /\ (Goto(c, "init") \/ Goto(c, "connect"))
    BY <1>5 DEF ConnectChannel
  <2> QED BY <1>4, <2>1 DEF PcState
<1>6. ASSUME initialize(c) \/ ping(c) \/ exit(c) \/ (\E e \in SendTo[c] : send(c, e)) \/ (\E e \in Network : post(c, e))
      PROVE  reset' = reset /\ pc'[c] # "closed"
  <2>1. /\ reset' = reset
        /\ Goto(c, "initWait") \/ Goto(c, "pingWait") \/ (pc' = pc /\ pc[c] = "idle")
    BY <1>6 DEF initialize, ping, exit, send, post, socketsButUp
  <2> QED BY <1>4, <2>1 DEF PcState, WaitState
<1>7. ASSUME WaitTimeout(c) \/ (\E e \in ReceiveAs \cup {Ident[c]} : receive(c, e)) \/ (\E s \in FetchFrom : fetch(c, s))
      PROVE  reset' = reset /\ pc'[c] # "closed"
  <2>1. /\ reset' = reset
        /\ Goto(c, "idle") \/ Goto(c, "recvWait") \/ Goto(c, "fetchWait")
    BY <1>7 DEF WaitTimeout, receive, fetch, socketsButUp, socketVars
  <2> QED BY <1>4, <2>1 DEF PcState, WaitState
<1>8. ASSUME NEW n, PingReturn(c, n) \/ ReceiveReturn(c, n) \/ FetchReturn(c, n)
      PROVE  reset' = reset /\ pc'[c] # "closed"
  <2>1. reset' = reset /\ Goto(c, "idle")
    BY <1>8 DEF PingReturn, ReceiveReturn, FetchReturn, socketsButDown
  <2> QED BY <1>4, <2>1 DEF PcState
<1>9. PICK u : /\ pc[c] = "initWait" /\ CloseConnections(c, u) /\ up' = up
               /\ u = down \/ \E n : u = [down EXCEPT ![<<c, "CTRL">>] = Unread(@, n)] /\ down[<<c, "CTRL">>] # <<>>
  <2>1. ~(UNCHANGED <<client_end, reset>> /\ Goto(c, "idle"))
    BY <1>3, <1>4 DEF PcState
  <2>2. CASE InitTimeout(c)
    <3>1. pc[c] = "initWait" /\ CloseConnections(c, down) /\ up' = up
      BY <2>1, <2>2 DEF InitTimeout
    <3> QED BY <2>1, <3>1
  <2>3. ASSUME NEW n, InitReturn(c, n)
        PROVE  \E u : /\ pc[c] = "initWait" /\ CloseConnections(c, u) /\ up' = up
                      /\ u = [down EXCEPT ![<<c, "CTRL">>] = Unread(@, n)] /\ down[<<c, "CTRL">>] # <<>>
    <3>1. pc[c] = "initWait" /\ n \in 1 .. Len(down[<<c, "CTRL">>]) /\ up' = up
      BY <2>3 DEF InitReturn
    <3>2. CloseConnections(c, [down EXCEPT ![<<c, "CTRL">>] = Unread(@, n)])
      BY <2>1, <2>3 DEF InitReturn
    <3>3. down[<<c, "CTRL">>] # <<>>
      BY <3>1
    <3> QED BY <3>1, <3>2, <3>3
  <2>4. InitTimeout(c) \/ \E n : InitReturn(c, n)
    <3>1. \A n : ~PingReturn(c, n) /\ ~ReceiveReturn(c, n) /\ ~FetchReturn(c, n)
      BY <1>3, <1>8
    <3>2. Responded(c) => \E n : InitReturn(c, n)
      BY <3>1 DEF Responded
    <3> QED BY <1>2, <1>3, <1>5, <1>6, <1>7, <3>2 DEF ClientNext
  <2>5. \A n : InitReturn(c, n) =>
            \E u : /\ pc[c] = "initWait" /\ CloseConnections(c, u) /\ up' = up
                   /\ u = [down EXCEPT ![<<c, "CTRL">>] = Unread(@, n)] /\ down[<<c, "CTRL">>] # <<>>
    BY <2>3
  <2>6. CASE \E n : InitReturn(c, n)
    BY <2>5, <2>6
  <2> QED BY <2>2, <2>4, <2>6
<1>10. /\ pc'[c] = "closed"
       /\ reset' = [k \in Conn |-> reset[k] \/ (k[1] = c /\ u[k] # <<>>)]
  BY <1>0, <1>9 DEF CloseConnections, Goto
<1>11. ASSUME NEW k \in Conn, k[1] # c PROVE reset'[k] = reset[k]
  BY <1>0, <1>10, <1>11
<1>12. ASSUME NEW ch \in Channel
       PROVE  Len(up'[<<c, ch>>]) <= 1 /\ (reset'[<<c, ch>>] => up'[<<c, ch>>] = <<>>)
  <2>1. PICK k \in Conn : k = <<c, ch>>
    BY ConnFacts
  <2>2. ~reset[k]
    BY <1>9, <2>1 DEF Clean
  <2>3. CASE ch # "CTRL"
    <3>1. up[k] = <<>>
      BY <1>9, <2>1, <2>3 DEF Fresh, Admitted, Channel
    <3>2. Len(<<>>) = 0
      OBVIOUS
    <3> QED BY <1>9, <2>1, <3>1, <3>2
  <2>4. CASE ch = "CTRL"
    <3>1. Len(up[k]) + Len(down[k]) <= 1 /\ up[k] \in Seq(nsbm) /\ down[k] \in Seq(nsbm)
      BY <1>0, <1>9, <2>1, <2>4 DEF OneInit, CtrlUp, CtrlDown
    <3>2. Len(up[k]) <= 1 /\ (down[k] = <<>> \/ up[k] = <<>>)
      <4>1. /\ Len(up[k]) \in Nat /\ (up[k] = <<>> <=> Len(up[k]) = 0)
            /\ Len(down[k]) \in Nat /\ (down[k] = <<>> <=> Len(down[k]) = 0)
        BY <3>1
      <4>2. \A x, y \in Nat : x + y <= 1 => x <= 1 /\ (x = 0 \/ y = 0)
        OBVIOUS
      <4> QED BY <3>1, <4>1, <4>2
    <3>3. reset'[k] => down[k] # <<>>
      <4>1. reset'[k] => u[k] # <<>>
        BY <1>10, <2>1, <2>2
      <4> QED BY <1>9, <2>1, <2>4, <4>1
    <3> QED BY <1>9, <2>1, <3>2, <3>3
  <2> QED BY <2>3, <2>4
<1> QED BY <1>10, <1>11, <1>12

(* What a client writes on its CTRL channel when it calls neither ping() nor exit(). *)
LEMMA CtrlSteady ==
    ASSUME MaxCalls = 0, TypeInv, NEW c \in Client, ClientNext(c), NEW d \in Client
    PROVE  CtrlUp(d)' = CtrlUp(d) \/ \E m \in NoExits : CtrlUp(d)' = Append(CtrlUp(d), m)
<1> DEFINE k == <<d, "CTRL">>
           Same == up'[k] = up[k] \/ \E m \in NoExits : up'[k] = Append(up[k], m)
<1> SUFFICES Same
  BY DEF CtrlUp
<1>0. up \in [Conn -> Seq(nsbm)] /\ k \in Conn /\ ncalls \in [Client -> 0 .. MaxCalls]
  BY ConnFacts DEF TypeInv, TypeOK, SocketsTypeOK, ClientTypeOK, Channel
<1>1. ASSUME NEW ch \in {"SEND", "RECV"}, NEW m, SendMessage(c, ch, m) PROVE Same
  <2>1. <<c, ch>> # k
    OBVIOUS
  <2> QED BY <1>0, <1>1, <2>1 DEF SendMessage, UpAfterSend
<1>2. CASE \/ \E ch \in Channel : ConnectChannel(c, ch)
           \/ ConnectFails(c) \/ Close(c) \/ BrokenPipe(c) \/ InitTimeout(c) \/ WaitTimeout(c) \/ WaitEof(c)
           \/ Responded(c)
  <2>1. up' = up
    BY <1>2 DEF ConnectChannel, ConnectFails, Close, BrokenPipe, InitTimeout, WaitTimeout, WaitEof,
                Responded, InitReturn, PingReturn, ReceiveReturn, FetchReturn, socketsButDown, socketVars
  <2> QED BY <2>1
<1>3. ~ping(c) /\ ~exit(c)
  <2>1. ncalls[c] \in 0 .. 0
    BY <1>0
  <2> QED BY <2>1 DEF ping, exit
<1>4. CASE initialize(c)
  <2>1. IntroMessage(c) \in NoExits
    BY StartMessages DEF NoExits
  <2>2. up' = up \/ up' = [up EXCEPT ![<<c, "CTRL">>] = Append(@, IntroMessage(c))]
    BY <1>4 DEF initialize, SendMessage, UpAfterSend
  <2>3. up'[k] = up[k] \/ up'[k] = Append(up[k], IntroMessage(c))
    BY <1>0, <2>2
  <2> QED BY <2>1, <2>3
<1>5. CASE \/ \E e \in SendTo[c] : send(c, e)
           \/ \E e \in Network : post(c, e)
           \/ \E e \in ReceiveAs \cup {Ident[c]} : receive(c, e)
           \/ \E s \in FetchFrom : fetch(c, s)
  <2>1. up' = up \/ \E ch \in {"SEND", "RECV"} : \E m : SendMessage(c, ch, m)
    BY <1>5 DEF send, post, receive, fetch
  <2> QED BY <1>1, <2>1
<1> QED BY <1>2, <1>3, <1>4, <1>5 DEF ClientNext

(* The clients' steps.                                                      *)
LEMMA ClientsSafe ==
    ASSUME MayClose = {}, SurviveInv, NEW c \in Client, ClientNext(c)
    PROVE  Clean' /\ Steady'
<1>0. /\ TypeInv /\ TypeOK /\ LinkInv /\ EndsFollowPc /\ Fresh /\ OneInits /\ Clean /\ Steady
      /\ DescriptorsConsistent
  BY DEF SurviveInv, LinkInv, TypeInv
<1>1. status' = status
  BY DEF ClientNext, ConnectChannel, ConnectFails, Close, BrokenPipe, initialize, InitTimeout, ping, exit,
         WaitTimeout, WaitEof, Responded, InitReturn, PingReturn, ReceiveReturn, FetchReturn,
         send, receive, fetch, post, daemonVars
<1>2. Clean'
  <2>1. DaemonSurvives'
    BY <1>0, <1>1 DEF Clean, DaemonSurvives
  <2>2. ASSUME Alive, NEW d \in Client, NEW ch \in Channel
        PROVE  /\ reset'[<<d, ch>>] => pc'[d] = "closed" /\ up'[<<d, ch>>] = <<>>
               /\ pc'[d] = "closed" => Len(up'[<<d, ch>>]) <= 1
    <3>1. CASE d = c
      <4>1. CASE reset' = reset /\ pc'[c] # "closed"
        <5>1. ~reset[<<c, ch>>]
          <6>1. pc[c] # "closed"
            BY DEF ClientNext, ConnectChannel, ConnectFails, Close, BrokenPipe, initialize, InitTimeout, ping, exit,
                   WaitTimeout, WaitEof, WaitState, Responded, InitReturn, PingReturn, ReceiveReturn, FetchReturn,
                   send, receive, fetch, post
          <6> QED BY <1>0, <2>2, <6>1 DEF Clean
        <5> QED BY <3>1, <4>1, <5>1
      <4>2. CASE ~(reset' = reset /\ pc'[c] # "closed")
        <5>1. \/ reset' = reset /\ pc'[c] # "closed"
              \/ \A h \in Channel : /\ Len(up'[<<c, h>>]) <= 1 /\ pc'[c] = "closed"
                                    /\ reset'[<<c, h>>] => up'[<<c, h>>] = <<>>
          BY <1>0, <2>2, ClientSafe
        <5> QED BY <3>1, <4>2, <5>1
      <4> QED BY <4>1, <4>2
    <3>2. CASE d # c
      <4>1. CalmCall(c) \/ DataCall(c)
        BY <1>0, <2>2, LivingClient
      <4>2. pc'[d] = pc[d] /\ up'[<<d, ch>>] = up[<<d, ch>>]
        BY <1>0, <3>2, <4>1, OthersStay
      <4>3. reset'[<<d, ch>>] = reset[<<d, ch>>]
        BY <1>0, <2>2, <3>2, ClientSafe, ConnFacts
      <4> QED BY <1>0, <2>2, <4>2, <4>3 DEF Clean
    <3> QED BY <3>1, <3>2
  <2>3. Alive' = Alive
    BY <1>1 DEF Alive
  <2> QED BY <2>1, <2>2, <2>3 DEF Clean
<1>3. Steady'
  <2> SUFFICES ASSUME MaxCalls = 0, NEW d \in Client PROVE CtrlUp(d)' \in Seq(NoExits)
    BY <1>0, <1>1 DEF Steady
  <2>1. CtrlUp(d) \in Seq(NoExits)
    BY <1>0 DEF Steady
  <2>2. CtrlUp(d)' = CtrlUp(d) \/ \E m \in NoExits : CtrlUp(d)' = Append(CtrlUp(d), m)
    BY <1>0, CtrlSteady
  <2> QED BY <2>1, <2>2, StreamOf
<1> QED BY <1>2, <1>3

(* SurviveInv is inductive.                                                 *)
LEMMA SurviveInvStep ==
    ASSUME SystemMode = "PULL", MayClose = {}, SurviveInv, [Next]_vars
    PROVE  SurviveInv'
<1>0. TypeInv /\ TypeOK /\ KindInv /\ LinkInv /\ EndsFollowPc /\ Fresh /\ OneInits /\ Clean /\ Steady
  BY DEF SurviveInv, LinkInv, TypeInv
<1>1. KindInv' /\ LinkInv' /\ EndsFollowPc' /\ Fresh' /\ OneInits'
  BY <1>0, KindInvStep, LinkInvStep, EndsStep, FreshStep, OneInitsStep
<1>2. CASE UNCHANGED vars
  <2>1. UNCHANGED <<status, reset, pc, up>>
    BY <1>2 DEF vars, clientVars, socketVars, daemonVars
  <2>2. Clean'
    BY <1>0, <2>1 DEF Clean, DaemonSurvives, Alive
  <2>3. Steady'
    BY <1>0, <2>1 DEF Steady, CtrlUp
  <2> QED BY <1>1, <2>2, <2>3 DEF SurviveInv
<1>3. CASE DaemonNext /\ UNCHANGED clientVars
  BY <1>0, <1>1, <1>3, DaemonSafe DEF SurviveInv
<1>4. CASE \E c \in Client : ClientNext(c)
  BY <1>1, <1>4, ClientsSafe DEF SurviveInv
<1> QED BY <1>2, <1>3, <1>4 DEF Next

(* At the start nothing stops the daemon.                                   *)
LEMMA SurviveInvInit == Init => SurviveInv
<1> SUFFICES ASSUME Init PROVE SurviveInv
  OBVIOUS
<1>1. LossInv /\ KindInv
  BY LossInvInit, KindInvInit
<1>2. /\ status = "running" /\ reset = [k \in Conn |-> FALSE] /\ up = [k \in Conn |-> <<>>]
      /\ down = [k \in Conn |-> <<>>] /\ pc = [c \in Client |-> "connect"]
  BY DEF Init, SocketsInit, DaemonInit, ClientInit
<1>3. \A c \in Client : \A ch \in Channel : <<c, ch>> \in Conn
  BY ConnFacts
<1>4. Clean
  BY <1>2, <1>3 DEF Clean, DaemonSurvives
<1>5. OneInits
  BY <1>2, <1>3 DEF OneInits, OneInit, CtrlUp, CtrlDown, Channel
<1>6. Steady
  <2>1. <<>> \in Seq(NoExits)
    OBVIOUS
  <2> QED BY <1>2, <1>3, <2>1 DEF Steady, CtrlUp, Channel
<1> QED BY <1>1, <1>4, <1>5, <1>6 DEF SurviveInv, LossInv

(* In PULL mode, while no client is destroyed, the daemon neither crashes   *)
(* nor hangs: a client that was refused, or gave its INIT up, is sent one   *)
(* answer at most, so the daemon never writes to a reset connection.        *)
THEOREM PullDaemonSurvives ==
    ASSUME SystemMode = "PULL", MayClose = {}
    PROVE  Spec => []DaemonSurvives
<1>1. Init => SurviveInv
  BY SurviveInvInit
<1>2. SurviveInv /\ [Next]_vars => SurviveInv'
  BY SurviveInvStep
<1>3. SurviveInv => DaemonSurvives
  BY DEF SurviveInv, Clean
<1> QED BY <1>1, <1>2, <1>3, PTL DEF Spec

(* And when nobody calls exit() it runs for ever, so that merging is all    *)
(* that loses a payload.                                                    *)
THEOREM PullCalmLossOnlyByMerging ==
    ASSUME SystemMode = "PULL", MayClose = {}, MaxCalls = 0, KeysTravel
    PROVE  Spec => LossOnlyByMerging
<1>1. Init => SurviveInv
  BY SurviveInvInit
<1>2. SurviveInv /\ [Next]_vars => SurviveInv'
  BY SurviveInvStep
<1>3. SurviveInv => Alive
  BY DEF SurviveInv, Steady, Alive
<1>4. Spec => []Alive
  BY <1>1, <1>2, <1>3, PTL DEF Spec
<1>5. Spec /\ []Alive => LossOnlyByMerging
  BY PullLossOnlyByMerging
<1> QED BY <1>4, <1>5, PTL

=============================================================================
