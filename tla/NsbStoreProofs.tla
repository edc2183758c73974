--------------------------- MODULE NsbStoreProofs ---------------------------
(***************************************************************************)
(* Intact, KeysDiffer and TypeOK, for every value of the constants of      *)
(* NsbStore: any clients, any widths of counter and clock, any number of   *)
(* payloads, and a server that goes down any number of times.              *)
(*                                                                         *)
(* Intact says nothing of a payload that was stored before the server last *)
(* went down, which may be there or not.  The strengthening adds that what *)
(* is there is right (FoundRight), and that a connection is lost and the   *)
(* server away only once it has gone down (DownBefore).                    *)
(***************************************************************************)
EXTENDS NsbStore, TLAPS

Issue == [by : Connector \X Nat, nth : Int, key : [time : Int, id : Range(ClientId), ctr : Int],
          value : Nat \ {0}, epoch : Nat]

StoreTypes ==
    /\ clock \in Nat /\ crashes \in Nat /\ nstores \in Nat
    /\ plctr \in [Connector -> Int] /\ nth \in [Connector -> Int] /\ made \in [Connector -> Nat]
    /\ context \in [Connector -> {"REDIS_OK", "stale", "err", "crashed"}]
    /\ issued \in Seq(Issue)
    /\ DOMAIN taken \subseteq DOMAIN issued

DownBefore ==
    /\ ~serving => crashes > 0
    /\ \A c \in Connector : context[c] # "REDIS_OK" => crashes > 0
    /\ \A i \in DOMAIN issued : issued[i].epoch <= crashes

Stored(i) == Written(issued[i].by[1], issued[i].value)

FoundRight ==
    \A i \in DOMAIN issued :
        (~Reused(i) /\ i \notin DOMAIN taken /\ issued[i].key \in DOMAIN redis)
            => redis[issued[i].key] = Stored(i)

StoreInv == StoreTypes /\ DownBefore /\ FoundRight /\ Intact

-----------------------------------------------------------------------------
(* Initially nothing is stored. *)
LEMMA StoreInit == Init => StoreInv
BY StoreAssumption DEF Init, StoreInv, StoreTypes, DownBefore, FoundRight, Intact

(* Steps that touch neither the keys, nor what is stored, nor what was      *)
(* taken keep what is said of them.                                         *)
LEMMA KeysKept ==
    ASSUME StoreInv, UNCHANGED <<redis, issued, taken, crashes>>
    PROVE  FoundRight' /\ Intact'
BY DEF StoreInv, FoundRight, Intact, Reused, Stored, Written, Nothing

(* A payload that is stored is never the empty one. *)
LEMMA StoredExists ==
    ASSUME StoreTypes, NEW i \in DOMAIN issued
    PROVE  Stored(i) # Nothing
<1>1. issued[i] \in Issue
  BY DEF StoreTypes
<1>2. issued[i].value # 0
  BY <1>1 DEF Issue
<1> QED
  BY <1>2 DEF Stored, Written, Nothing

(* No key is from after the last time the server went down. *)
LEMMA EpochType ==
    ASSUME StoreInv, NEW i \in DOMAIN issued
    PROVE  issued[i].epoch \in Nat /\ issued[i].epoch <= crashes
<1>1. issued[i] \in Issue
  BY DEF StoreInv, StoreTypes
<1>2. issued[i].epoch \in Nat
  BY <1>1 DEF Issue
<1> QED
  BY <1>2 DEF StoreInv, DownBefore

(* The key that store() makes is one. *)
LEMMA KeyType ==
    ASSUME StoreTypes, NEW c \in Connector
    PROVE  generatePayloadId(c) \in [time : Int, id : Range(ClientId), ctr : Int]
<1>1. clock \in Int /\ TimeUnit[c] \in Int /\ TimeUnit[c] > 0
  BY StoreAssumption DEF StoreTypes
<1>2. TimeMod[c] \in Int /\ TimeMod[c] > 0 /\ CounterMod \in Int /\ CounterMod > 0
  BY StoreAssumption
<1>3. clock \div TimeUnit[c] \in Int
  BY <1>1
<1>4. Stamp(c) \in Int
  BY <1>2, <1>3 DEF Stamp
<1>5. NextCounter(c) \in Int
  BY <1>2 DEF NextCounter, StoreTypes
<1>6. ClientId[c] \in Range(ClientId)
  BY StoreAssumption DEF Range
<1> QED
  BY <1>4, <1>5, <1>6 DEF generatePayloadId

-----------------------------------------------------------------------------
(* A client starts again: only its connection is new. *)
LEMMA ConnectKeeps ==
    ASSUME StoreInv, NEW c \in Connector, Connect(c)
    PROVE  StoreInv'
<1>1. StoreTypes'
  BY DEF StoreInv, StoreTypes, Connect
<1>2. DownBefore'
  BY DEF StoreInv, StoreTypes, DownBefore, Connect
<1>3. FoundRight' /\ Intact'
  BY KeysKept DEF Connect
<1> QED
  BY <1>1, <1>2, <1>3 DEF StoreInv

(* store(): the new key is either reused, and then so is the older one, or  *)
(* it leaves every other key alone.                                         *)
LEMMA StoreKeeps ==
    ASSUME StoreInv, NEW c \in Connector, store(c)
    PROVE  StoreInv'
<1> DEFINE k == generatePayloadId(c)
           v == nstores + 1
           e == [by |-> <<c, made[c]>>, nth |-> nth[c] + 1, key |-> k, value |-> v, epoch |-> crashes]
           n == Len(issued) + 1
<1>1. k \in [time : Int, id : Range(ClientId), ctr : Int]
  BY KeyType DEF StoreInv
<1>2. e \in Issue
  BY <1>1 DEF StoreInv, StoreTypes, Issue
<1>3. issued' = Append(issued, e) /\ issued \in Seq(Issue) /\ issued' \in Seq(Issue)
  BY <1>2 DEF store, StoreInv, StoreTypes
<1>4. /\ DOMAIN issued = 1 .. Len(issued) /\ DOMAIN issued' = 1 .. n /\ Len(issued) \in Nat
      /\ issued'[n] = e
      /\ \A i \in DOMAIN issued : i # n /\ i \in DOMAIN issued' /\ issued'[i] = issued[i]
  BY <1>2, <1>3
<1>5. UNCHANGED <<context, serving, crashes, taken, made, clock>> /\ n \notin DOMAIN taken
  BY <1>4 DEF store, StoreInv, StoreTypes
<1>6. /\ DOMAIN redis' = DOMAIN redis \cup {k}
      /\ redis'[k] = Written(c, v)
      /\ \A x \in DOMAIN redis : x # k => redis'[x] = redis[x]
  BY DEF store
<1>7. StoreTypes'
  <2>1. NextCounter(c) \in Int
    BY StoreAssumption DEF NextCounter, StoreInv, StoreTypes
  <2>2. plctr' \in [Connector -> Int] /\ nth' \in [Connector -> Int] /\ nstores' \in Nat
    BY <2>1 DEF store, Generated, StoreInv, StoreTypes
  <2> QED
    BY <1>3, <1>4, <1>5, <2>2 DEF StoreInv, StoreTypes
<1>8. DownBefore'
  <2>1. ASSUME NEW i \in DOMAIN issued' PROVE issued'[i].epoch <= crashes'
    <3>1. CASE i = n
      BY <1>4, <1>5, <3>1 DEF StoreInv, StoreTypes
    <3>2. CASE i # n
      BY <1>4, <1>5, <3>2 DEF StoreInv, DownBefore
    <3> QED
      BY <3>1, <3>2
  <2> QED
    BY <1>5, <2>1 DEF StoreInv, DownBefore
<1>9. ASSUME NEW i \in DOMAIN issued, ~Reused(i)'
      PROVE  ~Reused(i) /\ issued[i].key # k
  BY <1>4, <1>9 DEF Reused
<1>10. FoundRight'
  <2> SUFFICES ASSUME NEW i \in DOMAIN issued', ~Reused(i)', i \notin DOMAIN taken',
                      issued'[i].key \in DOMAIN redis'
               PROVE  redis'[issued'[i].key] = Stored(i)'
    BY DEF FoundRight
  <2>1. CASE i = n
    BY <1>4, <1>6, <2>1 DEF Stored, Written
  <2>2. CASE i # n
    <3>1. i \in DOMAIN issued
      BY <1>4, <2>2
    <3>2. ~Reused(i) /\ issued[i].key # k
      BY <1>9, <3>1
    <3>3. redis[issued[i].key] = Stored(i)
      BY <1>4, <1>5, <1>6, <3>1, <3>2 DEF StoreInv, FoundRight
    <3> QED
      BY <1>4, <1>6, <3>1, <3>2, <3>3 DEF Stored, Written
  <2> QED
    BY <2>1, <2>2
<1>11. Intact'
  <2> SUFFICES ASSUME NEW i \in DOMAIN issued', ~Reused(i)'
               PROVE  IF i \in DOMAIN taken'
                      THEN /\ taken'[i] = Stored(i)' => issued'[i].key \notin DOMAIN redis'
                           /\ taken'[i] # Stored(i)' => taken'[i] = Nothing /\ crashes' > 0
                      ELSE issued'[i].epoch = crashes' =>
                              issued'[i].key \in DOMAIN redis' /\ redis'[issued'[i].key] = Stored(i)'
    BY DEF Intact, Stored, Nothing
  <2>1. CASE i = n
    BY <1>4, <1>5, <1>6, <2>1 DEF Stored, Written
  <2>2. CASE i # n
    <3>1. i \in DOMAIN issued
      BY <1>4, <2>2
    <3>2. ~Reused(i) /\ issued[i].key # k
      BY <1>9, <3>1
    <3>3. Stored(i)' = Stored(i)
      BY <1>4, <3>1 DEF Stored, Written
    <3> QED
      BY <1>4, <1>5, <1>6, <3>1, <3>2, <3>3 DEF StoreInv, Intact, Stored
  <2> QED
    BY <2>1, <2>2
<1> QED
  BY <1>7, <1>8, <1>10, <1>11 DEF StoreInv

(* The SET fails: only the connection and the counters change. *)
LEMMA StoreFailsKeeps ==
    ASSUME StoreInv, NEW c \in Connector, StoreFails(c)
    PROVE  StoreInv'
<1>1. crashes > 0
  BY DEF StoreInv, DownBefore, StoreFails, Reaches
<1>2. NextCounter(c) \in Int
  BY StoreAssumption DEF NextCounter, StoreInv, StoreTypes
<1>3. context' \in [Connector -> {"REDIS_OK", "stale", "err", "crashed"}]
  BY DEF StoreFails, Noticed, StoreInv, StoreTypes
<1>4. StoreTypes'
  <2>1. plctr' \in [Connector -> Int] /\ nth' \in [Connector -> Int] /\ nstores' \in Nat
    BY <1>2 DEF StoreFails, Generated, StoreInv, StoreTypes
  <2>2. UNCHANGED <<clock, made, crashes, issued, taken>>
    BY DEF StoreFails
  <2> QED
    BY <1>3, <2>1, <2>2 DEF StoreInv, StoreTypes
<1>5. DownBefore'
  BY <1>1 DEF StoreInv, DownBefore, StoreFails
<1>6. FoundRight' /\ Intact'
  BY KeysKept DEF StoreFails
<1> QED
  BY <1>4, <1>5, <1>6 DEF StoreInv

(* peek(): only the connection changes, and only when it is already lost. *)
LEMMA PeekKeeps ==
    ASSUME StoreInv, NEW c \in Connector, peek(c)
    PROVE  StoreInv'
<1>1. crashes > 0
  BY DEF StoreInv, DownBefore, peek, Reaches
<1>2. context' \in [Connector -> {"REDIS_OK", "stale", "err", "crashed"}]
  BY DEF peek, Noticed, StoreInv, StoreTypes
<1>3. StoreTypes'
  BY <1>2 DEF StoreInv, StoreTypes, peek, counters
<1>4. DownBefore'
  BY <1>1 DEF StoreInv, DownBefore, peek
<1>5. FoundRight' /\ Intact'
  BY KeysKept DEF peek
<1> QED
  BY <1>3, <1>4, <1>5 DEF StoreInv

(* checkOut(): the key it deletes belongs to no other payload, or to none   *)
(* that Intact speaks of.                                                   *)
LEMMA CheckOutKeeps ==
    ASSUME StoreInv, NEW c \in Connector, NEW i \in DOMAIN issued, checkOut(c, i)
    PROVE  StoreInv'
<1> DEFINE k == issued[i].key
           found == IF Reaches(c) /\ k \in DOMAIN redis THEN redis[k] ELSE Nothing
<1>1. /\ DOMAIN taken' = DOMAIN taken \cup {i} /\ i \notin DOMAIN taken
      /\ taken'[i] = found
      /\ \A j \in DOMAIN taken : taken'[j] = taken[j]
  BY DEF checkOut
<1>2. UNCHANGED <<clock, made, plctr, nth, nstores, serving, crashes, issued>>
  BY DEF checkOut, counters
<1>3. CASE Reaches(c)
  <2>1. /\ context' = context
        /\ DOMAIN redis' = DOMAIN redis \ {k}
        /\ \A x \in DOMAIN redis' : redis'[x] = redis[x]
    BY <1>3 DEF checkOut, GetDel, Restrict, IsConnected, Reaches
  <2>2. StoreTypes' /\ DownBefore'
    BY <1>1, <1>2, <2>1 DEF StoreInv, StoreTypes, DownBefore
  <2>3. ASSUME NEW j \in DOMAIN issued, ~Reused(j)' PROVE ~Reused(j) /\ (j # i => issued[j].key # k)
    BY <1>2, <2>3 DEF Reused
  <2>4. ASSUME NEW j \in DOMAIN issued PROVE Stored(j)' = Stored(j)
    BY <1>2 DEF Stored, Written
  <2>5. FoundRight'
    BY <1>1, <1>2, <2>1, <2>3, <2>4 DEF StoreInv, FoundRight
  <2>6. ASSUME NEW j \in DOMAIN issued, ~Reused(j)'
        PROVE  IF j \in DOMAIN taken'
               THEN /\ taken'[j] = Stored(j) => issued[j].key \notin DOMAIN redis'
                    /\ taken'[j] # Stored(j) => taken'[j] = Nothing /\ crashes > 0
               ELSE issued[j].epoch = crashes =>
                       issued[j].key \in DOMAIN redis' /\ redis'[issued[j].key] = Stored(j)
    <3>0. ~Reused(j) /\ (j # i => issued[j].key # k)
      BY <2>3, <2>6
    <3>1. CASE j = i
      <4>1. k \in DOMAIN redis => redis[k] = Stored(i)
        BY <1>1, <3>0, <3>1 DEF StoreInv, FoundRight
      <4>2. k \notin DOMAIN redis => crashes > 0
        <5>1. k \notin DOMAIN redis => issued[i].epoch # crashes
          BY <1>1, <3>0, <3>1 DEF StoreInv, Intact
        <5>2. issued[i].epoch <= crashes /\ issued[i].epoch \in Nat /\ crashes \in Nat
          BY EpochType DEF StoreInv, StoreTypes
        <5> QED
          BY <5>1, <5>2
      <4> QED
        BY <1>1, <1>3, <2>1, <3>1, <4>1, <4>2
    <3>2. CASE j # i
      BY <1>1, <2>1, <3>0, <3>2 DEF StoreInv, Intact, Stored
    <3> QED
      BY <3>1, <3>2
  <2>7. Intact'
    BY <1>2, <2>4, <2>6 DEF Intact, Stored, Nothing
  <2> QED
    BY <2>2, <2>5, <2>7 DEF StoreInv
<1>4. CASE ~Reaches(c)
  <2>1. crashes > 0 /\ redis' = redis /\ found = Nothing
    BY <1>4 DEF checkOut, Reaches, StoreInv, DownBefore
  <2>2. context' \in [Connector -> {"REDIS_OK", "stale", "err", "crashed"}]
    BY DEF checkOut, Noticed, StoreInv, StoreTypes
  <2>3. StoreTypes' /\ DownBefore'
    BY <1>1, <1>2, <2>1, <2>2 DEF StoreInv, StoreTypes, DownBefore
  <2>4. ASSUME NEW j \in DOMAIN issued PROVE Stored(j)' = Stored(j) /\ (Reused(j)' <=> Reused(j))
    BY <1>2 DEF Stored, Written, Reused
  <2>5. FoundRight'
    BY <1>1, <1>2, <2>1, <2>4 DEF StoreInv, FoundRight
  <2>6. Stored(i) # Nothing
    BY StoredExists DEF StoreInv
  <2>7. ASSUME NEW j \in DOMAIN issued, ~Reused(j)
        PROVE  IF j \in DOMAIN taken'
               THEN /\ taken'[j] = Stored(j) => issued[j].key \notin DOMAIN redis
                    /\ taken'[j] # Stored(j) => taken'[j] = Nothing /\ crashes > 0
               ELSE issued[j].epoch = crashes =>
                       issued[j].key \in DOMAIN redis /\ redis[issued[j].key] = Stored(j)
    <3>1. CASE j = i
      BY <1>1, <2>1, <2>6, <3>1
    <3>2. CASE j # i
      BY <1>1, <2>7, <3>2 DEF StoreInv, Intact, Stored
    <3> QED
      BY <3>1, <3>2
  <2>8. Intact'
    BY <1>2, <2>1, <2>4, <2>7 DEF Intact, Stored, Nothing
  <2> QED
    BY <2>3, <2>5, <2>8 DEF StoreInv
<1> QED
  BY <1>3, <1>4

(* The server goes down: from then on nothing is promised of what it had.   *)
LEMMA ServerDownKeeps ==
    ASSUME StoreInv, ServerDown
    PROVE  StoreInv'
<1>1. /\ UNCHANGED <<clock, made, plctr, nth, nstores, issued, taken>>
      /\ crashes' = crashes + 1 /\ crashes \in Nat
      /\ redis' = redis \/ redis' = <<>>
  BY DEF ServerDown, counters, StoreInv, StoreTypes
<1>2. StoreTypes'
  BY <1>1 DEF StoreInv, StoreTypes, ServerDown
<1>3. \A i \in DOMAIN issued : issued[i].epoch \in Nat /\ issued[i].epoch <= crashes
  BY EpochType
<1>4. DownBefore'
  BY <1>1, <1>3 DEF DownBefore
<1>5. ASSUME NEW j \in DOMAIN issued PROVE Stored(j)' = Stored(j) /\ (Reused(j)' <=> Reused(j))
  BY <1>1 DEF Stored, Written, Reused
<1>6. ASSUME NEW j \in DOMAIN issued, issued[j].key \in DOMAIN redis'
      PROVE  redis' = redis
  BY <1>1, <1>6
<1>7. FoundRight'
  BY <1>1, <1>5, <1>6 DEF StoreInv, FoundRight
<1>8. ASSUME NEW j \in DOMAIN issued, ~Reused(j)
      PROVE  IF j \in DOMAIN taken
             THEN /\ taken[j] = Stored(j) => issued[j].key \notin DOMAIN redis'
                  /\ taken[j] # Stored(j) => taken[j] = Nothing /\ crashes' > 0
             ELSE issued[j].epoch # crashes'
  BY <1>1, <1>3, <1>6, <1>8 DEF StoreInv, Intact, Stored
<1>9. Intact'
  BY <1>1, <1>5, <1>8 DEF Intact, Stored, Nothing
<1> QED
  BY <1>2, <1>4, <1>7, <1>9 DEF StoreInv

(* The server comes back, and the clock runs: nothing else changes. *)
LEMMA ServerUpKeeps ==
    ASSUME StoreInv, ServerUp
    PROVE  StoreInv'
<1>1. StoreTypes' /\ DownBefore'
  BY DEF StoreInv, StoreTypes, DownBefore, ServerUp, counters
<1>2. FoundRight' /\ Intact'
  BY KeysKept DEF ServerUp
<1> QED
  BY <1>1, <1>2 DEF StoreInv

(* The clock of the clients runs. *)
LEMMA TickKeeps ==
    ASSUME StoreInv, Tick
    PROVE  StoreInv'
<1>1. StoreTypes' /\ DownBefore'
  BY DEF StoreInv, StoreTypes, DownBefore, Tick, counters
<1>2. FoundRight' /\ Intact'
  BY KeysKept DEF Tick
<1> QED
  BY <1>1, <1>2 DEF StoreInv

(* Every step of the connectors and of the server keeps the invariant. *)
LEMMA StoreStep == StoreInv /\ [Next]_vars => StoreInv'
<1> SUFFICES ASSUME StoreInv, [Next]_vars PROVE StoreInv'
  OBVIOUS
<1>1. CASE Next
  BY <1>1, ConnectKeeps, StoreKeeps, StoreFailsKeeps, PeekKeeps, CheckOutKeeps, ServerDownKeeps,
     ServerUpKeeps, TickKeeps DEF Next
<1>2. CASE UNCHANGED vars
  <2>1. StoreTypes' /\ DownBefore'
    BY <1>2 DEF StoreInv, StoreTypes, DownBefore, vars, counters
  <2>2. FoundRight' /\ Intact'
    BY <1>2, KeysKept DEF vars
  <2> QED
    BY <2>1, <2>2 DEF StoreInv
<1> QED
  BY <1>1, <1>2

(* In every behaviour of the connectors, a key that store() gave out once   *)
(* gives its payload once, and is empty only after the server went down.    *)
THEOREM StoreIntact == Spec => []Intact
<1>1. StoreInv => Intact
  BY DEF StoreInv
<1> QED
  BY <1>1, StoreInit, StoreStep, PTL DEF Spec

-----------------------------------------------------------------------------
(* TypeOK and KeysDiffer.  A connector's counter and the number of keys it  *)
(* generated agree up to whole turns (Counted), the same holds of the key   *)
(* and the number in what it gave out, and those numbers rise from key to   *)
(* key of one connector (Rising): so two equal keys are a turn apart.       *)

IssueRec == [by : Connector \X (Nat \ {0}), nth : 1 .. MaxStores, key : Key,
             value : 1 .. MaxStores, epoch : 0 .. MaxCrashes]

Turns(n, ctr) == \E q \in Nat : n = q * CounterMod + ctr

Counted == \A c \in Connector : nth[c] <= nstores /\ Turns(nth[c], plctr[c])

IssuesRight ==
    \A i \in DOMAIN issued :
        LET e == issued[i]
        IN  /\ Turns(e.nth, e.key.ctr)
            /\ e.key.id = ClientId[e.by[1]]
            /\ e.by[2] <= made[e.by[1]]
            /\ e.by[2] = made[e.by[1]] => e.nth <= nth[e.by[1]]

Rising ==
    \A i, j \in DOMAIN issued :
        (i < j /\ issued[i].by = issued[j].by) => issued[i].nth < issued[j].nth

KeysInv == TypeOK /\ issued \in Seq(IssueRec) /\ Counted /\ IssuesRight /\ Rising

(* A number below the modulus is its own remainder, and the modulus has none. *)
LEMMA Remainder ==
    ASSUME NEW m \in Nat, m > 0
    PROVE  /\ \A x \in 0 .. m - 1 : x % m = x
           /\ m % m = 0
           /\ \A x \in Nat : x % m \in 0 .. m - 1
OBVIOUS

(* NextCounter counts on, round the modulus. *)
LEMMA TurnsOn ==
    ASSUME NEW n \in Nat, NEW r \in 0 .. CounterMod - 1, Turns(n, r)
    PROVE  Turns(n + 1, (r + 1) % CounterMod)
<1>0. CounterMod \in Nat /\ CounterMod > 0 /\ r \in Nat
  BY StoreAssumption
<1>1. PICK q \in Nat : n = q * CounterMod + r
  BY DEF Turns
<1>2. CASE r + 1 < CounterMod
  <2>1. (r + 1) % CounterMod = r + 1
    BY <1>0, <1>2, Remainder
  <2>2. n + 1 = q * CounterMod + (r + 1)
    BY <1>0, <1>1
  <2> QED BY <2>1, <2>2 DEF Turns
<1>3. CASE r + 1 = CounterMod
  <2>1. (r + 1) % CounterMod = 0
    BY <1>0, <1>3, Remainder
  <2>2. n + 1 = (q + 1) * CounterMod + 0 /\ q + 1 \in Nat
    BY <1>0, <1>1, <1>3
  <2> QED BY <2>1, <2>2 DEF Turns
<1> QED BY <1>0, <1>2, <1>3

(* Two numbers with one remainder are a whole turn apart. *)
LEMMA TurnApart ==
    ASSUME NEW a \in Nat, NEW b \in Nat, NEW r \in 0 .. CounterMod - 1,
           Turns(a, r), Turns(b, r), a < b
    PROVE  b >= a + CounterMod
<1> DEFINE m == CounterMod
<1>0. m \in Nat /\ m > 0 /\ r \in Nat
  BY StoreAssumption
<1>1. PICK q \in Nat, p \in Nat : a = q * m + r /\ b = p * m + r
  BY DEF Turns
<1> HIDE DEF m
<1>2. q * m < p * m /\ q * m \in Nat /\ p * m \in Nat
  BY <1>0, <1>1
<1>3. q < p
  <2> SUFFICES ASSUME p <= q PROVE FALSE
    OBVIOUS
  <2>1. p * m <= q * m
    BY <1>0
  <2> QED BY <1>2, <2>1
<1>4. (q + 1) * m <= p * m
  BY <1>0, <1>3
<1>5. (q + 1) * m = q * m + m
  BY <1>0
<1>6. b >= a + m
  BY <1>0, <1>1, <1>2, <1>4, <1>5
<1> QED BY <1>6 DEF m

(* A key is one of the keys of the type. *)
LEMMA GeneratedKey ==
    ASSUME TypeOK, NEW c \in Connector
    PROVE  generatePayloadId(c) \in Key /\ NextCounter(c) \in 0 .. CounterMod - 1
<1>1. clock \in Nat /\ TimeUnit[c] \in Nat /\ TimeUnit[c] > 0 /\ plctr[c] \in Nat
  BY StoreAssumption DEF TypeOK
<1>2. TimeMod[c] \in Nat /\ TimeMod[c] > 0 /\ CounterMod \in Nat /\ CounterMod > 0
  BY StoreAssumption
<1>3. clock \div TimeUnit[c] \in Nat
  BY <1>1
<1>4. Stamp(c) \in Nat
  BY <1>2, <1>3, Remainder DEF Stamp
<1>5. NextCounter(c) \in 0 .. CounterMod - 1
  BY <1>1, <1>2, Remainder DEF NextCounter
<1>6. ClientId[c] \in Range(ClientId)
  BY StoreAssumption DEF Range
<1> QED BY <1>4, <1>5, <1>6 DEF generatePayloadId, Key

(* Nothing is given out at the start. *)
LEMMA KeysInit == Init => KeysInv
<1> SUFFICES ASSUME Init PROVE KeysInv
  OBVIOUS
<1>1. CounterMod \in Nat /\ CounterMod > 0
  BY StoreAssumption
<1>2. DOMAIN issued = {} /\ DOMAIN redis = {} /\ DOMAIN taken = {}
  BY DEF Init
<1>3. TypeOK
  <2>1. /\ clock \in 0 .. MaxClock /\ nstores \in 0 .. MaxStores /\ crashes \in 0 .. MaxCrashes
        /\ made \in [Connector -> Nat \ {0}] /\ \A c \in Connector : made[c] <= MaxObjects[c]
        /\ plctr \in [Connector -> 0 .. CounterMod - 1] /\ nth \in [Connector -> 0 .. MaxStores]
        /\ context \in [Connector -> {"REDIS_OK", "stale", "err", "crashed"}] /\ serving \in BOOLEAN
    BY <1>1, StoreAssumption DEF Init
  <2>2. Range(redis) = {} /\ Range(taken) = {}
    BY <1>2 DEF Range
  <2> QED BY <1>2, <2>1, <2>2 DEF TypeOK
<1>4. issued \in Seq(IssueRec)
  BY DEF Init
<1>5. Counted
  <2>1. 0 = 0 * CounterMod + 0
    BY <1>1
  <2> QED BY <2>1 DEF Init, Counted, Turns
<1>6. IssuesRight /\ Rising
  BY <1>2 DEF IssuesRight, Rising
<1> QED BY <1>3, <1>4, <1>5, <1>6 DEF KeysInv

(* store() and a store() that fails: the counter goes on. *)
LEMMA GeneratedKeeps ==
    ASSUME KeysInv, NEW c \in Connector, Generated(c)
    PROVE  /\ plctr' \in [Connector -> 0 .. CounterMod - 1]
           /\ nth' \in [Connector -> 0 .. MaxStores] /\ nstores' \in 0 .. MaxStores
           /\ nth'[c] = nth[c] + 1 /\ \A d \in Connector : d # c => nth'[d] = nth[d]
           /\ Turns(nth[c] + 1, NextCounter(c))
           /\ Counted'
<1>0. /\ plctr \in [Connector -> 0 .. CounterMod - 1] /\ nth \in [Connector -> 0 .. MaxStores]
      /\ nstores \in 0 .. MaxStores /\ nstores < MaxStores /\ MaxStores \in Nat
      /\ NextCounter(c) \in 0 .. CounterMod - 1 /\ Counted
      /\ plctr' = [plctr EXCEPT ![c] = NextCounter(c)] /\ nth' = [nth EXCEPT ![c] = @ + 1]
      /\ nstores' = nstores + 1
  BY StoreAssumption, GeneratedKey DEF KeysInv, TypeOK, Generated
<1>1. nth[c] <= nstores /\ Turns(nth[c], plctr[c]) /\ nth[c] \in Nat /\ plctr[c] \in 0 .. CounterMod - 1
  BY <1>0 DEF Counted
<1>2. nth[c] + 1 \in 0 .. MaxStores /\ nstores + 1 \in 0 .. MaxStores /\ nth[c] + 1 <= nstores + 1
  BY <1>0, <1>1
<1>3. Turns(nth[c] + 1, NextCounter(c))
  BY <1>1, TurnsOn DEF NextCounter
<1>4. Counted'
  <2> SUFFICES ASSUME NEW d \in Connector PROVE nth'[d] <= nstores' /\ Turns(nth'[d], plctr'[d])
    BY DEF Counted, Turns
  <2>1. CASE d = c
    BY <1>0, <1>2, <1>3, <2>1
  <2>2. CASE d # c
    <3>1. nth[d] <= nstores /\ Turns(nth[d], plctr[d]) /\ nth[d] \in Nat
      BY <1>0 DEF Counted
    <3> QED BY <1>0, <2>2, <3>1
  <2> QED BY <2>1, <2>2
<1> QED BY <1>0, <1>2, <1>3, <1>4

(* store(): its number is above those of all earlier keys of the connector. *)
LEMMA StoreKeysKept ==
    ASSUME KeysInv, NEW c \in Connector, store(c)
    PROVE  KeysInv'
<1> DEFINE k == generatePayloadId(c)
           v == nstores + 1
           e == [by |-> <<c, made[c]>>, nth |-> nth[c] + 1, key |-> k, value |-> v, epoch |-> crashes]
           n == Len(issued) + 1
<1>0. /\ TypeOK /\ issued \in Seq(IssueRec) /\ IssuesRight /\ Rising /\ Generated(c)
      /\ UNCHANGED <<clock, made, context, serving, crashes, taken>>
      /\ MaxStores \in Nat /\ nstores < MaxStores
  BY StoreAssumption DEF KeysInv, store, Generated
<1>1. /\ plctr' \in [Connector -> 0 .. CounterMod - 1]
      /\ nth' \in [Connector -> 0 .. MaxStores] /\ nstores' \in 0 .. MaxStores
      /\ nth'[c] = nth[c] + 1 /\ \A d \in Connector : d # c => nth'[d] = nth[d]
      /\ Turns(nth[c] + 1, NextCounter(c)) /\ Counted'
  BY <1>0, GeneratedKeeps
<1>2. k \in Key /\ k.ctr = NextCounter(c) /\ k.id = ClientId[c]
  BY <1>0, GeneratedKey DEF generatePayloadId
<1>3. /\ v \in 1 .. MaxStores /\ nth[c] + 1 \in 1 .. MaxStores /\ crashes \in 0 .. MaxCrashes
      /\ made[c] \in Nat \ {0} /\ nth[c] \in Nat /\ nth \in [Connector -> 0 .. MaxStores]
  <2>1. nth[c] \in 0 .. MaxStores /\ nstores \in 0 .. MaxStores /\ nth'[c] \in 0 .. MaxStores
    BY <1>0, <1>1 DEF TypeOK
  <2> QED BY <1>0, <1>1, <2>1 DEF TypeOK
<1>4. /\ e \in IssueRec /\ e.by = <<c, made[c]>> /\ e.by[1] = c /\ e.by[2] = made[c]
      /\ e.nth = nth[c] + 1 /\ e.key = k
  <2> HIDE DEF k, v
  <2> QED BY <1>2, <1>3 DEF IssueRec
<1>5. issued' = Append(issued, e) /\ redis' = [x \in DOMAIN redis \cup {k} |-> IF x = k THEN Written(c, v) ELSE redis[x]]
  BY DEF store
<1> HIDE DEF e
<1>6. /\ issued' \in Seq(IssueRec) /\ Len(issued) \in Nat
      /\ DOMAIN issued = 1 .. Len(issued) /\ DOMAIN issued' = 1 .. n
      /\ issued'[n] = e
      /\ \A i \in DOMAIN issued : i < n /\ i \in DOMAIN issued' /\ issued'[i] = issued[i]
  BY <1>0, <1>4, <1>5
<1> HIDE DEF k, v
<1>7. TypeOK'
  <2>1. DOMAIN redis' \subseteq Key
    BY <1>0, <1>2, <1>5 DEF TypeOK
  <2>2. Written(c, v) \in Payloads
    BY <1>3 DEF Written, Payloads
  <2>3. \A x \in DOMAIN redis' : redis'[x] \in Payloads
    BY <1>0, <1>5, <2>2 DEF TypeOK, Range
  <2>4. Range(redis') \subseteq Payloads
    BY <2>3 DEF Range
  <2>5. DOMAIN taken' \subseteq DOMAIN issued' /\ Range(taken') \subseteq Payloads \cup {Nothing}
    BY <1>0, <1>6 DEF TypeOK
  <2>6. \A i \in DOMAIN issued' : issued'[i] \in IssueRec
    BY <1>6
  <2> QED BY <1>0, <1>1, <2>1, <2>4, <2>5, <2>6 DEF TypeOK, IssueRec, Payloads, Nothing, Key
<1>8. IssuesRight'
  <2> SUFFICES ASSUME NEW i \in DOMAIN issued'
               PROVE  /\ Turns(issued'[i].nth, issued'[i].key.ctr)
                      /\ issued'[i].key.id = ClientId[issued'[i].by[1]]
                      /\ issued'[i].by[2] <= made[issued'[i].by[1]]
                      /\ issued'[i].by[2] = made[issued'[i].by[1]] => issued'[i].nth <= nth'[issued'[i].by[1]]
    BY <1>0 DEF IssuesRight, Turns
  <2>1. CASE i = n
    BY <1>1, <1>2, <1>3, <1>4, <1>6, <2>1
  <2>2. CASE i # n
    <3>1. i \in DOMAIN issued /\ issued'[i] = issued[i] /\ issued[i] \in IssueRec
      BY <1>0, <1>6, <2>2
    <3>2. issued[i].by[1] \in Connector /\ issued[i].nth \in Nat
      BY <3>1 DEF IssueRec
    <3>3. nth[issued[i].by[1]] <= nth'[issued[i].by[1]] /\ nth[issued[i].by[1]] \in Nat /\ nth'[issued[i].by[1]] \in Nat
      BY <1>1, <1>3, <3>2
    <3> QED BY <1>0, <3>1, <3>2, <3>3 DEF IssuesRight
  <2> QED BY <2>1, <2>2
<1>9. Rising'
  <2> SUFFICES ASSUME NEW i \in DOMAIN issued', NEW j \in DOMAIN issued', i < j,
                      issued'[i].by = issued'[j].by
               PROVE  issued'[i].nth < issued'[j].nth
    BY DEF Rising
  <2>1. i \in DOMAIN issued /\ issued'[i] = issued[i] /\ issued[i] \in IssueRec
    BY <1>0, <1>6
  <2>2. CASE j = n
    <3>1. issued[i].by[1] = c /\ issued[i].by[2] = made[c]
      BY <1>4, <1>6, <2>1, <2>2
    <3>2. issued[i].nth <= nth[c] /\ issued[i].nth \in Nat
      BY <1>0, <2>1, <3>1 DEF IssuesRight, IssueRec
    <3> QED BY <1>3, <1>4, <1>6, <2>1, <2>2, <3>2
  <2>3. CASE j # n
    BY <1>0, <1>6, <2>1, <2>3 DEF Rising
  <2> QED BY <2>2, <2>3
<1> QED BY <1>1, <1>6, <1>7, <1>8, <1>9 DEF KeysInv

(* A new connector starts a new series of keys. *)
LEMMA ConnectKeysKept ==
    ASSUME KeysInv, NEW c \in Connector, Connect(c)
    PROVE  KeysInv'
<1>0. /\ TypeOK /\ issued \in Seq(IssueRec) /\ Counted /\ IssuesRight /\ Rising
      /\ UNCHANGED <<clock, nstores, serving, redis, crashes, issued, taken>>
      /\ made \in [Connector -> Nat \ {0}] /\ made' = [made EXCEPT ![c] = @ + 1]
      /\ nth' = [nth EXCEPT ![c] = 0] /\ plctr' = [plctr EXCEPT ![c] = 0]
      /\ CounterMod \in Nat /\ CounterMod > 0 /\ MaxStores \in Nat /\ MaxObjects \in [Connector -> Nat \ {0}]
  <2>1. CounterMod \in Nat /\ CounterMod > 0 /\ MaxStores \in Nat /\ MaxObjects \in [Connector -> Nat \ {0}]
    BY StoreAssumption
  <2>2. /\ TypeOK /\ issued \in Seq(IssueRec) /\ Counted /\ IssuesRight /\ Rising
        /\ made \in [Connector -> Nat \ {0}]
    BY DEF KeysInv, TypeOK
  <2> QED BY <2>1, <2>2 DEF Connect
<1>1. TypeOK'
  <2>1. context' \in [Connector -> {"REDIS_OK", "stale", "err", "crashed"}]
    BY <1>0 DEF Connect, TypeOK
  <2>2. made' \in [Connector -> Nat \ {0}] /\ \A d \in Connector : made'[d] <= MaxObjects[d]
    BY <1>0 DEF Connect, TypeOK
  <2>3. plctr' \in [Connector -> 0 .. CounterMod - 1] /\ nth' \in [Connector -> 0 .. MaxStores]
    BY <1>0 DEF TypeOK
  <2> QED BY <1>0, <2>1, <2>2, <2>3 DEF TypeOK
<1>2. Counted'
  <2>1. 0 = 0 * CounterMod + 0
    BY <1>0
  <2>2. Turns(0, 0)
    BY <2>1 DEF Turns
  <2> SUFFICES ASSUME NEW d \in Connector PROVE nth'[d] <= nstores' /\ Turns(nth'[d], plctr'[d])
    BY DEF Counted, Turns
  <2> QED BY <1>0, <2>2 DEF TypeOK, Counted
<1>3. IssuesRight'
  <2> SUFFICES ASSUME NEW i \in DOMAIN issued
               PROVE  /\ Turns(issued[i].nth, issued[i].key.ctr)
                      /\ issued[i].key.id = ClientId[issued[i].by[1]]
                      /\ issued[i].by[2] <= made'[issued[i].by[1]]
                      /\ issued[i].by[2] = made'[issued[i].by[1]] => issued[i].nth <= nth'[issued[i].by[1]]
    BY <1>0 DEF IssuesRight, Turns
  <2>1. issued[i] \in IssueRec
    BY <1>0
  <2>2. issued[i].by[1] \in Connector /\ issued[i].by[2] \in Nat
    BY <2>1 DEF IssueRec
  <2>3. /\ Turns(issued[i].nth, issued[i].key.ctr)
        /\ issued[i].key.id = ClientId[issued[i].by[1]]
        /\ issued[i].by[2] <= made[issued[i].by[1]]
        /\ issued[i].by[2] = made[issued[i].by[1]] => issued[i].nth <= nth[issued[i].by[1]]
    BY <1>0 DEF IssuesRight
  <2>4. CASE issued[i].by[1] = c
    BY <1>0, <2>2, <2>3, <2>4
  <2>5. CASE issued[i].by[1] # c
    BY <1>0, <2>2, <2>3, <2>5 DEF TypeOK
  <2> QED BY <2>4, <2>5
<1>4. Rising'
  BY <1>0 DEF Rising
<1> QED BY <1>0, <1>1, <1>2, <1>3, <1>4 DEF KeysInv

(* Steps that generate no key and make no connector. *)
LEMMA KeysKeptIf ==
    ASSUME KeysInv, UNCHANGED <<made, plctr, nth, nstores, issued>>, TypeOK'
    PROVE  KeysInv'
<1>1. Counted' /\ IssuesRight' /\ Rising'
  BY DEF KeysInv, Counted, IssuesRight, Rising, Turns
<1> QED BY <1>1 DEF KeysInv

(* A store() that fails counts, and gives out nothing. *)
LEMMA StoreFailsKeysKept ==
    ASSUME KeysInv, NEW c \in Connector, StoreFails(c)
    PROVE  KeysInv'
<1>0. /\ TypeOK /\ issued \in Seq(IssueRec) /\ IssuesRight /\ Rising /\ Generated(c)
      /\ UNCHANGED <<clock, made, serving, redis, crashes, issued, taken>>
      /\ context' \in [Connector -> {"REDIS_OK", "stale", "err", "crashed"}]
  BY DEF KeysInv, StoreFails, Noticed, TypeOK
<1>1. /\ plctr' \in [Connector -> 0 .. CounterMod - 1]
      /\ nth' \in [Connector -> 0 .. MaxStores] /\ nstores' \in 0 .. MaxStores
      /\ nth'[c] = nth[c] + 1 /\ \A d \in Connector : d # c => nth'[d] = nth[d]
      /\ Counted'
  BY <1>0, GeneratedKeeps
<1>2. TypeOK'
  BY <1>0, <1>1 DEF TypeOK
<1>3. IssuesRight'
  <2> SUFFICES ASSUME NEW i \in DOMAIN issued
               PROVE  issued[i].by[2] = made[issued[i].by[1]] => issued[i].nth <= nth'[issued[i].by[1]]
    BY <1>0 DEF IssuesRight, Turns
  <2>1. issued[i] \in IssueRec
    BY <1>0
  <2>2. issued[i].by[1] \in Connector /\ issued[i].nth \in Nat
    BY <2>1 DEF IssueRec
  <2>3. nth[issued[i].by[1]] <= nth'[issued[i].by[1]] /\ nth[issued[i].by[1]] \in Nat /\ nth'[issued[i].by[1]] \in Nat
    <3>1. nth \in [Connector -> 0 .. MaxStores]
      BY <1>0 DEF TypeOK
    <3> QED BY <1>1, <2>2, <3>1
  <2> QED BY <1>0, <2>2, <2>3 DEF IssuesRight
<1>4. Rising'
  BY <1>0 DEF Rising
<1> QED BY <1>0, <1>1, <1>2, <1>3, <1>4 DEF KeysInv

(* The other steps leave the keys alone, and the types right. *)
LEMMA OtherKeysKept ==
    ASSUME KeysInv,
           \/ \E c \in Connector : peek(c) \/ \E i \in DOMAIN issued : checkOut(c, i)
           \/ ServerDown \/ ServerUp \/ Tick
    PROVE  KeysInv'
<1>0. TypeOK /\ {MaxClock, MaxCrashes} \subseteq Nat
  BY StoreAssumption DEF KeysInv
<1>1. ASSUME NEW c \in Connector, peek(c) PROVE KeysInv'
  <2>1. context' \in [Connector -> {"REDIS_OK", "stale", "err", "crashed"}]
    BY <1>0, <1>1 DEF peek, Noticed, TypeOK
  <2>2. UNCHANGED <<clock, made, plctr, nth, nstores, serving, redis, crashes, issued, taken>>
    BY <1>1 DEF peek, counters
  <2>3. TypeOK'
    BY <1>0, <2>1, <2>2 DEF TypeOK
  <2> QED BY <2>2, <2>3, KeysKeptIf
<1>2. ASSUME NEW c \in Connector, NEW i \in DOMAIN issued, checkOut(c, i) PROVE KeysInv'
  <2>1. context' \in [Connector -> {"REDIS_OK", "stale", "err", "crashed"}]
    BY <1>0, <1>2 DEF checkOut, Noticed, TypeOK
  <2>2. UNCHANGED <<clock, made, plctr, nth, nstores, serving, crashes, issued>>
    BY <1>2 DEF checkOut, counters
  <2>3. /\ DOMAIN redis' \subseteq DOMAIN redis
        /\ \A x \in DOMAIN redis' : redis'[x] = redis[x]
    BY <1>2 DEF checkOut, GetDel, Restrict
  <2>4. DOMAIN redis' \subseteq Key /\ Range(redis') \subseteq Payloads
    BY <1>0, <2>3 DEF TypeOK, Range
  <2>5. /\ DOMAIN taken' = DOMAIN taken \cup {i}
        /\ taken'[i] \in Payloads \cup {Nothing}
        /\ \A x \in DOMAIN taken : x # i => taken'[x] = taken[x]
    BY <1>0, <1>2 DEF checkOut, TypeOK, Range
  <2>6. DOMAIN taken' \subseteq DOMAIN issued' /\ Range(taken') \subseteq Payloads \cup {Nothing}
    BY <1>0, <2>2, <2>5 DEF TypeOK, Range
  <2>7. TypeOK'
    BY <1>0, <2>1, <2>2, <2>4, <2>6 DEF TypeOK, Payloads, Nothing, Key
  <2> QED BY <2>2, <2>7, KeysKeptIf
<1>3. CASE ServerDown
  <2>1. UNCHANGED <<clock, made, plctr, nth, nstores, issued, taken>>
    BY <1>3 DEF ServerDown, counters
  <2>2. context' \in [Connector -> {"REDIS_OK", "stale", "err", "crashed"}] /\ serving' \in BOOLEAN
    BY <1>0, <1>3 DEF ServerDown, TypeOK
  <2>3. crashes' \in 0 .. MaxCrashes
    BY <1>0, <1>3 DEF ServerDown, TypeOK
  <2>4. DOMAIN redis' \subseteq Key /\ Range(redis') \subseteq Payloads
    <3>1. CASE redis' = redis
      BY <1>0, <3>1 DEF TypeOK
    <3>2. CASE redis' = <<>>
      <4>1. DOMAIN redis' = {}
        BY <3>2
      <4> QED BY <4>1 DEF Range
    <3> QED BY <1>3, <3>1, <3>2 DEF ServerDown
  <2>5. TypeOK'
    BY <1>0, <2>1, <2>2, <2>3, <2>4 DEF TypeOK, Payloads, Nothing, Key
  <2> QED BY <2>1, <2>5, KeysKeptIf
<1>4. CASE ServerUp \/ Tick
  <2>1. UNCHANGED <<made, plctr, nth, nstores, context, redis, crashes, issued, taken>>
    BY <1>4 DEF ServerUp, Tick, counters
  <2>2. clock' \in 0 .. MaxClock /\ serving' \in BOOLEAN
    <3>1. clock \in 0 .. MaxClock /\ serving \in BOOLEAN /\ MaxClock \in Nat
      BY <1>0 DEF TypeOK
    <3>2. CASE ServerUp
      BY <3>1, <3>2 DEF ServerUp
    <3>3. CASE Tick
      BY <3>1, <3>3 DEF Tick
    <3> QED BY <1>4, <3>2, <3>3
  <2>3. TypeOK'
    BY <1>0, <2>1, <2>2 DEF TypeOK
  <2> QED BY <2>1, <2>3, KeysKeptIf
<1> QED BY <1>1, <1>2, <1>3, <1>4

(* Every step keeps the numbering of the keys. *)
LEMMA KeysStep == KeysInv /\ [Next]_vars => KeysInv'
<1> SUFFICES ASSUME KeysInv, [Next]_vars PROVE KeysInv'
  OBVIOUS
<1>1. CASE Next
  BY <1>1, ConnectKeysKept, StoreKeysKept, StoreFailsKeysKept, OtherKeysKept DEF Next
<1>2. CASE UNCHANGED vars
  <2>1. UNCHANGED <<clock, made, plctr, nth, nstores, context, serving, redis, crashes, issued, taken>>
    BY <1>2 DEF vars, counters
  <2>2. TypeOK'
    BY <2>1 DEF KeysInv, TypeOK
  <2> QED BY <2>1, <2>2, KeysKeptIf
<1> QED BY <1>1, <1>2

(* The invariant gives KeysDiffer: equal keys have equal identifiers, and   *)
(* equal counters in one rising series.                                     *)
LEMMA KeysInvDiffer == KeysInv => KeysDiffer
<1> SUFFICES ASSUME KeysInv, NEW i \in DOMAIN issued, NEW j \in DOMAIN issued,
                    i < j, issued[i].key = issued[j].key
             PROVE  /\ ClientId[issued[i].by[1]] = ClientId[issued[j].by[1]]
                    /\ issued[i].by = issued[j].by => issued[j].nth >= issued[i].nth + CounterMod
  BY DEF KeysDiffer
<1>1. issued[i] \in IssueRec /\ issued[j] \in IssueRec
  BY DEF KeysInv
<1>2. /\ issued[i].nth \in Nat /\ issued[j].nth \in Nat
      /\ issued[i].key.ctr \in 0 .. CounterMod - 1 /\ issued[j].key.ctr = issued[i].key.ctr
  <2>1. issued[i].key \in Key /\ issued[i].nth \in Nat /\ issued[j].nth \in Nat
    BY <1>1, StoreAssumption DEF IssueRec
  <2> QED BY <2>1 DEF Key
<1>3. Turns(issued[i].nth, issued[i].key.ctr) /\ Turns(issued[j].nth, issued[i].key.ctr)
  BY DEF KeysInv, IssuesRight
<1>4. issued[i].by = issued[j].by => issued[j].nth >= issued[i].nth + CounterMod
  <2>1. issued[i].by = issued[j].by => issued[i].nth < issued[j].nth
    BY DEF KeysInv, Rising
  <2> QED BY <1>2, <1>3, <2>1, TurnApart
<1>5. ClientId[issued[i].by[1]] = ClientId[issued[j].by[1]]
  BY DEF KeysInv, IssuesRight
<1> QED BY <1>4, <1>5

(* In every behaviour the connectors and the server keep their types; the   *)
(* counter stays below its modulus.                                         *)
THEOREM StoreTypeCorrect == Spec => []TypeOK
<1>1. KeysInv => TypeOK
  BY DEF KeysInv
<1> QED
  BY <1>1, KeysInit, KeysStep, PTL DEF Spec

(* In every behaviour, for every width of the clock and of the counter, two *)
(* equal keys come from clients with one identifier, and from one connector *)
(* only a whole turn of its counter apart.                                  *)
THEOREM StoreKeysDiffer == Spec => []KeysDiffer
<1> QED
  BY KeysInvDiffer, KeysInit, KeysStep, PTL DEF Spec
=============================================================================
