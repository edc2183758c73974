------------------------------ MODULE NsbStore ------------------------------
(***************************************************************************)
(* The payload database connectors: RedisConnector of cpp/src/nsb.cc (cpp),*)
(* of cpp/rabbit/src/NSBUnified.cpp (unified) and of python/nsb_client.py  *)
(* (py), on one Redis server (external).                                   *)
(*                                                                         *)
(* NsbClient and NsbRabbit take it that store() returns a key that no      *)
(* other payload has and that the key gives its payload once.  This module *)
(* has the keys as they are made: from a clock cut to a width, the client  *)
(* identifier and a counter that wraps; and a server that goes down and a  *)
(* connection that is never made again.                                    *)
(***************************************************************************)
EXTENDS Naturals, Sequences, FiniteSets, Functions

CONSTANTS
    Connector,      \* the clients that have a connector
    ClientId,       \* ClientId[c]: the identifier its client was given
    Kind,           \* Kind[c]: cpp, unified or py
    CounterMod,     \* 2^20 in the code
    TimeUnit,       \* TimeUnit[c]: clock steps per time unit (py: milliseconds)
    TimeMod,        \* TimeMod[c]: 2^32 for cpp, 2^41 for py, no limit for unified
    HasNul,         \* the payloads that contain a NUL character
    MaxStores,      \* bound: store() calls that reach SET
    MaxClock,       \* bound: clock steps
    MaxObjects,     \* bound: MaxObjects[c], connectors client c makes
    MaxCrashes      \* bound: how often the server goes down

ASSUME StoreAssumption ==
    /\ Kind \in [Connector -> {"cpp", "unified", "py"}]
    /\ HasNul \subseteq Nat
    /\ CounterMod \in Nat \ {0} /\ DOMAIN ClientId = Connector
    /\ TimeUnit \in [Connector -> Nat \ {0}] /\ TimeMod \in [Connector -> Nat \ {0}]
    /\ MaxObjects \in [Connector -> Nat \ {0}]
    /\ {MaxStores, MaxClock, MaxCrashes} \subseteq Nat

VARIABLES
    clock,      \* the system clock
    made,       \* connectors each client has made; it has the last one
    plctr,      \* the counter of its connector
    nth,        \* keys its connector has generated
    nstores,    \* keys generated in all
    context,    \* its connection: REDIS_OK; stale, when the server has been down since;
                \* err, once hiredis has noticed; crashed, with its client
    serving,    \* is the server up?
    redis,      \* what it stores: a function from keys to payloads
    crashes,    \* how often it went down
    issued,     \* the keys store() returned, in order
    taken       \* taken[i]: what checkOut() gave for the key of issued[i]

counters == <<plctr, nth, nstores>>
vars == <<clock, made, counters, context, serving, redis, crashes, issued, taken>>

(* Payloads are numbered as they are stored; <<v, FALSE>> is what payload v *)
(* has before its first NUL.                                                *)
Payloads == (1 .. MaxStores) \X BOOLEAN
Nothing == <<0, TRUE>>
Key == [time : Nat, id : Range(ClientId), ctr : 0 .. CounterMod - 1]

TypeOK ==
    /\ clock \in 0 .. MaxClock
    /\ made \in [Connector -> Nat \ {0}] /\ \A c \in Connector : made[c] <= MaxObjects[c]
    /\ plctr \in [Connector -> 0 .. CounterMod - 1]
    /\ nth \in [Connector -> 0 .. MaxStores] /\ nstores \in 0 .. MaxStores
    /\ context \in [Connector -> {"REDIS_OK", "stale", "err", "crashed"}]
    /\ serving \in BOOLEAN
    /\ DOMAIN redis \subseteq Key /\ Range(redis) \subseteq Payloads
    /\ crashes \in 0 .. MaxCrashes
    /\ \A i \in DOMAIN issued :
          /\ issued[i].by \in Connector \X (Nat \ {0})
          /\ issued[i].nth \in 1 .. MaxStores
          /\ issued[i].key \in Key
          /\ issued[i].value \in 1 .. MaxStores
          /\ issued[i].epoch \in 0 .. MaxCrashes
    /\ DOMAIN taken \subseteq DOMAIN issued /\ Range(taken) \subseteq Payloads \cup {Nothing}

Init ==
    /\ clock = 0
    /\ made = [c \in Connector |-> 1]
    /\ plctr = [c \in Connector |-> 0]
    /\ nth = [c \in Connector |-> 0]
    /\ nstores = 0
    /\ context = [c \in Connector |-> "REDIS_OK"]
    /\ serving = TRUE
    /\ redis = <<>>
    /\ crashes = 0
    /\ issued = <<>>
    /\ taken = <<>>

-----------------------------------------------------------------------------
(* isConnected().  hiredis keeps the error of a context, and a C++ connector *)
(* connects only once; the Python one connects again by itself.              *)
IsConnected(c) == context[c] \in {"REDIS_OK", "stale"}
Reaches(c) == context[c] = "REDIS_OK" /\ serving
Noticed(c) == IF Kind[c] = "py" THEN context ELSE [context EXCEPT ![c] = "err"]

(* A client starts again, with a new connector. *)
Connect(c) ==
    /\ made[c] < MaxObjects[c]
    /\ made' = [made EXCEPT ![c] = @ + 1]
    /\ plctr' = [plctr EXCEPT ![c] = 0]
    /\ nth' = [nth EXCEPT ![c] = 0]
    /\ context' = [context EXCEPT ![c] = IF serving \/ Kind[c] = "py" THEN "REDIS_OK" ELSE "err"]
    /\ UNCHANGED <<clock, nstores, serving, redis, crashes, issued, taken>>

(* generatePayloadId / generateKey / generate_payload_id.  Faulty: without  *)
(* the wrap, and without the identifier of the client.                      *)
NextCounterFaulty(c) == plctr[c] + 1
NextCounter(c) == (plctr[c] + 1) % CounterMod
Stamp(c) == (clock \div TimeUnit[c]) % TimeMod[c]
generatePayloadIdFaulty(c) ==
    [time |-> Stamp(c), id |-> CHOOSE i \in Range(ClientId) : TRUE, ctr |-> NextCounter(c)]
generatePayloadId(c) == [time |-> Stamp(c), id |-> ClientId[c], ctr |-> NextCounter(c)]

Generated(c) ==
    /\ nstores < MaxStores
    /\ plctr' = [plctr EXCEPT ![c] = NextCounter(c)]
    /\ nth' = [nth EXCEPT ![c] = @ + 1]
    /\ nstores' = nstores + 1

(* What SET is given: "%s" ends at a NUL, "%b" and Python do not. *)
Written(c, v) == <<v, ~(Kind[c] = "cpp" /\ v \in HasNul)>>

store(c) ==
    LET k == generatePayloadId(c)
        v == nstores + 1
    IN  /\ Reaches(c)
        /\ Generated(c)
        /\ redis' = [x \in DOMAIN redis \cup {k} |-> IF x = k THEN Written(c, v) ELSE redis[x]]
        /\ issued' = Append(issued, [by |-> <<c, made[c]>>, nth |-> nth[c] + 1, key |-> k,
                                     value |-> v, epoch |-> crashes])
        /\ UNCHANGED <<clock, made, context, serving, crashes, taken>>

(* The SET fails: "" is returned, or Python raises; the payload is nowhere. *)
StoreFails(c) ==
    /\ IsConnected(c) /\ ~Reaches(c)
    /\ Generated(c)
    /\ context' = Noticed(c)
    /\ UNCHANGED <<clock, made, serving, redis, crashes, issued, taken>>

(* checkOut / check_out: GETDEL.  Faulty: GET, as peek does. *)
GetDelFaulty(k) == redis
GetDel(k) == Restrict(redis, DOMAIN redis \ {k})

checkOut(c, i) ==
    LET k == issued[i].key
        found == IF Reaches(c) /\ k \in DOMAIN redis THEN redis[k] ELSE Nothing
    IN  /\ i \notin DOMAIN taken /\ context[c] # "crashed"
        /\ taken' = [x \in DOMAIN taken \cup {i} |-> IF x = i THEN found ELSE taken[x]]
        /\ redis' = IF Reaches(c) THEN GetDel(k) ELSE redis
        /\ context' = IF IsConnected(c) /\ ~Reaches(c) THEN Noticed(c) ELSE context
        /\ UNCHANGED <<clock, made, counters, serving, crashes, issued>>

(* peek: GET.  When it fails there is no reply object; cpp reads its type   *)
(* all the same.                                                            *)
peek(c) ==
    /\ IsConnected(c) /\ ~Reaches(c)
    /\ context' = IF Kind[c] = "cpp" THEN [context EXCEPT ![c] = "crashed"] ELSE Noticed(c)
    /\ UNCHANGED <<clock, made, counters, serving, redis, crashes, issued, taken>>

-----------------------------------------------------------------------------
(* The server (external) goes down, with or without what it stores, and up. *)
ServerDown ==
    /\ serving /\ crashes < MaxCrashes
    /\ serving' = FALSE
    /\ crashes' = crashes + 1
    /\ redis' \in {redis, <<>>}
    /\ context' = [c \in Connector |-> IF Kind[c] # "py" /\ context[c] = "REDIS_OK"
                                       THEN "stale" ELSE context[c]]
    /\ UNCHANGED <<clock, made, counters, issued, taken>>

ServerUp ==
    /\ ~serving
    /\ serving' = TRUE
    /\ UNCHANGED <<clock, made, counters, context, redis, crashes, issued, taken>>

Tick ==
    /\ clock < MaxClock
    /\ clock' = clock + 1
    /\ UNCHANGED <<made, counters, context, serving, redis, crashes, issued, taken>>

Next ==
    \/ \E c \in Connector : \/ Connect(c) \/ store(c) \/ StoreFails(c) \/ peek(c)
                            \/ \E i \in DOMAIN issued : checkOut(c, i)
    \/ ServerDown \/ ServerUp \/ Tick

Spec == Init /\ [][Next]_vars
-----------------------------------------------------------------------------
(* Properties.                                                             *)

Reused(i) == \E j \in DOMAIN issued : j # i /\ issued[j].key = issued[i].key

(* What "a new unique payload key" (store) amounts to.  No two payloads get *)
(* one key unless their clients have one identifier, and no two payloads of *)
(* one connector do unless its counter has gone all the way round in        *)
(* between: whatever the clock does, and though failing calls count, too.   *)
KeysDiffer ==
    \A i, j \in DOMAIN issued :
        (i < j /\ issued[i].key = issued[j].key) =>
            /\ ClientId[issued[i].by[1]] = ClientId[issued[j].by[1]]
            /\ issued[i].by = issued[j].by => issued[j].nth >= issued[i].nth + CounterMod

(* A key that is not given out twice gives its payload once and no other:   *)
(* it stays until it is checked out, unless the server goes down, and it is *)
(* gone then; checkOut() finds nothing only after the server went down.  A  *)
(* payload comes back as it was given, but for the NUL of a cpp store().    *)
Intact ==
    \A i \in DOMAIN issued : ~Reused(i) =>
        LET k == issued[i].key
            v == Written(issued[i].by[1], issued[i].value)
        IN  IF i \in DOMAIN taken
            THEN /\ taken[i] = v => k \notin DOMAIN redis
                 /\ taken[i] # v => taken[i] = Nothing /\ crashes > 0
            ELSE issued[i].epoch = crashes => k \in DOMAIN redis /\ redis[k] = v
=============================================================================
