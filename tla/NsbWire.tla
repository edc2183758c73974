------------------------------ MODULE NsbWire ------------------------------
(***************************************************************************)
(* The NSB message (proto/nsb.proto), the entries the daemon buffers, and  *)
(* what a receiver makes of the bytes one read of a TCP channel gives it.  *)
(*                                                                         *)
(* NSB writes serialized protobuf messages back to back on a stream socket *)
(* and a reader parses everything one read returned as ONE message: there  *)
(* is no length prefix.  By protobuf's rules the concatenation of several  *)
(* encodings parses as their merge, so that is what Parse computes.        *)
(*                                                                         *)
(* Data is abstracted.  Payloads, payload keys and client introductions    *)
(* are pairs in Value; a payload is <<the client that sent it, a number>>. *)
(* The empty string is "" and the empty payload is NoValue.                *)
(***************************************************************************)
EXTENDS Naturals, Sequences, FiniteSets

CONSTANTS
    Client,     \* client processes; each is started once, a restart is another one
    Ident,      \* Ident[c]: the identifier client process c was given
    MaxSends    \* bound: send() calls per application client

Identifier == {Ident[c] : c \in Client}

ASSUME WireAssumption ==
    /\ IsFiniteSet(Client) /\ "" \notin Client /\ "#" \notin Client
    /\ Ident \in [Client -> STRING]
    /\ "" \notin Identifier
    /\ MaxSends \in Nat

NoValue == <<"", 0>>
Payload == Client \X (1 .. MaxSends)

(* "#" marks the keys the payload database hands out. *)
Value == (Client \cup {"", "#"}) \X Nat

Op == {"PING", "INIT", "SEND", "FETCH", "POST", "RECEIVE", "FORWARD", "EXIT"}
Og == {"DAEMON", "APP_CLIENT", "SIM_CLIENT"}
Code == {"SUCCESS", "FAILURE", "CLIENT_REQUEST", "DAEMON_RESPONSE", "MESSAGE", "NO_MESSAGE"}
Id == Identifier \cup {""}

Metadata == [has : BOOLEAN, src : Id, dest : Id]
Body == [kind : {"none", "payload", "msg_key", "config"}, val : Value]
        \cup [kind : {"intro"}, val : Client \X {0}]
nsbm == [op : Op, og : Og, code : Code, metadata : Metadata, body : Body]

NoMetadata == [has |-> FALSE, src |-> "", dest |-> ""]
NoBody == [kind |-> "none", val |-> NoValue]
Route(s, d) == [has |-> TRUE, src |-> s, dest |-> d]

(* A message with only a manifest. *)
Bare(op, og, code) ==
    [op |-> op, og |-> og, code |-> code, metadata |-> NoMetadata, body |-> NoBody]

(* msg_set_payload_obj: the payload itself, or its key when a database is used. *)
PayloadBody(db, v) == [kind |-> IF db THEN "msg_key" ELSE "payload", val |-> v]

(* Faulty: the accessors are mixed up. *)
PayloadOfFaulty(db, m) ==
    IF m.body.kind = (IF db THEN "payload" ELSE "msg_key") THEN m.body.val ELSE NoValue

(* msg_get_payload_obj: the accessor of a oneof member that is not set gives "". *)
PayloadOf(db, m) ==
    IF m.body.kind = (IF db THEN "msg_key" ELSE "payload") THEN m.body.val ELSE NoValue

-----------------------------------------------------------------------------
(* Parsing the messages s that one read returned.                          *)

LastIn(S) == CHOOSE i \in S : \A j \in S : j <= i

(* Faulty: the first value stays. *)
LastSetFaulty(q, default) ==
    LET set == {i \in DOMAIN q : q[i] # default}
    IN  IF set = {} THEN default ELSE q[CHOOSE i \in set : \A j \in set : i <= j]

(* The value of a field whose values in the messages are q: the last one    *)
(* that is not the default, since proto3 does not encode a default, and the *)
(* last member of a oneof on the wire is the one that stays set.            *)
LastSet(q, default) ==
    LET set == {i \in DOMAIN q : q[i] # default}
    IN  IF set = {} THEN default ELSE q[LastIn(set)]

Parse(s) ==
    [op   |-> LastSet([i \in DOMAIN s |-> s[i].op], "PING"),
     og   |-> LastSet([i \in DOMAIN s |-> s[i].og], "DAEMON"),
     code |-> LastSet([i \in DOMAIN s |-> s[i].code], "SUCCESS"),
     metadata |-> [has  |-> \E i \in DOMAIN s : s[i].metadata.has,
                   src  |-> LastSet([i \in DOMAIN s |-> s[i].metadata.src], ""),
                   dest |-> LastSet([i \in DOMAIN s |-> s[i].metadata.dest], "")],
     body |-> LastSet([i \in DOMAIN s |-> s[i].body], NoBody)]

-----------------------------------------------------------------------------
(* MessageEntry, the element of the daemon's buffers.                      *)

MessageEntry == [source : Id, destination : Id, payload_obj : Value]

NoEntry == [source |-> "", destination |-> "", payload_obj |-> NoValue]

Entry(db, m) == [source |-> m.metadata.src, destination |-> m.metadata.dest,
                 payload_obj |-> PayloadOf(db, m)]

exists(e) == e.source # "" /\ e.destination # "" /\ e.payload_obj # NoValue
=============================================================================
