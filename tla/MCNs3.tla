------------------------------- MODULE MCNs3 -------------------------------
(* An instance of NsbNs3 for TLC: two hosts, two messages between them, one *)
(* to something that is no host, one to and one from a host that is not     *)
(* there.                                                                   *)
EXTENDS NsbNs3

MCMessage == <<[src |-> 0, dest |-> 1], [src |-> 0, dest |-> NotAHost], [src |-> 0, dest |-> 2],
               [src |-> 1, dest |-> 0], [src |-> 2, dest |-> 0]>>
=============================================================================
