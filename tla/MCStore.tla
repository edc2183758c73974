------------------------------ MODULE MCStore ------------------------------
(* Instances of NsbStore for TLC: application a (cpp) and its simulator     *)
(* client (unified) share an identifier; application b is a Python client.  *)
EXTENDS NsbStore

MCClientId == [c \in Connector |-> IF c = "b1" THEN "b" ELSE "a"]
MCKind == [c \in Connector |-> CASE c = "a1" -> "cpp" [] c = "sa" -> "unified" [] c = "b1" -> "py"]
MCObjects == [c \in Connector |-> IF c = "a1" THEN 2 ELSE 1]
MCTimeUnit == [c \in Connector |-> IF c = "b1" THEN 2 ELSE 1]
MCTimeMod == [c \in Connector |-> CASE c = "a1" -> 2 [] c = "sa" -> MaxClock + 1 [] c = "b1" -> 2]
=============================================================================
