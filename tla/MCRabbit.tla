------------------------------ MODULE MCRabbit ------------------------------
(* Instances of NsbRabbit for TLC.                                         *)
EXTENDS NsbRabbit, TLC

MCIdent == [c \in Client |-> CASE c = "a1" -> "a" [] c = "b1" -> "b" [] c = "s1" -> "s"]
MCOrig == [c \in Client |-> IF c = "s1" THEN "SIM_CLIENT" ELSE "APP_CLIENT"]
MCImpl == [c \in Client |-> CASE c = "a1" -> "unified" [] c = "b1" -> "rmq" [] c = "s1" -> "py"]
MCImplPy == [c \in Client |-> "py"]
MCImplDB == [c \in Client |-> IF c = "a1" THEN "unified" ELSE "py"]
MCSendB == [c \in Client |-> IF c = "a1" THEN {"b"} ELSE {}]
MCSendAB == [c \in Client |-> IF c = "a1" THEN {"a", "b"} ELSE {}]
MCSendBS == [c \in Client |-> IF c = "a1" THEN {"b", "s"} ELSE {}]
MCStartOnce == [c \in Client |-> 1]
MCRestartA == [c \in Client |-> IF c = "a1" THEN 2 ELSE 1]
MCPostB == [c \in Client |-> IF c = "s1" THEN {"b"} ELSE {}]
=============================================================================
