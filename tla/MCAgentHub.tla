----------------------------- MODULE MCAgentHub -----------------------------
(* Instances of AgentHub for TLC.                                          *)
EXTENDS AgentHub

CONSTANTS i1, i2, i3, old, new, ws

(* Requests and access changes come to the first instance; the connections *)
(* are both there, or at two others.                                       *)
MCEntry == [r \in Requests |-> i1]
At2(a, b) == [c \in Conns |-> IF c = old THEN a ELSE b]
MCPlaces == {At2(i1, i1), At2(i2, i3)}
=============================================================================
