------------------------- MODULE MCClientConnection -------------------------
(* ClientConnection for TLC. *)
EXTENDS ClientConnection

CONSTANTS c1, c2, s1, s2

Three == [c \in Clients |-> 3]
One == [c \in Clients |-> 1]
AllOf == [c \in Clients |-> Commands]
ConnectOnly == [c \in Clients |-> IF c = c1 THEN Commands ELSE {"connect"}]
Connect == [c \in Clients |-> {"connect"}]
TwoAndOne == [c \in Clients |-> IF c = c1 THEN 2 ELSE 1]
=============================================================================
