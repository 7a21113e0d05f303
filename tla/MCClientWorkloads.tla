------------------------- MODULE MCClientWorkloads -------------------------
(***************************************************************************)
(* ClientWorkloads for TLC: bridge b1 of client c1 leads from target t1 to *)
(* container n1, in a network with two addresses.                          *)
(***************************************************************************)
EXTENDS ClientWorkloads

CONSTANTS b1, c1, d1, d2, t1, p1, p2, p3, n1, s1

MCTargetOf == [b \in Bridges |-> t1]
MCClientOf == [b \in Bridges |-> c1]
MCDestsOf  == [b \in Bridges |-> Dests]
MCLocalOf  == [b \in Bridges |-> n1]
=============================================================================
