---------------------------- MODULE MCRouteSweep ----------------------------
(***************************************************************************)
(* RouteSweep for TLC: bridges b1 and b2 belong to client c1, each with a  *)
(* destination of its own in c1's subnet, two ports of one container.      *)
(***************************************************************************)
EXTENDS RouteSweep

CONSTANTS b1, b2, c1, d1, d2, i1

MCClientOf == [b \in Bridges |-> c1]
MCDestsOf  == [c \in Clients |-> {d1, d2}]
MCDestOf   == [b \in Bridges |-> IF b = b1 THEN d1 ELSE d2]
OneIP      == [d \in Dests |-> i1]
MCWithin   == {<<d1, d1>>, <<d2, d2>>}
=============================================================================
