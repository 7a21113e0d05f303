-------------------------- MODULE MCStowawayRoutes --------------------------
(***************************************************************************)
(* StowawayRoutes for TLC.  Bridges b1 and b2 belong to client c1, whose   *)
(* subnet holds d1; b3 belongs to c2, whose subnet holds d2.  The subnets  *)
(* are disjoint but the text of d1, say "10.1.0.1:80", occurs in that of   *)
(* d2, say "110.1.0.1:80".                                                 *)
(***************************************************************************)
EXTENDS StowawayRoutes

CONSTANTS b1, b2, b3, c1, c2, d1, d2

MCClientOf == [b \in Bridges |-> IF b = b3 THEN c2 ELSE c1]
MCDestsOf  == [c \in Clients |-> IF c = c1 THEN {d1} ELSE {d2}]
MCWithin   == {<<d1, d1>>, <<d2, d2>>, <<d1, d2>>}
=============================================================================
