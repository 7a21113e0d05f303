--------------------------- MODULE MCGefyraBridge ---------------------------
(***************************************************************************)
(* GefyraBridge for TLC: bridge b1 of client c1 and bridge b2 of client c2 *)
(* lead to the same target, t1.  Each client has its own address(es).      *)
(***************************************************************************)
EXTENDS GefyraBridge, TLC

CONSTANTS b1, b2, c1, c2, d1, d2, d3, t1, p1, p2, p3

(* Ports are only compared for equality here. *)
PortSymmetry == Permutations(Ports)

MCTargetOf == [b \in Bridges |-> t1]
MCClientOf == [b \in Bridges |-> IF b = b1 THEN c1 ELSE c2]
MCDestsOf  == [b \in Bridges |-> IF b = b1 THEN {d1, d3} ELSE {d2}]

(* The two bridges lead to one destination of one client. *)
OneClient  == [b \in Bridges |-> c1]
OneDest    == [b \in Bridges |-> {d1}]
=============================================================================
