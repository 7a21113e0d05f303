------------------------- MODULE MCGefyraBridgeMount -------------------------
(* GefyraBridgeMount for TLC. *)
EXTENDS GefyraBridgeMount

CONSTANTS p1, p2, b1
=============================================================================
