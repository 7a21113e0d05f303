--------------------------- MODULE MCGefyraInstall ---------------------------
(* GefyraInstall for TLC. *)
EXTENDS GefyraInstall

CONSTANTS o1, o2, v1, v2
=============================================================================
