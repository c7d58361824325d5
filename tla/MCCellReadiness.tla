------------------------- MODULE MCCellReadiness -------------------------
(* Instances of CellReadiness for TLC. *)
EXTENDS CellReadiness

CONSTANTS laser, camera
============================================================================
