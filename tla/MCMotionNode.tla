---------------------------- MODULE MCMotionNode ----------------------------
(* Instances of MotionNode for TLC. *)
EXTENDS MotionNode

CONSTANTS g1, g2, g3
============================================================================
