--------------------------- MODULE MCDeviceNode ---------------------------
(* Instances of DeviceNode for TLC. *)
EXTENDS DeviceNode

CONSTANTS c1, c2
============================================================================
