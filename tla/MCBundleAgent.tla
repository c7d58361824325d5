--------------------------- MODULE MCBundleAgent ---------------------------
(* Instances of BundleAgent for TLC. *)
EXTENDS BundleAgent

CONSTANTS b1, b2, b3
============================================================================
