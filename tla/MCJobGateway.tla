--------------------------- MODULE MCJobGateway ---------------------------
(* Instances of JobGateway for TLC. *)
EXTENDS JobGateway, TLC

CONSTANTS g1, g2, k1, c1, c2, b1, b2

\* c2 uses a recipe that only bundle b2 carries.
MCFreezes == {<<b1, c1>>, <<b2, c1>>, <<b2, c2>>}
============================================================================
