----------------------------- MODULE MCPenTree -----------------------------
(* Instances of PenTree for TLC. *)
EXTENDS PenTree

\* A retried leaf, a motion, the process and the inspection of the pen tree.
MCTree == <<"pick", "move", "process", "inspect">>
MCAttempts == [l \in {"pick", "move", "process", "inspect"} |-> IF l = "pick" THEN 2 ELSE 1]
============================================================================
