-------------------------- MODULE MCStudioProject --------------------------
(* Instances of StudioSession for TLC. *)
EXTENDS StudioSession

MCOrder == <<"cell", "scene", "recipe">>
MCOpened == {"cell", "scene"}
MCStarter == [f \in {"cell", "scene", "recipe"} |-> IF f = "recipe" THEN Absent ELSE 0]

\* cell and scene name the same components; 1 and 2 differ in no identity, and
\* they refer to a recipe.
MCLinked(tree) ==
    /\ tree["cell"] # Absent /\ tree["scene"] # Absent
    /\ (tree["cell"] = 0) = (tree["scene"] = 0)
MCValid(tree) ==
    /\ MCLinked(tree)
    /\ tree["cell"] # 0 => tree["recipe"] # Absent

\* The directory of the template is there, revised, without one of its files, or without a cell.
Kitting(complete, cell, rest) ==
    [complete |-> complete, cell |-> cell, components |-> <<"arm", "camera">>, rest |-> rest]
MCSources == {Kitting(TRUE, "kit", 0), Kitting(TRUE, "kit", 1), Kitting(FALSE, "kit", 0),
              Kitting(TRUE, None, 0)}
MCBlank == [complete |-> TRUE, cell |-> "starter", components |-> <<>>, rest |-> 0]

\* The kit as it is, with its camera renamed and the old name given to the arm, which the
\* replacement confuses, and with both renamed; a starter at the same place.
Ask(template, ids) ==
    [template |-> template, destination |-> "bench", faulty |-> FALSE, fit |-> TRUE,
     seed |-> 7, cell |-> None, ids |-> ids]
MCRequests == {Ask("kitting", <<>>), Ask("kitting", ("arm" :> "camera") @@ ("camera" :> "lens")),
               Ask("kitting", ("arm" :> "arm2") @@ ("camera" :> "lens")), Ask("blank", <<>>)}
MCSeeded(seed) == "starter7"
MCSoundTree(tree) == TRUE
============================================================================
