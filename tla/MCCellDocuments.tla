-------------------------- MODULE MCCellDocuments --------------------------
(* Instances of StudioReadiness for TLC. *)
EXTENDS StudioReadiness

CONSTANTS i1, i2, i3, l1, l2

Mount(id, direction) ==
    [id |-> id, kind |-> "mechanical", direction |-> direction, type |-> "iso", frame |-> "plate"]

\* An arm carries a gripper.
MCManifests ==
    LET package == [type |-> "arm", readable |-> TRUE, level |-> "simulated",
                    adapters |-> {"simulation"}, ports |-> {Mount("flange", "output")},
                    capabilities |-> {[contract |-> "move", version |-> 1, modes |-> Modes]},
                    variants |-> {"plain"}, configurations |-> {"slow"}, asset |-> TRUE]
    IN  <<package,
          [package EXCEPT !.type = "gripper", !.capabilities = {},
                          !.ports = {Mount("mount", "input"), Mount("fingers", "bidirectional")},
                          !.variants = {"wide"}, !.configurations = {}]>>

MCTasks == <<[id |-> "engrave", capabilities |-> {"move"}, tree |-> "engrave.xml"]>>
MCBuiltin ==
    [type \in {"Plan", "ExecuteProcess"} |->
        IF type = "Plan" THEN {[name |-> "plan", direction |-> "output", required |-> TRUE]}
        ELSE {[name |-> "plan", direction |-> "input", required |-> TRUE]}]
MCPlugins == <<[readable |-> FALSE, nodes |-> [t \in {"Plan"} |-> {}]],
               [readable |-> TRUE, nodes |-> [t \in {"Inspect"} |->
                  {[name |-> "photo", direction |-> "bidirectional", required |-> FALSE]}]]>>

Keyed(type, port, key) ==
    [type |-> type, retried |-> FALSE, ports |-> (port :> [kind |-> "key", key |-> key])]
MCGood == {Keyed("Plan", "plan", "p"), Keyed("ExecuteProcess", "plan", "p")}
\* a second tree; one that reads what nothing writes, one that repeats a
\* process, one of unknown nodes
MCTrees ==
    {{Keyed("Inspect", "photo", "job")},
     {Keyed("ExecuteProcess", "plan", "p")},
     MCGood \cup {[Keyed("ExecuteProcess", "plan", "p") EXCEPT !.retried = TRUE]},
     {Keyed("Weld", "seam", "p")}}

MCBody == [capabilities |-> {"move"}, sound |-> TRUE]
\* a plain draft, one that calls itself approved, one the cell cannot run
MCEntries ==
    {[status |-> "DRAFT", evidence |-> FALSE, body |-> MCBody],
     [status |-> "APPROVED", evidence |-> FALSE, body |-> MCBody],
     [status |-> "DRAFT", evidence |-> TRUE, body |-> [MCBody EXCEPT !.capabilities = {"weld"}]]}

\* An arm with a gripper, and a recipe that is about to be approved.
MCStarters ==
    LET arm == [type |-> "arm", alias |-> "first", adapter |-> "target_selected",
                variants |-> "plain", configuration |-> None, calibrations |-> {}, prim |-> <<i1>>]
        gripper == [arm EXCEPT !.type = "gripper", !.alias = "second", !.variants = "wide",
                               !.prim = <<i1, i2>>]
        link == [id |-> l1, kind |-> "mechanical", from |-> [component |-> i1, port |-> "flange"],
                 to |-> [component |-> i2, port |-> "mount"]]
        recipe == [id |-> "r", version |-> 1, status |-> "TESTED",
                   evidence |-> TRUE, body |-> MCBody]
    IN  {[cell |-> [components |-> (i1 :> arm) @@ (i2 :> gripper),
                    links |-> <<link>>, recipes |-> <<"r1">>, calibrations |-> {}],
          scene |-> (<<i1>> :> [tag |-> i1, matrix |-> "identity"])
                    @@ (<<i1, i2>> :> [tag |-> i2, matrix |-> "snapped"]),
          files |-> ("engrave.xml" :> [nodes |-> MCGood]) @@ ("behavior_tree.xml" :> Absent)
                    @@ ("cal" :> Absent) @@ ("r1" :> recipe)
                    @@ [f \in {"r2", "x1", "x2"} |-> Absent]]}

\* Nothing; a version that calls itself approved; another recipe that does.
MCOverrides ==
    {<<>>, [status |-> "APPROVED"], [id |-> "x", version |-> 1, status |-> "APPROVED"]}

\* The cell as it was first read, also with the gripper beside the arm; a text that is
\* no document.
MCCellTexts ==
    UNION {{s.cell, [s.cell EXCEPT !.components[i2].prim = <<i2>>], Unread} : s \in MCStarters}

\* The scene to match.
MCSceneTexts == {[p \in {<<i1>>, <<i2>>} |-> [tag |-> p[1], matrix |-> "typed"]]}

\* One scenario, which an injected process fault stops.
MCSurroundings ==
    {[scenarios |-> <<[id |-> "nominal", readable |-> TRUE, requested |-> "L0", faults |-> {},
                       expects |-> [status |-> "SUCCESS", required |-> {"job.completed"},
                                    forbidden |-> {"simulation.pen.dropped"}]]>>,
      profiles |-> {[fidelity |-> "L0", configuration |-> "usable"],
                    [fidelity |-> "L2", configuration |-> "missing"]}]}

\* The clock goes on once a calibration was bound, and a typed document is followed with one
\* step of history.
Paced ==
    /\ now > 0 => \E b \in Buffers \ {None} : b.cell.calibrations # {}
    /\ typed # {} => Len(undo) + Len(redo) <= 1

MCBackends == {[available |-> TRUE, observed |-> "L0", proven |-> FALSE]}

\* The graph that a session starts from resolves, so that GraphResolves speaks of it.
ASSUME StartersResolve == \A s \in Starters : Whole(s)

MCPath(id, version) ==
    IF id = "r" THEN (IF version = 1 THEN "r1" ELSE "r2")
                ELSE (IF version = 1 THEN "x1" ELSE "x2")
============================================================================
