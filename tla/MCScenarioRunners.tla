------------------------- MODULE MCScenarioRunners --------------------------
(* ScenarioRunners for TLC.  On the stage, a good job, then one whose pen   *)
(* is dropped; of the commands of the pen tree, the retried one and those   *)
(* others depend on.  Headless, the trees of the two example cells.         *)
EXTENDS ScenarioRunners

MCScript == <<"none", "dropped">>
MCPlan == <<"pick", "load", "select", "process", "inspect">>

Leaf(leaf, attempts, components, reads, writes) ==
    [leaf |-> leaf, attempts |-> attempts, components |-> components, reads |-> reads,
     writes |-> writes]
Bare(leaf) == Leaf(leaf, 1, <<>>, {}, {})

Checks == <<Bare("ValidateFrozenJob"), Bare("CheckSafetyHealthy"), Bare("CheckRequiredDevicesReady")>>

Part(part, attempts) ==
    <<Leaf("LocateObject", 1, <<"camera">>, {}, {part}),
      Leaf("PickObject", 2, <<"robot", "gripper">>, {part}, {}),
      Leaf("PlaceObject", attempts, <<"robot", "gripper">>, {part}, {})>>

\* The clamp may be bound to a component that cannot clamp, and placing be retried.
Kitting(fixture, attempts) ==
    Checks \o <<Leaf("ClampKitTray", 1, <<fixture>>, {}, {})>>
        \o Part("cube", attempts) \o Part("cylinder", attempts)
        \o <<Leaf("InspectObject", 1, <<"camera">>, {}, {"inspection"}),
             Leaf("VerifyKitTray", 1, <<"fixture">>, {}, {}),
             Leaf("ReleaseKitTray", 1, <<"fixture">>, {}, {}),
             Leaf("RecordKittingResult", 1, <<>>, {"inspection"}, {})>>

Pen(attempts) ==
    Checks \o <<Leaf("LocateProduct", 1, <<"camera">>, {}, {"pose"}),
                Leaf("PickProduct", 2, <<"gripper">>, {"pose"}, {}),
                Leaf("LoadFixture", 1, <<"robot", "fixture">>, {}, {}),
                Leaf("VerifyFixture", 1, <<"fixture">>, {}, {}),
                Leaf("MoveRobotToProcessSafePose", 1, <<"robot">>, {}, {}),
                Leaf("SelectProcessProgram", 1, <<"laser">>, {}, {}),
                Leaf("ExecuteProcess", attempts, <<"laser">>, {}, {}),
                Leaf("InspectProduct", 1, <<"camera">>, {}, {"inspection"}),
                Leaf("UnloadProduct", 1, <<"fixture", "gripper">>, {}, {}),
                Leaf("RouteByInspection", 1, <<>>, {"inspection"}, {}),
                Bare("RecordProductionResult")>>

Injected(before, target, known, retry) ==
    [before |-> before, target |-> target, known |-> known, retry |-> retry]

DeviceFaults ==
    {Injected(b, t, TRUE, r) : b \in {"PickObject", "PlaceObject", "LocateObject", "InspectObject"},
                            t \in {"robot", "gripper", "camera", "fixture"}, r \in BOOLEAN}
MCFaults == DeviceFaults \cup {Injected("PlaceObject", "operator", TRUE, FALSE),
                               Injected("InspectObject", "camera", FALSE, FALSE)}

Cell == {"robot", "gripper", "camera", "fixture", "carrier"}
Project == [declared |-> Cell, staged |-> Cell, required |-> {"move", "open", "close", "clamp"}]

Nominal(cell, tree) ==
    [cell |-> cell, project |-> Project, tree |-> tree, frozen |-> TRUE, safety |-> TRUE, present |-> TRUE,
     seated |-> TRUE, accepted |-> TRUE, cycle |-> "ok", faults |-> <<>>]

\* One fact at a time is off.
Variants(s) ==
    {s, [s EXCEPT !.frozen = FALSE], [s EXCEPT !.safety = FALSE], [s EXCEPT !.present = FALSE],
     [s EXCEPT !.seated = FALSE], [s EXCEPT !.accepted = FALSE]}

\* A component without a place in the scene, one that is not there, or a capability nobody has.
Broken ==
    {[Project EXCEPT !.staged = Cell \ {"carrier"}], [Project EXCEPT !.required = {"cycle"}],
     [Project EXCEPT !.declared = Cell \ {"camera"}, !.staged = Cell \ {"camera"}]}

MCScenarios ==
    {[Nominal("kitting", Kitting("fixture", 1)) EXCEPT !.project = p] : p \in Broken} \cup
    {[Nominal("kitting", Kitting("fixture", 2)) EXCEPT !.faults = <<f, g>>] : f, g \in MCFaults}
    \cup {[Nominal("kitting", Kitting("fixture", 1)) EXCEPT !.faults = <<f>>] : f \in MCFaults}
    \cup (UNION {Variants(Nominal("kitting", Kitting(f, 1))) : f \in {"fixture", "carrier"}})
    \cup (UNION {Variants([Nominal("pen", Pen(n)) EXCEPT !.cycle = c]) :
                    n \in 1..2, c \in {"ok", "fault", "unknown"}})
    \cup {[Nominal("pen", Pen(1)) EXCEPT !.faults = <<Injected(Pen(1)[i].leaf, "operator", TRUE, FALSE)>>] :
             i \in DOMAIN Pen(1)}
=============================================================================
