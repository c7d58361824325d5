---------------------------- MODULE HeadlessCell ----------------------------
(***************************************************************************)
(* The headless L0 executors of the pen and of the kitting tree: one job   *)
(* of a scenario, run leaf by leaf against the mock device adapters, with  *)
(* scheduled faults, retries and the scenario's own deadline.              *)
(***************************************************************************)
EXTENDS Naturals, Sequences

CONSTANTS Scenarios, \* [cell, project, tree, frozen, safety, present, seated, accepted, cycle,
                     \* faults]: project is [declared, staged, required], the components of the
                     \* cell and of its scene and the capabilities of the task; the tree a sequence
                     \* of elements [leaf, attempts, components, reads, writes], components those
                     \* its commands go to; cycle what the laser does, "ok", "fault" or "unknown";
                     \* faults a sequence of [before, target, known, retry]
          Undecided  \* no final state yet

VARIABLES
    scenario,
    position, attempt, step, \* the element, its attempt, and the command of its leaf (0: not entered)
    device,            \* the adapters: [mode, armed], armed when the next operation is to fail
    jaw, clamped, prepared, \* what the mocks remember
    board,             \* the keys written, and the inspection's verdict
    applied,           \* scheduled faults already injected
    results,           \* results of commands
    final

headlessVars ==
    <<scenario, position, attempt, step, device, jaw, clamped, prepared, board, applied, results,
      final>>

mocks == <<jaw, clamped, prepared>>
place == <<position, attempt, step>>

\* The contracts of a leaf's commands, in their order.
Work ==
    [ValidateFrozenJob |-> <<>>, CheckSafetyHealthy |-> <<>>, CheckRequiredDevicesReady |-> <<>>,
     ClampKitTray |-> <<"clamp">>, LocateObject |-> <<"locate">>, PickObject |-> <<"move", "close">>,
     PlaceObject |-> <<"move", "open">>, InspectObject |-> <<"inspect">>,
     VerifyKitTray |-> <<"verify">>, ReleaseKitTray |-> <<"release">>, RecordKittingResult |-> <<>>,
     LocateProduct |-> <<"locate">>, PickProduct |-> <<"close">>, LoadFixture |-> <<"move", "clamp">>,
     VerifyFixture |-> <<"verify">>, MoveRobotToProcessSafePose |-> <<"move">>,
     SelectProcessProgram |-> <<"select">>, ExecuteProcess |-> <<"cycle">>,
     InspectProduct |-> <<"inspect">>, UnloadProduct |-> <<"release", "open">>,
     RouteByInspection |-> <<>>, RecordProductionResult |-> <<>>]

Sends(leaf, contract) == \E s \in DOMAIN Work[leaf] : Work[leaf][s] = contract

\* What a component's ports declare.
Contracts ==
    [robot |-> {"move"}, gripper |-> {"open", "close"}, camera |-> {"locate", "inspect"},
     fixture |-> {"clamp", "release", "verify"}, laser |-> {"select", "cycle"}, carrier |-> {}]

Adapters == {"robot", "gripper", "fixture", "locator", "inspection", "process"}

\* The camera is two adapters; some components have none.
AdapterFor(component, contract) ==
    CASE component = "camera" -> IF contract = "inspect" THEN "inspection" ELSE "locator"
      [] component = "laser" -> "process"
      [] OTHER -> component

AdaptersOf(component) == {AdapterFor(component, c) : c \in Contracts[component]}

\* Every port of an element has the contract that its leaf expects.
Bound(element, project) ==
    /\ element.attempts > 0
    /\ Len(element.components) = Len(Work[element.leaf])
    /\ \A c \in DOMAIN element.components :
          /\ element.components[c] \in project.declared
          /\ Work[element.leaf][c] \in Contracts[element.components[c]]

\* A kitting project is validated before it is run: the scene and the cell have
\* the same components, which offer what the task requires.
Loadable(s) ==
    s.cell = "kitting" =>
        /\ {"robot", "gripper", "camera", "fixture", "carrier"} \subseteq s.project.declared
        /\ s.project.staged = s.project.declared
        /\ s.project.required \subseteq UNION {Contracts[c] : c \in s.project.declared}
        /\ \A i \in DOMAIN s.tree : Bound(s.tree[i], s.project)

\* What the two example trees have in common: whatever is grasped or clamped is let go of
\* further down, and there is an inspection.
AreScenarios ==
    /\ Undecided \notin {"SUCCESS", "FAILURE", "REJECTED", "CANCELLED", "OUTCOME_UNKNOWN",
                         "RECOVERABLE_FAULT", "error"}
    /\ \A s \in Scenarios :
          LET Does(i, contract) == Sends(s.tree[i].leaf, contract)
          IN  /\ s.tree \in Seq({s.tree[i] : i \in DOMAIN s.tree}) /\ s.tree # <<>>
              /\ \A i \in DOMAIN s.tree : s.tree[i].leaf \in DOMAIN Work
              /\ s.cycle \in {"ok", "fault", "unknown"} /\ s.accepted \in BOOLEAN
              /\ \E i \in DOMAIN s.tree : Does(i, "inspect")
              /\ \A i \in DOMAIN s.tree : Does(i, "close") =>
                    \E j \in DOMAIN s.tree : i < j /\ Does(j, "open")
              /\ \A i \in DOMAIN s.tree : Does(i, "clamp") =>
                    \E j \in DOMAIN s.tree : i < j /\ Does(j, "release")

HeadlessInit ==
    /\ scenario \in Scenarios
    /\ position = 1 /\ attempt = 1 /\ step = 0
    /\ device = [a \in Adapters |-> [mode |-> "READY", armed |-> FALSE]]
    /\ jaw = "open" /\ clamped = FALSE /\ prepared = FALSE
    /\ board = [keys |-> {}, accepted |-> FALSE]
    /\ applied = {}
    /\ results = <<>>
    /\ final = IF Loadable(scenario) THEN Undecided ELSE "error"

-----------------------------------------------------------------------------
\* The tree.

Element == scenario.tree[position]
Contract == Work[Element.leaf][step]
Adapter == AdapterFor(Element.components[step], Contract)

Scheduled == {k \in DOMAIN scenario.faults : scenario.faults[k].before = Element.leaf}

\* A retry declared for the leaf makes the adapters of its component ready.
Recovered(devices) ==
    LET saved == UNION {AdaptersOf(scenario.faults[k].target) :
                           k \in {j \in Scheduled : scenario.faults[j].retry}}
    IN  [a \in Adapters |-> IF scenario.cell = "kitting" /\ a \in saved
                            THEN [devices[a] EXCEPT !.mode = "READY"] ELSE devices[a]]

Move(i, n, s) == position' = i /\ attempt' = n /\ step' = s

Finish(status) ==
    /\ final' = IF status = "FAILURE" THEN "RECOVERABLE_FAULT" ELSE status
    /\ UNCHANGED place

\* The status of a leaf goes up through its retry and the sequence.
Propagate(status, devices) ==
    IF status = "SUCCESS" /\ position < Len(scenario.tree)
    THEN Move(position + 1, 1, 0) /\ device' = devices /\ UNCHANGED final
    ELSE IF status = "FAILURE" /\ attempt < Element.attempts
    THEN Move(position, attempt + 1, 0) /\ device' = Recovered(devices) /\ UNCHANGED final
    ELSE Finish(status) /\ device' = devices

\* Leaves without a command.
Verdict ==
    CASE Element.leaf = "ValidateFrozenJob" -> IF scenario.frozen THEN "SUCCESS" ELSE "REJECTED"
      [] Element.leaf \in {"CheckSafetyHealthy", "CheckRequiredDevicesReady"} ->
            IF scenario.safety THEN "SUCCESS" ELSE "REJECTED"
      [] Element.leaf = "RouteByInspection" -> IF board.accepted THEN "SUCCESS" ELSE "FAILURE"
      [] OTHER -> "SUCCESS"

CancelBefore == \E k \in Scheduled : scenario.faults[k].target = "operator"

\* A scheduled fault is injected once, into the first adapter of its component,
\* and raised by that adapter's next operation, whichever it is.
Due == IF scenario.cell = "kitting" THEN Scheduled \ applied ELSE {}
FirstAdapter(component) == IF component = "camera" THEN "locator" ELSE component

Unread == ~(Element.reads \subseteq board.keys)
Raises == Unread \/ \E k \in Due : ~scenario.faults[k].known

\* The pen reads its ports before it looks for a cancellation, kitting after.
Early ==
    IF scenario.cell = "pen" /\ Unread THEN "error"
    ELSE IF CancelBefore THEN "CANCELLED"
    ELSE IF Raises THEN "error" ELSE Undecided

Enter ==
    /\ final = Undecided /\ step = 0
    /\ IF Early # Undecided
       THEN Finish(Early) /\ UNCHANGED <<device, applied>>
       ELSE LET armed == {FirstAdapter(scenario.faults[k].target) : k \in Due}
                devices == [a \in Adapters |-> IF a \in armed THEN [device[a] EXCEPT !.armed = TRUE]
                                               ELSE device[a]]
            IN  /\ applied' = applied \cup Due
                /\ IF Work[Element.leaf] = <<>> THEN Propagate(Verdict, devices)
                   ELSE device' = devices /\ Move(position, attempt, 1) /\ UNCHANGED final
    /\ UNCHANGED <<scenario, mocks, board, results>>

-----------------------------------------------------------------------------
\* Commands.

Commanding == final = Undecided /\ step > 0
Result(outcome) == results' = Append(results, [at |-> position, step |-> step, outcome |-> outcome])

\* A cycle needs the program selected before, and every operation a ready device.
Refused == device[Adapter].mode # "READY" \/ (Contract = "cycle" /\ ~prepared)

Request ==
    /\ Commanding
    /\ device[Adapter].mode # "BUSY"
    /\ IF Refused
       THEN Result("refused") /\ Propagate("FAILURE", device)
       ELSE /\ device' = [device EXCEPT ![Adapter].mode = "BUSY"]
            /\ UNCHANGED <<place, final, results>>
    /\ UNCHANGED <<scenario, mocks, board, applied>>

\* What the operation comes to: an injected fault first, then the device.
Outcome ==
    CASE device[Adapter].armed -> "fault"
      [] Contract = "cycle" -> scenario.cycle
      [] Contract = "locate" /\ ~scenario.present -> "fault"
      [] Contract = "verify" /\ ~scenario.seated -> "fault"
      [] OTHER -> "ok"

Mode(outcome) == CASE outcome = "ok" -> "READY" [] outcome = "fault" -> "FAULT" [] OTHER -> "UNKNOWN"

Effect ==
    /\ jaw' = CASE Contract = "open" -> "open" [] Contract = "close" -> "closed" [] OTHER -> jaw
    /\ clamped' = (Contract = "clamp" \/ (clamped /\ Contract # "release"))
    /\ prepared' = (prepared \/ Contract = "select")

Noted ==
    [keys |-> board.keys \cup Element.writes,
     accepted |-> IF Contract = "inspect" THEN scenario.accepted ELSE board.accepted]

\* Mutant: the second command of a leaf is sent whatever the first came to.
LeafGoesOnRegardless(outcome) == step < Len(Work[Element.leaf])
LeafGoesOn(outcome) == outcome = "ok" /\ step < Len(Work[Element.leaf])

\* An inspection that was made still has to be passed; only the process says
\* that its outcome is unknown.
LeafStatus(outcome) ==
    CASE outcome = "ok" -> IF Contract = "inspect" /\ ~scenario.accepted THEN "FAILURE" ELSE "SUCCESS"
      [] outcome = "unknown" -> "OUTCOME_UNKNOWN"
      [] OTHER -> "FAILURE"

Operate ==
    /\ Commanding
    /\ device[Adapter].mode = "BUSY"
    /\ LET outcome == Outcome
           devices == [device EXCEPT ![Adapter] = [mode |-> Mode(outcome), armed |-> FALSE]]
       IN  /\ Result(outcome)
           /\ IF outcome = "ok" THEN Effect /\ board' = Noted ELSE UNCHANGED <<mocks, board>>
           /\ IF LeafGoesOn(outcome)
              THEN Move(position, attempt, step + 1) /\ device' = devices /\ UNCHANGED final
              ELSE Propagate(LeafStatus(outcome), devices)
    /\ UNCHANGED <<scenario, applied>>

\* The deadline of the scenario cancels the job, in the middle of an operation.
ScenarioTimeout ==
    /\ Commanding
    /\ device[Adapter].mode = "BUSY"
    /\ Finish("FAILURE")
    /\ UNCHANGED <<scenario, device, mocks, board, applied, results>>

HeadlessNext == Enter \/ Request \/ Operate \/ ScenarioTimeout

HeadlessSpec == HeadlessInit /\ [][HeadlessNext]_headlessVars

-----------------------------------------------------------------------------
\* Properties.

\* Before event k the commands of element i were all carried out, one after the other, in one
\* attempt that was the last.
Size(i) == Len(Work[scenario.tree[i].leaf])

Whole(i, k) ==
    \E p \in 0..(k - 1 - Size(i)) :
       /\ \A s \in 1..Size(i) : results[p + s] = [at |-> i, step |-> s, outcome |-> "ok"]
       /\ \A q \in (p + Size(i) + 1)..(k - 1) : results[q].at # i

Done(i) == Whole(i, Len(results) + 1)

\* No device is commanded for a leaf before everything ahead of it in the tree has been done; a
\* job succeeds only when all of it has, with an accepted inspection, the tray released and the
\* gripper empty; and an unknown outcome is the last thing that happens, and is what is reported:
\* whatever was injected into which device, and retried.
OutcomeIsEarned ==
    /\ \A k \in DOMAIN results : \A i \in 1..(results[k].at - 1) : Whole(i, k)
    /\ final = "SUCCESS" =>
          /\ \A i \in DOMAIN scenario.tree : Done(i)
          /\ board.accepted /\ jaw = "open" /\ ~clamped
    /\ \A k \in DOMAIN results : results[k].outcome = "unknown" =>
          k = Len(results) /\ final = "OUTCOME_UNKNOWN"

\* The invariant behind it.
Does(i, contract) == Sends(scenario.tree[i].leaf, contract)

\* After the first m elements: something was grasped, or clamped, and not let go of since.
Pending(m, take, leave) ==
    \E i \in 1..m : Does(i, take) /\ \A j \in (i + 1)..m : ~Does(j, leave)

Grasped(m) == jaw = "open" \/ Pending(m, "close", "open")
Held(m) == ~clamped \/ Pending(m, "clamp", "release")

Performed(m) ==
    /\ \A i \in 1..m : Done(i)
    /\ (\E i \in 1..m : Does(i, "inspect")) => board.accepted /\ scenario.accepted

\* The commands of the leaf at work, so far.
Begun ==
    \E n \in 0..Len(results) :
       /\ Len(results) = n + step - 1
       /\ \A s \in 1..(step - 1) :
             /\ results[n + s] = [at |-> position, step |-> s, outcome |-> "ok"]
             /\ Work[Element.leaf][s] = "open" => jaw = "open"
             /\ Work[Element.leaf][s] = "release" => ~clamped

Ordered ==
    /\ position \in DOMAIN scenario.tree
    /\ step \in 0..Len(Work[Element.leaf])
    /\ jaw \in {"open", "closed"} /\ clamped \in BOOLEAN
    /\ results \in Seq([at : 1..position, step : Nat, outcome : {"ok", "fault", "unknown", "refused"}])
    /\ Performed(position - 1)
    /\ Grasped(position - 1) \/ Does(position, "close")
    /\ Held(position - 1) \/ Does(position, "clamp")
    /\ final = Undecided /\ step > 0 => Begun
    /\ final = "SUCCESS" =>
          position = Len(scenario.tree) /\ Performed(position) /\ Grasped(position) /\ Held(position)
    /\ OutcomeIsEarned

HeadlessIInv == scenario \in Scenarios /\ Ordered

\* A fault that was injected is felt by some command: not true of the camera, whose faults all go
\* to the locator, also those meant for the inspection.
InjectedIsFelt ==
    final = "SUCCESS" => \A a \in Adapters : ~device[a].armed
=============================================================================
