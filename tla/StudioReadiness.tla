--------------------------- MODULE StudioReadiness ---------------------------
(***************************************************************************)
(* What a session is told about its project: the readiness report, which   *)
(* validates the buffers in a copy of the directory, and scenarios, which  *)
(* run on the buffers, leave evidence with somebody's help and are         *)
(* replayed from it.  None of it changes a source of the project.          *)
(***************************************************************************)
EXTENDS CellDocuments

CONSTANTS Surroundings, \* what the cell refers to and no editor of CellDocuments writes:
                        \* [scenarios, profiles]
          Safety,       \* the instances whose IDs say that they model the safety system
          Backends,     \* what a caller says of its backend: [available, observed, proven],
                        \* proven being Isaac Sim, a CUDA GPU and PhysX
          MaxRecords, MaxWatched \* bounds: evidence, edits once something was run or reported

ASSUME NoReportAssumption == None \notin {"pass", "advisory"}
ASSUME SurroundingsAssumption == \A s \in Surroundings : s.scenarios \in Seq(ToSet(s.scenarios))

VARIABLES
    around,  \* scenarios, a sequence of [id, readable, requested, faults, expects], with
             \* at most one fault at a step, and profiles, a set of [fidelity, configuration]
    records, \* the documents in evidence/
    ran,     \* the last execution's document
    replayed,
    report   \* the overall status on the screen

readinessVars == <<around, records, ran, replayed, report>>
studioVars == <<disk, working, saved, undo, redo, shown, now, edits, typed,
                around, records, ran, replayed, report>>

Fidelities == {"L0", "L1", "L2", "L3"}

\* Any other text ranks lowest.
Rank(fidelity) ==
    CASE fidelity = "L1" -> 1 [] fidelity = "L2" -> 2 [] fidelity = "L3" -> 3 [] OTHER -> 0

StudioInit ==
    /\ Init
    /\ around \in Surroundings
    /\ records = {}
    /\ ran = None /\ replayed = None /\ report = None

-----------------------------------------------------------------------------
\* Scenarios.  A run steps through the workflow; it simulates nothing.

Steps == <<"vision.locate", "motion.pick", "gripper.close", "motion.load", "fixture.seat",
           "fixture.clamp", "process.select", "process.cycle", "fixture.release",
           "vision.inspect", "motion.unload">>

Setup == {"at_setup", "init"}

Stopping == {"laser.process.timeout", "fixture.sensor.seating_failed",
             "vision.inspection.mismatch", "motion.plan.collision", "simulation.pen.dropped"}

Tripped(faults) == \E f \in faults : f.at \in Setup /\ f.fault = "safety.trip"
Stops(faults) == {n \in DOMAIN Steps : \E f \in faults : f.at = Steps[n] /\ f.fault \in Stopping}

StatusOfRun(faults) == IF Tripped(faults) \/ Stops(faults) # {} THEN "FAILED" ELSE "SUCCESS"

StepsDone(faults) ==
    IF Tripped(faults) THEN 0
    ELSE IF Stops(faults) # {} THEN Min(Stops(faults)) - 1 ELSE Len(Steps)

\* The types of the events of a run.
Events(faults, requested) ==
    {Steps[n] : n \in 1..StepsDone(faults)}
    \cup (IF StatusOfRun(faults) = "SUCCESS"
          THEN {"job.completed"} \cup (IF requested = "L2" THEN {"fixture.seating.true"} ELSE {})
          ELSE IF Tripped(faults) THEN {"safety.fault.tripped"}
          ELSE {f.fault : f \in {g \in faults : g.at = Steps[Min(Stops(faults))]
                                                  /\ g.fault \in Stopping}})

\* expects: [status, required, forbidden]
Met(expects, status, events) ==
    /\ status = expects.status
    /\ expects.required \subseteq events
    /\ expects.forbidden \cap events = {}

\* The fidelity the caller names must be that of the scenario or a higher one,
\* and L2 must be proven.
Admitted(requested, available, proven) ==
    /\ Rank(available) >= Rank(requested)
    /\ requested = "L2" => proven

\* Besides, a run that a fault has stopped has not passed, whatever it expects.
Execution(scenario, faults, available, contents) ==
    LET status == StatusOfRun(faults)
        events == Events(faults, scenario.requested)
    IN  [id |-> scenario.id, status |-> status, events |-> events,
         achieved |-> available, expects |-> scenario.expects,
         passed |-> Met(scenario.expects, status, events)
                    /\ (Stops(faults) = {} \/ Tripped(faults)),
         cell |-> contents.cell, scene |-> contents.scene]

\* The first declared scenario of that name that can be read.
Found(id) ==
    LET named == {n \in DOMAIN around.scenarios :
                     around.scenarios[n].readable /\ around.scenarios[n].id = id}
    IN  IF named = {} THEN None ELSE around.scenarios[Min(named)]

\* Nothing is written.
ExecuteScenario ==
    /\ Open
    /\ \E n \in DOMAIN around.scenarios, injected \in BOOLEAN, backend \in Backends :
        LET scenario == Found(around.scenarios[n].id)
            faults == IF injected THEN scenario.faults \cup
                                       {[at |-> "process.cycle", fault |-> "laser.process.timeout"]}
                      ELSE scenario.faults
        IN  /\ scenario # None
            /\ Admitted(scenario.requested, backend.observed, backend.proven)
            /\ ran' = Execution(scenario, faults, backend.observed, working)
    /\ UNCHANGED <<disk, working, saved, undo, redo, shown, now, edits, typed,
                   around, records, replayed, report>>

\* Somebody stores the document of the last run with the project's evidence.
RecordEvidence ==
    /\ ran # None /\ Cardinality(records) < MaxRecords
    /\ records' = records \cup {ran}
    /\ UNCHANGED <<disk, working, saved, undo, redo, shown, now, edits, typed,
                   around, ran, replayed, report>>

\* A replay counts the recorded events again, and asks for the assertions it is
\* given.
ReplayEvidence ==
    /\ Open
    /\ \E record \in records, given \in BOOLEAN :
        LET matched == ~given \/ Met(record.expects, record.status, record.events)
        IN  replayed' = [matched |-> matched, passed |-> matched /\ record.passed]
    /\ UNCHANGED <<disk, working, saved, undo, redo, shown, now, edits, typed,
                   around, records, ran, report>>

-----------------------------------------------------------------------------
\* The report: findings, each with the status it gets.

\* Sources are validated in a copy of the directory with the buffers in it.
Staged == Written(working)

Finding(code, found) == IF found THEN {code} ELSE {}

InspectFindings ==
    LET declared == [Staged EXCEPT !.files = [f \in Files |->
                        IF f \in Staged.cell.calibrations THEN Staged.files[f] ELSE Absent]]
    IN  Finding("scene-mismatch", ~Paired(Staged.cell, Staged.scene))
        \cup Finding("calibration-invalid", ~CalibrationsValid(declared))

\* What the resolver says, and the assets of what it found.
ComponentFindingsShown ==
    LET components == Staged.cell.components
        modeled == {i \in Safety \cap DOMAIN components : components[i].configuration = "modeled_only"}
        resolver(i) == ComponentFindings(components, i, "simulation")
                       \ Finding("adapter-missing", i \in modeled)
    IN  {f[2] : f \in RegistryFindings}
        \cup (UNION {resolver(i) : i \in DOMAIN components})
        \cup (UNION {LinkFindings(components, Staged.cell.links, n) :
                      n \in DOMAIN Staged.cell.links})
        \cup (UNION {TaskFindings(components, Tasks, n, "simulation") : n \in DOMAIN Tasks})
        \cup Finding("asset-missing",
                \E i \in DOMAIN components :
                    Package(components[i].type) # None /\ ~Package(components[i].type).asset)

\* Trees of nodes that only the runtime knows are left to the runtime.
TreeFindings(source) ==
    IF source = Absent THEN {"tree-missing"}
    ELSE LET known == {n \in source.nodes : NodePorts(n.type) # None}
         IN  Finding("node-unknown", known # source.nodes)
             \cup Finding("tree-invalid", \/ \E n \in known : ~NodeValid(source.nodes, n)
                                          \/ \E n \in known : n.type = "ExecuteProcess" /\ n.retried)

TasksFound ==
    LET found == UNION {TreeFindings(Staged.files[Tasks[n].tree]) : n \in DOMAIN Tasks}
    IN  IF found = {"node-unknown"} THEN {"runtime-contract-only"}
        ELSE found \cup Finding("task-missing", Tasks = <<>>)

RecipeFindings ==
    LET recipes == ToSet(Staged.cell.recipes)
    IN  Finding("recipe-invalid",
            \E file \in recipes : \/ Staged.files[file] = Absent
                                  \/ ~RecipeValid(Staged.cell, Staged.files[file]))
        \cup Finding("recipe-missing", recipes = {})

ScenarioFindings ==
    Finding("scenario-unreadable", \E n \in DOMAIN around.scenarios : ~around.scenarios[n].readable)
    \cup Finding("scenario-missing", around.scenarios = <<>>)

\* A profile of the fidelity asked for, and each of them configured.
DeploymentFindings(requested) ==
    LET matching == {p \in around.profiles : p.fidelity = requested}
    IN  Finding("adapter-profile-unavailable", matching = {})
        \cup Finding("adapter-configuration-unusable",
                     \E p \in matching : p.configuration # "usable")

\* Mutant: the evidence is compared with the sources on the disk.
EvidenceOfDisk ==
    Finding("evidence-missing", records = {})
    \cup Finding("evidence-stale", \E r \in records : r.cell # disk.cell)

\* Only the hash of cell.yaml is compared.
EvidenceFindings ==
    Finding("evidence-missing", records = {})
    \cup Finding("evidence-stale", \E r \in records : r.cell # Staged.cell)

FidelityFindings(requested, backend) ==
    Finding("fidelity-unavailable",
        \/ ~backend.available
        \/ Rank(requested) > Rank(backend.observed)
        \/ Rank(requested) >= 2 /\ ~backend.proven)

\* The calibration and safety advisories are always there.
SourceFindings ==
    InspectFindings \cup ComponentFindingsShown \cup TasksFound \cup RecipeFindings
    \cup ScenarioFindings \cup EvidenceFindings \cup {"calibration-review", "safety-review"}

StatusOf(finding) ==
    IF finding \in {"runtime-contract-only", "evidence-missing", "calibration-review",
                    "safety-review"} THEN "advisory"
    ELSE IF finding \in {"adapter-mode-incompatible", "adapter-profile-unavailable",
                         "adapter-configuration-unusable", "fidelity-unavailable"}
         THEN "unavailable" ELSE "blocked"

Overall(findings) ==
    LET statuses == {StatusOf(f) : f \in findings}
    IN  IF "blocked" \in statuses THEN "blocked"
        ELSE IF "unavailable" \in statuses THEN "unavailable"
        ELSE IF "advisory" \in statuses THEN "advisory" ELSE "pass"

EvaluateReadiness ==
    /\ Open
    /\ LET found == SourceFindings
       IN  \E requested \in Fidelities, backend \in Backends :
              \/ report' = Overall(found \cup DeploymentFindings(requested)
                                         \cup FidelityFindings(requested, backend))
              \/ report' = "unavailable" \* a service raised
    /\ UNCHANGED <<disk, working, saved, undo, redo, shown, now, edits, typed,
                   around, records, ran, replayed>>

-----------------------------------------------------------------------------

\* A project that was opened or saved takes the report and the results off the
\* screen, an invalid one the report alone.  Edits, undo and redo leave both.
Cleared ==
    /\ report' = None
    /\ IF working' = None THEN UNCHANGED <<ran, replayed>> ELSE ran' = None /\ replayed' = None
    /\ UNCHANGED <<around, records>>

\* Typing takes the report alone.
Reported == report' = None /\ UNCHANGED <<around, records, ran, replayed>>

Watched == ran # None \/ report # None \/ records # {}

StudioNext ==
    \/ (Watched => edits < MaxWatched) /\ Editing /\ UNCHANGED readinessVars
    \/ (Watched => edits < MaxWatched) /\ Typing /\ Reported
    \/ (Undo \/ Redo \/ Tick) /\ UNCHANGED readinessVars
    \/ (OpenProject \/ SaveProject) /\ Cleared
    \/ edits <= MaxWatched
       /\ (ExecuteScenario \/ RecordEvidence \/ ReplayEvidence \/ EvaluateReadiness)

StudioSpec == StudioInit /\ [][StudioNext]_studioVars

-----------------------------------------------------------------------------
\* Properties.

Ready == report \in {"pass", "advisory"}

\* What opening would load, were the buffers on the disk.
StagedLoaded ==
    [Staged EXCEPT !.files = [f \in Files |-> IF f \in CalibrationFiles \ Staged.cell.calibrations
                                              THEN Absent ELSE Staged.files[f]]]

OnlyRuntimeKnows ==
    \E n \in DOMAIN Tasks : \E node \in Staged.files[Tasks[n].tree].nodes :
        NodePorts(node.type) = None

\* Ready means that the buffers, written to the disk, would open again, but for
\* trees of nodes that only the runtime knows, that the simulation resolves
\* and has a scenario, and that nothing on record was run on another cell: the
\* readiness panel and the project service are two validators of one project.
ReadyOpens ==
    [][Ready' /\ report' # report =>
          /\ Valid(StagedLoaded) \/ OnlyRuntimeKnows
          /\ \A n \in DOMAIN Tasks : TaskFindings(Staged.cell.components, Tasks, n, "simulation") = {}
          /\ \E n \in DOMAIN around.scenarios : around.scenarios[n].readable
          /\ \A r \in records : r.cell = Staged.cell]_studioVars

\* Not so: a report stays on the screen while the editors change the buffers.
ReadyIsCurrent == Ready => Valid(StagedLoaded) \/ OnlyRuntimeKnows
=============================================================================
