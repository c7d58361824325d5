# CellForge: a TLA+ verification project

CellForge runs physical work cells. A job arrives over a ROS 2 action, is frozen
against an immutable bundle, recorded durably, and executed by a behaviour tree
that drives device adapters. The bundle itself comes from a project that is edited
in Studio, approved on a platform, compiled, and installed by an agent. This
directory holds TLA+ models of the parts of that system in which concurrency, failure and ordering decide whether it is
right, the TLC runs that check them, and TLAPS proofs of what matters most.
`PROJECT.json` is the index: components, runs, hazards, theorems, and for every
definition the source lines it stands for.

    tlc -workers 2 -config JobGateway.cfg MCJobGateway    # one run
    tlapm JobGatewayProofs.tla                            # one set of proofs

Paths below are relative to the repository root; `ros/` abbreviates
`ros_ws/src/`.

## 1. Inventory

### The path of a job

    operator API --RunJob--> job gateway --ExecuteFrozenJob--> supervisor
                                |                                 |  one behaviour tree
                             SQLite store                         v
                                                       skill and pen leaves
                                                                  |  device actions
    state aggregator <--DeviceState-- device nodes <--------------+
         |  ^
         v  |  /cell/state, /cell/supervisor_state
      supervisor                      trace recorder <--JobEvent-- supervisor

### Components

| Component (source) | State | Operations | What makes it correct | Hard behaviour | Model |
|---|---|---|---|---|---|
| Job gateway (`ros/cellforge_job_gateway`) | a coroutine per goal; the `jobs` table (request hash, status, result); action handles on both sides | accept, execute (freeze, prepare, forward, finish, reply), cancel, deadlines, restart reconciliation | a key is dispatched once, has one outcome for ever, and every client is told that one | awaits between all steps; duplicate deliveries; crash of either process; sqlite errors; deadline against a late result | `JobGateway` |
| Cell supervisor (`ros/cellforge_supervisor`) | `job_active_`, `cancel_requested_`, `pending_goal_handle_`, `cell_ready_`; the worker's job; published state and events | goal, accepted, cancel and cell-state callbacks; worker loop; shutdown | one job at a time; the right job is cancelled; events precede the acknowledgement; every goal ends | two threads meeting in atomics; a flag shared by all goals; terminal calls that throw | `Supervisor` |
| State aggregator (`ros/cellforge_state_trace`: aggregator, state_logic) | last report and age of every device, safety, supervisor state | subscriptions, periodic publication | lost devices or safety close the cell, a healthy cell opens | stale data, a feedback loop over lossy bounded topics | `CellReadiness` |
| Device SDK and mock device node (`ros/cellforge_device_sdk`, `ros/cellforge_mock_adapters`) | snapshot state, active context, cancellation token, operation task; executor threads; asyncio loop | accept, execute, cancel, deadline, heartbeat, restart | one command at a time; an unproven outcome blocks the device; every command ends | threads against an event loop; cancel against completion against deadline; a heartbeat that writes the snapshot without a lock | `DeviceNode` |
| Skill and pen leaves (`supervisor_nodes.cpp`, `ros/cellforge_pen_bt_nodes`) | goal handle, result and cancel flags under a mutex, deadline; blackboard | start, tick, halt, response and result callbacks | the command of a leaf that is left is cancelled; an unproven process is flagged; only an inspected part is recorded | callback against tick against halt; silent or dying servers | `PenTree` |
| Motion service (`ros/cellforge_motion`) | `active_goal_`, scene revision, a planning thread per goal, the controller and the robot adapter | move, manipulate, synchronise, cancel, shutdown | one motion at a time; success only as observed; no answer while the controller moves | three threads, a stop token, a deadline | `MotionNode` |
| Operator API (`ros/cellforge_operator_api`), runtime coordinator | audit journal, goal handles, displayed job, thread pool | submit, cancel, recover | the journal is true; certain outcomes are final; threads return | coroutine deadline against thread against cell; a failing journal | `OperatorApi` |
| Headless executors (`ros/cellforge_mock_adapters`: kitting, headless, core, devices, scenarios) | element, attempt and command of the tree; adapters with an armed fault; blackboard; events | load, enter a leaf, command, retry, time out | a job ends no better than its commands did | faults armed in one adapter and raised by whatever it does next; retries that make adapters ready | `HeadlessCell` |
| Simulation services (`ros/cellforge_simulation`) | the stage, its pen, events of a run, the report; for the mocks, injected faults | configure, device commands, report; load, step, inject | evidence is of the scenario it is claimed for, and none is lost | worker thread against a Kit loop that may be late | `IsaacL2`, `ScenarioRunners` |
| Bundle agent (`python/cellforge_bundle`: agent) | release directories, `current` link, environment, state file, journal, systemd target | install, rollback, prepare-active, status | what is selected is intact, what is reported and recorded is what runs | a crash between two steps; a failing rollback; the unlocked boot-time projection | `BundleAgent` |
| Bundle compiler and assembly (`python/cellforge_bundle`: compiler, assembly) | the output directory | compile, assemble | a signed bundle is accepted; verified evidence has its approvals | files edited between two reads; snapshots nobody issued | `ReleaseCompiler`, `ReleasePipeline` |
| Qualification (`python/cellforge_bundle`: qualification, `scripts/verify_software_release_qualification.py`) | the evidence directory, keys, the report | read the revision, run the gates, judge | what qualifies is what was tested | gates read the project again; two invocations in one directory | `Qualification` |
| Platform server (`python/cellforge_platform`) | registries, approvals, snapshots, blobs, audit log in one SQLite file | publish, vote, snapshot | answers are durable; approvals take effect | several commits per handler, commits that fail, crashes | `PlatformServer` |
| Studio, the project directory (`kit/cellforge.studio`: application, project_service, schema_authoring, readiness) | buffers, undo and redo, reviewed candidates, recovery journal | open, create, edit, undo, redo, save, recover | a save is atomic; what is shown as saved is; reviews are fresh | crash in a transaction; file errors; other tools | `StudioProject`, `AtomicProject` |
| Studio, the documents (component, connection, spatial, task and recipe services, scene editor, component registry and resolver) | cell, scene, staged trees, recipes and calibrations | place, remove, connect, transform, configure, calibrate, set a tree, work on recipe versions, type a document over | cell and scene stay linked; approved content never changes; what was saved opens again | any order of edits, undos and saves | `CellResolver`, `CellDocuments` |
| Studio, scenarios and readiness (readiness, scenario_service) | scenarios, evidence, the report on the screen | run, record, replay, evaluate | ready means that it opens and was tested | two validators of one project | `StudioReadiness` |
| Studio, guided projects (guided_launcher, `cellforge_cli` projects) | templates, drafts, the preview on the screen | propose, preview, confirm, write | only what was reviewed is written, and only where nothing is | the candidate is built again at every step, from files others edit | `GuidedProjects`, `StudioSession` |
| Hardware adapters, safety status node (`ros/cellforge_hardware_adapters`) | as the device node, under a single-threaded executor | as the device node | as the device node | a blocked executor thread | not modelled |
| Trace recorder and store | event table, next sequence number | record, query | dense, unique sequence | a failed commit | not modelled |
| Domain models, CLI, tree validation, deployment panel, scripts | none that outlives a call | | pure functions | none | not modelled |

The interactions are ROS 2 actions (gateway to supervisor, leaves to device
nodes), reliable topics that keep their last ten messages (states and events),
shared memory between the threads of one process, and files: a release goes from
Studio's project directory through the compiler and the assembly to the agent of a
cell, with the platform's evidence beside it.

## 2. Modules

| Module | Role |
|---|---|
| `JobService` | abstract: what the gateway promises. A key is bound once, dispatched at most once, resolved once. |
| `ActionServer` | abstract: a ROS 2 action server as its clients may rely on it, process death included. |
| `JobGateway` | the gateway's coroutines and store; *implements* `JobService`, *assumes* `ActionServer` of the supervisor |
| `Supervisor` | the supervisor's two threads; *implements* `ActionServer` |
| `DeviceNode` | a device node's threads, loop and adapter; *implements* `ActionServer` |
| `CellReadiness` | aggregator and supervisor in their readiness loop |
| `PenTree` | the behaviour tree's leaves against the action servers; *assumes* `ActionServer` |
| `MotionNode` | the motion service's threads; *implements* `ActionServer` |
| `OperatorApi` | requests of the operator API; *assumes* `ActionServer` of the gateway |
| `IsaacL2` | the simulated cell in a Kit process, and its acceptance client |
| `HeadlessCell` | a job of the kitting or the pen tree against the mock devices |
| `ScenarioRunners` | the two of them: a scenario is run headless or on the stage |
| `BundleAgent` | install, rollback and boot on a cell |
| `AtomicProject` | abstract: what the recovery journal promises of a project directory |
| `StudioProject` | a Studio session and its transactions; *implements* `AtomicProject` |
| `GuidedProjects`, `StudioSession` | guided projects; the session that edits one project and proposes others |
| `CellResolver`, `CellDocuments` | pure: registry and resolver of a cell; on it, the documents a session edits |
| `StudioReadiness` | readiness report, scenarios and evidence over `CellDocuments` |
| `PlatformServer`, `ReleaseCompiler`, `Qualification` | the platform; compiler and assembly; the qualification suite |
| `ReleasePipeline` | server and compiler composed through the snapshots the one issues and the other reads, with the qualification beside them |
| `MC*` | constants for TLC |
| `*Proofs` | theorems; `CellProofs` has those of five parts of a cell, `CellReadiness`, `PenTree`, `OperatorApi`, `HeadlessCell` and `IsaacL2`, `ReleasePipelineProofs` those of the pipeline and of `BundleAgent` at its end. For this these modules prefix what would collide (`treeVars`, `ApiSpec`, `AgentTypeOK`) |

The chain of a job is compositional. `JobGateway` instantiates `ActionServer` for the
environment's steps (`RemoteStep` takes one of its actions for a goal), and
`Supervisor` is shown to refine the same specification, so that what the one
relies on is what the other provides. `PenTree` assumes of motion and device
servers what `MotionNode` and `DeviceNode` are shown to provide, `OperatorApi` of the
gateway what the gateway is given by rclpy.

### JobGateway (`job_gateway/node.py`, `core.py`)

One action per stretch between two awaits of `_execute` and `_forward`. `pc` is
the await a coroutine stands at, `rows` the jobs table, `remote` and `answer`
the goal as the supervisor sees it. The store's transactions are single steps
because `SqliteJobStore` holds its lock over each. `Prepare` is freeze,
`store.prepare` and the branch on its decision; `Crash` loses all coroutines but
no row; `Restart` chooses the bundle the process comes up on, `Reconcile`
commits row by row as the code does, and only then does `Serve` take goals.
A freeze is reduced to its verdict and hash: `Freezes` says which requests a
bundle accepts, and the hash is the pair of both. The supervisor's codes are four
classes: completed, cancelled, outcome unknown, and `supervisor.job.failed` for
every other failure, of which the gateway makes no difference.

### Supervisor (`supervisor_node.cpp`)

`executor` is the callback in progress (the callbacks share one mutually
exclusive group), `wpc` the statement the worker thread stands at. A step ends
wherever the other thread can see the difference: the exchange on
`job_active_`, the reset of the flag and the store of the pending goal in
`handleAccepted`, the two stores of `finishGoalSlot`, the terminal call. The
accepted cancel is two steps because rclcpp moves the goal to CANCELING after
`handleCancel` has returned (`CancelGoal`). `Conclude` throws, and the process
terminates, when `canceled()` is called in any other state; `abort()` after the
ROS context is shut down is assumed not to throw. The tree is one hazardous
leaf; a tick runs, succeeds, fails (perhaps with `process_outcome_unknown`) or
throws. A goal that `handleGoal` rejects changes nothing and is no step.

### CellReadiness (`aggregator.py`, `state_logic.py`, `supervisor_node.cpp`)

`PublishCellState` is the whole timer callback: evaluate required devices,
safety, faulted and busy flags, then let the supervisor's own execution state
override the result. The supervisor's half is `onCellState`, the single read of
`cell_ready_` in `executeGoal` and the states a job publishes. Ages are
abstracted to fresh and stale: an entry may go stale at any time and a report
refreshes it.

### DeviceNode (`mock_adapters/ros_node.py`, `device_sdk/adapter.py`)

`pc` follows a goal through the executor thread (queued, registered,
submitted), through `execute()` on the loop (waiting, woken, cancelling or
expiring, leaving) and back. `loop` is the queue of coroutines handed to
asyncio. `Wake` is separate from `Resume`, as `asyncio.wait` returns in a later
turn than the one in which a task ended, and operation, token and deadline may
all fire in between. The window in which READY is published while
`_active_context` is still set (`leaving`) is kept. All of the adapter's state lives on the
loop but the published snapshot (`device`): the heartbeat timer reads it on a thread of the
executor (`HeartbeatRead`) and writes a copy back (`HeartbeatWrite`), and what the loop published
in between is lost. `beat` is the state it has read; its callback group runs one at a time. rclpy's behaviour is
modelled from how the code uses it: an accepted cancel moves the goal to
CANCELING after the callback, if it can, and a callback that raises aborts the
goal with an empty result. Assumed: `request_cancellation()` returns and a
cancelled operation ends, as in every adapter of the repository; each goal has
its own command ID. `Provable` are the commands whose cancellation the device
can confirm (mocks: all of them; the base class: none).

### PenTree (`supervisor_nodes.cpp`, `pen_nodes.cpp`, `typed_action_node_impl.hpp`)

One attempt of a leaf is a goal of an action server. `Tick`, `Halt` and the two
client callbacks (`GoalResponse`, `ResultCallback`) are the critical sections of the
leaf's mutex; the cancel that a leaf owes to a goal whose response is still on
its way is sent by the response callback, as in the code. `Tree` is a sequence of leaves
with retries, as in `examples/pen_engraving/behavior_tree.xml`; conditions and
records between the actions belong to the tick that passes them. The payload of a
result is its verdict. `command`, `reported` and `stopping` are the goal as the leaf's client holds it,
`serving` what the server does with it.

### MotionNode (`motion_node.cpp`, `motion_service.cpp`, `moveit_planner.cpp`)

Three actors per goal: the callbacks, the detached caller thread in `run()`, and
the planning thread it starts. `Caller` polls cancel and deadline, `Worker` walks
through plan, controller and robot adapter under the planner's mutex, `Expire` is
the clock. The stop token is `stop`, read where the code reads it. `Direct` is the
variant that executes in the simulator (`executeInIsaac`), `PlanOnly` the goals
that do not execute.

### OperatorApi (`core.py`, `runtime.py`, `api.py`, `coordinator.py`)

`http` is the coroutine of a request, `thread` the worker that runs the blocking
call of `RosRuntimePort`, `goal` and `call` what the cell holds of it. A coroutine that
gives up answers and sets the cancel event; the thread notices between its
waits. The audit journal is a sequence per request, of which any append may
fail; `handles` and `display` are the process's dictionaries of goal handles and of
the active job shown.

### IsaacL2 (`l2_ros_node.py`, `l2_runtime.py`, `run_isaac_l2_runjob_acceptance.py`)

`executor` is the one ROS callback in progress, `kit` the closures handed over to the Kit
loop, which may take them after the callback's timeout has passed. `client` is the
acceptance script, which repeats a configure request until it sees its event and
then runs one job per scenario of `Script`. `Plan` is the order of device commands
of a job. What the simulator does is what the stage holds: pen, products, events.

### HeadlessCell and ScenarioRunners (`kitting.py`, `headless.py`, `core.py`, `devices.py`)

`position`, `attempt` and `step` are the stack of `_execute_element`: the leaf, its try and the
command it waits for. `Enter` is `_leaf` up to the handler: cancellation, scheduled faults, ports.
`Request` is the adapter's refusal or acceptance of a command and `Operate` its
end; between them the deadline of the scenario may fall (`ScenarioTimeout`), since nothing
else in the executor suspends. `Propagate` takes the status of a leaf up through retry and sequence;
`results` is what the commands came to, in order.
`device` says of every adapter its mode and whether a fault is armed. The kitting project is
loaded first (`Loadable`, `Bound`); a scenario that is not loaded ends in `error`. Trees are
sequences, as both are in the repository, and `AreScenarios` says what the two have in common:
what a leaf grasps or clamps, a later one lets go of, and there is an inspection. `ScenarioRunners` puts the executors beside the L2
runner, with which they share no state.

### BundleAgent (`agent.py`, the systemd units)

One action per call that reaches the disk, systemd or the runtime, in the order of
the code; each may raise before or after it took effect, and the agent may die
between any two. `link` and `env` are two pieces of state that the code changes one
after the other and that a reboot reads apart: the agent selects with the link, the runtime runs
what the environment names. `journal` and `state` are the files the agent reads
back. `runtime.env` and the secrets file are written together and are one variable.

### StudioProject and AtomicProject (`application.py`, `project_service.py`, `schema_authoring.py`, `guided_launcher.py`)

The session's commands run to their end on the UI thread, so that only the steps of
the transaction are apart from each other: journal, replace file by file, remove the
journal; each may fail, and the process may die before any. `Recover` is the recovery of the next open.
`op` is the command in progress with the files it still has to write or to put back (`todo`).
A source may be edited through the form of its schema: `authoring` is the form with its reviewed edit, the
preview of a merge is validated with the form's values, and a review of a draft counts as an edit.
`AtomicProject` has two actions, all of a save or all of its reversal, and what the
detailed module does to the files is shown to be these. A review's sources are compared when
its save begins and the save then resolves a journal that was left behind, before it writes:
`AsReviewed` follows the sources through that recovery, and what it puts back (`PutBack`)
is the one change `ReviewedIsFresh` allows between review and writing.

### CellResolver, CellDocuments and StudioReadiness (Studio's services)

`CellResolver` has no state: which manifests are registered, which links connect ports of one kind and
fitting directions, which component provides a capability in a mode, and the findings of each.
`CellDocuments` has the three copies a session keeps (`disk`, `working`, `saved`) with undo and
redo, and one action per operation of the services, whose guard is all the service checks. A scene is a prim
per path, a path being the instances from the outermost to its own, so that a snap moves a subtree. Recipes are status, evidence and a body;
trees are what the task validator looks at. Saving is one step here, because
`StudioProject` has it in detail, with the other tools that change the directory, saved authoring
candidates and remediations among them. Either document may be typed over at any time
(`EditCellYaml`, `EditSceneUsda`), by any of `CellTexts` and `SceneTexts`, one that cannot be read
among them; `typed` remembers which were, until buffers are loaded anew. A new version of a recipe
is a draft with the caller's `Overrides` laid over it, its identity, version and status
included (`Merged`), in a file that is named after the version it should have been. Two abstractions: what is typed
keeps the tasks of the cell, and all versions of a recipe are in one directory. Of the starters it is assumed
only that they have the shape of a project (`IsProject`). `StudioReadiness` adds `EvaluateReadiness`, which collects the
findings of the panel's own validators, and the life of scenarios: run, recorded, replayed.

### GuidedProjects and StudioSession (`guided_launcher.py`, `projects.py`)

Everything the service computes is computed again from the template's files at each step: `CandidateTree` is
a candidate, `Preview` what the screen shows of it, `ConfirmProjectSave` compares the preview
with a new one before it writes, and other tools may change templates, schemas and destinations in
between. `StudioSession` is a Studio that edits its project or proposes others.

### PlatformServer, ReleaseCompiler, Qualification, ReleasePipeline

`PlatformServer` has one action per commit of a handler, since a commit may
fail and a crash may come between two. `ReleaseCompiler` has one action per read of
the project and per check. `ReleasePipeline` joins them: a snapshot issued by the one
is an argument of the other, any time later. `compile_project` takes any document for a
snapshot, so that `Foreign` ones are tried too, each with the platform's signature, another one or
none, with the platform's public keys or, as by default, without; the signature is verified only
with them (`Unsigned`). Assumed: keys that are passed are the platform's, and nobody forges its signature. `Qualification` has one action per gate,
each with what it reads of the working tree, writes into the evidence directory and may fail at, for
several invocations of the script, and `Finish` is the judgement over the report.

## 3. Runs

| Run | Instance | Shows |
|---|---|---|
| `gateway` | 2 goals on one key, 2 request documents, 2 bundles (one refuses one document), store errors, one crash of the gateway and one of the supervisor; the supervisor may run a job for ever | `DispatchedOnce`, `RepliesAreDurable`, `SuccessIsEarned`; refines `JobService`; `GoalsReturn` |
| `supervisor` | 2 goals, one after or during the other, cancels, readiness changes, deadlines, shutdown | `SlotExclusive`, `EventBeforeAcknowledgement`; refines `ActionServer`; `CancelEndsGoal`, `GoalsConclude` |
| `readiness` | a required and an optional device, topics of depth 1 | `LostDeviceClosesCell`, `HealthyCellOpens`, `FaultLatches` |
| `device` | 2 commands, 2 threads, one provable cancellation, operations that may hang, heartbeats, crash and restart | `ActiveIsWorking`, `UnprovenBlocksDevice`; refines `ActionServer`; `CommandsConclude` |
| `pen_tree` | pick (2 attempts), move, process, inspect; servers that answer anything, nothing, or die | `LeftIsCancelled`, `UnprovenIsFlagged`, `TreeEnds` |
| `motion` | 2 goals, one of them a manipulation; cancel, deadline, shutdown | `AnsweredControllerIsStill`, `SuccessIsObserved`, `MotionsConclude` |
| `operator` | any 2 of a submission, its retry, a cancel and a recovery; 2 threads, one journal failure | `JournalIsTrue`, `AbandonedIsCancelled` |
| `runners` | on the stage: a good scenario and one with a dropped pen, 2 configure requests, 2 abandoned calls; headless: the kitting and the pen tree with any two of 34 scheduled faults, or one fact of the scenario off | `OneRunPerJob`, `SuccessWasObserved`; `OutcomeIsEarned` of `HeadlessCell` |
| `bundle_agent` | 2 compatible bundles, any number of operations, failures, crashes and reboots | `SelectedIsIntact`, `ReportedIsReal` |
| `studio` | 3 files, undo depth 1, 2 edits, one of them through a schema form, 2 failing calls, one crash; guided projects: a template in 4 states, 4 requests for one destination, 2 changes by other tools | `ReviewedIsFresh`, from the review to the transaction that writes it; `AtomicSave` is the refinement of `AtomicProject`; `OnlyReviewed` of `GuidedProjects` |
| `authoring` | a cell of up to 3 instances, links, a task, a recipe of 2 versions, a calibration that expires; 3 edits with undo, redo, saves, cell and scene typed over, overrides that approve a new version or give it another identity; one scenario and one record of evidence | `GraphResolves`, `DiskOpens`, `ImmutableStays`; `ReadyOpens` of `StudioReadiness` |
| `release` | 4 platform calls by an author, a reviewer and an administrator, a refused ballot among them, one failing commit, one crash, one edit, one compile with or without the public keys, of an issued snapshot or another; qualification: 2 invocations sharing a directory, one edit or commit meanwhile, a clean or an edited checkout | `AnsweredIsDurable`, `VerifiedIsApproved`; `QualifiedIsExact` of `Qualification` |

Each property has a mutant in `PROJECT.json`: a plausible error in a modelled
definition under which TLC finds the property violated. The modules hold more
properties than the standing runs check (the type invariants `TypeOK`, `TreeTypeOK`, `ApiTypeOK`, `AgentTypeOK`; the inductive
invariants `IInv`, `TreeIInv`, `ApiIInv`, `AgentIInv`, `HeadlessIInv` (its part `Ordered`); `RunningHoldsSlot`, `LostSafetyClosesCell`,
`OneMotion`, `LeftIsStopped`, `RecordedIsInspected`, `AnsweredIsJournalled`, `CertainIsFinal`, `DisplaySettles`, `WorkersReturn`,
`FaultsTakeEffect`, `NothingLost`, `RecordedIsSelected`, `SavedIsStored`, `TimelineKept`, `ApprovalTakesEffect`, `ReleasedIsKept`, `ProductionFailsClosed`, `SignedIsAccepted`, and `ImplementsServer` of `MotionNode`); they
hold on the same instances and a cfg that names them checks them.

### Bounds, and why they are enough

- Gateway: two goals are a first delivery and a duplicate, or a conflicting
  request, for one key; keys do not interact but through the store's lock. Two
  bundles and two documents give every combination of equal and different
  hash, and one that cannot be frozen. `MaxCrashes` and `MaxOutages` count crashes of the two
  processes; the proofs have any number of goals, keys, bundles and crashes.
- Supervisor: two goals suffice for every sharing of slot, flag and pending
  pointer, because a third is rejected while two are in flight (`SlotExclusive`,
  proved for any number).
- Readiness: topics of depth 1 instead of 10 make overwriting happen at once.
  The proofs hold for every depth.
- Device: two threads instead of four, so that two commands, or a command and a
  cancel, exhaust them. Proved for any number. Crashes are not counted: a lost
  goal never comes back.
- PenTree: one retried leaf shows an attempt outliving its leaf; process and
  inspection are the leaves with rules of their own.
- MotionNode: a second goal meets the first only in `active_goal_` and the planner's mutex;
  `MaxScene` bounds scene changes.
- OperatorApi: `MaxRequests = 2` of the four, so that every pair meets; `InOrder` breaks the symmetry
  between a submission and its retry. `MaxFaults` bounds failing journal writes.
- IsaacL2: `MaxAbandoned` bounds calls that outlive their callback, `MaxConfigures`
  repeated configure requests per scenario, `MaxPhysics` the failures of the simulator.
- HeadlessCell: nothing is counted. The trees are those of the two examples, one with
  places that are retried; two faults are enough for one to be armed and the other to
  be met before it.
- BundleAgent: nothing is counted; two bundles are an old and a new one, which
  also return as each other's predecessor.
- StudioProject: an edited, a created and an untouched file are enough to tell a partial save from a whole one;
  two faults are one in the save and one in its rollback.
- GuidedProjects: `MaxChanges = 2` is a change between two looks of the service, and one back. It shares
  no state with the project being edited, so that one of the two runs at a time.
- CellDocuments: `MaxEdits = 3` is place, connect and remove, or create a version, approve it and
  touch it again; the one starter has an arm that carries a gripper, and two links may be made. The overrides are none, an approval and another identity, the texts the
  starter's cell, the gripper beside the arm, with a scene to match, and a cell that cannot be read. `MaxTime` lets the calibration expire, `MaxVersion` is one version
  beside the first. `MaxWatched` allows one edit once something was run or reported. `Paced` lets the clock go on
  only once a calibration was bound, and follows a typed document with one step of history.
- ReleasePipeline: four calls are a publication, two votes and a snapshot. `Paced` keeps
  the compile out of a platform call and lets it start before or after all calls, has the recipe published
  by the second call, and follows the last call after a failing commit or a crash but not after both; `Foreign` has one document, an approval with
  two votes that the platform never recorded. The qualification shares
  nothing with them and is explored before them, for invocations that can still qualify; `MaxChanges` is the
  edit or commit that comes between two of its reads.
- `CHECK_DEADLOCK FALSE` where the system really stops: all goals answered
  and no more sent, all calls spent, or the node shut down.

### Fairness, and why the code justifies it

- Gateway: the executor is multi-threaded and callbacks are reentrant, so that
  every ready coroutine resumes (`Execute`) and the clock passes each deadline
  (`Expire`). Of the supervisor only that it answers the goal request
  (`RemoteStep` of a sent goal); it need not finish a job.
- Supervisor: the worker thread runs (`Work`) and a callback begun is completed
  (`Callback`). No fairness for clients, readiness, deadlines or the process.
- Readiness: the timer, the two subscriptions and the worker. Nothing of devices,
  jobs or clocks.
- Device: threads and loop run, a heartbeat that was begun ends, and the timer of `asyncio.wait` fires.
  A goal that waits for a thread gets one in the end (strong fairness of `Register`), since the pool
  serves its tasks in order and the timer does not overtake them for ever. None for operations, which may
  hang, nor for clients.
- PenTree: the worker ticks every 10 ms, the clock passes deadlines, the executor delivers what has
  arrived, a cancel that was sent arrives. No server owes an answer.
- MotionNode: caller and planning threads run, plans and controller calls return, the clock goes on. The
  robot adapter need never answer.
- OperatorApi: every request has its timeout and every thread its few steps (`Timeout`, `ThreadStep`), and
  published states and events arrive. No request need come and the cell need not answer.

`CancelEndsGoal` and `GoalsConclude` of the supervisor carry an escape on purpose: the node may go
down, since an accepted cancel may take it down (section 5); `GoalsConclude`
also allows a tree that runs on within its deadline. The other runs check safety
and state no fairness.

## 4. Proofs

All theorems hold for every value of the constants that satisfies the named
assumptions of the modules, and are about the specification without fairness.

| Module | Theorems | Argument |
|---|---|---|
| `JobGatewayProofs` | `TypeCorrect`, `Invariance`, `DispatchedAtMostOnce`, `AnswersAreDurable`, `RepliedSuccessIsEarned`, `WrittenOnce`, `Refinement`, `ReliesOnServer` | `DispatchedOnce` says nothing of goals that may still dispatch, so `IInv` adds `Claims` (one goal at most claims a key, and only after the store binds it), `Open` (a key without outcome has its owner alive, no coroutine lives while the process is down), `Carried` (what a coroutine carries is what the store holds) and, for the success a client is told, `Bears` and `Earned`: a success in the hands of a coroutine or in the store is one the supervisor gave. The step lemma has one case per action; the refinement and the write-once property follow from how a step may change one row (`StoreSteps`, `RowEffects`). `ReliesOnServer` looks the other way: whatever the gateway sends to or sees of the supervisor is a step of `ActionServer`, the contract `SupervisorProofs` proves of the supervisor node, given that a dead supervisor holds no goal it could still answer (`Deserted`). |
| `SupervisorProofs` | `Invariance`, `TypeCorrect`, `SlotIsExclusive`, `RunningNeedsSlot`, `EventsPrecedeAcknowledgement`, `Refinement` | the slot flag alone does not exclude two jobs: `Places` says where a job can be (accepting callback, pending pointer, worker) and that two are never taken together; `Unfinished` that a placed job is live; `Settled` and `RunningAtWork` order verdict, event, state and release. |
| `DeviceNodeProofs` | `Invariance`, `TypeCorrect`, `OneCommandAtWork`, `UnprovenOutcomeBlocks`, `Refinement` | `ActiveIsWorking` ties context and `execute()` together through the leaving window, which does not depend on the published state, since a heartbeat may write READY over BUSY; with it an unproven outcome cannot be overwritten by another command's READY, and only by a heartbeat that had read something else. `BeatIsStale` bounds that: a heartbeat that has read UNKNOWN or FAULT finds it unchanged, so that it never closes a device at work. `Coherent` gives returned commands their result. |
| `MotionNodeProofs` | `Invariance`, `TypeCorrect`, `OneMotionAtATime`, `AnswersWaitForController`, `SuccessWasObserved`, `Refinement` | `Paired` fixes which stations of the caller and of the planning thread may go together, `Held` that the planner's mutex and `active_goal_` belong to the one goal engaged, `Observed` that a verdict of success on its way was the adapter's. |
| `CellProofs`: readiness | `TypeCorrect`, `FaultStaysLatched` | bounded queues (`SendBounded`, `Delivered`); `Latched` is closed under every step because the relayed state is never READY. |
| `CellProofs`: pen tree | `TreeInvariance`, `LeftCommandsAreCancelled`, `UnprovenProcessIsFlagged`, `RecordedPartsAreInspected` | `TreeIInv` says of every attempt where its goal is known (`AttemptIsTrue`) and of the sequence that what stands before the leaf at work has passed (`SequenceIsPassed`), so that a record presupposes an inspection. |
| `CellProofs`: operator API | `ApiInvariance`, `JournalStaysTrue`, `AnswersAreJournalled`, `CertainOutcomesAreFinal` | coroutine and worker thread of a request are two programs on one goal: `RequestIsTrue` relates their places, the cell's goal and the last entry of the journal. |
| `CellProofs`: headless executors | `HeadlessInvariance`, `OutcomesAreEarned` | `HeadlessIInv`: everything ahead of the leaf at work was carried out (`Performed`), the commands of that leaf are the last results (`Begun`), and what is in the gripper or under the clamp is still to be let go of (`Pending`); hence an unfinished tree is never a success. Assumed of the trees is `AreScenarios`. |
| `CellProofs`: simulated cell | `SimInvariance`, `JobsKeepTheirRun`, `SuccessesWereObserved`, `EvidenceIsKept` | `SimIInv`: what the worker waits for is the last callback of the Kit loop, and all before it are commands it gave up on (`Owed`); requests and rebuilds carry scenarios in order, behind the client (`Forward`), so that once a job may run no rebuild is left (`Staged`); a command that completed, or that the worker is about to see completed, was carried out on the run of its job (`Issued`, `Evident`). Which scenario a late command meets is thereby settled, not when it comes. `EvidenceIsKept` needs `Archived` beside it. |
| `ReleasePipelineProofs`: pipeline | `Invariance`, `TypeCorrect`, `AnswersAreDurable`, `ApprovalsTakeEffect`, `ReleasedEntitiesAreKept`, `VerifiedMeansApproved`, `QualifiedMeansExact` | of the server, what the open transaction holds lies beyond what is durable (`Begins`, `Rest`), the ledger is signed by those who may (`LedgerIsSigned`) and a handler may answer only after its commit (`CallIsEarned`); of the compiler, that an approved build is founded on a snapshot, which with the public keys is one the platform issued (`BuildIsFounded`); of the qualification, that the gates passed name one revision while nobody disturbs it (`FoundIsOne`). A snapshot outlives its server, so that the three meet in facts about snapshots only. |
| `ReleasePipelineProofs`: agent | `AgentInvariance`, `AgentTypeCorrect`, `OnlyIntactSelected`, `ReportsAreReal`, `RecordsNameSelection` | `AgentIInv` says at each statement of install, rollback and boot which of link, environment and runtime already name the release (`Aimed`, `Projected`) and that every bundle an operation may fall back to is intact. |
| `StudioProjectProofs` | `Invariance`, `TypeCorrect`, `OneLife`, `ReviewedCandidatesAreFresh`, `SavedMeansStored`, `Refinement`, `GuidedInvariance`, `OnlyReviewedIsWritten` | `ReviewCarried` says that from the check of a review to the transaction its sources stay as they were reviewed, but for what the recovery puts back of them; `Founded` and `Recoverable` say what journal, backups and disk hold of each file at each step of a save, its rollback and a recovery; under it the files replaced so far (`Replaced`) are an overlay that either becomes the whole save or is taken back, which is the refinement of `AtomicProject`. Of guided projects, `GuidedIInv` says that a preview names the identifiers its tree has (`Faithful`), that the draft of a request is the preview on the screen (`ScreenIsDraft`) and that a save holds on to what was confirmed, in a directory Studio made (`Confirmed`, `OwnPlace`); its lemma is that renaming by the allocated identifiers, a fold, gives each document the one identifier allocated to it (`RenamedAsAllocated`). |
| `CellDocumentsProofs`: files | `Invariance`, `RecordsAreImmutable`, `SavedProjectsOpen`, `StudioRefines`, `ReadyMeansValid` | that a record is never rewritten concerns all buffers a session may come back to: `Sound` says of each of them, the histories' included, that what it stages may stand for what is on the disk (`Kept`: that calibration, that released version or its retirement), and that it binds every recipe the disk binds while the cell is not typed over, so that a new version finds a new place whatever its base was made to say: `MergedIsRecipe` has only its shape. That a released version is bound and in the file of its name is a condition of the property, since an override may leave a file that a later version takes (`ReleasedStays`). That a save opens is more than that it was validated: what is loaded is less than what is written (`SavedDisk`, `LoadedFields`). `StudioRefines` carries both over to the session with scenarios and reports, where a report without a blocking finding is compared with the validator of the project service finding by finding (`ReportedReady`). |
| `CellDocumentsProofs`: graph | `EditedGraphsResolve` | an edit asks the resolver of the new link only, and undo, redo and saves ask nothing, so `GraphIInv` says, if the buffers were whole when they were loaded and nothing was typed over since, of every buffer the session may come back to that its documents are paired, its prims nested in prims (`Nested`) and its links resolved (`Resolving`). That a removal with its links leaves none that touches the component is a fact about a fold (`OthersOK`, by induction on the links taken so far); that a snap takes along what is below its target and leaves each prim below its parent, and the parents where they were, is one about prefixes of paths (`MovedBelow`, `MovedPaths`, `GraphSnapped`). `Paired` needs no proof of its own: the code compares the two documents after every edit. That what was loaded is whole (`Whole`) is a condition of the property, since opening a project does not ask the resolver of its links; `MCCellDocuments` has TLC evaluate it of the projects of the run (`StartersResolve`). |

The assumptions, each named in the module that declares its constants: what constants range over
(`FreezesAssumption`, `StopAssumption`, `DevicesAssumption`, `DepthAssumption`,
`ThreadsAssumption`, `ProvableAssumption`, `GoalsAssumption`, `ModeAssumption`, `TreeAssumption`,
`RequestsAssumption`, `StockAssumption`, `CompilerAssumption`, `QualificationAssumption`, `CompatibleAssumption`,
`ScriptAssumption`, `PlanAssumption` (an inspection is among the commands), `BoundAssumption`, `HeadlessAssumption`, `ConstantsAssumption`, `EntriesAssumption`, `FilesAssumption`, `GuidedAssumption`, `BoundsAssumption`, `ManifestsAssumption`), that a missing value is no value
(`NoneAssumption`, `NobodyAssumption`, `NoBundleAssumption`, `NoReportAssumption`), and for the documents the shape of the projects a session starts from, of what is typed and of what is
laid over a new version (`StartersAssumption`, `OverridesAssumption`, `RecipePathAssumption`,
`SurroundingsAssumption`). TLC evaluates them in the runs.
Of the compiler it is part of the model that public keys passed to it are the platform's and that its
signature is not forged (`Compile`).

The refinements are proved as the initial state maps to an initial state and
every step to a step or a stutter, under the invariant. TLC finds each inductive
invariant and each type invariant to hold on the instances of section 3 too;
they are proved, and so the standing runs leave them out.

`SavedProjectsOpen` states of `DiskOpens` that it is never made false: the projects a session starts from
may be broken, and then opening refuses them until another tool mends them.

Only model-checked, because they need fairness and ENABLED and are beyond the
prover: the liveness properties (`GoalsReturn`, `CancelEndsGoal`, `GoalsConclude`,
`CommandsConclude`, `TreeEnds`, `MotionsConclude`, `AbandonedIsCancelled`,
`LostDeviceClosesCell`, `HealthyCellOpens`). Every safety property
that a run checks is stated by a theorem.

The library's induction theorems take an operator and cannot be used; where a proof needs induction
it goes through the least counterexample (`Least` and `UpTo` in `CellDocumentsProofs`, from
`WFMin`). One rule of writing follows from the provers: they read `UNION A \cup B` as the union of `A \cup B`, so that the
modules put `UNION A` into parentheses.

## 5. Where code and documentation disagree

Each of these was met while modelling. Where a definition is named, it stands in
its module and says what the document says; put into the cfg of the module, TLC
gives the sequence of steps that refutes it. The standing runs check what holds.

| Definition | Says | What the code does |
|---|---|---|
| `JobGateway!MatchingRetriesReplay` | docs/cell-runtime.md:102, matching retries replay the result | node.py:237: the replay of a cancelled result calls `canceled()` on a goal nobody cancelled, which raises; the client gets an empty, aborted result |
| `JobGateway!GoalsReturn` without its escape `outages > 0` | node.py:150, a job has a deadline | the awaits of node.py:128, 143 and 146 have none: a supervisor that dies leaves them outstanding |
| `Supervisor!OnlyRequestedCancels` | docs/cell-runtime.md:30, cancellation reaches the skills of the cancelled job | supervisor_node.cpp:239: one flag serves all goals; a cancel of a goal that is ending cancels the next one |
| `Supervisor!NeverTerminated` | docs/cell-runtime.md:220, a cancelled job ends as cancelled | supervisor_node.cpp:365: the worker may read the flag before the goal is CANCELING; `canceled()` throws on its thread and the process terminates |
| `Supervisor!UncertainIsReported` | docs/cell-runtime.md:80, uncertain processing emits `job.outcome_unknown` | supervisor_node.cpp:357: cancel and deadline settle the job while its process command is in flight |
| `CellReadiness!FaultedCellRecovers` | docs/cell-runtime.md:237, operator recovery for all failure paths | aggregator.py:171: after a failed job supervisor and aggregator hold RECOVERABLE_FAULT for ever |
| `DeviceNode!CancelledMeansStopped` | device SDK README:25, cancelled only if proved stopped | adapter.py:100: an operation that ended by itself, even uncertainly, is reported as provenly cancelled when the cancel is noticed in the same turn |
| `DeviceNode!UnprovenStaysUnknown` | state.py:71, new work is blocked after an outcome that has not been reconciled | state.py:96: a heartbeat that read READY or BUSY before writes it back over UNKNOWN; from READY the device takes commands |
| `DeviceNode!BusyIsOperating` | state.py:94, a heartbeat changes no semantic field | state.py:96: it can write READY over the BUSY of a command at work, and BUSY over the READY after it, whereupon the device refuses every command until its process restarts |
| `PenTree!HaltIsSafe` | typed_action_node_impl.hpp:67, 140 catch `UnknownGoalHandleError` | supervisor_nodes.cpp:214 does not, and the supervisor halts the tree outside of a try block |
| `MotionNode!CertainMeansStill` | an outcome is certain when the robot is known to stand | `run()` answers cancel and timeout with `outcome_certain` while the adapter may still move (cellforge_motion/README.md:28-30) |
| `BundleAgent!PreviousRetained` | docs/deployment.md:208, the previous release is kept for rollback | agent.py:828: installing the active bundle again makes it its own predecessor |
| `ReleasePipeline!ApprovedVerifies` | docs/deployment.md:235, docs/safety-security.md:113, a recipe approved on the platform passes the compiler | the platform hashes canonical JSON (api/recipes.py:50), the compiler the bytes of the file (compiler.py:1133); verify_platform_approvals_result_sync.py patches the digest and signs again |
| `ReleasePipeline!VerifiedIsAuthentic` | docs/deployment.md:236, docs/safety-security.md:113, snapshots are signed with Ed25519 keys and verified against trusted keys before compilation | compiler.py:1562: without public keys, which is the default, the signature is not verified; a snapshot with any non-empty signature and key ID ends as `verified` |
| `StudioProject!SavedIsValid` | docs/cell-studio.md:243, only valid documents are saved | project_service.py:447: `save()` resolves a retained journal after it has validated |
| `StudioProject!ReviewedIsUntouched` | schema_authoring.py:1540, readiness.py:1448, a candidate whose source changed after its preview is not saved | project_service.py:447: the save resolves a retained journal after that comparison, which may put back other sources; the candidate is then written over them |
| `StudioProject!DirtyIsDerived` | docs/cell-studio.md:232, unsaved edits show as dirty | a blocked guided confirmation clears the flag |
| `CellDocuments!ReleasedStays` | recipe_service.py:428, released and retired versions are not edited; recipe_service.py:556, application.py:2043, a new version leaves its predecessors alone | recipe_service.py:622-630: overrides are applied after version and status and may change both, or the identity; the next new version takes the file of the one they misnamed, an approved one included. application.py:1854: `cell.yaml` typed over may leave out an approved version, which is then made anew |
| `StudioReadiness!ReadyIsCurrent` | the panel's report is of the project on the screen | edits, undo and redo leave a report on the screen that is not of these buffers |
| `Qualification!QualifiedIsOne`, `Qualification!KeyIsOwn` | one report is of one project and one key | the runner, the assembly and the L2 validation read the project again after its digests were taken; artifacts and the signing key have fixed names, which a second invocation in the same directory overwrites |
| `HeadlessCell!InjectedIsFelt` | a scheduled fault is met by the job | kitting.py:639: a fault of the camera goes to the locator, also one meant for the inspection; the scenario passes with `fault.injected` |

Others, read in the code and visible in the models' steps:

- Bundle agent: `prepare-active` by hand, unlocked, can write an older
  environment than the link selects; a failed first install whose stop fails
  leaves the candidate running, while its journal says that the active release was
  restored; a stop that fails at line 581 leaves the environment of the candidate.
- Platform: nothing withdraws an approval, neither a rejection nor `revoked`; the
  status a recipe is published with is unrestricted; a bundle published again
  with the same source revision answers with the old row though its manifest
  differs; production bundles cannot be assembled from the command line, which
  passes no evidence; an assembly killed half way leaves an output that
  blocks the next.
- Operator API: a final journal write that fails answers an error although the
  action ran; a submission given up before its goal response is never cancelled;
  a duplicate submission's quick refusal removes the handle of the
  running job; recovery ignores that the snapshot it checks is stale.
- Simulation: a command that timed out still runs on the Kit loop later, and its
  late events count as evidence of the next scenario; a configure that times out
  ends the executor's tick loop for good; a scenario that cannot be built leaves
  the stage without products; registrations are not repeated after a restart of the bridge.
- Studio: opening that raises and a failed create leave buffers while no project is
  shown; saving an authoring candidate drops unsaved buffers; a save answered as failed can be
  completed by a later recovery; a merge is validated with the values of the form, and what is
  saved is the text of the edit alone (schema_authoring.py:872, 1592).
- Studio's documents: placing, removing and connecting put a pair without artifacts into the
  buffers, so that staged trees, recipes and calibrations are lost; a recipe keeps its
  approval's evidence over edits, and `edit_recipe` of a DRAFT takes any status; setting the tree of
  an unknown task overwrites `behavior_tree.xml`; a component that holds a snapped child can never be removed, and a
  second snap leaves the first link; an expired calibration makes the project impossible to open;
  a new version of a recipe is numbered after the versions `cell.yaml` lists (recipe_service.py:621), so that a save overwrites
  a file of that name that is not listed, in a hand-made project too.
- Scenarios: running one digests unsaved buffers and writes no evidence; a scenario that expects a failure
  does not pass if a step fault stopped it; a fidelity that the caller says is available is
  achieved, whatever the backend was observed to have.
- Guided projects: the extension always confirms, so that the preview's token is never asked
  for; identifiers are replaced one after the other, which merges IDs that are swapped.
- Headless executors: kitting reports a deadline in the middle of a command as a
  recoverable fault, with nothing uncertain, as the pen does in the middle of its process cycle; a
  retry that declares a recovery makes every adapter of the component ready again, whatever it was
  in, and one that declares none always meets a device that is not ready.
- Deployment panel: it reads `result` from the agent's state file, whose key is `last_result`,
  and compares with `healthy`, which the agent never writes: every installation is shown as failed.
- Hardware nodes: `DeviceState` carries no time stamp, so that the aggregator
  takes the device for stale always; cancel hands a bool to
  `run_coroutine_threadsafe`.

## 6. Not modelled

- Freezing, digests, schema and tree validation, payload checks: functions of files, present as
  their verdicts.
- `reconcile_after_restart()` of the device adapter, which no node of
  the repository calls; the node's restart marks the device ready, and so does
  the model. The supervisor's STOPPING in the readiness loop; feedback; node events of the tree.
- Clock skew: the age of a report compares two machines' clocks; the model lets
  an entry go stale at any time but not stay fresh for ever by a wrong clock.
- Hardware adapters: the same `BaseDeviceAdapter` as `DeviceNode`, over protocol classes that are
  in-memory stand-ins for devices.
- The trace recorder: one subscriber, one row per event, which nothing reads back to decide anything.
- The simulation control service and its bridge, the stand-alone process of the L2 adapter (all on one
  thread), the scene synchronisation of the coordinator and the launch files.
- The platform's production synchronisation, for which the repository has no client, its S3 store and
  migrations; a platform database in memory.
- Installing the systemd units, a provisioning step; status and verification of
  the agent, which change nothing.
- Domain models, command line, scripts; the resolver only as far as Studio uses it.
- The deployment panel of Studio: a client of the agent's command line, of which it shows the answers.
- What a device node sends of its snapshots: the snapshot itself is modelled, heartbeats included, the order in
  which two threads publish copies of it is not.

## 7. Plan

Nothing is left of the safety properties the runs check: each is stated by a theorem of
section 4. The liveness properties stay with TLC. A component that section 6 names as not
modelled comes with its proofs when it is modelled, and all modules that a proof reaches are
kept free of recursive operators for that.

