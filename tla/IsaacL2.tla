------------------------------ MODULE IsaacL2 -------------------------------
(***************************************************************************)
(* The L2 adapter inside an Isaac Sim process, and the acceptance client   *)
(* that runs one job per scenario against it.  ROS callbacks run one at a  *)
(* time on a worker thread; whatever touches the simulated stage is handed *)
(* to the Kit loop and waited for with a timeout, after which the callback *)
(* that was handed over still runs.  The client repeats its configure      *)
(* request until it reads the event that answers it.                       *)
(***************************************************************************)
EXTENDS Naturals, Sequences

CONSTANTS Script,        \* what each of the client's scenarios injects
          MaxConfigures, \* bound: configure requests for a scenario, one every 0.1 s for a minute
          Plan,          \* the commands of the tree, in its order
          MaxAbandoned,  \* bound: commands the tree gives up
          MaxPhysics,    \* bound: scenarios that fail to be built
          Nobody

Faults == {"none", "empty", "collision", "dropped", "seating", "laser", "inspection"}

ASSUME ScriptAssumption == Script \in Seq(Faults) /\ Script # <<>>
ASSUME PlanAssumption ==
    Plan \in Seq({"locate", "pick", "load", "verify", "safe", "select", "process", "inspect",
                  "unload"}) /\ \E m \in DOMAIN Plan : Plan[m] = "inspect"
ASSUME BoundAssumption ==
    MaxConfigures \in Nat \ {0} /\ MaxAbandoned \in Nat /\ MaxPhysics \in Nat

VARIABLES
    client,    \* the acceptance client: scenario, phase, events before it, events read
    job,       \* the behaviour tree of the running job
    handle,    \* rcl_action state of each command's goal
    code,      \* its result
    unwanted,  \* goals whose client gave up on them and asks to cancel
    executor,  \* the worker thread that runs the ROS callbacks
    future,    \* what that thread waits for from the Kit loop
    kit,       \* callbacks handed to the Kit loop
    app,       \* "running", "joining" the worker thread, "closed"
    configs,   \* /simulation/l2/configure
    log,       \* /simulation/l2/events, as published
    runtime,   \* the IsaacL2Runtime
    product,   \* the pen on the stage
    completed, \* events of the runs before
    written,   \* what write_report wrote
    abandoned, \* commands the tree gave up, at most MaxAbandoned
    physics    \* scenarios that failed to be built, at most MaxPhysics

goals == <<handle, code, unwanted>>
stage == <<runtime, product, completed>>
rest == <<written, abandoned, physics>>
simVars == <<client, job, goals, executor, future, kit, app, configs, log, stage, rest>>

Rounds == 1..Len(Script)

\* Picking is tried twice.
Commands == {g \in Rounds \X (1..Len(Plan)) \X {1, 2} : g[3] = 2 => Plan[g[2]] = "pick"}

CommandCodes == {"completed", "failed", "cancelled"}
Terminal == {"SUCCEEDED", "CANCELED", "ABORTED"}
Types == {"configured", "processed", "accepted", "rejected", "collision", "unobserved",
          "dropped", "grasp", "unseated", "laser", "empty"}
ASSUME NobodyAssumption == Nobody \notin CommandCodes \cup Types

Events == [scenario : Rounds, run : Nat, n : Nat, type : Types]
Tasks == [kind : {"command", "acknowledge", "apply"}, goal : Commands \cup {Nobody},
          scenario : Rounds \cup {Nobody}]

SimTypeOK ==
    /\ client \in [at : Rounds, base : Nat, read : Nat, requests : 0..MaxConfigures,
                   phase : {"configure", "ready", "running", "evaluate", "done", "failed"}]
    /\ job \in [state : {"none", "next", "waiting", "succeeded", "failed"}, run : Nat,
                step : 1..Len(Plan), attempt : {1, 2}]
    /\ handle \in [Commands -> {"NONE", "SENT", "EXECUTING", "CANCELING"} \cup Terminal]
    /\ code \in [Commands -> CommandCodes \cup {Nobody}]
    /\ unwanted \subseteq Commands
    /\ executor \in [at : {"idle", "command", "configure", "dead", "gone"},
                     goal : Commands \cup {Nobody}]
    /\ future \in {"none", "pending", "completed", "failed", "refused", "raised"}
    /\ kit \in Seq(Tasks)
    /\ app \in {"running", "joining", "closed"}
    /\ configs \in Seq(Rounds)
    /\ log \in Seq(Events) /\ client.base <= client.read /\ client.read <= Len(log)
    /\ runtime \in [scenario : Rounds, run : Nat, program : BOOLEAN, events : Seq(Events)]
    /\ product \in [place : {"none", "carrier", "gripper", "floor", "collided", "fixture",
                             "beside", "out"}, processed : BOOLEAN]
    /\ completed \in Seq(Seq(Events))
    /\ written \in Seq(Seq(Events)) \cup {Nobody}
    /\ abandoned \in 0..MaxAbandoned /\ physics \in 0..MaxPhysics

NoJob == [state |-> "none", run |-> 0, step |-> 1, attempt |-> 1]
Idle == [at |-> "idle", goal |-> Nobody]

Event(s, r, n, t) == [scenario |-> s, run |-> r, n |-> n, type |-> t]

\* IsaacL2Runtime.__init__: a pen in its carrier, unless the scenario has none.
NewRuntime(s, r) ==
    [scenario |-> s, run |-> r, program |-> FALSE, events |-> <<Event(s, r, 1, "configured")>>]
Spawned(s) ==
    [place |-> IF Script[s] = "empty" THEN "none" ELSE "carrier", processed |-> FALSE]

\* The node comes up with the scenario the client begins with.
SimInit ==
    /\ client \in [at : {1}, phase : {"configure"}, requests : {0}, base : {0, 1},
                  read : {0, 1}]
    /\ client.base = client.read
    /\ job = NoJob
    /\ handle = [g \in Commands |-> "NONE"]
    /\ code = [g \in Commands |-> Nobody]
    /\ unwanted = {}
    /\ executor = Idle
    /\ future = "none"
    /\ kit = <<>>
    /\ app = "running"
    /\ configs = <<>>
    /\ runtime = NewRuntime(1, 1)
    /\ log = runtime.events
    /\ product = Spawned(1)
    /\ completed = <<>>
    /\ written = Nobody
    /\ abandoned = 0
    /\ physics = 0

-----------------------------------------------------------------------------
(* The acceptance client and the job it submits. *)

PublishConfigure ==
    /\ client.phase = "configure"
    /\ client.requests < MaxConfigures
    /\ client' = [client EXCEPT !.requests = @ + 1]
    /\ configs' = Append(configs, client.at)
    /\ UNCHANGED <<job, goals, executor, future, kit, app, log, stage, rest>>

Confirms(e) == e.type = "configured" /\ e.scenario = client.at

\* configure_scenario spins until it reads the event it waits for.
ReadEvent ==
    /\ client.phase = "configure"
    /\ client.read < Len(log)
    /\ client' = [client EXCEPT !.read = @ + 1,
                     !.phase = IF Confirms(log[client.read + 1]) THEN "ready" ELSE @]
    /\ UNCHANGED <<job, goals, executor, future, kit, app, configs, log, stage, rest>>

Submit ==
    /\ client.phase = "ready"
    /\ client' = [client EXCEPT !.phase = "running"]
    /\ job' = [NoJob EXCEPT !.state = "next", !.run = runtime.run]
    /\ UNCHANGED <<goals, executor, future, kit, app, configs, log, stage, rest>>

Current == <<client.at, job.step, job.attempt>>

\* RetryUntilSuccessful around the pick, the sequence around everything.
LeafFails ==
    job' = IF Plan[job.step] = "pick" /\ job.attempt = 1
           THEN [job EXCEPT !.state = "next", !.attempt = 2]
           ELSE [job EXCEPT !.state = "failed"]

IssueCommand ==
    /\ job.state = "next"
    /\ job' = [job EXCEPT !.state = "waiting"]
    /\ handle' = [handle EXCEPT ![Current] = "SENT"]
    /\ UNCHANGED <<client, code, unwanted, executor, future, kit, app, configs, log, stage, rest>>

LeafReturns ==
    /\ job.state = "waiting"
    /\ handle[Current] \in Terminal
    /\ \/ code[Current] # "completed" /\ LeafFails
       \/ /\ code[Current] = "completed"
          /\ job' = IF job.step = Len(Plan) THEN [job EXCEPT !.state = "succeeded"]
                    ELSE [job EXCEPT !.state = "next", !.step = @ + 1, !.attempt = 1]
    /\ UNCHANGED <<client, goals, executor, future, kit, app, configs, log, stage, rest>>

\* A leaf's deadline, or the job's: the command is cancelled and not waited for.
GiveUpCommand ==
    /\ job.state = "waiting"
    /\ handle[Current] \notin Terminal
    /\ unwanted' = unwanted \cup {Current}
    /\ LeafFails
    /\ abandoned < MaxAbandoned
    /\ abandoned' = abandoned + 1
    /\ UNCHANGED <<client, handle, code, executor, future, kit, app, configs, log, stage, written,
                   physics>>

JobResult ==
    /\ client.phase = "running"
    /\ job.state \in {"succeeded", "failed"}
    /\ client' = [client EXCEPT !.phase = "evaluate"]
    /\ UNCHANGED <<job, goals, executor, future, kit, app, configs, log, stage, rest>>

\* required_events of the scenario files, as the adapter names them.
RequiredEvents(fault) ==
    CASE fault = "none" -> {"processed", "accepted"}
      [] fault = "seating" -> {"unseated"}
      [] fault = "inspection" -> {"rejected"}
      [] OTHER -> {fault}

\* Evidence and outcome as the scenario asserts them, on what is read by then: events of the
\* job itself, those it was configured with and late ones of what went before alike.
Evaluate ==
    /\ client.phase = "evaluate"
    /\ \E read \in client.read..Len(log) :
          LET observed == {log[i].type : i \in (client.base + 1)..read}
              good == /\ RequiredEvents(Script[client.at]) \subseteq observed
                      /\ (job.state = "succeeded") = (Script[client.at] = "none")
          IN  client' =
                 IF good /\ client.at < Len(Script)
                 THEN [at |-> client.at + 1, phase |-> "configure", base |-> read,
                       read |-> read, requests |-> 0]
                 ELSE [client EXCEPT !.read = read, !.phase = IF good THEN "done" ELSE "failed"]
    /\ job' = IF client'.phase = "configure" THEN NoJob ELSE job
    /\ UNCHANGED <<goals, executor, future, kit, app, configs, log, stage, rest>>

\* No configuration within a minute.
GiveUp ==
    /\ client.phase = "configure"
    /\ client.requests = MaxConfigures
    /\ client' = [client EXCEPT !.phase = "failed"]
    /\ UNCHANGED <<job, goals, executor, future, kit, app, configs, log, stage, rest>>

-----------------------------------------------------------------------------
(* The worker thread: one callback at a time, until the app stops. *)

Free == app = "running" /\ executor.at = "idle"

AcceptGoal(g) ==
    /\ Free
    /\ handle[g] = "SENT"
    /\ handle' = [handle EXCEPT ![g] = "EXECUTING"]
    /\ UNCHANGED <<client, job, code, unwanted, executor, future, kit, app, configs, log, stage, rest>>

CancelGoal(g) ==
    /\ Free
    /\ g \in unwanted
    /\ handle[g] = "EXECUTING"
    /\ handle' = [handle EXCEPT ![g] = "CANCELING"]
    /\ UNCHANGED <<client, job, code, unwanted, executor, future, kit, app, configs, log, stage, rest>>

End(g, state, c) ==
    /\ handle' = [handle EXCEPT ![g] = state]
    /\ code' = [code EXCEPT ![g] = c]

\* run_coroutine_threadsafe
HandOver(kind, g, s) ==
    /\ kit' = Append(kit, [kind |-> kind, goal |-> g, scenario |-> s])
    /\ future' = "pending"

\* An accepted goal that was not begun: cancelled ones are answered at once.
BeginCommand(g) ==
    /\ Free
    /\ \/ /\ handle[g] = "CANCELING"
          /\ End(g, "CANCELED", "cancelled")
          /\ UNCHANGED <<executor, kit, future>>
       \/ /\ handle[g] = "EXECUTING"
          /\ executor' = [at |-> "command", goal |-> g]
          /\ HandOver("command", g, Nobody)
          /\ UNCHANGED <<handle, code>>
    /\ UNCHANGED <<client, job, unwanted, app, configs, log, stage, rest>>

\* No cancel is taken meanwhile, so that the outcome alone decides.
FinishCommand ==
    /\ app # "closed"
    /\ executor.at = "command"
    /\ future \in {"completed", "failed"}
    /\ End(executor.goal, IF future = "completed" THEN "SUCCEEDED" ELSE "ABORTED", future)
    /\ executor' = Idle
    /\ future' = "none"
    /\ UNCHANGED <<client, job, unwanted, kit, app, configs, log, stage, rest>>

ExpiresAsDone ==                                   \* mutant: silence is taken for success
    /\ app # "closed"
    /\ executor.at = "command" /\ future = "pending"
    /\ End(executor.goal, "SUCCEEDED", "completed")
    /\ executor' = Idle /\ future' = "none"
    /\ UNCHANGED <<client, job, unwanted, kit, app, configs, log, stage, rest>>

\* future.result() times out: the goal aborts, the callback stays with the Kit loop.
CommandExpires ==
    /\ app # "closed"
    /\ executor.at = "command"
    /\ future = "pending"
    /\ End(executor.goal, "ABORTED", "failed")
    /\ executor' = Idle
    /\ future' = "none"
    /\ UNCHANGED <<client, job, unwanted, kit, app, configs, log, stage, rest>>

TakeConfigureAlways ==                            \* mutant: a repeated request builds again
    /\ Free /\ configs # <<>>
    /\ HandOver("apply", Nobody, Head(configs))
    /\ configs' = Tail(configs)
    /\ executor' = [at |-> "configure", goal |-> Nobody]
    /\ UNCHANGED <<client, job, goals, app, log, stage, rest>>

\* _configure: a request for the scenario that is there is only acknowledged.
TakeConfigure ==
    /\ Free
    /\ configs # <<>>
    /\ IF Head(configs) = runtime.scenario THEN HandOver("acknowledge", Nobody, Nobody)
                                           ELSE HandOver("apply", Nobody, Head(configs))
    /\ configs' = Tail(configs)
    /\ executor' = [at |-> "configure", goal |-> Nobody]
    /\ UNCHANGED <<client, job, goals, app, log, stage, rest>>

\* Only ValueError and TypeError are caught: anything else ends the tick, which schedules the next.
FinishConfigure ==
    /\ app # "closed"
    /\ executor.at = "configure"
    /\ future \in {"completed", "refused", "raised"}
    /\ executor' = IF future = "raised" THEN [at |-> "dead", goal |-> Nobody] ELSE Idle
    /\ future' = "none"
    /\ UNCHANGED <<client, job, goals, kit, app, configs, log, stage, rest>>

ConfigureExpires ==
    /\ app # "closed"
    /\ executor.at = "configure"
    /\ future = "pending"
    /\ executor' = [at |-> "dead", goal |-> Nobody]
    /\ future' = "none"
    /\ UNCHANGED <<client, job, goals, kit, app, configs, log, stage, rest>>

Retire ==
    /\ app = "joining"
    /\ executor.at = "idle"
    /\ executor' = [at |-> "gone", goal |-> Nobody]
    /\ UNCHANGED <<client, job, goals, future, kit, app, configs, log, stage, rest>>

-----------------------------------------------------------------------------
(* The Kit loop.  A handler returns its results: the pen afterwards, the    *)
(* verdict, and the event, if it is one of those the properties tell apart. *)

Fault == Script[runtime.scenario]

Returned(p, verdict, event) == {[product |-> p, verdict |-> verdict, event |-> event]}
Raised == Returned(product, "failed", Nobody)

Locate ==
    IF Fault = "empty" THEN Returned(product, "failed", "empty")
                       ELSE Returned(product, "completed", Nobody)

\* A robot command without a pen, on a pen that is no longer on the stage, or in a collision.
Obstructed(otherwise) ==
    IF Fault = "empty" THEN Returned(product, "failed", "empty")
    ELSE IF product.place = "none" THEN Raised
    ELSE IF Fault = "collision"
    THEN LET p == [product EXCEPT !.place = "collided"]
         IN  Returned(p, "failed", "collision") \cup Returned(p, "failed", "unobserved")
    ELSE otherwise

Pick ==
    Obstructed(
        IF Fault = "dropped"
        THEN LET p == [product EXCEPT !.place = "floor"]
             IN  Returned(p, "failed", "dropped") \cup Returned(p, "failed", "grasp")
        ELSE Returned([product EXCEPT !.place = "gripper"], "completed", Nobody))

Load ==
    Obstructed(Returned([product EXCEPT !.place = IF Fault = "seating" THEN "beside" ELSE "fixture"],
                      "completed", Nobody))

Unload == Obstructed(Returned([product EXCEPT !.place = "out"], "completed", Nobody))

Safe ==
    IF Fault = "empty" THEN Returned(product, "failed", "empty")
    ELSE IF Fault = "collision" THEN Obstructed({})
    ELSE Returned(product, "completed", Nobody)

Verify ==
    IF product.place = "fixture" THEN Returned(product, "completed", Nobody)
    ELSE IF product.place = "none" THEN Raised
    ELSE Returned(product, "failed", "unseated")

Select == Returned(product, "completed", Nobody)

ProcessPen ==
    IF ~runtime.program THEN Returned(product, "failed", Nobody)
    ELSE IF Fault = "laser" THEN Returned(product, "failed", "laser")
    ELSE IF product.place = "none" THEN Raised
    ELSE Returned([product EXCEPT !.processed = TRUE], "completed", "processed")

InspectPen ==
    IF product.processed /\ Fault # "inspection" THEN Returned(product, "completed", "accepted")
    ELSE Returned(product, "failed", "rejected")

\* The handler table of IsaacL2Runtime.execute.
Handler == [locate |-> Locate, pick |-> Pick, load |-> Load, verify |-> Verify, safe |-> Safe,
            select |-> Select, process |-> ProcessPen, inspect |-> InspectPen, unload |-> Unload]


Emit(type) ==
    LET e == Event(runtime.scenario, runtime.run, Len(runtime.events) + 1, type)
    IN  /\ runtime' = [runtime EXCEPT !.events = Append(@, e)]
        /\ log' = Append(log, e)

\* The worker gets the answer if it still waits: a callback it gave up on answers nobody.
AnswerWorker(verdict) == future' = IF future = "pending" /\ Len(kit) = 1 THEN verdict ELSE future

Turn(kind) == app = "running" /\ kit # <<>> /\ Head(kit).kind = kind

\* The command is carried out in whatever runtime is there when its turn comes.
RunCommand ==
    /\ Turn("command")
    /\ LET command == Plan[Head(kit).goal[2]]
       IN  \E result \in Handler[command] :
              /\ product' = result.product
              /\ AnswerWorker(result.verdict)
              /\ IF result.event # Nobody THEN Emit(result.event)
                 ELSE /\ runtime' = [runtime EXCEPT !.program = @ \/ command = "select"]
                      /\ UNCHANGED log
    /\ kit' = Tail(kit)
    /\ UNCHANGED <<client, job, goals, executor, app, configs, completed, rest>>

Acknowledge ==
    /\ Turn("acknowledge")
    /\ Emit("configured")
    /\ AnswerWorker("completed")
    /\ kit' = Tail(kit)
    /\ UNCHANGED <<client, job, goals, executor, app, configs, product, completed, rest>>

ApplyUnsaved ==                                   \* mutant: the events of the run before are lost
    /\ Turn("apply")
    /\ runtime' = NewRuntime(Head(kit).scenario, runtime.run + 1)
    /\ log' = log \o runtime'.events
    /\ product' = Spawned(Head(kit).scenario)
    /\ AnswerWorker("completed")
    /\ kit' = Tail(kit)
    /\ UNCHANGED <<client, job, goals, executor, app, configs, completed, rest>>

\* apply_configuration: save the events, clear the stage, build the new runtime.
Apply ==
    /\ Turn("apply")
    /\ completed' = Append(completed, runtime.events)
    /\ runtime' = NewRuntime(Head(kit).scenario, runtime.run + 1)
    /\ log' = log \o runtime'.events
    /\ product' = Spawned(Head(kit).scenario)
    /\ AnswerWorker("completed")
    /\ kit' = Tail(kit)
    /\ UNCHANGED <<client, job, goals, executor, app, configs, rest>>

\* PhysX refuses the new pen: the stage is cleared, the old runtime stays.  Its own errors are
\* ValueErrors, those of the simulator are not.
ApplyFails ==
    /\ Turn("apply")
    /\ physics < MaxPhysics
    /\ physics' = physics + 1
    /\ completed' = Append(completed, runtime.events)
    /\ product' = [place |-> "none", processed |-> FALSE]
    /\ \E verdict \in {"refused", "raised"} : AnswerWorker(verdict)
    /\ kit' = Tail(kit)
    /\ UNCHANGED <<client, job, goals, executor, app, configs, log, runtime, written, abandoned>>

-----------------------------------------------------------------------------
(* The end of the Kit process. *)

Stop ==
    /\ app = "running"
    /\ app' = "joining"
    /\ UNCHANGED <<client, job, goals, executor, future, kit, configs, log, stage, rest>>

\* The join of the worker may time out, since the Kit loop it waits for stands still meanwhile.
Close ==
    /\ app = "joining"
    /\ app' = "closed"
    /\ written' = Append(completed, runtime.events)
    /\ UNCHANGED <<client, job, goals, executor, future, kit, configs, log, stage, abandoned, physics>>

-----------------------------------------------------------------------------
ClientStep == \/ PublishConfigure \/ ReadEvent \/ Submit \/ IssueCommand \/ LeafReturns
              \/ GiveUpCommand \/ JobResult \/ Evaluate \/ GiveUp

ExecutorStep == \/ FinishCommand \/ CommandExpires \/ FinishConfigure \/ ConfigureExpires \/ Retire

KitStep == RunCommand \/ Acknowledge \/ Apply \/ ApplyFails

\* What the client makes of a process that is gone touches nothing here.
SimNext ==
    \/ app = "running" /\ ClientStep
    \/ \E g \in Commands : AcceptGoal(g) \/ CancelGoal(g) \/ BeginCommand(g)
    \/ TakeConfigure
    \/ ExecutorStep
    \/ KitStep
    \/ Stop
    \/ Close

SimSpec == SimInit /\ [][SimNext]_simVars

-----------------------------------------------------------------------------
(* Properties. *)

Working == client.phase = "running" /\ job.state \in {"next", "waiting", "succeeded"}

\* A job runs from its first command to its last on the run that was built for its scenario:
\* neither a repeated configure request nor one of the scenario before, nor a rebuild the worker
\* gave up on, replaces the pen under the job's hands.
OneRunPerJob ==
    Working => runtime.run = job.run /\ runtime.scenario = client.at

\* A job that succeeds was observed to: in the events of its run the pen was processed and,
\* after that, accepted, whatever command timed out, was retried or came late.
Observed(run) ==
    \E i, j \in DOMAIN log :
        /\ i < j
        /\ log[i].run = run /\ log[i].type = "processed"
        /\ log[j].run = run /\ log[j].type = "accepted"

SuccessWasObserved == job.state = "succeeded" => Observed(job.run)

\* The invariant behind the two.  What the worker waits for is the last callback handed to the
\* Kit loop, those before it are commands it gave up on, and nothing is handed over once it died.
Owed ==
    /\ \A i \in DOMAIN kit :
          IF kit[i].kind = "command" THEN kit[i].goal \in Commands
          ELSE /\ i = Len(kit)
               /\ executor.at \in {"configure", "dead"}
               /\ executor.at = "configure" => future = "pending"
    /\ executor.at = "command" => executor.goal \in Commands
    /\ executor.at = "command" /\ future = "pending" =>
          kit # <<>> /\ kit[Len(kit)].kind = "command" /\ kit[Len(kit)].goal = executor.goal
    /\ executor.at = "configure" /\ future = "pending" =>
          kit # <<>> /\ kit[Len(kit)].kind # "command"

\* The stage goes from scenario to scenario as the client does, behind it and never back.
Forward ==
    /\ runtime.scenario <= client.at
    /\ \A k \in DOMAIN log : log[k].scenario <= runtime.scenario
    /\ \A i \in DOMAIN configs : runtime.scenario <= configs[i] /\ configs[i] <= client.at
    /\ \A i, j \in DOMAIN configs : i <= j => configs[i] <= configs[j]
    /\ \A i \in DOMAIN kit : kit[i].kind = "apply" =>
          /\ kit[i].scenario \in Rounds
          /\ runtime.scenario < kit[i].scenario /\ kit[i].scenario <= client.at
          /\ \A j \in DOMAIN configs : kit[i].scenario <= configs[j]

Staged ==
    /\ client.phase \in {"configure", "ready"} => job.state = "none"
    /\ (job.state # "none" \/ client.phase \notin {"configure", "failed"}) =>
          runtime.scenario = client.at
    /\ job.state # "none" => job.run = runtime.run

\* Only commands of the job are out, or of jobs before; what completed was carried out.
Issued ==
    /\ \A g \in Commands : handle[g] # "NONE" =>
          g[1] <= client.at /\ (g[1] = client.at => job.state # "none")
    /\ \A g \in Commands : code[g] # Nobody => handle[g] # "NONE"
    /\ executor.at = "command" => handle[executor.goal] # "NONE"

Inspects(g) == g[1] = client.at /\ Plan[g[2]] = "inspect"

Evident ==
    /\ product.processed =>
          \E i \in DOMAIN log : log[i].run = runtime.run /\ log[i].type = "processed"
    /\ \A g \in Commands : Inspects(g) /\ code[g] = "completed" => Observed(job.run)
    /\ executor.at = "command" /\ future = "completed" /\ Inspects(executor.goal) =>
          Observed(job.run)
    /\ job.attempt = 2 => Plan[job.step] = "pick"
    /\ \A m \in DOMAIN Plan :
          /\ Plan[m] = "inspect"
          /\ job.state # "none" /\ (m < job.step \/ job.state = "succeeded")
          => Observed(job.run)

SimIInv == SimTypeOK /\ Owed /\ Forward /\ Staged /\ Issued /\ Evident

\* A scenario's fault is in force when its job runs: none of the injected faults lets a job
\* succeed, so that a scenario is never answered by the runtime of another.
FaultsTakeEffect == job.state = "succeeded" => Script[client.at] = "none"

KeptIn(runs, e) == \E i \in DOMAIN runs : \E j \in DOMAIN runs[i] : runs[i][j] = e

\* Whatever was published is evidence: it is among the events that are kept, and in the report
\* once that is written, across rebuilds, failed rebuilds and a shutdown in between.
NothingLost ==
    \A k \in DOMAIN log :
        /\ KeptIn(Append(completed, runtime.events), log[k])
        /\ written # Nobody => KeptIn(written, log[k])
=============================================================================
