----------------------------- MODULE MotionNode -----------------------------
(***************************************************************************)
(* The motion service node: action callbacks on the executor, one detached *)
(* thread per accepted goal, which polls for cancel and deadline while a   *)
(* planner thread plans, drives the controller and then the robot adapter. *)
(* The planner holds its mutex for the whole motion; a stop reaches it as  *)
(* a token it looks at here and there, a stop of the controller, and a     *)
(* cancel of the adapter goal, if one is known.                            *)
(***************************************************************************)
EXTENDS Naturals

CONSTANTS Goals,
          Manipulations, \* goals of execute_manipulation, the others move to a pose
          PlanOnly,      \* goals that ask for a plan and no motion
          Direct,        \* isaac_l2_direct: the adapter moves the robot, no controller does
          MaxScene,      \* bound: scene synchronisations
          None

Codes == {"completed", "rejected", "failed", "outcome_unknown", "cancelled", "timeout"}

ASSUME GoalsAssumption ==
    Manipulations \subseteq Goals /\ PlanOnly \subseteq Goals /\ None \notin Goals
ASSUME NoneAssumption == None \notin Codes
ASSUME ModeAssumption == Direct \in BOOLEAN /\ MaxScene \in Nat

VARIABLES
    handle,     \* rcl_action state of each goal handle
    active,     \* active_goal_
    caller,     \* the goal's detached thread, inside run()
    worker,     \* the goal's planner thread
    stop,       \* stop was requested of the planner thread
    due,        \* the goal's deadline has passed
    mutex,      \* the goal whose planner thread holds the planner
    controller, \* the goal whose trajectory the controller executes
    adapter,    \* the goal's command at the robot adapter
    known,      \* active_adapter_goal_
    found,      \* the planner's result
    code,       \* the result code the goal was or is being answered with
    certain,    \* outcome_certain of that answer
    scene,      \* revision of the synchronised scene, 0 if none
    node        \* "up", "stopping" or "terminated"

threads == <<caller, worker, stop, mutex, found>>
robot == <<controller, adapter, known>>
answers == <<code, certain>>
vars == <<handle, active, threads, due, robot, answers, scene, node>>

Terminal == {"SUCCEEDED", "CANCELED", "ABORTED"}

TypeOK ==
    /\ handle \in [Goals -> {"NONE", "REJECTED", "EXECUTING", "CANCELING"} \cup Terminal]
    /\ active \in BOOLEAN
    /\ caller \in [Goals -> {"none", "start", "wait", "cancel", "join", "answer", "release", "done"}]
    /\ worker \in [Goals -> {"none", "lock", "plan", "check", "execute", "send", "accept",
                             "observe", "done"}]
    /\ {stop, due, certain} \subseteq [Goals -> BOOLEAN]
    /\ {mutex, controller, known} \subseteq Goals \cup {None}
    /\ adapter \in [Goals -> {"none", "sent", "moving", "refused", "succeeded", "ended"}]
    /\ found \in [Goals -> [code : Codes, certain : BOOLEAN] \cup {None}]
    /\ code \in [Goals -> Codes \cup {None}]
    /\ scene \in 0..MaxScene
    /\ node \in {"up", "stopping", "terminated"}

Init ==
    /\ handle = [g \in Goals |-> "NONE"]
    /\ active = FALSE
    /\ caller = [g \in Goals |-> "none"]
    /\ worker = [g \in Goals |-> "none"]
    /\ stop = [g \in Goals |-> FALSE]
    /\ due = [g \in Goals |-> FALSE]
    /\ mutex = None
    /\ controller = None
    /\ adapter = [g \in Goals |-> "none"]
    /\ known = None
    /\ found = [g \in Goals |-> None]
    /\ code = [g \in Goals |-> None]
    /\ certain = [g \in Goals |-> TRUE]
    /\ scene = 0
    /\ node = "up"

-----------------------------------------------------------------------------
(* The executor. *)

HandleGoal(g) ==
    /\ node = "up" /\ handle[g] = "NONE"
    /\ \/ /\ ~active
          /\ active' = TRUE
          /\ handle' = [handle EXCEPT ![g] = "EXECUTING"]
          /\ caller' = [caller EXCEPT ![g] = "start"]
       \/ /\ active \/ g \in Manipulations \* the operation may be none of the three
          /\ handle' = [handle EXCEPT ![g] = "REJECTED"]
          /\ UNCHANGED <<active, caller>>
    /\ UNCHANGED <<worker, stop, mutex, found, due, robot, answers, scene, node>>

\* Every cancel is accepted.
HandleCancel(g) ==
    /\ node = "up" /\ handle[g] = "EXECUTING"
    /\ handle' = [handle EXCEPT ![g] = "CANCELING"]
    /\ UNCHANGED <<active, threads, due, robot, answers, scene, node>>

\* The planner applies the scene under the mutex a motion holds.
SyncScene ==
    /\ node = "up" /\ mutex = None
    /\ scene < MaxScene
    /\ scene' = scene + 1
    /\ UNCHANGED <<handle, active, threads, due, robot, answers, node>>

-----------------------------------------------------------------------------
(* MotionService::run on the goal's thread. *)

Running == node # "terminated"
CallerAt(g, s) == Running /\ caller[g] = s
Answer(g, c, sure) ==
    /\ code' = [code EXCEPT ![g] = c]
    /\ certain' = [certain EXCEPT ![g] = sure]

\* The request is not valid, or no scene was synchronised: no thread is started.
Refuse(g) ==
    /\ CallerAt(g, "start")
    /\ Answer(g, "rejected", TRUE)
    /\ caller' = [caller EXCEPT ![g] = "answer"]
    /\ UNCHANGED <<handle, active, worker, stop, mutex, found, due, robot, scene, node>>

Start(g) ==
    /\ CallerAt(g, "start")
    /\ scene > 0
    /\ worker' = [worker EXCEPT ![g] = "lock"]
    /\ caller' = [caller EXCEPT ![g] = "wait"]
    /\ UNCHANGED <<handle, active, stop, mutex, found, due, robot, answers, scene, node>>

CancellationRequested(g) == handle[g] = "CANCELING" \/ node = "stopping"

\* Mutant: cancel and deadline do not wait for the planner thread.
PollDetached(g) ==
    /\ CallerAt(g, "wait")
    /\ worker[g] # "done"
    /\ \/ CancellationRequested(g) /\ Answer(g, "cancelled", TRUE)
       \/ due[g] /\ ~CancellationRequested(g) /\ Answer(g, "timeout", TRUE)
    /\ stop' = [stop EXCEPT ![g] = TRUE]
    /\ caller' = [caller EXCEPT ![g] = "answer"]
    /\ UNCHANGED <<handle, active, worker, mutex, found, due, robot, scene, node>>

\* The 5 ms wait had found no result, which may have come since; cancel goes
\* before deadline.  The answer is fixed here, and its outcome certain, whatever
\* the planner will find.
Poll(g) ==
    /\ CallerAt(g, "wait")
    /\ \/ CancellationRequested(g) /\ Answer(g, "cancelled", TRUE)
       \/ due[g] /\ ~CancellationRequested(g) /\ Answer(g, "timeout", TRUE)
    /\ stop' = [stop EXCEPT ![g] = TRUE]
    /\ caller' = [caller EXCEPT ![g] = "cancel"]
    /\ UNCHANGED <<handle, active, worker, mutex, found, due, robot, scene, node>>

\* cancelActiveRequest stops what the controller and the adapter do now; what
\* the planner thread starts after it has seen no stop goes on.
CancelActiveRequest(g) ==
    /\ CallerAt(g, "cancel")
    /\ controller' = None
    /\ caller' = [caller EXCEPT ![g] = "join"]
    /\ \/ known # None /\ adapter[known] = "moving" /\ adapter' = [adapter EXCEPT ![known] = "ended"]
       \/ UNCHANGED adapter
    /\ UNCHANGED <<handle, active, worker, stop, mutex, found, due, known, answers, scene, node>>

Join(g) ==
    /\ CallerAt(g, "join")
    /\ worker[g] = "done"
    /\ caller' = [caller EXCEPT ![g] = "answer"]
    /\ UNCHANGED <<handle, active, worker, stop, mutex, found, due, robot, answers, scene, node>>

\* future.get(): the planner's own result.
Get(g) ==
    /\ CallerAt(g, "wait")
    /\ worker[g] = "done"
    /\ Answer(g, found[g].code, found[g].certain)
    /\ caller' = [caller EXCEPT ![g] = "answer"]
    /\ UNCHANGED <<handle, active, worker, stop, mutex, found, due, robot, scene, node>>

\* canceled() of a goal nobody asked to cancel throws, and nothing catches on a
\* detached thread: the way out of a motion when the node is shut down.
Conclude(g) ==
    /\ CallerAt(g, "answer")
    /\ IF code[g] = "cancelled" /\ handle[g] # "CANCELING"
       THEN node' = "terminated" /\ UNCHANGED <<handle, caller>>
       ELSE /\ handle' = [handle EXCEPT ![g] =
                   IF @ = "CANCELING" THEN "CANCELED"
                   ELSE IF code[g] = "completed" THEN "SUCCEEDED" ELSE "ABORTED"]
            /\ caller' = [caller EXCEPT ![g] = "release"]
            /\ UNCHANGED node
    /\ UNCHANGED <<active, worker, stop, mutex, found, due, robot, answers, scene>>

Release(g) ==
    /\ CallerAt(g, "release")
    /\ active' = FALSE
    /\ caller' = [caller EXCEPT ![g] = "done"]
    /\ UNCHANGED <<handle, worker, stop, mutex, found, due, robot, answers, scene, node>>

-----------------------------------------------------------------------------
(* The planner thread: MoveItPlanner. *)

WorkerAt(g, s) == Running /\ worker[g] = s
Goto(g, s) == worker' = [worker EXCEPT ![g] = s] /\ UNCHANGED <<mutex, found>>

\* The planner returns, or throws: its mutex is released, its result set.
Return(g, c, sure) ==
    /\ worker' = [worker EXCEPT ![g] = "done"]
    /\ mutex' = None
    /\ found' = [found EXCEPT ![g] = [code |-> c, certain |-> sure]]

Unmoved == UNCHANGED <<handle, active, caller, stop, due, answers, scene, node>>

Lock(g) ==
    /\ WorkerAt(g, "lock")
    /\ mutex = None
    /\ mutex' = g
    /\ worker' = [worker EXCEPT ![g] = "plan"]
    /\ UNCHANGED <<found, robot>> /\ Unmoved

\* What the planner makes of an exception, or else run() of it.
Throw(g) ==
    IF g \in Manipulations \/ Direct THEN Return(g, "failed", TRUE)
    ELSE Return(g, "outcome_unknown", FALSE)

\* Planning fails, throws, was all that was wanted, or goes on to the motion.
Plan(g) ==
    /\ WorkerAt(g, "plan")
    /\ \/ Return(g, "failed", TRUE) \/ Throw(g)
       \/ g \in PlanOnly /\ Return(g, "completed", TRUE)
       \/ g \notin PlanOnly /\ Goto(g, "check")
    /\ UNCHANGED robot /\ Unmoved

\* The stop token is looked at, but for a direct move to a pose ...
Check(g) ==
    /\ WorkerAt(g, "check")
    /\ IF stop[g] /\ ~(Direct /\ g \notin Manipulations)
       THEN Return(g, "failed", TRUE) ELSE Goto(g, "execute")
    /\ UNCHANGED robot /\ Unmoved

\* ... and then the controller is started.
Execute(g) ==
    /\ WorkerAt(g, "execute")
    /\ controller' = IF Direct THEN None ELSE g
    /\ Goto(g, "send")
    /\ UNCHANGED <<adapter, known>> /\ Unmoved

\* execute() returns when the trajectory has ended; a stop or an abort is no success.
Send(g) ==
    /\ WorkerAt(g, "send")
    /\ controller' = None
    /\ \/ /\ Direct \/ controller = g
          /\ adapter' = [adapter EXCEPT ![g] = "sent"]
          /\ Goto(g, "accept")
       \/ /\ UNCHANGED adapter
          /\ \/ ~Direct /\ \E c \in {"failed", "outcome_unknown"} : Return(g, c, FALSE)
             \/ (Direct \/ controller = g) /\ Return(g, "failed", TRUE) \* no adapter there
             \/ Throw(g)
    /\ UNCHANGED known /\ Unmoved

\* Mutant: the adapter's answer is awaited for as long as it takes.
AwaitOnlyAcceptance(g) ==
    /\ WorkerAt(g, "accept")
    /\ \/ adapter[g] \notin {"sent", "refused"} /\ known' = g /\ Goto(g, "observe")
       \/ adapter[g] = "refused" /\ Return(g, "failed", TRUE) /\ UNCHANGED known
    /\ UNCHANGED <<controller, adapter>> /\ Unmoved

\* The adapter's answer to the goal, or stop or deadline before it: the command
\* then stays where it is, and nobody cancels it.
AwaitAcceptance(g) ==
    /\ WorkerAt(g, "accept")
    /\ \/ /\ adapter[g] \notin {"sent", "refused"}
          /\ known' = g
          /\ Goto(g, "observe")
       \/ /\ adapter[g] = "refused" \/ stop[g] \/ due[g]
          /\ Return(g, "failed", TRUE)
          /\ UNCHANGED known
    /\ UNCHANGED <<controller, adapter>> /\ Unmoved

\* Mutant: whatever the adapter says, the plan was executed.
ObserveOptimist(g) ==
    /\ WorkerAt(g, "observe")
    /\ known' = None
    /\ adapter[g] \in {"succeeded", "ended"} /\ Return(g, "completed", TRUE)
    /\ UNCHANGED <<controller, adapter>> /\ Unmoved

\* The adapter's observation; an unknown code is an unknown outcome, but not an
\* uncertain one.
Observe(g) ==
    /\ WorkerAt(g, "observe")
    /\ known' = None
    /\ \/ adapter[g] = "succeeded" /\ Return(g, "completed", TRUE) /\ UNCHANGED adapter
       \/ /\ adapter[g] = "ended"
          /\ \E c \in {"failed", "outcome_unknown"} : Return(g, c, TRUE)
          /\ UNCHANGED adapter
       \/ /\ stop[g] \/ due[g]
          /\ Return(g, "failed", TRUE)
          /\ adapter' \in {adapter, [adapter EXCEPT ![g] = IF @ = "moving" THEN "ended" ELSE @]}
    /\ UNCHANGED controller /\ Unmoved

-----------------------------------------------------------------------------
(* Controller, robot adapter, clock, shutdown. *)

\* The robot adapter carries out one command at a time.
AdapterAnswers(g) ==
    /\ adapter[g] = "sent"
    /\ \/ adapter' = [adapter EXCEPT ![g] = "moving"] /\ \A h \in Goals : adapter[h] # "moving"
       \/ adapter' = [adapter EXCEPT ![g] = "refused"]
    /\ UNCHANGED <<handle, active, threads, due, controller, known, answers, scene, node>>

AdapterEnds(g) ==
    /\ adapter[g] = "moving"
    /\ adapter' \in {[adapter EXCEPT ![g] = a] : a \in {"succeeded", "ended"}}
    /\ UNCHANGED <<handle, active, threads, due, controller, known, answers, scene, node>>

Expire(g) ==
    /\ caller[g] \in {"start", "wait"} /\ ~due[g]
    /\ due' = [due EXCEPT ![g] = TRUE]
    /\ UNCHANGED <<handle, active, threads, robot, answers, scene, node>>

\* The executor stops; then the process ends, whatever its threads are doing.
Shutdown ==
    /\ node # "terminated"
    /\ node' = IF node = "up" THEN "stopping" ELSE "terminated"
    /\ UNCHANGED <<handle, active, threads, due, robot, answers, scene>>

Caller(g) == Refuse(g) \/ Start(g) \/ Poll(g) \/ CancelActiveRequest(g) \/ Join(g) \/ Get(g) \/ Conclude(g)
             \/ Release(g)
Worker(g) == Lock(g) \/ Plan(g) \/ Check(g) \/ Execute(g) \/ Send(g) \/ AwaitAcceptance(g)
             \/ Observe(g)

Next ==
    \/ \E g \in Goals : \/ HandleGoal(g) \/ HandleCancel(g) \/ Caller(g) \/ Worker(g)
                       \/ AdapterAnswers(g) \/ AdapterEnds(g) \/ Expire(g)
    \/ SyncScene
    \/ Shutdown

Spec == Init /\ [][Next]_vars

\* The threads run, planner and controller return from their calls, and the
\* clock goes on; the adapter need never answer.
Fairness == \A g \in Goals : WF_vars(Caller(g)) /\ WF_vars(Worker(g)) /\ WF_vars(Expire(g))
FairSpec == Spec /\ Fairness

-----------------------------------------------------------------------------
(* Properties. *)

Engaged(g) == caller[g] \notin {"none", "done"}

\* active_goal_ admits one motion at a time over both action servers, from the
\* goal callback until after the goal was answered, and only that motion has a
\* planner thread, the planner, or the controller.
OneMotion ==
    /\ \A g, h \in Goals : Engaged(g) /\ Engaged(h) => g = h
    /\ \A g \in Goals : Engaged(g) => active
    /\ \A g \in Goals :
          worker[g] \notin {"none", "done"} \/ mutex = g \/ controller = g => Engaged(g)

\* No answer while the controller still executes the trajectory: a stop that
\* came too early for it is waited out (run() joins the planner thread).
AnsweredControllerIsStill == \A g \in Goals : handle[g] \in Terminal => controller # g

\* "The result is not reported successful until the adapter has applied the
\* operation" (cellforge_motion/README.md): a cancel, a deadline or a stop that
\* crosses the motion never turns an incomplete one into a success.
SuccessIsObserved ==
    \A g \in Goals \ PlanOnly :
        handle[g] = "SUCCEEDED" \/ (handle[g] \in Terminal /\ code[g] = "completed")
        => adapter[g] = "succeeded"

\* Where the handle of a goal, its thread and its planner thread can be at once:
\* the answer waits for the planner thread, if one was started.
Paired ==
    \A g \in Goals :
        /\ handle[g] \in {"NONE", "REJECTED"} <=> caller[g] = "none"
        /\ handle[g] \in Terminal <=> caller[g] \in {"release", "done"}
        /\ caller[g] \in {"none", "start"} => worker[g] = "none"
        /\ caller[g] \in {"answer", "release", "done"} => worker[g] \in {"none", "done"}

\* The planner thread holds the planner from Lock to its return, and the
\* controller only during execute().
Held ==
    \A g \in Goals :
        /\ mutex = g <=> worker[g] \notin {"none", "lock", "done"}
        /\ controller = g => worker[g] = "send"

\* A success is passed on from the adapter to the planner's result, from there
\* to the answer, and from the answer to the handle.
Observed ==
    \A g \in Goals :
        /\ worker[g] = "done" => found[g] \in [code : Codes, certain : BOOLEAN]
        /\ worker[g] = "done" /\ found[g].code = "completed" /\ g \notin PlanOnly =>
              adapter[g] = "succeeded"
        /\ caller[g] \in {"cancel", "join", "answer", "release", "done"} => code[g] \in Codes
        /\ code[g] = "completed" => /\ caller[g] \in {"answer", "release", "done"}
                                   /\ (g \notin PlanOnly => adapter[g] = "succeeded")
        /\ handle[g] = "SUCCEEDED" => code[g] = "completed"

\* The inductive invariant behind OneMotion, AnsweredControllerIsStill,
\* SuccessIsObserved and ImplementsServer.
IInv == TypeOK /\ OneMotion /\ Paired /\ Held /\ Observed

Ended == node = "terminated"

\* What a client sees of a goal.
Status(g) ==
    CASE handle[g] = "REJECTED" -> "rejected"
      [] handle[g] # "REJECTED" /\ Ended -> "lost"
      [] ~Ended /\ handle[g] = "NONE" -> "sent"
      [] ~Ended /\ handle[g] \in {"EXECUTING", "CANCELING"} -> "executing"
      [] OTHER -> "done"
StatusOf == [g \in Goals |-> Status(g)]
Answered == [g \in Goals |-> IF handle[g] \in Terminal THEN code[g] ELSE None]
Cancelling == [g \in Goals |-> ~Ended /\ handle[g] = "CANCELING"]

Server == INSTANCE ActionServer WITH
    CancelledCodes <- {"cancelled"},
    goal <- StatusOf, answer <- Answered, cancelling <- Cancelling, up <- ~Ended

\* The node is the action server its clients rely on: one answer per accepted
\* goal, and "cancelled" only if a cancel was accepted.
ImplementsServer == Server!Spec

\* Every accepted motion is answered and makes room for the next, though the
\* robot adapter never answers and no cancel comes.
MotionsConclude ==
    \A g \in Goals : handle[g] = "EXECUTING" ~> Ended \/ (handle[g] \in Terminal /\ ~Engaged(g))

\* "Uncertain controller outcomes are reported as motion.execution.outcome_unknown
\* and require reconciliation" (cellforge_motion/README.md:28): an answer of
\* certain outcome leaves no command of its goal at the robot.
CertainMeansStill ==
    \A g \in Goals : handle[g] \in Terminal /\ certain[g] => adapter[g] \notin {"sent", "moving"}
============================================================================
