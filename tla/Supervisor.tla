---------------------------- MODULE Supervisor ----------------------------
(***************************************************************************)
(* cellforge_supervisor: one executor thread runs the callbacks of the     *)
(* ExecuteFrozenJob action server and of /cell/state (they share the       *)
(* node's mutually exclusive callback group), one worker thread executes   *)
(* jobs, and they meet in three atomics and one guarded pointer.  A step   *)
(* ends wherever the other thread may see the difference.                  *)
(*                                                                         *)
(* The behaviour tree is its one hazardous leaf: a process command whose   *)
(* outcome the adapter may or may not be able to prove.                    *)
(***************************************************************************)
CONSTANTS Jobs,        \* goals whose frozen identity matches the supervisor
          MayStop,     \* TRUE: the node may be shut down
          None

ASSUME StopAssumption == MayStop \in BOOLEAN
ASSUME NoneAssumption == None \notin Jobs

VARIABLES
    handle,     \* rcl_action state of each goal handle
    jobActive,  \* job_active_
    cancelRequested, \* cancel_requested_
    pending,    \* pending_goal_handle_
    cellReady,  \* cell_ready_
    executor,   \* what the executor thread is in the middle of
    wpc,        \* where the worker thread stands
    current,    \* the job the worker executes
    verdict,    \* how executeGoal is about to end
    overdue,    \* the current job's deadline has passed
    process,    \* the job's process command at the machine
    code,       \* result code of each concluded job
    event,      \* last job.* event published for each job
    state,      \* last state published on /cell/supervisor_state
    node        \* "up", "stopping", or "terminated" by std::terminate

shared == <<jobActive, cancelRequested, pending>>
worker == <<wpc, current, verdict, overdue>>
outputs == <<code, event, state>>
vars == <<handle, jobActive, cancelRequested, pending, cellReady, executor,
          wpc, current, verdict, overdue, process, code, event, state, node>>

Terminal == {"SUCCEEDED", "CANCELED", "ABORTED"}
Codes == {"supervisor.job.cell_not_ready", "supervisor.tree.invalid",
          "supervisor.job.cancelled", "supervisor.job.timeout",
          "supervisor.tree.execution_error", "supervisor.job.completed",
          "supervisor.job.tree_failed", "supervisor.job.outcome_unknown",
          "supervisor.job.stopping"}
TerminalEvents == {"job.rejected", "job.cancelled", "job.failed",
                   "job.completed", "job.outcome_unknown"}
States == {"IDLE", "RUNNING", "RECOVERABLE_FAULT", "STOPPING"}
Calls == {"SUCCEEDED", "CANCELED", "ABORTED"}
Verdicts == [code : Codes, call : Calls, next : States]
Releasing == {"clearCancel", "clearActive"}
Executing == {"admit", "build", "head", "poll", "tick", "transition"} \cup Releasing

TypeOK ==
    /\ handle \in [Jobs -> {"NONE", "EXECUTING", "CANCELING"} \cup Terminal]
    /\ jobActive \in BOOLEAN
    /\ cancelRequested \in BOOLEAN
    /\ pending \in Jobs \cup {None}
    /\ cellReady \in BOOLEAN
    /\ executor \in [at : {"idle", "accepting", "cancelling"}, job : Jobs \cup {None}]
    /\ wpc \in {"wait", "conclude"} \cup Executing
    /\ current \in Jobs \cup {None}
    /\ verdict \in Verdicts \cup {None}
    /\ overdue \in BOOLEAN
    /\ process \in [Jobs -> {"none", "running", "certain", "uncertain"}]
    /\ code \in [Jobs -> Codes \cup {None}]
    /\ event \in [Jobs -> {"none", "job.accepted", "job.started"} \cup TerminalEvents]
    /\ state \in States
    /\ node \in {"up", "stopping", "terminated"}

Idle == [at |-> "idle", job |-> None]

Init ==
    /\ handle = [j \in Jobs |-> "NONE"]
    /\ jobActive = FALSE
    /\ cancelRequested = FALSE
    /\ pending = None
    /\ cellReady = FALSE
    /\ executor = Idle
    /\ wpc = "wait"
    /\ current = None
    /\ verdict = None
    /\ overdue = FALSE
    /\ process = [j \in Jobs |-> "none"]
    /\ code = [j \in Jobs |-> None]
    /\ event = [j \in Jobs |-> "none"]
    /\ state = "IDLE"
    /\ node = "up"

-----------------------------------------------------------------------------
(* The executor thread. *)

\* Mutant: handleGoal forgets the compare-exchange.
HandleGoalUnchecked(j) ==
    /\ node = "up"
    /\ executor = Idle
    /\ handle[j] = "NONE"
    /\ jobActive' = TRUE
    /\ handle' = [handle EXCEPT ![j] = "EXECUTING"]
    /\ executor' = [at |-> "accepting", job |-> j]
    /\ UNCHANGED <<cancelRequested, pending, cellReady, worker, process, outputs, node>>

\* handleGoal wins the slot; rclcpp moves the new goal to EXECUTING.
HandleGoal(j) ==
    /\ node = "up"
    /\ executor = Idle
    /\ handle[j] = "NONE"
    /\ ~jobActive
    /\ jobActive' = TRUE
    /\ handle' = [handle EXCEPT ![j] = "EXECUTING"]
    /\ executor' = [at |-> "accepting", job |-> j]
    /\ UNCHANGED <<cancelRequested, pending, cellReady, worker, process, outputs, node>>

HandleAccepted ==
    /\ node = "up"
    /\ executor.at = "accepting"
    /\ cancelRequested' = FALSE
    /\ pending' = executor.job
    /\ executor' = Idle
    /\ UNCHANGED <<handle, jobActive, cellReady, worker, process, outputs, node>>

\* handleCancel looks at the slot only, not at which goal is to be cancelled.
HandleCancel(j) ==
    /\ node = "up"
    /\ executor = Idle
    /\ handle[j] = "EXECUTING"
    /\ jobActive
    /\ cancelRequested' = TRUE
    /\ executor' = [at |-> "cancelling", job |-> j]
    /\ UNCHANGED <<handle, jobActive, pending, cellReady, worker, process, outputs, node>>

\* After the callback, rclcpp moves the goal to CANCELING if it still can.
CancelGoal ==
    /\ node = "up"
    /\ executor.at = "cancelling"
    /\ handle' = [handle EXCEPT ![executor.job] =
                     IF @ = "EXECUTING" THEN "CANCELING" ELSE @]
    /\ executor' = Idle
    /\ UNCHANGED <<shared, cellReady, worker, process, outputs, node>>

OnCellState(ready) ==
    /\ node = "up"
    /\ executor = Idle
    /\ cellReady' = ready
    /\ UNCHANGED <<handle, shared, executor, worker, process, outputs, node>>

-----------------------------------------------------------------------------
(* The worker thread: workerLoop and executeGoal. *)

WorkerAt(label) == node # "terminated" /\ wpc = label

\* Mutant: the worker clears the cancel flag when it starts a job.
TakeClearingCancel ==
    /\ WorkerAt("wait")
    /\ pending # None
    /\ current' = pending
    /\ pending' = None
    /\ cancelRequested' = FALSE
    /\ wpc' = "admit"
    /\ UNCHANGED <<handle, jobActive, cellReady, executor, verdict, overdue,
                   process, outputs, node>>

Take ==
    /\ WorkerAt("wait")
    /\ pending # None
    /\ current' = pending
    /\ pending' = None
    /\ wpc' = "admit"
    /\ UNCHANGED <<handle, jobActive, cancelRequested, cellReady, executor,
                   verdict, overdue, process, outputs, node>>

\* Mutant: the event is forgotten.
SettleSilent(c, e, call, next, label) ==
    /\ verdict' = [code |-> c, call |-> call, next |-> next]
    /\ wpc' = label
    /\ UNCHANGED <<handle, shared, cellReady, executor, current, overdue, outputs, node>>

\* executeGoal settles the result, publishes the event and halts the tree.
Settle(c, e, call, next, label) ==
    /\ verdict' = [code |-> c, call |-> call, next |-> next]
    /\ event' = [event EXCEPT ![current] = e]
    /\ wpc' = label
    /\ UNCHANGED <<handle, shared, cellReady, executor, current, overdue, code, state, node>>

Reject(c) == Settle(c, "job.rejected", "ABORTED", state, "clearCancel")
Fault(c, e) == Settle(c, e, "ABORTED", "RECOVERABLE_FAULT", "transition")

Admit ==
    /\ WorkerAt("admit")
    /\ IF cellReady
       THEN /\ wpc' = "build"
            /\ event' = [event EXCEPT ![current] = "job.accepted"]
            /\ UNCHANGED <<handle, shared, cellReady, executor, current, verdict,
                           overdue, code, state, node>>
       ELSE Reject("supervisor.job.cell_not_ready")
    /\ UNCHANGED process

\* Digest checks and tree construction, then RUNNING and the deadline.
Build ==
    /\ WorkerAt("build")
    /\ \/ Reject("supervisor.tree.invalid")
       \/ /\ wpc' = "head"
          /\ state' = "RUNNING"
          /\ event' = [event EXCEPT ![current] = "job.started"]
          /\ overdue' = FALSE
          /\ UNCHANGED <<handle, shared, cellReady, executor, current, verdict, code, node>>
    /\ UNCHANGED process

Head ==
    /\ WorkerAt("head")
    /\ IF node = "up"
       THEN /\ wpc' = "poll"
            /\ UNCHANGED <<handle, shared, cellReady, executor, current, verdict,
                           overdue, outputs, node>>
       ELSE Settle("supervisor.job.stopping", event[current], "ABORTED",
                   "STOPPING", "transition")
    /\ UNCHANGED process

\* Mutant: a cancelled job is aborted, whatever its handle says.
PollAborting ==
    /\ WorkerAt("poll")
    /\ IF cancelRequested
       THEN Settle("supervisor.job.cancelled", "job.cancelled", "ABORTED",
                   "IDLE", "transition")
       ELSE /\ wpc' = "tick"
            /\ UNCHANGED <<handle, shared, cellReady, executor, current, verdict,
                           overdue, outputs, node>>
    /\ UNCHANGED process

Poll ==
    /\ WorkerAt("poll")
    /\ IF cancelRequested
       THEN Settle("supervisor.job.cancelled", "job.cancelled", "CANCELED",
                   "IDLE", "transition")
       ELSE /\ wpc' = "tick"
            /\ UNCHANGED <<handle, shared, cellReady, executor, current, verdict,
                           overdue, outputs, node>>
    /\ UNCHANGED process

\* Mutant: the deadline spares a job whose process command is in flight.
OverdueSparing ==
    /\ WorkerAt("tick")
    /\ overdue
    /\ process[current] = "none"
    /\ Fault("supervisor.job.timeout", "job.failed")
    /\ UNCHANGED process

Overdue ==
    /\ WorkerAt("tick")
    /\ overdue
    /\ Fault("supervisor.job.timeout", "job.failed")
    /\ UNCHANGED process

\* The tree is still running; it may have started its process command.
TickRunning ==
    /\ WorkerAt("tick")
    /\ ~overdue
    /\ process[current] # "uncertain"
    /\ \/ UNCHANGED process
       \/ /\ process[current] = "none"
          /\ process' = [process EXCEPT ![current] = "running"]
    /\ wpc' = "head"
    /\ UNCHANGED <<handle, shared, cellReady, executor, current, verdict,
                   overdue, outputs, node>>

TickSuccess ==
    /\ WorkerAt("tick")
    /\ ~overdue
    /\ process[current] \in {"none", "certain"}
    /\ Settle("supervisor.job.completed", "job.completed", "SUCCEEDED", "IDLE", "transition")
    /\ UNCHANGED process

\* ExecuteProcess failed uncertain, or gave up on its own deadline: it has set
\* process_outcome_unknown on the blackboard.
LeafUncertain == process[current] \in {"running", "uncertain"}

TickFailure ==
    /\ WorkerAt("tick")
    /\ ~overdue
    /\ IF LeafUncertain
       THEN Fault("supervisor.job.outcome_unknown", "job.outcome_unknown")
       ELSE Fault("supervisor.job.tree_failed", "job.failed")
    /\ UNCHANGED process

TickThrows ==
    /\ WorkerAt("tick")
    /\ ~overdue
    /\ process[current] \in {"none", "certain"}
    /\ Fault("supervisor.tree.execution_error", "job.failed")
    /\ UNCHANGED process

Transition ==
    /\ WorkerAt("transition")
    /\ state' = verdict.next
    /\ wpc' = "clearCancel"
    /\ UNCHANGED <<handle, shared, cellReady, executor, current, verdict,
                   overdue, process, code, event, node>>

\* finishGoalSlot, first store.
ClearCancel ==
    /\ WorkerAt("clearCancel")
    /\ cancelRequested' = FALSE
    /\ wpc' = "clearActive"
    /\ UNCHANGED <<handle, jobActive, pending, cellReady, executor, current,
                   verdict, overdue, process, outputs, node>>

\* finishGoalSlot, second store: the slot is free before the goal has ended.
ClearActive ==
    /\ WorkerAt("clearActive")
    /\ jobActive' = FALSE
    /\ wpc' = "conclude"
    /\ UNCHANGED <<handle, cancelRequested, pending, cellReady, executor, current,
                   verdict, overdue, process, outputs, node>>

\* goal_handle->succeed, abort or canceled; canceled throws unless the goal is
\* CANCELING, and nothing catches on the worker thread.
Conclude ==
    /\ WorkerAt("conclude")
    /\ IF verdict.call = "CANCELED" /\ handle[current] # "CANCELING"
       THEN /\ node' = "terminated"
            /\ UNCHANGED <<handle, wpc, current, verdict, code>>
       ELSE /\ handle' = [handle EXCEPT ![current] = verdict.call]
            /\ code' = [code EXCEPT ![current] = verdict.code]
            /\ wpc' = "wait"
            /\ current' = None
            /\ verdict' = None
            /\ UNCHANGED node
    /\ UNCHANGED <<shared, cellReady, executor, overdue, process, event, state>>

-----------------------------------------------------------------------------
(* Time, the machine, and shutdown. *)

Expire ==
    /\ node # "terminated"
    /\ wpc \in {"head", "poll", "tick"}
    /\ ~overdue
    /\ overdue' = TRUE
    /\ UNCHANGED <<handle, shared, cellReady, executor, wpc, current, verdict,
                   process, outputs, node>>

\* The adapter's command ends, proven or not; nobody need be listening.
ProcessEnds(j) ==
    /\ process[j] = "running"
    /\ \E outcome \in {"certain", "uncertain"} :
          process' = [process EXCEPT ![j] = outcome]
    /\ UNCHANGED <<handle, shared, cellReady, executor, worker, outputs, node>>

\* SIGINT: rclcpp::ok() is false and the executor takes no more callbacks.
Stop ==
    /\ MayStop
    /\ node = "up"
    /\ executor = Idle
    /\ node' = "stopping"
    /\ UNCHANGED <<handle, shared, cellReady, executor, worker, process, outputs>>

\* ~SupervisorNode raises the cancel flag, then stops and joins the worker.
Destroy ==
    /\ node = "stopping"
    /\ ~cancelRequested
    /\ cancelRequested' = TRUE
    /\ UNCHANGED <<handle, jobActive, pending, cellReady, executor, worker,
                   process, outputs, node>>

-----------------------------------------------------------------------------

Tick == Overdue \/ TickRunning \/ TickSuccess \/ TickFailure \/ TickThrows

Work == \/ Take \/ Admit \/ Build \/ Head \/ Poll \/ Tick
        \/ Transition \/ ClearCancel \/ ClearActive \/ Conclude

Callback == HandleAccepted \/ CancelGoal

Next ==
    \/ \E j \in Jobs : HandleGoal(j) \/ HandleCancel(j) \/ ProcessEnds(j)
    \/ Callback
    \/ \E ready \in BOOLEAN : OnCellState(ready)
    \/ Work
    \/ Expire
    \/ Stop
    \/ Destroy

Spec == Init /\ [][Next]_vars

\* Both threads run; the tree may run for ever and the clock is not assumed.
Fairness == WF_vars(Work) /\ WF_vars(Callback)
FairSpec == Spec /\ Fairness

-----------------------------------------------------------------------------
(* Properties. *)

\* Job j is between handleGoal's exchange and finishGoalSlot's release.
Holds(j) ==
    \/ executor.at = "accepting" /\ executor.job = j
    \/ pending = j
    \/ current = j /\ wpc \in Executing

\* job_active_ is exactly "some job holds the slot", never two do, and a new
\* goal never overwrites a pending one the worker has not taken
\* (handleGoal, handleAccepted, workerLoop, finishGoalSlot).
SlotExclusive ==
    /\ jobActive <=> \E j \in Jobs : Holds(j)
    /\ \A i, j \in Jobs : Holds(i) /\ Holds(j) => i = j
    /\ executor.at = "accepting" => pending = None /\ wpc \notin Executing

\* The cell is published RUNNING only while a started job holds the slot:
\* the terminal state is published before the slot is released.
RunningHoldsSlot == state = "RUNNING" => jobActive

\* A goal is acknowledged only after its terminal event was published, with
\* the one exception of a job interrupted by shutdown.
EventBeforeAcknowledgement ==
    \A j \in Jobs : handle[j] \in Terminal =>
        event[j] \in TerminalEvents \/ code[j] = "supervisor.job.stopping"

\* The accepting callback, the pending pointer and the worker hold at most one
\* job between them.
Places ==
    /\ executor.at # "idle" => executor.job \in Jobs
    /\ wpc # "wait" => current \in Jobs
    /\ executor.at = "accepting" => pending = None /\ wpc \notin Executing
    /\ pending # None => wpc \notin Executing
    /\ jobActive <=> \/ executor.at = "accepting"
                     \/ pending # None
                     \/ wpc \in Executing

\* The job in a place is live, and no job is in two places.
Live(j) == handle[j] \in {"EXECUTING", "CANCELING"}
Unfinished ==
    /\ executor.at = "accepting" => Live(executor.job)
    /\ pending # None => Live(pending)
    /\ wpc # "wait" => Live(current) /\ pending # current
    /\ wpc # "wait" /\ executor.at = "accepting" => executor.job # current

\* A settled job knows its verdict, and its event is out.
Settled ==
    wpc \in {"transition", "conclude"} \cup Releasing =>
        /\ verdict \in Verdicts
        /\ wpc = "transition" => verdict.next # "RUNNING"
        /\ verdict.code = "supervisor.job.cancelled" => verdict.call = "CANCELED"
        /\ event[current] \in TerminalEvents \/ verdict.code = "supervisor.job.stopping"

\* RUNNING is withdrawn on every way out of the loop.
RunningAtWork == state = "RUNNING" => wpc \in {"head", "poll", "tick", "transition"}

\* The inductive invariant of the worker and executor threads.
IInv ==
    /\ TypeOK
    /\ Places
    /\ Unfinished
    /\ Settled
    /\ RunningAtWork
    /\ EventBeforeAcknowledgement

\* How an action client sees the job behind each goal handle.
GoalStatus(j) ==
    CASE node = "terminated" -> "lost"
      [] node # "terminated" /\ handle[j] = "NONE" -> "sent"
      [] node # "terminated" /\ Live(j) -> "executing"
      [] OTHER -> "done"

Server == INSTANCE ActionServer WITH
    Goals <- Jobs,
    CancelledCodes <- {"supervisor.job.cancelled"},
    goal <- [j \in Jobs |-> GoalStatus(j)],
    answer <- code,
    cancelling <- [j \in Jobs |-> node # "terminated" /\ handle[j] = "CANCELING"],
    up <- node # "terminated"

\* The two threads and their callbacks implement the action server the gateway
\* relies on: one answer per accepted job, cancelled only if it was cancelling.
ImplementsServer == Server!Spec

\* An accepted cancel ends the goal, even if the tree would run for ever: no
\* reset of the shared flag loses it.
CancelEndsGoal ==
    \A j \in Jobs : handle[j] = "CANCELING" ~> handle[j] \in Terminal \/ node # "up"

\* Every accepted goal reaches a terminal state, unless the node goes down or
\* its tree runs on within the job's deadline.
GoalsConclude ==
    \A j \in Jobs : handle[j] = "EXECUTING" ~>
        \/ handle[j] \in Terminal
        \/ node # "up"
        \/ [](wpc \in {"head", "poll", "tick"} /\ ~overdue)

\* A job that ends as cancelled was itself asked to cancel.
OnlyRequestedCancels ==
    wpc = "transition" /\ verdict.code = "supervisor.job.cancelled" =>
        handle[current] = "CANCELING" \/ executor = [at |-> "cancelling", job |-> current]

\* Ending a goal never takes the process down.
NeverTerminated == node # "terminated"

\* A job whose process outcome is not proven is never reported as settled.
UncertainIsReported ==
    \A j \in Jobs : handle[j] \in Terminal /\ process[j] \in {"running", "uncertain"} =>
        event[j] = "job.outcome_unknown"
============================================================================
