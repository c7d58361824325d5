---------------------------- MODULE DeviceNode ----------------------------
(***************************************************************************)
(* One device node: the action servers of MockDeviceNode over a            *)
(* BaseDeviceAdapter.  Executor threads run the goal, execute and cancel   *)
(* callbacks; a thread that executes a goal registers its command, hands   *)
(* adapter.execute() to the asyncio loop and blocks on the result.  The    *)
(* loop runs one callback at a time; a step of a coroutine ends at its     *)
(* next await.  The adapter's state lives on the loop, but for the         *)
(* published snapshot: the heartbeat timer reads it and writes it back     *)
(* from a thread of the executor, without a lock.                          *)
(***************************************************************************)
EXTENDS FiniteSets, Naturals, Sequences

CONSTANTS Commands, \* goals sent to the node, each with its own command ID
          Threads,  \* threads of the executor
          Provable, \* those whose cancellation the device can confirm
          None

ASSUME ThreadsAssumption == Threads \in Nat \ {0}
ASSUME ProvableAssumption == Provable \subseteq Commands

VARIABLES
    goal,      \* rcl_action state of each goal, and whether its client lost it
    pc,        \* how far the execution of each goal has come
    cancel,    \* how far the cancel callback of each goal has come
    loop,      \* coroutines handed to the asyncio loop, not yet begun
    device,    \* snapshot.state
    beat,      \* the state a heartbeat has read and will write back, or None
    active,    \* _active_context
    token,     \* the CancellationToken and the task that waits for it
    operation, \* the execute_operation task of each command
    answer,    \* the CommandResult of each command
    reply,     \* the result code the client of each goal got
    up         \* the process is alive

adapter == <<device, active, token, operation, answer>>
vars == <<goal, pc, cancel, loop, adapter, beat, reply, up>>

Terminal == {"succeeded", "canceled", "aborted"}
Goals == {"none", "sent", "rejected", "executing", "canceling", "lost"} \cup Terminal

\* "completed" and "failed" are certain results without a fault; a
\* DeviceOperationFault is certain; an exception, a foreign result and one that
\* says so itself are not.
Outcomes == {"completed", "failed", "fault", "unknown"}
UncertainCodes == {"unknown", "sdk.command.cancelled_uncertain", "sdk.command.timeout"}
Refusals == {"sdk.command.invalid_input", "sdk.command.not_ready", "sdk.command.busy"}
CancelledCode == "sdk.command.cancelled"
Codes == Outcomes \cup UncertainCodes \cup Refusals \cup {CancelledCode, "empty"}

States == {"READY", "BUSY", "FAULT", "UNKNOWN"}
Closed == {"FAULT", "UNKNOWN"}

ASSUME NoneAssumption == None \notin Commands \cup Codes \cup States

\* Where execute() may stand: in asyncio.wait, released from it, in one of the
\* two gathers on the cancelled operation, and in the finally block.
Operating == {"waiting", "woken", "cancelling", "expiring"}
Working == Operating \cup {"leaving"}
OnThread == {"registered", "submitted", "returned"} \cup Working

TypeOK ==
    /\ goal \in [Commands -> Goals]
    /\ pc \in [Commands -> {"none", "queued", "done"} \cup OnThread]
    /\ cancel \in [Commands -> {"none", "submitted", "forwarded", "done"}]
    /\ loop \in Seq({"execute", "cancel"} \X Commands)
    /\ device \in States
    /\ beat \in States \cup {None}
    /\ active \in Commands \cup {None}
    /\ token \in [Commands -> {"clear", "requested", "noticed"}]
    /\ operation \in [Commands -> {"none", "running", "cancelled"} \cup Outcomes]
    /\ answer \in [Commands -> Codes \cup {None}]
    /\ reply \in [Commands -> Codes \cup {None}]
    /\ up \in BOOLEAN

\* The node connects and marks itself ready before it takes goals.
Fresh ==
    /\ pc' = [c \in Commands |-> "none"]
    /\ cancel' = [c \in Commands |-> "none"]
    /\ loop' = <<>>
    /\ device' = "READY"
    /\ beat' = None
    /\ active' = None
    /\ token' = [c \in Commands |-> "clear"]
    /\ operation' = [c \in Commands |-> "none"]
    /\ answer' = [c \in Commands |-> None]

Init ==
    /\ goal = [c \in Commands |-> "none"]
    /\ pc = [c \in Commands |-> "none"]
    /\ cancel = [c \in Commands |-> "none"]
    /\ loop = <<>>
    /\ device = "READY"
    /\ beat = None
    /\ active = None
    /\ token = [c \in Commands |-> "clear"]
    /\ operation = [c \in Commands |-> "none"]
    /\ answer = [c \in Commands |-> None]
    /\ reply = [c \in Commands |-> None]
    /\ up = TRUE

-----------------------------------------------------------------------------
(* The executor threads. *)

Occupied ==
    Cardinality({c \in Commands : pc[c] \in OnThread})
  + Cardinality({c \in Commands : cancel[c] \in {"submitted", "forwarded"}})
  + (IF beat = None THEN 0 ELSE 1)
ThreadFree == Occupied < Threads

SendGoal(c) ==
    /\ up
    /\ goal[c] = "none"
    /\ goal' = [goal EXCEPT ![c] = "sent"]
    /\ UNCHANGED <<pc, cancel, loop, adapter, beat, reply, up>>

\* _accept_goal refuses a bad command ID, skill or timeout.
RejectGoal(c) ==
    /\ up
    /\ goal[c] = "sent"
    /\ ThreadFree
    /\ goal' = [goal EXCEPT ![c] = "rejected"]
    /\ UNCHANGED <<pc, cancel, loop, adapter, beat, reply, up>>

AcceptGoal(c) ==
    /\ up
    /\ goal[c] = "sent"
    /\ ThreadFree
    /\ goal' = [goal EXCEPT ![c] = "executing"]
    /\ pc' = [pc EXCEPT ![c] = "queued"]
    /\ UNCHANGED <<cancel, loop, adapter, beat, reply, up>>

\* _execute records the command, unless its payload does not decode: then the
\* callback raises and rclpy aborts the goal with an empty result.
Register(c) ==
    /\ up
    /\ pc[c] = "queued"
    /\ ThreadFree
    /\ \/ /\ pc' = [pc EXCEPT ![c] = "registered"]
          /\ UNCHANGED <<goal, reply>>
       \/ /\ pc' = [pc EXCEPT ![c] = "done"]
          /\ goal' = [goal EXCEPT ![c] = "aborted"]
          /\ reply' = [reply EXCEPT ![c] = "empty"]
    /\ UNCHANGED <<cancel, loop, adapter, beat, up>>

SubmitCommand(c) ==
    /\ up
    /\ pc[c] = "registered"
    /\ pc' = [pc EXCEPT ![c] = "submitted"]
    /\ loop' = Append(loop, <<"execute", c>>)
    /\ UNCHANGED <<goal, cancel, adapter, beat, reply, up>>

\* _cancel_goal hands adapter.cancel() to the loop and waits for it; a goal
\* whose command is not registered is refused, and may be cancelled again.
CancelCallback(c) ==
    /\ up
    /\ goal[c] = "executing"
    /\ pc[c] \in OnThread
    /\ cancel[c] = "none"
    /\ ThreadFree
    /\ cancel' = [cancel EXCEPT ![c] = "submitted"]
    /\ loop' = Append(loop, <<"cancel", c>>)
    /\ UNCHANGED <<goal, pc, adapter, beat, reply, up>>

\* The callback accepts whatever adapter.cancel() said; only then does rclpy
\* move the goal to CANCELING, if it still can.
CancelGoal(c) ==
    /\ up
    /\ cancel[c] = "forwarded"
    /\ cancel' = [cancel EXCEPT ![c] = "done"]
    /\ goal' = [goal EXCEPT ![c] = IF @ = "executing" THEN "canceling" ELSE @]
    /\ UNCHANGED <<pc, loop, adapter, beat, reply, up>>

\* Mutant: a cancelled command aborts its goal and keeps its result.
FinishAborting(c) ==
    /\ up
    /\ pc[c] = "returned"
    /\ pc' = [pc EXCEPT ![c] = "done"]
    /\ goal' = [goal EXCEPT ![c] = IF answer[c] = "completed" THEN "succeeded" ELSE "aborted"]
    /\ reply' = [reply EXCEPT ![c] = answer[c]]
    /\ UNCHANGED <<cancel, loop, adapter, beat, up>>

\* _finish_goal; canceled() raises unless the goal is CANCELING, and the client
\* then gets an aborted goal with an empty result.
Finish(c) ==
    /\ up
    /\ pc[c] = "returned"
    /\ pc' = [pc EXCEPT ![c] = "done"]
    /\ \/ /\ answer[c] = CancelledCode
          /\ goal[c] = "canceling"
          /\ goal' = [goal EXCEPT ![c] = "canceled"]
          /\ reply' = [reply EXCEPT ![c] = answer[c]]
       \/ /\ answer[c] = CancelledCode
          /\ goal[c] # "canceling"
          /\ goal' = [goal EXCEPT ![c] = "aborted"]
          /\ reply' = [reply EXCEPT ![c] = "empty"]
       \/ /\ answer[c] # CancelledCode
          /\ goal' = [goal EXCEPT ![c] = IF answer[c] = "completed" THEN "succeeded"
                                         ELSE "aborted"]
          /\ reply' = [reply EXCEPT ![c] = answer[c]]
    /\ UNCHANGED <<cancel, loop, adapter, beat, up>>

\* The timer's heartbeat() replaces the snapshot by a copy of the one it has
\* read; its callback group runs one heartbeat at a time.
HeartbeatRead ==
    /\ up
    /\ beat = None
    /\ ThreadFree
    /\ beat' = device
    /\ UNCHANGED <<goal, pc, cancel, loop, adapter, reply, up>>

HeartbeatWrite ==
    /\ up
    /\ beat # None
    /\ device' = beat
    /\ beat' = None
    /\ UNCHANGED <<goal, pc, cancel, loop, active, token, operation, answer, reply, up>>

-----------------------------------------------------------------------------
(* The asyncio loop: BaseDeviceAdapter. *)

Return(c, code, next) ==
    /\ answer' = [answer EXCEPT ![c] = code]
    /\ pc' = [pc EXCEPT ![c] = next]

Refuse(c, code) ==
    /\ Return(c, code, "returned")
    /\ UNCHANGED <<device, active, token, operation>>

BeginOperation(c) ==
    /\ active' = c
    /\ device' = "BUSY"
    /\ operation' = [operation EXCEPT ![c] = "running"]
    /\ pc' = [pc EXCEPT ![c] = "waiting"]
    /\ UNCHANGED <<token, answer>>

TakeFromLoop(job) == loop # <<>> /\ Head(loop) = job /\ loop' = Tail(loop)

\* Mutant: readiness alone admits a command.
BeginWhenReady(c) ==
    /\ up
    /\ pc[c] = "submitted"
    /\ TakeFromLoop(<<"execute", c>>)
    /\ \/ Refuse(c, "sdk.command.invalid_input")
       \/ device # "READY" /\ Refuse(c, "sdk.command.not_ready")
       \/ device = "READY" /\ BeginOperation(c)
    /\ UNCHANGED <<goal, cancel, beat, reply, up>>

\* execute(), up to asyncio.wait.
Begin(c) ==
    /\ up
    /\ pc[c] = "submitted"
    /\ TakeFromLoop(<<"execute", c>>)
    /\ \/ Refuse(c, "sdk.command.invalid_input")
       \/ device # "READY" /\ Refuse(c, "sdk.command.not_ready")
       \/ device = "READY" /\ active # None /\ Refuse(c, "sdk.command.busy")
       \/ device = "READY" /\ active = None /\ BeginOperation(c)
    /\ UNCHANGED <<goal, cancel, beat, reply, up>>

\* adapter.cancel(): without a matching context it does nothing.
Forward(c) ==
    /\ up
    /\ cancel[c] = "submitted"
    /\ TakeFromLoop(<<"cancel", c>>)
    /\ cancel' = [cancel EXCEPT ![c] = "forwarded"]
    /\ token' = [token EXCEPT ![c] = IF active = c /\ @ = "clear" THEN "requested" ELSE @]
    /\ UNCHANGED <<goal, pc, device, active, operation, answer, beat, reply, up>>

\* The operation may end at any time before it is cancelled, or never.
OperationEnds(c) ==
    /\ up
    /\ pc[c] \in {"waiting", "woken"}
    /\ operation[c] = "running"
    /\ \E outcome \in Outcomes : operation' = [operation EXCEPT ![c] = outcome]
    /\ UNCHANGED <<goal, pc, cancel, loop, device, active, token, answer, beat, reply, up>>

\* The task that waits for the token ends.
Notice(c) ==
    /\ up
    /\ pc[c] \in {"waiting", "woken"}
    /\ token[c] = "requested"
    /\ token' = [token EXCEPT ![c] = "noticed"]
    /\ UNCHANGED <<goal, pc, cancel, loop, device, active, operation, answer, beat, reply, up>>

Wake(c) ==
    /\ up
    /\ pc[c] = "waiting"
    /\ operation[c] # "running" \/ token[c] = "noticed"
    /\ pc' = [pc EXCEPT ![c] = "woken"]
    /\ UNCHANGED <<goal, cancel, loop, adapter, beat, reply, up>>

\* Mutant: the deadline is only looked at when the operation has ended.
ExpireLate(c) ==
    /\ up
    /\ pc[c] = "waiting"
    /\ operation[c] # "running"
    /\ pc' = [pc EXCEPT ![c] = "woken"]
    /\ UNCHANGED <<goal, cancel, loop, adapter, beat, reply, up>>

\* The timeout of asyncio.wait.
Expire(c) ==
    /\ up
    /\ pc[c] = "waiting"
    /\ pc' = [pc EXCEPT ![c] = "woken"]
    /\ UNCHANGED <<goal, cancel, loop, adapter, beat, reply, up>>

\* Mutant: only a fault keeps a device from being ready again.
StateAfterFault(code) == IF code = "fault" THEN "FAULT" ELSE "READY"

\* _publish_result_state
StateAfter(code) ==
    CASE code \in UncertainCodes -> "UNKNOWN"
      [] code = "fault" -> "FAULT"
      [] OTHER -> "READY"

Conclude(c, code) ==
    /\ Return(c, code, "leaving")
    /\ device' = StateAfter(code)

\* What asyncio.wait returned: a cancellation wins over a result, and the
\* deadline counts only if there is neither.
Resume(c) ==
    /\ up
    /\ pc[c] = "woken"
    /\ \/ /\ token[c] = "noticed"
          /\ pc' = [pc EXCEPT ![c] = "cancelling"]
          /\ UNCHANGED <<device, token, answer>>
       \/ /\ token[c] # "noticed"
          /\ operation[c] # "running"
          /\ Conclude(c, operation[c])
          /\ UNCHANGED token
       \/ /\ token[c] # "noticed"
          /\ operation[c] = "running"
          /\ pc' = [pc EXCEPT ![c] = "expiring"]
          /\ token' = [token EXCEPT ![c] = "requested"]
          /\ UNCHANGED <<device, answer>>
    /\ UNCHANGED <<goal, cancel, loop, active, operation, beat, reply, up>>

\* operation.cancel() and the gather on it; an operation that has ended is left
\* as it is, its result unread.
Stopped(c) ==
    /\ up
    /\ \/ /\ pc[c] = "cancelling"
          /\ Conclude(c, IF c \in Provable THEN CancelledCode ELSE "sdk.command.cancelled_uncertain")
       \/ /\ pc[c] = "expiring"
          /\ Conclude(c, "sdk.command.timeout")
    /\ operation' = [operation EXCEPT ![c] = IF @ = "running" THEN "cancelled" ELSE @]
    /\ UNCHANGED <<goal, cancel, loop, active, token, beat, reply, up>>

\* The finally block of execute(); the blocked thread gets the result.
Leave(c) ==
    /\ up
    /\ pc[c] = "leaving"
    /\ active' = None
    /\ pc' = [pc EXCEPT ![c] = "returned"]
    /\ UNCHANGED <<goal, cancel, loop, device, token, operation, answer, beat, reply, up>>

-----------------------------------------------------------------------------
(* The process. *)

Crash ==
    /\ up
    /\ up' = FALSE
    /\ goal' = [c \in Commands |-> IF goal[c] \in {"none", "rejected"} THEN goal[c] ELSE "lost"]
    /\ Fresh
    /\ UNCHANGED reply

\* The constructor marks the adapter ready without reconciling with the device.
Restart ==
    /\ ~up
    /\ up' = TRUE
    /\ UNCHANGED <<goal, pc, cancel, loop, adapter, beat, reply>>

-----------------------------------------------------------------------------

Thread(c) == Register(c) \/ SubmitCommand(c) \/ CancelGoal(c) \/ Finish(c)

Loop(c) == Begin(c) \/ Forward(c) \/ Notice(c) \/ Wake(c) \/ Resume(c) \/ Stopped(c) \/ Leave(c)

Next ==
    \/ \E c \in Commands :
          \/ SendGoal(c) \/ RejectGoal(c) \/ AcceptGoal(c) \/ CancelCallback(c)
          \/ Thread(c)
          \/ Loop(c)
          \/ OperationEnds(c)
          \/ Expire(c)
    \/ HeartbeatRead
    \/ HeartbeatWrite
    \/ Crash
    \/ Restart

Spec == Init /\ [][Next]_vars

\* The executor's threads, the loop and its timers run; an operation may hang.
\* The pool of threads is served in order: a heartbeat does not for ever take
\* the thread a goal waits for.
Fairness ==
    /\ WF_vars(HeartbeatWrite)
    /\ \A c \in Commands : /\ WF_vars(Thread(c))
                           /\ SF_vars(Register(c))
                           /\ WF_vars(Loop(c))
                           /\ WF_vars(Expire(c))
FairSpec == Spec /\ Fairness

-----------------------------------------------------------------------------
(* Properties. *)

\* The command in execute() is the active context, so that a cancel reaches it,
\* and no second one is in there, also in the window where the device is READY
\* and the context not yet cleared, and when a heartbeat has written READY over
\* the BUSY of a command that operates.  No heartbeat makes the device of a
\* command that operates look closed.
ActiveIsWorking ==
    /\ \A c \in Commands : pc[c] \in Working => active = c
    /\ active # None => pc[active] \in Working
    /\ device \in Closed => \A c \in Commands : pc[c] \notin Operating

\* An outcome that was not proven makes the device UNKNOWN, and so closed to
\* commands, in the step that publishes it and in every later one until the
\* process restarts, unless a heartbeat writes back an earlier snapshot.
UnprovenBlocksDevice ==
    [][\A c \in Commands :
          (answer'[c] \in UncertainCodes /\ (answer[c] = answer'[c] => device = "UNKNOWN"))
             => (device' = "UNKNOWN" \/ (HeartbeatWrite /\ beat # "UNKNOWN"))]_vars

\* A heartbeat that has read UNKNOWN or FAULT writes what is there.
BeatIsStale == beat \in Closed => device = beat

\* A goal in execution is live, a command being waited for has an operation,
\* and one that returns has a result.
Coherent ==
    \A c \in Commands :
        /\ pc[c] \in {"queued"} \cup OnThread => goal[c] \in {"executing", "canceling"}
        /\ pc[c] \in {"waiting", "woken"} => operation[c] \in {"running"} \cup Outcomes
        /\ pc[c] \in {"leaving", "returned"} => answer[c] \in Codes \ {"empty"}

\* The inductive invariant.
IInv ==
    /\ TypeOK
    /\ ActiveIsWorking
    /\ BeatIsStale
    /\ Coherent

\* How a client sees each goal.
GoalStatus(c) ==
    CASE goal[c] \in {"executing", "canceling"} -> "executing"
      [] goal[c] \in Terminal -> "done"
      [] OTHER -> goal[c]

Server == INSTANCE ActionServer WITH
    Goals <- Commands,
    CancelledCodes <- {CancelledCode},
    goal <- [c \in Commands |-> GoalStatus(c)],
    answer <- reply,
    cancelling <- [c \in Commands |-> goal[c] = "canceling"]

\* Threads, loop and adapter together are an action server: one answer per
\* goal, the code of a cancelled command only for a goal that was CANCELING.
ImplementsServer == Server!Spec

\* Every accepted goal ends, although its operation may hang for ever.
CommandsConclude ==
    \A c \in Commands :
        goal[c] \in {"executing", "canceling"} ~> goal[c] \in Terminal \cup {"lost"}

\* "Block new work after an outcome that has not been reconciled with hardware"
\* (mark_uncertain): a heartbeat that read READY before the command began opens
\* the device again.
UnprovenStaysUnknown ==
    \A c \in Commands : answer[c] \in UncertainCodes => device = "UNKNOWN"

\* A heartbeat refreshes the state "without changing its semantic fields": it
\* can write READY over the BUSY of a command that operates, and BUSY over the
\* READY of one that is over, after which the device refuses every command.
BusyIsOperating ==
    device = "BUSY" <=> \E c \in Commands : pc[c] \in Operating

\* The adapter "may return sdk.command.cancelled only if it can prove the
\* operation was stopped": the operation did not end by itself.
CancelledMeansStopped ==
    \A c \in Commands : answer[c] = CancelledCode => operation[c] = "cancelled"
============================================================================
