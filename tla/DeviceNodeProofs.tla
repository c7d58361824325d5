------------------------- MODULE DeviceNodeProofs -------------------------
(***************************************************************************)
(* Theorems about DeviceNode, for every set of commands, every number of   *)
(* executor threads and every set of cancellations the device can confirm. *)
(***************************************************************************)
EXTENDS DeviceNode, TLAPS

\* Taking a coroutine off the loop keeps the type of its queue.
LEMMA LoopTaken ==
    ASSUME loop \in Seq({"execute", "cancel"} \X Commands), loop # <<>>
    PROVE  Tail(loop) \in Seq({"execute", "cancel"} \X Commands)
OBVIOUS

\* Every way to refuse, begin or end a command gives it a code of the SDK.
LEMMA StateAfterType ==
    ASSUME NEW code
    PROVE  StateAfter(code) \in {"READY", "FAULT", "UNKNOWN"}
BY DEF StateAfter

\* The initial states satisfy the inductive invariant.
LEMMA InitInvariant == Init => IInv
<1> SUFFICES ASSUME Init PROVE IInv
    OBVIOUS
<1>1. TypeOK
    BY DEF Init, TypeOK, Goals, States
<1>2. ActiveIsWorking
    BY NoneAssumption DEF Init, ActiveIsWorking, Working, Operating, Closed
<1>3. BeatIsStale
    BY NoneAssumption DEF Init, BeatIsStale, States, Closed
<1>4. Coherent
    BY DEF Init, Coherent, OnThread, Working, Operating
<1> QED
    BY <1>1, <1>2, <1>3, <1>4 DEF IInv

\* The stuttering step and every step of Next keep the types.
LEMMA TypeStep == TypeOK /\ Coherent /\ [Next]_vars => TypeOK'
<1> SUFFICES ASSUME TypeOK, Coherent, [Next]_vars PROVE TypeOK'
    OBVIOUS
<1> USE DEF TypeOK, adapter
<1>1. ASSUME NEW c \in Commands, SendGoal(c) PROVE TypeOK'
    BY <1>1 DEF SendGoal, Goals
<1>2. ASSUME NEW c \in Commands, RejectGoal(c) PROVE TypeOK'
    BY <1>2 DEF RejectGoal, Goals
<1>3. ASSUME NEW c \in Commands, AcceptGoal(c) PROVE TypeOK'
    BY <1>3 DEF AcceptGoal, Goals
<1>4. ASSUME NEW c \in Commands, Register(c) PROVE TypeOK'
    BY <1>4 DEF Register, Goals, Terminal, Codes, OnThread
<1>5. ASSUME NEW c \in Commands, SubmitCommand(c) PROVE TypeOK'
    BY <1>5 DEF SubmitCommand, OnThread
<1>6. ASSUME NEW c \in Commands, CancelCallback(c) PROVE TypeOK'
    BY <1>6 DEF CancelCallback
<1>7. ASSUME NEW c \in Commands, CancelGoal(c) PROVE TypeOK'
    BY <1>7 DEF CancelGoal, Goals
<1>8. ASSUME NEW c \in Commands, Finish(c) PROVE TypeOK'
    BY <1>8 DEF Finish, Goals, Terminal, Codes
<1>9. ASSUME NEW c \in Commands, Begin(c) PROVE TypeOK'
    <2>1. loop' \in Seq({"execute", "cancel"} \X Commands)
        BY <1>9, LoopTaken DEF Begin, TakeFromLoop
    <2>2. ASSUME NEW code \in Refusals, Refuse(c, code) PROVE TypeOK'
        BY <1>9, <2>1, <2>2 DEF Begin, Refuse, Return, OnThread, Codes
    <2>3. ASSUME BeginOperation(c) PROVE TypeOK'
        BY <1>9, <2>1, <2>3 DEF Begin, BeginOperation, OnThread, Working, Operating, States
    <2> QED
        BY <1>9, <2>2, <2>3 DEF Begin, Refusals
<1>10. ASSUME NEW c \in Commands, Forward(c) PROVE TypeOK'
    <2>1. loop' \in Seq({"execute", "cancel"} \X Commands)
        BY <1>10, LoopTaken DEF Forward, TakeFromLoop
    <2> QED
        BY <1>10, <2>1 DEF Forward
<1>11. ASSUME NEW c \in Commands, OperationEnds(c) PROVE TypeOK'
    BY <1>11 DEF OperationEnds
<1>12. ASSUME NEW c \in Commands, Notice(c) PROVE TypeOK'
    BY <1>12 DEF Notice
<1>13. ASSUME NEW c \in Commands, Wake(c) \/ Expire(c) PROVE TypeOK'
    BY <1>13 DEF Wake, Expire, OnThread, Working, Operating
<1>14. ASSUME NEW c \in Commands, Resume(c) PROVE TypeOK'
    <2>1. CASE Conclude(c, operation[c])
        <3>1. operation[c] \in Outcomes \/ operation[c] = "running"
            BY <1>14 DEF Resume, Coherent
        <3>2. CASE operation[c] = "running"
            BY <1>14, <3>2 DEF Resume, OnThread, Working, Operating
        <3>3. CASE operation[c] \in Outcomes
            BY <1>14, <2>1, <3>3, StateAfterType
               DEF Resume, Conclude, Return, Codes, OnThread, Working, States
        <3> QED
            BY <3>1, <3>2, <3>3
    <2>2. CASE ~Conclude(c, operation[c])
        BY <1>14, <2>2 DEF Resume, OnThread, Working, Operating
    <2> QED
        BY <2>1, <2>2
<1>15. ASSUME NEW c \in Commands, Stopped(c) PROVE TypeOK'
    <2>1. PICK code \in UncertainCodes \cup {CancelledCode} : Conclude(c, code)
        BY <1>15 DEF Stopped, UncertainCodes
    <2> QED
        BY <1>15, <2>1, StateAfterType
           DEF Stopped, Conclude, Return, Codes, OnThread, Working, States
<1>16. ASSUME NEW c \in Commands, Leave(c) PROVE TypeOK'
    BY <1>16 DEF Leave, OnThread
<1>17. CASE Crash
    <2>1. goal' \in [Commands -> Goals]
        BY <1>17 DEF Crash, Goals
    <2>2. loop' = <<>> /\ loop' \in Seq({"execute", "cancel"} \X Commands)
        BY <1>17 DEF Crash, Fresh
    <2> QED
        BY <1>17, <2>1, <2>2 DEF Crash, Fresh, States
<1>18. CASE Restart
    BY <1>18 DEF Restart
<1>19. CASE UNCHANGED vars
    BY <1>19 DEF vars
<1>20. CASE HeartbeatRead \/ HeartbeatWrite
    BY <1>20 DEF HeartbeatRead, HeartbeatWrite
<1> QED
    BY <1>20, <1>1, <1>2, <1>3, <1>4, <1>5, <1>6, <1>7, <1>8, <1>9, <1>10, <1>11, <1>12,
       <1>13, <1>14, <1>15, <1>16, <1>17, <1>18, <1>19 DEF Next, Thread, Loop

\* The steps that neither enter nor leave execute() and touch neither the
\* device, a heartbeat nor an answer.
LEMMA Outside ==
    ASSUME TypeOK, NEW c \in Commands,
           \/ SendGoal(c) \/ RejectGoal(c) \/ AcceptGoal(c) \/ Register(c)
           \/ SubmitCommand(c) \/ CancelCallback(c) \/ CancelGoal(c) \/ Finish(c)
           \/ Forward(c) \/ OperationEnds(c) \/ Notice(c) \/ Restart \/ UNCHANGED vars,
           Coherent, ActiveIsWorking
    PROVE  /\ UNCHANGED <<device, beat, active, answer>>
           /\ \A d \in Commands : pc'[d] \in Working <=> pc[d] \in Working
           /\ \A d \in Commands : pc'[d] \in Operating <=> pc[d] \in Operating
<1> USE DEF TypeOK, adapter, Working, Operating
<1>1. CASE UNCHANGED pc /\ UNCHANGED <<device, beat, active, answer>>
    BY <1>1
<1>2. CASE AcceptGoal(c)
    BY <1>2 DEF AcceptGoal, Coherent, OnThread
<1>3. CASE Register(c)
    BY <1>3 DEF Register
<1>4. CASE SubmitCommand(c)
    BY <1>4 DEF SubmitCommand
<1>5. CASE Finish(c)
    BY <1>5 DEF Finish
<1> QED
    BY <1>1, <1>2, <1>3, <1>4, <1>5
       DEF SendGoal, RejectGoal, CancelCallback, CancelGoal, Forward, OperationEnds,
           Notice, Restart, vars

\* Only the command in execute() moves the device, the context or its place.
LEMMA ActiveStep == IInv /\ [Next]_vars => ActiveIsWorking'
<1> SUFFICES ASSUME IInv, [Next]_vars PROVE ActiveIsWorking'
    OBVIOUS
<1> USE DEF IInv, TypeOK, adapter
<1>1. ASSUME NEW c \in Commands, UNCHANGED <<device, active>>,
             \A d \in Commands : pc'[d] \in Working <=> pc[d] \in Working,
             \A d \in Commands : pc'[d] \in Operating <=> pc[d] \in Operating
      PROVE  ActiveIsWorking'
    BY <1>1 DEF ActiveIsWorking
<1>2. ASSUME NEW c \in Commands, Begin(c) PROVE ActiveIsWorking'
    <2>1. ASSUME NEW code, Refuse(c, code) PROVE ActiveIsWorking'
        BY <1>1, <1>2, <2>1 DEF Begin, Refuse, Return, Working, Operating
    <2>2. CASE device = "READY" /\ active = None /\ BeginOperation(c)
        BY <2>2, NoneAssumption
           DEF BeginOperation, ActiveIsWorking, Working, Operating, Closed
    <2> QED
        BY <1>2, <2>1, <2>2 DEF Begin
<1>3. ASSUME NEW c \in Commands, Wake(c) \/ Expire(c) PROVE ActiveIsWorking'
    BY <1>1, <1>3 DEF Wake, Expire, Working, Operating
<1>4. ASSUME NEW c \in Commands, NEW code, Conclude(c, code),
             pc[c] \in Operating, active' = active
      PROVE  ActiveIsWorking'
    <2>1. active = c /\ \A d \in Commands : pc[d] \in Operating => d = c
        BY <1>4 DEF ActiveIsWorking, Working
    <2>3. pc' = [pc EXCEPT ![c] = "leaving"]
        BY <1>4 DEF Conclude, Return
    <2>4. \A d \in Commands : pc'[d] \notin Operating
        BY <2>1, <2>3 DEF Operating
    <2> QED
        BY <1>4, <2>1, <2>3, <2>4 DEF ActiveIsWorking, Working
<1>5. ASSUME NEW c \in Commands, Resume(c) PROVE ActiveIsWorking'
    <2>1. CASE Conclude(c, operation[c])
        BY <1>4, <1>5, <2>1 DEF Resume, Operating
    <2>2. CASE ~Conclude(c, operation[c])
        BY <1>1, <1>5, <2>2 DEF Resume, Working, Operating
    <2> QED
        BY <2>1, <2>2
<1>6. ASSUME NEW c \in Commands, Stopped(c) PROVE ActiveIsWorking'
    <2>1. PICK code : Conclude(c, code)
        BY <1>6 DEF Stopped
    <2> QED
        BY <1>4, <1>6, <2>1 DEF Stopped, Operating
<1>7. ASSUME NEW c \in Commands, Leave(c) PROVE ActiveIsWorking'
    <2>1. active = c /\ \A d \in Commands : pc[d] \in Working => d = c
        BY <1>7 DEF Leave, ActiveIsWorking, Working
    <2>3. \A d \in Commands : pc'[d] \notin Working
        BY <1>7, <2>1 DEF Leave, Working, Operating
    <2> QED
        BY <1>7, <2>3 DEF Leave, ActiveIsWorking, Working
<1>8. CASE Crash
    BY <1>8 DEF Crash, Fresh, ActiveIsWorking, Working, Operating
<1>9. ASSUME NEW c \in Commands,
             \/ SendGoal(c) \/ RejectGoal(c) \/ AcceptGoal(c) \/ Register(c)
             \/ SubmitCommand(c) \/ CancelCallback(c) \/ CancelGoal(c) \/ Finish(c)
             \/ Forward(c) \/ OperationEnds(c) \/ Notice(c)
      PROVE  ActiveIsWorking'
    BY <1>1, <1>9, Outside
<1>10. CASE Restart \/ UNCHANGED vars
    BY <1>10 DEF Restart, vars, ActiveIsWorking
<1>11. CASE HeartbeatRead
    BY <1>11 DEF HeartbeatRead, ActiveIsWorking
<1>12. CASE HeartbeatWrite
    BY <1>12 DEF HeartbeatWrite, ActiveIsWorking, BeatIsStale
<1> QED
    BY <1>11, <1>12, <1>2, <1>3, <1>5, <1>6, <1>7, <1>8, <1>9, <1>10 DEF Next, Thread, Loop

\* The device leaves UNKNOWN and FAULT only by a restart or a heartbeat, and
\* the heartbeat that reads them writes them back.
LEMMA BeatStep == IInv /\ [Next]_vars => BeatIsStale'
<1> SUFFICES ASSUME IInv, [Next]_vars PROVE BeatIsStale'
    OBVIOUS
<1> USE DEF IInv, TypeOK, adapter, BeatIsStale
<1>1. CASE UNCHANGED <<device, beat>>
    BY <1>1
<1>2. ASSUME NEW c \in Commands, Begin(c) PROVE BeatIsStale'
    BY <1>1, <1>2 DEF Begin, Refuse, BeginOperation, Closed
<1>3. ASSUME NEW c \in Commands, NEW code, Conclude(c, code), pc[c] \in Operating,
             beat' = beat
      PROVE  BeatIsStale'
    BY <1>3 DEF ActiveIsWorking
<1>4. ASSUME NEW c \in Commands, Resume(c) PROVE BeatIsStale'
    <2>1. CASE Conclude(c, operation[c])
        BY <1>3, <1>4, <2>1 DEF Resume, Operating
    <2>2. CASE ~Conclude(c, operation[c])
        BY <1>1, <1>4, <2>2 DEF Resume
    <2> QED
        BY <2>1, <2>2
<1>5. ASSUME NEW c \in Commands, Stopped(c) PROVE BeatIsStale'
    <2>1. PICK code : Conclude(c, code)
        BY <1>5 DEF Stopped
    <2> QED
        BY <1>3, <1>5, <2>1 DEF Stopped, Operating
<1>6. CASE Crash \/ HeartbeatRead \/ HeartbeatWrite
    BY <1>6, NoneAssumption DEF Crash, Fresh, HeartbeatRead, HeartbeatWrite, Closed, States
<1> QED
    BY <1>1, <1>2, <1>4, <1>5, <1>6
       DEF Next, Thread, Loop, vars, SendGoal, RejectGoal, AcceptGoal, Register,
           SubmitCommand, CancelCallback, CancelGoal, Finish, Forward,
           OperationEnds, Notice, Wake, Expire, Leave, Restart

\* A goal in execution stays live until its thread has its result, and whoever
\* leaves execute() has been given a code.
LEMMA CoherentStep == IInv /\ [Next]_vars => Coherent'
<1> SUFFICES ASSUME IInv, [Next]_vars PROVE Coherent'
    OBVIOUS
<1> USE DEF IInv, TypeOK, adapter, Coherent, OnThread, Working, Operating
<1>1. ASSUME NEW c \in Commands,
             SendGoal(c) \/ RejectGoal(c) \/ AcceptGoal(c) \/ Register(c)
      PROVE  Coherent'
    BY <1>1 DEF SendGoal, RejectGoal, AcceptGoal, Register
<1>2. ASSUME NEW c \in Commands,
             SubmitCommand(c) \/ CancelCallback(c) \/ CancelGoal(c) \/ Finish(c)
      PROVE  Coherent'
    BY <1>2 DEF SubmitCommand, CancelCallback, CancelGoal, Finish
<1>3. ASSUME NEW c \in Commands, Begin(c) PROVE Coherent'
    <2>1. ASSUME NEW code \in Refusals, Refuse(c, code) PROVE Coherent'
        BY <1>3, <2>1 DEF Begin, Refuse, Return, Refusals, Codes
    <2>2. CASE BeginOperation(c)
        BY <1>3, <2>2 DEF Begin, BeginOperation
    <2> QED
        BY <1>3, <2>1, <2>2 DEF Begin, Refusals
<1>4. ASSUME NEW c \in Commands, Forward(c) \/ OperationEnds(c) \/ Notice(c)
      PROVE  Coherent'
    BY <1>4 DEF Forward, OperationEnds, Notice
<1>5. ASSUME NEW c \in Commands, Wake(c) \/ Expire(c) PROVE Coherent'
    BY <1>5 DEF Wake, Expire
<1>6. ASSUME NEW c \in Commands, NEW code \in Codes \ {"empty"}, Conclude(c, code),
             pc[c] \in Operating, goal' = goal,
             \A d \in Commands : d # c => operation'[d] = operation[d]
      PROVE  Coherent'
    BY <1>6 DEF Conclude, Return
<1>7. ASSUME NEW c \in Commands, Resume(c) PROVE Coherent'
    <2>1. CASE operation[c] \in Outcomes /\ Conclude(c, operation[c])
        BY <1>6, <1>7, <2>1 DEF Resume, Codes, Outcomes
    <2>2. CASE ~(operation[c] \in Outcomes /\ Conclude(c, operation[c]))
        BY <1>7, <2>2 DEF Resume
    <2> QED
        BY <2>1, <2>2
<1>8. ASSUME NEW c \in Commands, Stopped(c) PROVE Coherent'
    <2>1. PICK code \in UncertainCodes \cup {CancelledCode} : Conclude(c, code)
        BY <1>8 DEF Stopped, UncertainCodes
    <2>2. code \in Codes \ {"empty"}
        BY DEF Codes, UncertainCodes, CancelledCode
    <2> QED
        BY <1>6, <1>8, <2>1, <2>2 DEF Stopped
<1>9. ASSUME NEW c \in Commands, Leave(c) PROVE Coherent'
    BY <1>9 DEF Leave
<1>10. CASE Crash
    BY <1>10 DEF Crash, Fresh
<1>11. CASE Restart \/ HeartbeatRead \/ HeartbeatWrite \/ UNCHANGED vars
    BY <1>11 DEF Restart, HeartbeatRead, HeartbeatWrite, vars
<1> QED
    BY <1>1, <1>2, <1>3, <1>4, <1>5, <1>7, <1>8, <1>9, <1>10, <1>11
       DEF Next, Thread, Loop

\* The inductive invariant holds in every reachable state.
THEOREM Invariance == Spec => []IInv
<1>1. IInv /\ [Next]_vars => IInv'
    BY TypeStep, ActiveStep, BeatStep, CoherentStep DEF IInv
<1> QED
    BY <1>1, InitInvariant, PTL DEF Spec

\* Every variable of the device node keeps its type.
THEOREM TypeCorrect == Spec => []TypeOK
<1>1. IInv => TypeOK
    BY DEF IInv
<1> QED
    BY <1>1, Invariance, PTL

\* However many commands, cancels, timeouts and heartbeats meet, at most one
\* command is in execute(), and a cancel of it reaches it (_active_context, the
\* busy check).
THEOREM OneCommandAtWork == Spec => []ActiveIsWorking
<1>1. IInv => ActiveIsWorking
    BY DEF IInv
<1> QED
    BY <1>1, Invariance, PTL

\* A step that leaves the device UNKNOWN, or touches neither device nor answer,
\* keeps an unproven outcome's hold on the device.
LEMMA UnprovenStep ==
    ASSUME IInv, [Next]_vars, NEW c \in Commands,
           answer'[c] \in UncertainCodes,
           answer[c] = answer'[c] => device = "UNKNOWN"
    PROVE  device' = "UNKNOWN" \/ (HeartbeatWrite /\ beat # "UNKNOWN")
<1> USE DEF IInv, TypeOK, adapter
<1>1. CASE UNCHANGED <<device, answer>>
    BY <1>1
<1>2. ASSUME NEW d \in Commands, NEW code, Conclude(d, code), pc[d] \in Operating
      PROVE  device' = "UNKNOWN"
    <2>1. device # "UNKNOWN"
        BY <1>2 DEF ActiveIsWorking, Closed
    <2>2. answer' = [answer EXCEPT ![d] = code] /\ device' = StateAfter(code)
        BY <1>2 DEF Conclude, Return
    <2>3. answer[c] # answer'[c]
        BY <2>1
    <2>4. code \in UncertainCodes
        BY <2>2, <2>3
    <2> QED
        BY <2>2, <2>4 DEF StateAfter, UncertainCodes
<1>3. ASSUME NEW d \in Commands, Begin(d) PROVE device' = "UNKNOWN"
    <2>1. ASSUME NEW code \in Refusals, Refuse(d, code) PROVE device' = "UNKNOWN"
        <3>1. answer' = [answer EXCEPT ![d] = code] /\ device' = device
            BY <2>1 DEF Refuse, Return
        <3>2. answer'[c] # code
            BY <2>1 DEF Refusals, UncertainCodes
        <3> QED
            BY <3>1, <3>2
    <2>2. CASE device = "READY" /\ BeginOperation(d)
        BY <2>2 DEF BeginOperation
    <2> QED
        BY <1>3, <2>1, <2>2 DEF Begin, Refusals
<1>4. ASSUME NEW d \in Commands, Resume(d) PROVE device' = "UNKNOWN"
    <2>1. CASE Conclude(d, operation[d])
        BY <1>2, <1>4, <2>1 DEF Resume, Operating
    <2>2. CASE ~Conclude(d, operation[d])
        BY <1>1, <1>4, <2>2 DEF Resume
    <2> QED
        BY <2>1, <2>2
<1>5. ASSUME NEW d \in Commands, Stopped(d) PROVE device' = "UNKNOWN"
    <2>1. PICK code : Conclude(d, code)
        BY <1>5 DEF Stopped
    <2> QED
        BY <1>2, <1>5, <2>1 DEF Stopped, Operating
<1>6. CASE Crash
    BY <1>6, NoneAssumption DEF Crash, Fresh, Codes
<1>7. CASE HeartbeatWrite
    BY <1>7 DEF HeartbeatWrite
<1> QED
    BY <1>1, <1>3, <1>4, <1>5, <1>6, <1>7
       DEF Next, Thread, Loop, vars, SendGoal, RejectGoal, AcceptGoal, Register,
           SubmitCommand, CancelCallback, CancelGoal, Finish, Forward,
           OperationEnds, Notice, Wake, Expire, Leave, HeartbeatRead, Restart

\* An unproven outcome makes the device UNKNOWN, and nothing opens the device
\* again before its process restarts but a heartbeat that had read an earlier
\* snapshot (mark_uncertain, the readiness check, heartbeat).
THEOREM UnprovenOutcomeBlocks == Spec => UnprovenBlocksDevice
<1>1. ASSUME IInv, [Next]_vars
      PROVE  [\A c \in Commands :
                 (answer'[c] \in UncertainCodes
                    /\ (answer[c] = answer'[c] => device = "UNKNOWN"))
                 => (device' = "UNKNOWN" \/ (HeartbeatWrite /\ beat # "UNKNOWN"))]_vars
    BY <1>1, UnprovenStep
<1> QED
    BY <1>1, Invariance, PTL DEF Spec, UnprovenBlocksDevice

-----------------------------------------------------------------------------
(* The action server a device node provides. *)

\* A goal that is not touched looks the same to its client.
LEMMA StatusKept ==
    ASSUME UNCHANGED goal
    PROVE  /\ [c \in Commands |-> GoalStatus(c)]' = [c \in Commands |-> GoalStatus(c)]
           /\ [c \in Commands |-> goal[c] = "canceling"]'
              = [c \in Commands |-> goal[c] = "canceling"]
BY DEF GoalStatus

\* A goal that changes its state changes it for its client only.
LEMMA StatusMoved ==
    ASSUME TypeOK, NEW c \in Commands, NEW s, goal' = [goal EXCEPT ![c] = s]
    PROVE  [d \in Commands |-> GoalStatus(d)]'
              = [[d \in Commands |-> GoalStatus(d)] EXCEPT ![c] = GoalStatus(c)']
<1>1. \A d \in Commands : d # c => GoalStatus(d)' = GoalStatus(d)
    BY DEF TypeOK, GoalStatus
<1> QED
    BY <1>1

\* A thread that ends a live goal answers it once, and says "cancelled" only to
\* a goal that is CANCELING.
LEMMA Answered ==
    ASSUME IInv, up, up' = up, NEW c \in Commands, NEW code \in Codes,
           NEW end \in Terminal,
           goal[c] \in {"executing", "canceling"},
           code = CancelledCode => goal[c] = "canceling",
           goal' = [goal EXCEPT ![c] = end],
           reply' = [reply EXCEPT ![c] = code]
    PROVE  Server!Next
<1> USE DEF IInv, TypeOK
<1> DEFINE status == [d \in Commands |-> GoalStatus(d)]
           asked == [d \in Commands |-> goal[d] = "canceling"]
<1>1. status[c] = "executing"
    BY DEF GoalStatus, Terminal
<1>2. status' = [status EXCEPT ![c] = "done"]
    <2>1. \A d \in Commands : status'[d] = IF d = c THEN "done" ELSE status[d]
        BY DEF GoalStatus, Terminal
    <2> QED
        BY <2>1
<1>3. asked' = [asked EXCEPT ![c] = FALSE]
    <2>1. \A d \in Commands : asked'[d] = IF d = c THEN FALSE ELSE asked[d]
        BY DEF Terminal
    <2> QED
        BY <2>1
<1>4. code \in {CancelledCode} => asked[c]
    OBVIOUS
<1>5. Server!Finish(c, code)
    BY <1>1, <1>2, <1>3, <1>4 DEF Server!Finish
<1> QED
    BY <1>5 DEF Server!Next

\* Threads, loop and adapter implement the action server, crashes included.
THEOREM Refinement == Spec => ImplementsServer
<1> DEFINE status == [d \in Commands |-> GoalStatus(d)]
           asked == [d \in Commands |-> goal[d] = "canceling"]
<1>1. Init => Server!Init
    <2> SUFFICES ASSUME Init PROVE Server!Init
        OBVIOUS
    <2>1. status = [d \in Commands |-> "none"] /\ asked = [d \in Commands |-> FALSE]
        BY DEF Init, GoalStatus, Terminal
    <2> QED
        BY <2>1 DEF Init, Server!Init
<1>2. ASSUME IInv, [Next]_vars
      PROVE  [Server!Next]_(Server!server)
    <2> USE DEF IInv, TypeOK
    <2>1. ASSUME UNCHANGED <<goal, reply, up>>
          PROVE  UNCHANGED Server!server
        BY <2>1, StatusKept DEF Server!server
    <2>2. ASSUME NEW c \in Commands, SendGoal(c) PROVE Server!Next
        <3>1. status[c] = "none" /\ status' = [status EXCEPT ![c] = "sent"]
            BY <1>2, <2>2, StatusMoved, ZenonT(60) DEF SendGoal, GoalStatus, Terminal
        <3>2. asked' = asked
            BY <2>2 DEF SendGoal
        <3>3. Server!Submit(c)
            BY <2>2, <3>1, <3>2 DEF SendGoal, Server!Submit
        <3> QED
            BY <3>3 DEF Server!Next
    <2>3. ASSUME NEW c \in Commands, RejectGoal(c) PROVE Server!Next
        <3>1. status[c] = "sent" /\ status' = [status EXCEPT ![c] = "rejected"]
            BY <1>2, <2>3, StatusMoved, ZenonT(60) DEF RejectGoal, GoalStatus, Terminal
        <3>2. asked' = asked
            BY <2>3 DEF RejectGoal
        <3>3. Server!Reject(c)
            BY <2>3, <3>1, <3>2 DEF RejectGoal, Server!Reject
        <3> QED
            BY <3>3 DEF Server!Next
    <2>4. ASSUME NEW c \in Commands, AcceptGoal(c) PROVE Server!Next
        <3>1. status[c] = "sent" /\ status' = [status EXCEPT ![c] = "executing"]
            BY <1>2, <2>4, StatusMoved, ZenonT(60) DEF AcceptGoal, GoalStatus, Terminal
        <3>2. asked' = asked
            BY <2>4 DEF AcceptGoal
        <3>3. Server!Accept(c)
            BY <2>4, <3>1, <3>2 DEF AcceptGoal, Server!Accept
        <3> QED
            BY <3>3 DEF Server!Next
    <2>5. ASSUME NEW c \in Commands, Register(c)
          PROVE  [Server!Next]_(Server!server)
        <3>1. CASE UNCHANGED <<goal, reply>>
            BY <2>1, <2>5, <3>1 DEF Register
        <3>2. CASE /\ goal' = [goal EXCEPT ![c] = "aborted"]
                   /\ reply' = [reply EXCEPT ![c] = "empty"]
            <4>1. goal[c] \in {"executing", "canceling"}
                BY <1>2, <2>5 DEF Register, Coherent
            <4> QED
                BY <1>2, <2>5, <3>2, <4>1, Answered DEF Register, Terminal, Codes, CancelledCode
        <3> QED
            BY <2>5, <3>1, <3>2 DEF Register
    <2>6. ASSUME NEW c \in Commands, CancelGoal(c)
          PROVE  [Server!Next]_(Server!server)
        <3>1. CASE goal[c] = "executing"
            <4>1. status[c] = "executing" /\ status' = status
                BY <2>6, <3>1 DEF CancelGoal, GoalStatus, Terminal
            <4>2. asked' = [asked EXCEPT ![c] = TRUE]
                BY <1>2, <2>6, <3>1 DEF CancelGoal
            <4>3. Server!Cancel(c)
                BY <2>6, <4>1, <4>2 DEF CancelGoal, Server!Cancel
            <4> QED
                BY <4>3 DEF Server!Next
        <3>2. CASE goal[c] # "executing"
            BY <1>2, <2>1, <2>6, <3>2 DEF CancelGoal
        <3> QED
            BY <3>1, <3>2
    <2>7. ASSUME NEW c \in Commands, Finish(c) PROVE Server!Next
        <3>1. goal[c] \in {"executing", "canceling"} /\ answer[c] \in Codes
            BY <1>2, <2>7 DEF Finish, Coherent, OnThread
        <3>2. PICK end \in Terminal, code \in Codes :
                 /\ goal' = [goal EXCEPT ![c] = end]
                 /\ reply' = [reply EXCEPT ![c] = code]
                 /\ code = CancelledCode => goal[c] = "canceling"
            <4>1. CASE answer[c] = CancelledCode /\ goal[c] # "canceling"
                BY <2>7, <4>1 DEF Finish, Terminal, Codes, CancelledCode
            <4>2. CASE answer[c] = CancelledCode /\ goal[c] = "canceling"
                BY <2>7, <3>1, <4>2 DEF Finish, Terminal
            <4>3. CASE answer[c] # CancelledCode
                BY <2>7, <3>1, <4>3 DEF Finish, Terminal
            <4> QED
                BY <4>1, <4>2, <4>3
        <3> QED
            BY <1>2, <2>7, <3>1, <3>2, Answered DEF Finish
    <2>8. CASE Crash
        <3>1. status' = [d \in Commands |-> IF status[d] \in {"sent", "executing", "done"}
                                            THEN "lost" ELSE status[d]]
            <4>1. ASSUME NEW d \in Commands
                  PROVE  GoalStatus(d)' = IF GoalStatus(d) \in {"sent", "executing", "done"}
                                          THEN "lost" ELSE GoalStatus(d)
                BY <1>2, <2>8 DEF Crash, GoalStatus, Terminal, Goals
            <4> QED
                BY <4>1
        <3>2. asked' = [d \in Commands |-> FALSE]
            BY <2>8 DEF Crash
        <3>3. Server!Crash
            BY <2>8, <3>1, <3>2 DEF Crash, Server!Crash
        <3> QED
            BY <3>3 DEF Server!Next
    <2>9. CASE Restart
        <3>1. Server!Restart
            BY <2>9, StatusKept DEF Restart, Server!Restart
        <3> QED
            BY <3>1 DEF Server!Next
    <2> QED
        BY <1>2, <2>1, <2>2, <2>3, <2>4, <2>5, <2>6, <2>7, <2>8, <2>9
           DEF Next, Thread, Loop, vars, SubmitCommand, CancelCallback, Begin, Forward,
               OperationEnds, Notice, Wake, Expire, Resume, Stopped, Leave,
               HeartbeatRead, HeartbeatWrite
<1> QED
    BY <1>1, <1>2, Invariance, PTL DEF Spec, Server!Spec, ImplementsServer
============================================================================
