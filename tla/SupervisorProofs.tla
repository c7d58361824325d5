------------------------ MODULE SupervisorProofs ------------------------
(***************************************************************************)
(* Proofs about Supervisor for every set of jobs.                          *)
(***************************************************************************)
EXTENDS Supervisor, TLAPS

\* Every step is a step of one of these actions, or stutters.
LEMMA StepCases ==
    ASSUME [Next]_vars
    PROVE  \/ \E j \in Jobs : HandleGoal(j) \/ HandleCancel(j) \/ ProcessEnds(j)
           \/ HandleAccepted \/ CancelGoal
           \/ \E ready \in BOOLEAN : OnCellState(ready)
           \/ Take \/ Admit \/ Build \/ Head \/ Poll
           \/ Overdue \/ TickRunning \/ TickSuccess \/ TickFailure \/ TickThrows
           \/ Transition \/ ClearCancel \/ ClearActive \/ Conclude
           \/ Expire \/ Stop \/ Destroy
           \/ UNCHANGED vars
BY DEF Next, Callback, Work, Tick

\* An event or a state of a job is set to one of its values.
LEMMA Updates ==
    ASSUME NEW S, NEW f \in [Jobs -> S], NEW j \in Jobs, NEW e \in S
    PROVE  [f EXCEPT ![j] = e] \in [Jobs -> S]
OBVIOUS

\* Settling a job keeps the types.
LEMMA SettleTypes ==
    ASSUME TypeOK, current \in Jobs, UNCHANGED process,
           NEW c \in Codes, NEW call \in Calls, NEW next \in States,
           NEW e \in {"none", "job.accepted", "job.started"} \cup TerminalEvents,
           NEW label \in {"clearCancel", "transition"},
           Settle(c, e, call, next, label)
    PROVE  TypeOK'
<1>1. verdict' \in Verdicts
    BY DEF Settle, Verdicts
<1>2. event' \in [Jobs -> {"none", "job.accepted", "job.started"} \cup TerminalEvents]
    BY DEF Settle, TypeOK
<1>3. wpc' \in {"wait", "conclude"} \cup Executing
    BY DEF Settle, Executing, Releasing
<1> QED
    BY <1>1, <1>2, <1>3 DEF Settle, TypeOK, shared

\* A step of the supervisor keeps the types.
LEMMA TypeStep == TypeOK /\ Places /\ Settled /\ [Next]_vars => TypeOK'
<1> SUFFICES ASSUME TypeOK, Places, Settled, [Next]_vars PROVE TypeOK'
    OBVIOUS
<1>0. wpc # "wait" => current \in Jobs
    BY DEF Places
<1> USE NoneAssumption
<1> USE DEF Calls, Codes, States, TerminalEvents, WorkerAt, Reject, Fault
<1>1. ASSUME NEW j \in Jobs, HandleGoal(j) PROVE TypeOK'
    BY <1>1, <1>0 DEF HandleGoal, TypeOK, Idle, Terminal, Executing, Releasing,
       shared, worker, outputs
<1>2. ASSUME HandleAccepted PROVE TypeOK'
    <2>1. executor.job \in Jobs
        BY <1>2 DEF HandleAccepted, Places
    <2> QED
        BY <1>2, <2>1, ZenonT(60) DEF HandleAccepted, TypeOK, Idle, Terminal, Executing,
           Releasing, shared, worker, outputs
<1>3. ASSUME NEW j \in Jobs, HandleCancel(j) PROVE TypeOK'
    BY <1>3, <1>0 DEF HandleCancel, TypeOK, Idle, Terminal, Executing,
       Releasing, shared, worker, outputs
<1>4. ASSUME CancelGoal PROVE TypeOK'
    <2>1. executor.job \in Jobs
        BY <1>4 DEF CancelGoal, Places
    <2>2. handle' \in [Jobs -> {"NONE", "EXECUTING", "CANCELING"} \cup Terminal]
        BY <1>4, <2>1 DEF CancelGoal, TypeOK
    <2> QED
        BY <1>4, <2>2 DEF CancelGoal, TypeOK, Idle, shared, worker, outputs
<1>5. ASSUME NEW ready \in BOOLEAN, OnCellState(ready) PROVE TypeOK'
    BY <1>5, <1>0 DEF OnCellState, TypeOK, Idle, Terminal, Executing, Releasing,
       shared, worker, outputs
<1>6. ASSUME Take PROVE TypeOK'
    BY <1>6, <1>0 DEF Take, TypeOK, Idle, Terminal, Executing, Releasing,
       shared, worker, outputs
<1>7. ASSUME Admit PROVE TypeOK'
    <2>1. CASE cellReady
        BY <1>7, <2>1, <1>0 DEF Admit, TypeOK, Idle, Terminal, Executing,
           Releasing, shared, worker, outputs
    <2>2. CASE ~cellReady
        BY <1>7, <2>2, <1>0, SettleTypes DEF Admit, TypeOK
    <2> QED
        BY <2>1, <2>2
<1>8. ASSUME Build PROVE TypeOK'
    <2>1. CASE Reject("supervisor.tree.invalid")
        BY <1>8, <2>1, <1>0, SettleTypes DEF Build, TypeOK
    <2>2. CASE ~Reject("supervisor.tree.invalid")
        BY <1>8, <2>2, <1>0 DEF Build, TypeOK, Idle, Terminal, Executing,
           Releasing, shared, worker, outputs
    <2> QED
        BY <2>1, <2>2
<1>9. ASSUME Head PROVE TypeOK'
    <2>1. CASE node = "up"
        BY <1>9, <2>1 DEF Head, TypeOK, Idle, Terminal, Executing,
           Releasing, shared, worker, outputs
    <2>2. CASE node # "up"
        <3>1. event[current] \in {"none", "job.accepted", "job.started"} \cup TerminalEvents
            BY <1>9, <1>0 DEF Head, TypeOK
        <3> QED
            BY <1>9, <2>2, <3>1, <1>0, SettleTypes DEF Head
    <2> QED
        BY <2>1, <2>2
<1>10. ASSUME Poll PROVE TypeOK'
    <2>1. CASE cancelRequested
        BY <1>10, <2>1, <1>0, SettleTypes DEF Poll
    <2>2. CASE ~cancelRequested
        BY <1>10, <2>2 DEF Poll, TypeOK, Idle, Terminal, Executing,
           Releasing, shared, worker, outputs
    <2> QED
        BY <2>1, <2>2
<1>11. ASSUME Overdue PROVE TypeOK'
    BY <1>11, <1>0, SettleTypes DEF Overdue
<1>12. ASSUME TickRunning PROVE TypeOK'
    BY <1>12, <1>0 DEF TickRunning, TypeOK, Idle, Terminal, Executing,
       Releasing, shared, worker, outputs
<1>13. ASSUME TickSuccess PROVE TypeOK'
    BY <1>13, <1>0, SettleTypes DEF TickSuccess
<1>14. ASSUME TickFailure PROVE TypeOK'
    BY <1>14, <1>0, SettleTypes DEF TickFailure
<1>15. ASSUME TickThrows PROVE TypeOK'
    BY <1>15, <1>0, SettleTypes DEF TickThrows
<1>16. ASSUME Transition PROVE TypeOK'
    <2>1. verdict \in Verdicts
        BY <1>16 DEF Transition, Settled, TypeOK
    <2>2. verdict.next \in States
        BY <2>1 DEF Verdicts
    <2> QED
        BY <1>16, <2>2 DEF Transition, TypeOK, Idle, Terminal, Executing,
           Releasing, shared, worker, outputs
<1>17. ASSUME ClearCancel PROVE TypeOK'
    <2>1. cancelRequested' = FALSE /\ wpc' = "clearActive"
        BY <1>17 DEF ClearCancel
    <2>2. UNCHANGED <<handle, jobActive, pending, cellReady, executor, current,
                      verdict, overdue, process, code, event, state, node>>
        BY <1>17 DEF ClearCancel, outputs
    <2>3. /\ wpc' \in {"wait", "conclude"} \cup Executing
          /\ jobActive' \in BOOLEAN /\ cancelRequested' \in BOOLEAN /\ cellReady' \in BOOLEAN
        BY <2>1, <2>2 DEF TypeOK, Executing, Releasing
    <2>4. handle' \in [Jobs -> {"NONE", "EXECUTING", "CANCELING"} \cup Terminal]
        BY <2>2 DEF TypeOK
    <2>5. executor' \in [at : {"idle", "accepting", "cancelling"}, job : Jobs \cup {None}]
        BY <2>2 DEF TypeOK
    <2>6. process' \in [Jobs -> {"none", "running", "certain", "uncertain"}]
        BY <2>2 DEF TypeOK
    <2>7. event' \in [Jobs -> {"none", "job.accepted", "job.started"} \cup TerminalEvents]
        BY <2>2 DEF TypeOK
    <2>8. verdict' \in Verdicts \cup {None} /\ code' \in [Jobs -> Codes \cup {None}]
        BY <2>2 DEF TypeOK
    <2>9. /\ pending' \in Jobs \cup {None} /\ current' \in Jobs \cup {None}
          /\ overdue' \in BOOLEAN /\ state' \in States
          /\ node' \in {"up", "stopping", "terminated"}
        BY <2>2 DEF TypeOK
    <2> QED
        BY <2>3, <2>4, <2>5, <2>6, <2>7, <2>8, <2>9 DEF TypeOK
<1>18. ASSUME ClearActive PROVE TypeOK'
    <2>1. jobActive' = FALSE /\ wpc' = "conclude"
        BY <1>18 DEF ClearActive
    <2>2. UNCHANGED <<handle, cancelRequested, pending, cellReady, executor, current,
                      verdict, overdue, process, code, event, state, node>>
        BY <1>18 DEF ClearActive, outputs
    <2>3. /\ wpc' \in {"wait", "conclude"} \cup Executing
          /\ jobActive' \in BOOLEAN /\ cancelRequested' \in BOOLEAN /\ cellReady' \in BOOLEAN
        BY <2>1, <2>2 DEF TypeOK, Executing, Releasing
    <2>4. handle' \in [Jobs -> {"NONE", "EXECUTING", "CANCELING"} \cup Terminal]
        BY <2>2 DEF TypeOK
    <2>5. executor' \in [at : {"idle", "accepting", "cancelling"}, job : Jobs \cup {None}]
        BY <2>2 DEF TypeOK
    <2>6. process' \in [Jobs -> {"none", "running", "certain", "uncertain"}]
        BY <2>2 DEF TypeOK
    <2>7. event' \in [Jobs -> {"none", "job.accepted", "job.started"} \cup TerminalEvents]
        BY <2>2 DEF TypeOK
    <2>8. verdict' \in Verdicts \cup {None} /\ code' \in [Jobs -> Codes \cup {None}]
        BY <2>2 DEF TypeOK
    <2>9. /\ pending' \in Jobs \cup {None} /\ current' \in Jobs \cup {None}
          /\ overdue' \in BOOLEAN /\ state' \in States
          /\ node' \in {"up", "stopping", "terminated"}
        BY <2>2 DEF TypeOK
    <2> QED
        BY <2>3, <2>4, <2>5, <2>6, <2>7, <2>8, <2>9 DEF TypeOK
<1>19. ASSUME Conclude PROVE TypeOK'
    <2>1. verdict \in Verdicts
        BY <1>19 DEF Conclude, Settled, TypeOK
    <2>2. verdict.call \in Calls /\ verdict.code \in Codes
        BY <2>1 DEF Verdicts
    <2> QED
        BY <1>19, <1>0, <2>2 DEF Conclude, TypeOK, Idle, Terminal,
           Executing, Releasing, shared, worker, outputs
<1>20. ASSUME Expire PROVE TypeOK'
    BY <1>20, <1>0 DEF Expire, TypeOK, Idle, Terminal, Executing, Releasing,
       shared, worker, outputs
<1>21. ASSUME NEW j \in Jobs, ProcessEnds(j) PROVE TypeOK'
    BY <1>21, <1>0 DEF ProcessEnds, TypeOK, Idle, Terminal, Executing,
       Releasing, shared, worker, outputs
<1>22. ASSUME Stop PROVE TypeOK'
    BY <1>22, <1>0 DEF Stop, TypeOK, Idle, Terminal, Executing, Releasing,
       shared, worker, outputs
<1>23. ASSUME Destroy PROVE TypeOK'
    BY <1>23, <1>0 DEF Destroy, TypeOK, Idle, Terminal, Executing, Releasing,
       shared, worker, outputs
<1>24. CASE UNCHANGED vars
    BY <1>24 DEF vars, TypeOK
<1> QED
    BY <1>1, <1>2, <1>3, <1>4, <1>5, <1>6, <1>7, <1>8, <1>9, <1>10, <1>11,
       <1>12, <1>13, <1>14, <1>15, <1>16, <1>17, <1>18, <1>19, <1>20, <1>21,
       <1>22, <1>23, <1>24, StepCases

\* A step keeps the one job in at most one place.
LEMMA PlacesStep == TypeOK /\ Places /\ TypeOK' /\ [Next]_vars => Places'
<1> SUFFICES ASSUME TypeOK, Places, TypeOK', [Next]_vars PROVE Places'
    OBVIOUS
<1> USE NoneAssumption DEF TypeOK, Places, WorkerAt,
            Executing, Releasing, shared, worker, outputs, Idle
<1>1. ASSUME NEW j \in Jobs, HandleGoal(j) PROVE Places'
    BY <1>1 DEF HandleGoal
<1>2. ASSUME HandleAccepted PROVE Places'
    BY <1>2 DEF HandleAccepted
<1>3. ASSUME NEW j \in Jobs, HandleCancel(j) PROVE Places'
    BY <1>3 DEF HandleCancel
<1>4. ASSUME CancelGoal PROVE Places'
    BY <1>4 DEF CancelGoal
<1>5. ASSUME NEW ready \in BOOLEAN, OnCellState(ready) PROVE Places'
    BY <1>5 DEF OnCellState
<1>6. ASSUME Take PROVE Places'
    BY <1>6 DEF Take
<1>7. ASSUME Admit PROVE Places'
    BY <1>7 DEF Admit, Reject, Settle
<1>8. ASSUME Build PROVE Places'
    <2>1. CASE Reject("supervisor.tree.invalid")
        BY <1>8, <2>1 DEF Build, Reject, Settle
    <2>2. CASE /\ wpc' = "head"
               /\ event' = [event EXCEPT ![current] = "job.started"]
               /\ UNCHANGED <<handle, shared, cellReady, executor, current, verdict, code, node>>
        BY <1>8, <2>2 DEF Build, WorkerAt, Executing, Releasing, shared,
           worker, outputs, Idle, Places, TypeOK
    <2> QED
        BY <1>8, <2>1, <2>2 DEF Build
<1>9. ASSUME Head PROVE Places'
    BY <1>9 DEF Head, Settle
<1>10. ASSUME Poll PROVE Places'
    BY <1>10 DEF Poll, Settle
<1>11. ASSUME Overdue PROVE Places'
    BY <1>11 DEF Overdue, Fault, Settle
<1>12. ASSUME TickRunning PROVE Places'
    BY <1>12 DEF TickRunning
<1>13. ASSUME TickSuccess PROVE Places'
    BY <1>13 DEF TickSuccess, Settle
<1>14. ASSUME TickFailure PROVE Places'
    BY <1>14 DEF TickFailure, Fault, Settle
<1>15. ASSUME TickThrows PROVE Places'
    BY <1>15 DEF TickThrows, Fault, Settle
<1>16. ASSUME Transition PROVE Places'
    BY <1>16 DEF Transition
<1>17. ASSUME ClearCancel PROVE Places'
    BY <1>17 DEF ClearCancel
<1>18. ASSUME ClearActive PROVE Places'
    BY <1>18 DEF ClearActive
<1>19. ASSUME Conclude PROVE Places'
    BY <1>19 DEF Conclude
<1>20. ASSUME Expire PROVE Places'
    BY <1>20 DEF Expire
<1>21. ASSUME NEW j \in Jobs, ProcessEnds(j) PROVE Places'
    BY <1>21 DEF ProcessEnds
<1>22. ASSUME Stop PROVE Places'
    BY <1>22 DEF Stop
<1>23. ASSUME Destroy PROVE Places'
    BY <1>23 DEF Destroy
<1>24. CASE UNCHANGED vars
    BY <1>24 DEF vars, Places
<1> QED
    BY <1>1, <1>2, <1>3, <1>4, <1>5, <1>6, <1>7, <1>8, <1>9, <1>10, <1>11,
       <1>12, <1>13, <1>14, <1>15, <1>16, <1>17, <1>18, <1>19, <1>20, <1>21,
       <1>22, <1>23, <1>24, StepCases

\* A settled job's verdict and event fit together.
LEMMA SettleSettles ==
    ASSUME TypeOK, current \in Jobs, NEW c \in Codes, NEW call \in Calls,
           NEW next \in States, NEW e, NEW label,
           e \in TerminalEvents \/ c = "supervisor.job.stopping",
           label \in {"clearCancel", "transition"},
           next # "RUNNING" \/ label = "clearCancel",
           c = "supervisor.job.cancelled" => call = "CANCELED",
           Settle(c, e, call, next, label)
    PROVE  Settled'
<1>1. /\ verdict'.code = c /\ verdict'.call = call /\ verdict'.next = next
      /\ wpc' = label /\ current' = current
    BY DEF Settle
<1>2. event'[current'] = e
    <2>1. event \in [Jobs -> {"none", "job.accepted", "job.started"} \cup TerminalEvents]
        BY DEF TypeOK
    <2>2. event' = [event EXCEPT ![current] = e]
        BY DEF Settle
    <2> QED
        BY <1>1, <2>1, <2>2
<1>3. verdict' \in Verdicts
    BY DEF Settle, Verdicts
<1>4. wpc' = "transition" => verdict'.next # "RUNNING"
    BY <1>1
<1>5. event'[current'] \in TerminalEvents \/ verdict'.code = "supervisor.job.stopping"
    BY <1>1, <1>2
<1>6. verdict'.code = "supervisor.job.cancelled" => verdict'.call = "CANCELED"
    BY <1>1
<1> QED
    BY <1>3, <1>4, <1>5, <1>6 DEF Settled

\* Settling a live job acknowledges nothing.
LEMMA SettleAcknowledgesNothing ==
    ASSUME TypeOK, current \in Jobs, Live(current), EventBeforeAcknowledgement,
           NEW c, NEW e, NEW call, NEW next, NEW label,
           Settle(c, e, call, next, label)
    PROVE  EventBeforeAcknowledgement'
<1>1. handle' = handle /\ code' = code /\ event' = [event EXCEPT ![current] = e]
    BY DEF Settle
<1>2. ASSUME NEW j \in Jobs, handle[j] \in Terminal PROVE event'[j] = event[j]
    BY <1>1, <1>2 DEF Live, Terminal, TypeOK
<1> QED
    BY <1>1, <1>2 DEF EventBeforeAcknowledgement

\* A step ends only the job that leaves its place.
LEMMA UnfinishedStep == TypeOK /\ Places /\ Unfinished /\ TypeOK' /\ [Next]_vars => Unfinished'
<1> SUFFICES ASSUME TypeOK, Places, Unfinished, TypeOK', [Next]_vars PROVE Unfinished'
    OBVIOUS
<1> USE NoneAssumption DEF TypeOK, Places, Unfinished, Live, Terminal, WorkerAt,
            Executing, Releasing, shared, worker, outputs, Idle
<1>1. ASSUME NEW j \in Jobs, HandleGoal(j) PROVE Unfinished'
    BY <1>1 DEF HandleGoal
<1>2. ASSUME HandleAccepted PROVE Unfinished'
    BY <1>2 DEF HandleAccepted
<1>3. ASSUME NEW j \in Jobs, HandleCancel(j) PROVE Unfinished'
    BY <1>3 DEF HandleCancel
<1>4. ASSUME CancelGoal PROVE Unfinished'
    BY <1>4 DEF CancelGoal
<1>5. ASSUME NEW ready \in BOOLEAN, OnCellState(ready) PROVE Unfinished'
    BY <1>5 DEF OnCellState
<1>6. ASSUME Take PROVE Unfinished'
    BY <1>6 DEF Take
<1>7. ASSUME Admit PROVE Unfinished'
    <2>1. wpc = "admit" /\ UNCHANGED <<handle, executor, pending, current>>
        BY <1>7 DEF Admit, Reject, Settle
    <2> QED
        BY <2>1
<1>8. ASSUME Build PROVE Unfinished'
    <2>1. wpc = "build" /\ UNCHANGED <<handle, executor, pending, current>>
        BY <1>8 DEF Build, Reject, Settle
    <2> QED
        BY <2>1
<1>9. ASSUME Head PROVE Unfinished'
    BY <1>9, ZenonT(60) DEF Head, Settle
<1>10. ASSUME Poll PROVE Unfinished'
    BY <1>10, ZenonT(60) DEF Poll, Settle
<1>11. ASSUME Overdue PROVE Unfinished'
    BY <1>11 DEF Overdue, Fault, Settle
<1>12. ASSUME TickRunning PROVE Unfinished'
    BY <1>12 DEF TickRunning
<1>13. ASSUME TickSuccess PROVE Unfinished'
    BY <1>13 DEF TickSuccess, Settle
<1>14. ASSUME TickFailure PROVE Unfinished'
    <2>1. \E c, e : Fault(c, e)
        BY <1>14 DEF TickFailure
    <2> QED
        BY <1>14, <2>1 DEF TickFailure, Fault, Settle
<1>15. ASSUME TickThrows PROVE Unfinished'
    BY <1>15 DEF TickThrows, Fault, Settle
<1>16. ASSUME Transition PROVE Unfinished'
    BY <1>16 DEF Transition
<1>17. ASSUME ClearCancel PROVE Unfinished'
    BY <1>17 DEF ClearCancel
<1>18. ASSUME ClearActive PROVE Unfinished'
    BY <1>18 DEF ClearActive
<1>19. ASSUME Conclude PROVE Unfinished'
    BY <1>19 DEF Conclude
<1>20. ASSUME Expire PROVE Unfinished'
    BY <1>20 DEF Expire
<1>21. ASSUME NEW j \in Jobs, ProcessEnds(j) PROVE Unfinished'
    BY <1>21 DEF ProcessEnds
<1>22. ASSUME Stop PROVE Unfinished'
    BY <1>22 DEF Stop
<1>23. ASSUME Destroy PROVE Unfinished'
    BY <1>23 DEF Destroy
<1>24. CASE UNCHANGED vars
    BY <1>24 DEF vars, Unfinished
<1> QED
    BY <1>1, <1>2, <1>3, <1>4, <1>5, <1>6, <1>7, <1>8, <1>9, <1>10, <1>11,
       <1>12, <1>13, <1>14, <1>15, <1>16, <1>17, <1>18, <1>19, <1>20, <1>21,
       <1>22, <1>23, <1>24, StepCases

\* A step keeps the verdict and the event of a settled job together.
LEMMA SettledStep == TypeOK /\ Places /\ Settled /\ TypeOK' /\ [Next]_vars => Settled'
<1> SUFFICES ASSUME TypeOK, Places, Settled, TypeOK', [Next]_vars PROVE Settled'
    OBVIOUS
<1> USE NoneAssumption
<1>1. ASSUME NEW j \in Jobs, HandleGoal(j) PROVE Settled'
    BY <1>1 DEF HandleGoal, TypeOK, Places, Settled, TerminalEvents, WorkerAt,
       Executing, Releasing, shared, worker, outputs, Idle
<1>2. ASSUME HandleAccepted PROVE Settled'
    BY <1>2 DEF HandleAccepted, TypeOK, Places, Settled, TerminalEvents,
       WorkerAt,
            Executing, Releasing, shared, worker, outputs, Idle
<1>3. ASSUME NEW j \in Jobs, HandleCancel(j) PROVE Settled'
    BY <1>3 DEF HandleCancel, TypeOK, Places, Settled, TerminalEvents, WorkerAt,
       Executing, Releasing, shared, worker, outputs, Idle
<1>4. ASSUME CancelGoal PROVE Settled'
    BY <1>4 DEF CancelGoal, TypeOK, Places, Settled, TerminalEvents, WorkerAt,
       Executing, Releasing, shared, worker, outputs, Idle
<1>5. ASSUME NEW ready \in BOOLEAN, OnCellState(ready) PROVE Settled'
    BY <1>5 DEF OnCellState, TypeOK, Places, Settled, TerminalEvents, WorkerAt,
       Executing, Releasing, shared, worker, outputs, Idle
<1>6. ASSUME Take PROVE Settled'
    BY <1>6 DEF Take, TypeOK, Places, Settled, TerminalEvents, WorkerAt,
       Executing, Releasing, shared, worker, outputs, Idle
<1>7. ASSUME Admit PROVE Settled'
    <2>1. CASE cellReady
        BY <1>7, <2>1 DEF Admit, TypeOK, Places, Settled, TerminalEvents,
           WorkerAt,
            Executing, Releasing, shared, worker, outputs, Idle
    <2>2. CASE ~cellReady
        BY <1>7, <2>2, SettleSettles DEF Admit, Calls, Codes, States,
           TerminalEvents, Reject, Fault, WorkerAt, Places, Executing,
           Releasing, TypeOK
    <2> QED
        BY <2>1, <2>2
<1>8. ASSUME Build PROVE Settled'
    <2>1. CASE Reject("supervisor.tree.invalid")
        BY <1>8, <2>1, SettleSettles DEF Build, Calls, Codes, States,
           TerminalEvents, Reject, Fault, WorkerAt, Places, Executing,
           Releasing, TypeOK
    <2>2. CASE ~Reject("supervisor.tree.invalid")
        BY <1>8, <2>2 DEF Build, TypeOK, Places, Settled, TerminalEvents,
           WorkerAt,
            Executing, Releasing, shared, worker, outputs, Idle
    <2> QED
        BY <2>1, <2>2
<1>9. ASSUME Head PROVE Settled'
    <2>1. CASE node = "up"
        BY <1>9, <2>1 DEF Head, TypeOK, Places, Settled, TerminalEvents,
           WorkerAt,
            Executing, Releasing, shared, worker, outputs, Idle
    <2>2. CASE node # "up"
        BY <1>9, <2>2, SettleSettles DEF Head, Calls, Codes, States,
           TerminalEvents, Reject, Fault, WorkerAt, Places, Executing,
           Releasing
    <2> QED
        BY <2>1, <2>2
<1>10. ASSUME Poll PROVE Settled'
    <2>1. CASE cancelRequested
        BY <1>10, <2>1, SettleSettles DEF Poll, Calls, Codes, States,
           TerminalEvents, Reject, Fault, WorkerAt, Places, Executing,
           Releasing
    <2>2. CASE ~cancelRequested
        BY <1>10, <2>2 DEF Poll, TypeOK, Places, Settled, TerminalEvents,
           WorkerAt,
            Executing, Releasing, shared, worker, outputs, Idle
    <2> QED
        BY <2>1, <2>2
<1>11. ASSUME Overdue PROVE Settled'
    BY <1>11, SettleSettles DEF Overdue, Calls, Codes, States, TerminalEvents,
       Reject, Fault, WorkerAt, Places, Executing, Releasing
<1>12. ASSUME TickRunning PROVE Settled'
    BY <1>12 DEF TickRunning, TypeOK, Places, Settled, TerminalEvents, WorkerAt,
       Executing, Releasing, shared, worker, outputs, Idle
<1>13. ASSUME TickSuccess PROVE Settled'
    BY <1>13, SettleSettles DEF TickSuccess, Calls, Codes, States,
       TerminalEvents, Reject, Fault, WorkerAt, Places, Executing, Releasing
<1>14. ASSUME TickFailure PROVE Settled'
    BY <1>14, SettleSettles DEF TickFailure, Calls, Codes, States,
       TerminalEvents, Reject, Fault, WorkerAt, Places, Executing, Releasing
<1>15. ASSUME TickThrows PROVE Settled'
    BY <1>15, SettleSettles DEF TickThrows, Calls, Codes, States,
       TerminalEvents, Reject, Fault, WorkerAt, Places, Executing, Releasing
<1>16. ASSUME Transition PROVE Settled'
    BY <1>16 DEF Transition, TypeOK, Places, Settled, TerminalEvents, WorkerAt,
       Executing, Releasing, shared, worker, outputs, Idle
<1>17. ASSUME ClearCancel PROVE Settled'
    BY <1>17 DEF ClearCancel, TypeOK, Places, Settled, TerminalEvents, WorkerAt,
       Executing, Releasing, shared, worker, outputs, Idle
<1>18. ASSUME ClearActive PROVE Settled'
    BY <1>18 DEF ClearActive, TypeOK, Places, Settled, TerminalEvents, WorkerAt,
       Executing, Releasing, shared, worker, outputs, Idle
<1>19. ASSUME Conclude PROVE Settled'
    BY <1>19 DEF Conclude, TypeOK, Places, Settled, TerminalEvents, WorkerAt,
       Executing, Releasing, shared, worker, outputs, Idle
<1>20. ASSUME Expire PROVE Settled'
    BY <1>20 DEF Expire, TypeOK, Places, Settled, TerminalEvents, WorkerAt,
       Executing, Releasing, shared, worker, outputs, Idle
<1>21. ASSUME NEW j \in Jobs, ProcessEnds(j) PROVE Settled'
    BY <1>21 DEF ProcessEnds, TypeOK, Places, Settled, TerminalEvents, WorkerAt,
       Executing, Releasing, shared, worker, outputs, Idle
<1>22. ASSUME Stop PROVE Settled'
    BY <1>22 DEF Stop, TypeOK, Places, Settled, TerminalEvents, WorkerAt,
       Executing, Releasing, shared, worker, outputs, Idle
<1>23. ASSUME Destroy PROVE Settled'
    BY <1>23 DEF Destroy, TypeOK, Places, Settled, TerminalEvents, WorkerAt,
       Executing, Releasing, shared, worker, outputs, Idle
<1>24. CASE UNCHANGED vars
    BY <1>24 DEF vars, Settled, Releasing, Executing
<1> QED
    BY <1>1, <1>2, <1>3, <1>4, <1>5, <1>6, <1>7, <1>8, <1>9, <1>10, <1>11,
       <1>12, <1>13, <1>14, <1>15, <1>16, <1>17, <1>18, <1>19, <1>20, <1>21,
       <1>22, <1>23, <1>24, StepCases

\* A step out of executeGoal's loop withdraws RUNNING.
LEMMA RunningStep == TypeOK /\ Settled /\ RunningAtWork /\ TypeOK' /\ [Next]_vars => RunningAtWork'
<1> SUFFICES ASSUME TypeOK, Settled, RunningAtWork, TypeOK', [Next]_vars PROVE RunningAtWork'
    OBVIOUS
<1> USE DEF TypeOK, Settled, RunningAtWork, WorkerAt,
            Executing, Releasing, shared, worker, outputs, Idle
<1>1. ASSUME NEW j \in Jobs, HandleGoal(j) PROVE RunningAtWork'
    BY <1>1 DEF HandleGoal
<1>2. ASSUME HandleAccepted PROVE RunningAtWork'
    BY <1>2 DEF HandleAccepted
<1>3. ASSUME NEW j \in Jobs, HandleCancel(j) PROVE RunningAtWork'
    BY <1>3 DEF HandleCancel
<1>4. ASSUME CancelGoal PROVE RunningAtWork'
    BY <1>4 DEF CancelGoal
<1>5. ASSUME NEW ready \in BOOLEAN, OnCellState(ready) PROVE RunningAtWork'
    BY <1>5 DEF OnCellState
<1>6. ASSUME Take PROVE RunningAtWork'
    BY <1>6 DEF Take
<1>7. ASSUME Admit PROVE RunningAtWork'
    BY <1>7 DEF Admit, Reject, Settle
<1>8. ASSUME Build PROVE RunningAtWork'
    BY <1>8 DEF Build, Reject, Settle
<1>9. ASSUME Head PROVE RunningAtWork'
    BY <1>9 DEF Head, Settle
<1>10. ASSUME Poll PROVE RunningAtWork'
    BY <1>10 DEF Poll, Settle
<1>11. ASSUME Overdue PROVE RunningAtWork'
    BY <1>11 DEF Overdue, Fault, Settle
<1>12. ASSUME TickRunning PROVE RunningAtWork'
    BY <1>12 DEF TickRunning
<1>13. ASSUME TickSuccess PROVE RunningAtWork'
    BY <1>13 DEF TickSuccess, Settle
<1>14. ASSUME TickFailure PROVE RunningAtWork'
    BY <1>14 DEF TickFailure, Fault, Settle
<1>15. ASSUME TickThrows PROVE RunningAtWork'
    BY <1>15 DEF TickThrows, Fault, Settle
<1>16. ASSUME Transition PROVE RunningAtWork'
    BY <1>16 DEF Transition
<1>17. ASSUME ClearCancel PROVE RunningAtWork'
    BY <1>17 DEF ClearCancel
<1>18. ASSUME ClearActive PROVE RunningAtWork'
    BY <1>18 DEF ClearActive
<1>19. ASSUME Conclude PROVE RunningAtWork'
    BY <1>19 DEF Conclude
<1>20. ASSUME Expire PROVE RunningAtWork'
    BY <1>20 DEF Expire
<1>21. ASSUME NEW j \in Jobs, ProcessEnds(j) PROVE RunningAtWork'
    BY <1>21 DEF ProcessEnds
<1>22. ASSUME Stop PROVE RunningAtWork'
    BY <1>22 DEF Stop
<1>23. ASSUME Destroy PROVE RunningAtWork'
    BY <1>23 DEF Destroy
<1>24. CASE UNCHANGED vars
    BY <1>24 DEF vars, RunningAtWork
<1> QED
    BY <1>1, <1>2, <1>3, <1>4, <1>5, <1>6, <1>7, <1>8, <1>9, <1>10, <1>11,
       <1>12, <1>13, <1>14, <1>15, <1>16, <1>17, <1>18, <1>19, <1>20, <1>21,
       <1>22, <1>23, <1>24, StepCases

\* A step acknowledges no goal without its event.
LEMMA EventStep ==
    TypeOK /\ Places /\ Unfinished /\ Settled /\ EventBeforeAcknowledgement /\ TypeOK'
    /\ [Next]_vars => EventBeforeAcknowledgement'
<1> SUFFICES ASSUME TypeOK, Places, Unfinished, Settled, EventBeforeAcknowledgement,
                    TypeOK', [Next]_vars
             PROVE  EventBeforeAcknowledgement'
    OBVIOUS
<1>1. ASSUME NEW j \in Jobs, HandleGoal(j) PROVE EventBeforeAcknowledgement'
    BY <1>1 DEF HandleGoal, TypeOK, Places, Unfinished, Live, Settled,
       EventBeforeAcknowledgement, Terminal, TerminalEvents, WorkerAt,
       Executing, Releasing, shared, worker, outputs, Idle
<1>2. ASSUME HandleAccepted PROVE EventBeforeAcknowledgement'
    BY <1>2 DEF HandleAccepted, TypeOK, Places, Unfinished, Live, Settled,
       EventBeforeAcknowledgement, Terminal, TerminalEvents, WorkerAt,
       Executing, Releasing, shared, worker, outputs, Idle
<1>3. ASSUME NEW j \in Jobs, HandleCancel(j) PROVE EventBeforeAcknowledgement'
    BY <1>3 DEF HandleCancel, TypeOK, Places, Unfinished, Live, Settled,
       EventBeforeAcknowledgement, Terminal, TerminalEvents, WorkerAt,
       Executing, Releasing, shared, worker, outputs, Idle
<1>4. ASSUME CancelGoal PROVE EventBeforeAcknowledgement'
    BY <1>4 DEF CancelGoal, TypeOK, Places, Unfinished, Live, Settled,
       EventBeforeAcknowledgement, Terminal, TerminalEvents, WorkerAt,
       Executing, Releasing, shared, worker, outputs, Idle
<1>5. ASSUME NEW ready \in BOOLEAN, OnCellState(ready) PROVE EventBeforeAcknowledgement'
    BY <1>5 DEF OnCellState, TypeOK, Places, Unfinished, Live, Settled,
       EventBeforeAcknowledgement, Terminal, TerminalEvents, WorkerAt,
       Executing, Releasing, shared, worker, outputs, Idle
<1>6. ASSUME Take PROVE EventBeforeAcknowledgement'
    BY <1>6 DEF Take, TypeOK, Places, Unfinished, Live, Settled,
       EventBeforeAcknowledgement, Terminal, TerminalEvents, WorkerAt,
       Executing, Releasing, shared, worker, outputs, Idle
<1>7. ASSUME Admit PROVE EventBeforeAcknowledgement'
    <2>1. CASE cellReady
        BY <1>7, <2>1 DEF Admit, TypeOK, Places, Unfinished, Live, Settled,
           EventBeforeAcknowledgement, Terminal, TerminalEvents, WorkerAt,
           Executing, Releasing, shared, worker, outputs, Idle
    <2>2. CASE ~cellReady
        BY <1>7, <2>2, SettleAcknowledgesNothing DEF Admit, Calls, Codes,
           States, TerminalEvents, Reject, Fault, WorkerAt, Places,
           Executing, Releasing, Unfinished, TypeOK
    <2> QED
        BY <2>1, <2>2
<1>8. ASSUME Build PROVE EventBeforeAcknowledgement'
    <2>1. CASE Reject("supervisor.tree.invalid")
        BY <1>8, <2>1, SettleAcknowledgesNothing DEF Build, TypeOK, Calls,
           Codes, States, TerminalEvents, Reject, Fault, WorkerAt, Places,
           Executing, Releasing, Unfinished
    <2>2. CASE /\ wpc' = "head"
               /\ event' = [event EXCEPT ![current] = "job.started"]
               /\ UNCHANGED <<handle, shared, cellReady, executor, current, verdict, code, node>>
        BY <1>8, <2>2 DEF Build, TypeOK, Places, Unfinished, Live, Settled,
           EventBeforeAcknowledgement, Terminal, TerminalEvents, WorkerAt,
           Executing, Releasing, shared, worker, outputs, Idle
    <2> QED
        BY <1>8, <2>1, <2>2 DEF Build
<1>9. ASSUME Head PROVE EventBeforeAcknowledgement'
    <2>1. CASE node = "up"
        BY <1>9, <2>1 DEF Head, TypeOK, Places, Unfinished, Live, Settled,
           EventBeforeAcknowledgement, Terminal, TerminalEvents, WorkerAt,
           Executing, Releasing, shared, worker, outputs, Idle
    <2>2. CASE node # "up"
        BY <1>9, <2>2, SettleAcknowledgesNothing DEF Head, Calls, Codes,
           States, TerminalEvents, Reject, Fault, WorkerAt, Places,
           Executing, Releasing, Unfinished
    <2> QED
        BY <2>1, <2>2
<1>10. ASSUME Poll PROVE EventBeforeAcknowledgement'
    <2>1. CASE cancelRequested
        BY <1>10, <2>1, SettleAcknowledgesNothing DEF Poll, Calls, Codes,
           States, TerminalEvents, Reject, Fault, WorkerAt, Places,
           Executing, Releasing, Unfinished
    <2>2. CASE ~cancelRequested
        BY <1>10, <2>2 DEF Poll, TypeOK, Places, Unfinished, Live, Settled,
           EventBeforeAcknowledgement, Terminal, TerminalEvents, WorkerAt,
           Executing, Releasing, shared, worker, outputs, Idle
    <2> QED
        BY <2>1, <2>2
<1>11. ASSUME Overdue PROVE EventBeforeAcknowledgement'
    BY <1>11, SettleAcknowledgesNothing DEF Overdue, Calls, Codes, States,
       TerminalEvents, Reject, Fault, WorkerAt, Places, Executing, Releasing,
       Unfinished
<1>12. ASSUME TickRunning PROVE EventBeforeAcknowledgement'
    BY <1>12 DEF TickRunning, TypeOK, Places, Unfinished, Live, Settled,
       EventBeforeAcknowledgement, Terminal, TerminalEvents, WorkerAt,
       Executing, Releasing, shared, worker, outputs, Idle
<1>13. ASSUME TickSuccess PROVE EventBeforeAcknowledgement'
    BY <1>13, SettleAcknowledgesNothing DEF TickSuccess, Calls, Codes, States,
       TerminalEvents, Reject, Fault, WorkerAt, Places, Executing, Releasing,
       Unfinished
<1>14. ASSUME TickFailure PROVE EventBeforeAcknowledgement'
    BY <1>14, SettleAcknowledgesNothing DEF TickFailure, Calls, Codes, States,
       TerminalEvents, Reject, Fault, WorkerAt, Places, Executing, Releasing,
       Unfinished
<1>15. ASSUME TickThrows PROVE EventBeforeAcknowledgement'
    BY <1>15, SettleAcknowledgesNothing DEF TickThrows, Calls, Codes, States,
       TerminalEvents, Reject, Fault, WorkerAt, Places, Executing, Releasing,
       Unfinished
<1>16. ASSUME Transition PROVE EventBeforeAcknowledgement'
    BY <1>16 DEF Transition, TypeOK, Places, Unfinished, Live, Settled,
       EventBeforeAcknowledgement, Terminal, TerminalEvents, WorkerAt,
       Executing, Releasing, shared, worker, outputs, Idle
<1>17. ASSUME ClearCancel PROVE EventBeforeAcknowledgement'
    BY <1>17 DEF ClearCancel, TypeOK, Places, Unfinished, Live, Settled,
       EventBeforeAcknowledgement, Terminal, TerminalEvents, WorkerAt,
       Executing, Releasing, shared, worker, outputs, Idle
<1>18. ASSUME ClearActive PROVE EventBeforeAcknowledgement'
    BY <1>18 DEF ClearActive, TypeOK, Places, Unfinished, Live, Settled,
       EventBeforeAcknowledgement, Terminal, TerminalEvents, WorkerAt,
       Executing, Releasing, shared, worker, outputs, Idle
<1>19. ASSUME Conclude PROVE EventBeforeAcknowledgement'
    BY <1>19 DEF Conclude, TypeOK, Places, Unfinished, Live, Settled,
       EventBeforeAcknowledgement, Terminal, TerminalEvents, WorkerAt,
       Executing, Releasing, shared, worker, outputs, Idle
<1>20. ASSUME Expire PROVE EventBeforeAcknowledgement'
    BY <1>20 DEF Expire, TypeOK, Places, Unfinished, Live, Settled,
       EventBeforeAcknowledgement, Terminal, TerminalEvents, WorkerAt,
       Executing, Releasing, shared, worker, outputs, Idle
<1>21. ASSUME NEW j \in Jobs, ProcessEnds(j) PROVE EventBeforeAcknowledgement'
    BY <1>21 DEF ProcessEnds, TypeOK, Places, Unfinished, Live, Settled,
       EventBeforeAcknowledgement, Terminal, TerminalEvents, WorkerAt,
       Executing, Releasing, shared, worker, outputs, Idle
<1>22. ASSUME Stop PROVE EventBeforeAcknowledgement'
    BY <1>22 DEF Stop, TypeOK, Places, Unfinished, Live, Settled,
       EventBeforeAcknowledgement, Terminal, TerminalEvents, WorkerAt,
       Executing, Releasing, shared, worker, outputs, Idle
<1>23. ASSUME Destroy PROVE EventBeforeAcknowledgement'
    BY <1>23 DEF Destroy, TypeOK, Places, Unfinished, Live, Settled,
       EventBeforeAcknowledgement, Terminal, TerminalEvents, WorkerAt,
       Executing, Releasing, shared, worker, outputs, Idle
<1>24. CASE UNCHANGED vars
    BY <1>24 DEF vars, EventBeforeAcknowledgement, Terminal, TerminalEvents
<1> QED
    BY <1>1, <1>2, <1>3, <1>4, <1>5, <1>6, <1>7, <1>8, <1>9, <1>10, <1>11,
       <1>12, <1>13, <1>14, <1>15, <1>16, <1>17, <1>18, <1>19, <1>20, <1>21,
       <1>22, <1>23, <1>24, StepCases

\* The inductive invariant holds in every reachable state.
THEOREM Invariance == Spec => []IInv
<1>1. Init => IInv
    <2> SUFFICES ASSUME Init PROVE IInv
        OBVIOUS
    <2>1. TypeOK
        BY DEF Init, TypeOK, Idle, States
    <2>2. Places /\ Unfinished /\ Settled /\ RunningAtWork
        BY DEF Init, Places, Unfinished, Settled, RunningAtWork, Idle,
           Executing, Releasing
    <2>3. EventBeforeAcknowledgement
        BY DEF Init, EventBeforeAcknowledgement, Terminal
    <2> QED
        BY <2>1, <2>2, <2>3 DEF IInv
<1>2. IInv /\ [Next]_vars => IInv'
    <2> SUFFICES ASSUME IInv, [Next]_vars PROVE IInv'
        OBVIOUS
    <2>1. TypeOK'
        BY TypeStep DEF IInv
    <2> QED
        BY <2>1, PlacesStep, UnfinishedStep, SettledStep, RunningStep, EventStep DEF IInv
<1> QED
    BY <1>1, <1>2, PTL DEF Spec

\* Every variable of the supervisor keeps its type (supervisor_node.hpp).
THEOREM TypeCorrect == Spec => []TypeOK
<1>1. IInv => TypeOK
    BY DEF IInv
<1> QED
    BY <1>1, Invariance, PTL

\* job_active_ is exactly "some job holds the slot" and no two jobs ever do
\* (handleGoal, handleAccepted, workerLoop, finishGoalSlot).
THEOREM SlotIsExclusive == Spec => []SlotExclusive
<1>1. IInv => SlotExclusive
    BY NoneAssumption
       DEF IInv, TypeOK, Places, SlotExclusive, Holds, Executing, Releasing
<1> QED
    BY <1>1, Invariance, PTL

\* The cell reads RUNNING only while the slot is taken (transitionState before
\* finishGoalSlot on every path of executeGoal).
THEOREM RunningNeedsSlot == Spec => []RunningHoldsSlot
<1>1. IInv => RunningHoldsSlot
    BY DEF IInv, Places, RunningAtWork, RunningHoldsSlot, Executing
<1> QED
    BY <1>1, Invariance, PTL

\* No goal is acknowledged before its terminal event is out (publishEvent
\* before abort, canceled and succeed in executeGoal).
THEOREM EventsPrecedeAcknowledgement == Spec => []EventBeforeAcknowledgement
<1>1. IInv => EventBeforeAcknowledgement
    BY DEF IInv
<1> QED
    BY <1>1, Invariance, PTL

-----------------------------------------------------------------------------
(* Refinement: the two threads implement the action server.                *)

\* Only three steps show on the action interface; the throw is one of them.
LEMMA InterfaceSteps ==
    ASSUME [Next]_vars
    PROVE  \/ \E j \in Jobs : HandleGoal(j)
           \/ CancelGoal
           \/ Conclude
           \/ UNCHANGED <<handle, code>> /\ (node' = "terminated" <=> node = "terminated")
<1> DEFINE Hidden == /\ UNCHANGED <<handle, code>>
                     /\ node' = "terminated" <=> node = "terminated"
<1> USE DEF shared, worker, outputs
<1>1. ASSUME NEW j \in Jobs, HandleCancel(j) \/ ProcessEnds(j) PROVE Hidden
    BY <1>1 DEF HandleCancel, ProcessEnds
<1>2. ASSUME HandleAccepted \/ \E ready \in BOOLEAN : OnCellState(ready) PROVE Hidden
    BY <1>2 DEF HandleAccepted, OnCellState
<1>3. ASSUME Take \/ Admit \/ Build \/ Head \/ Poll PROVE Hidden
    BY <1>3 DEF Take, Admit, Build, Head, Poll, Reject, Settle
<1>4. ASSUME Overdue \/ TickRunning \/ TickSuccess \/ TickFailure \/ TickThrows PROVE Hidden
    BY <1>4 DEF Overdue, TickRunning, TickSuccess, TickFailure, TickThrows, Fault, Settle
<1>5. ASSUME Transition \/ ClearCancel \/ ClearActive \/ Expire PROVE Hidden
    BY <1>5 DEF Transition, ClearCancel, ClearActive, Expire
<1>6. ASSUME Stop \/ Destroy \/ UNCHANGED vars PROVE Hidden
    BY <1>6 DEF Stop, Destroy, vars
<1> HIDE DEF Hidden
<1>7. Hidden => UNCHANGED <<handle, code>> /\ (node' = "terminated" <=> node = "terminated")
    BY DEF Hidden
<1> QED
    BY <1>1, <1>2, <1>3, <1>4, <1>5, <1>6, <1>7, StepCases

Goals == [j \in Jobs |-> GoalStatus(j)]
Cancelling == [j \in Jobs |-> node # "terminated" /\ handle[j] = "CANCELING"]
Alive == node # "terminated"

LEMMA Statuses ==
    ASSUME TypeOK, NEW j \in Jobs
    PROVE  /\ node = "terminated" => GoalStatus(j) = "lost"
           /\ Alive /\ handle[j] = "NONE" => GoalStatus(j) = "sent"
           /\ Alive /\ Live(j) => GoalStatus(j) = "executing"
           /\ Alive /\ handle[j] \in Terminal => GoalStatus(j) = "done"
BY DEF GoalStatus, Alive, Live, Terminal, TypeOK

\* A cancelled result needs a cancelling goal; whatever the threads do between
\* two answers, the client sees one accept, at most one answer, or a dead node.
THEOREM Refinement == Spec => ImplementsServer
<1> USE DEF Goals, Cancelling, Alive
<1>1. Init => Server!Init
    <2> SUFFICES ASSUME Init PROVE Server!Init
        OBVIOUS
    <2>1. ASSUME NEW j \in Jobs PROVE GoalStatus(j) = "sent"
        <3>1. node = "up" /\ handle[j] = "NONE"
            BY DEF Init
        <3> QED
            BY <3>1 DEF GoalStatus, Live
    <2> QED
        BY <2>1 DEF Init, Server!Init
<1>2. ASSUME IInv, IInv', [Next]_vars
      PROVE  [Server!Next]_(Server!server)
    <2>0. TypeOK /\ TypeOK'
        BY <1>2 DEF IInv
    <2>1. ASSUME UNCHANGED <<handle, code>>, node' = "terminated" <=> node = "terminated"
          PROVE  UNCHANGED Server!server
        <3>1. \A j \in Jobs : GoalStatus(j)' = GoalStatus(j)
            BY <2>1 DEF GoalStatus, Live
        <3>2. UNCHANGED <<Goals, Cancelling, Alive, code>>
            BY <2>1, <3>1
        <3> QED
            BY <3>2 DEF Server!server
    <2>2. ASSUME NEW j \in Jobs, HandleGoal(j) PROVE Server!Next
        <3>1. /\ handle[j] = "NONE" /\ handle' = [handle EXCEPT ![j] = "EXECUTING"]
              /\ Alive /\ Alive' /\ UNCHANGED code
            BY <2>2 DEF HandleGoal, outputs
        <3>2. Goals[j] = "sent" /\ Goals' = [Goals EXCEPT ![j] = "executing"]
            BY <2>0, <3>1, Statuses DEF GoalStatus, Live, TypeOK
        <3>3. UNCHANGED Cancelling
            BY <2>0, <3>1 DEF TypeOK
        <3>4. Server!Accept(j)
            BY <3>1, <3>2, <3>3 DEF Server!Accept
        <3> QED
            BY <3>4 DEF Server!Next
    <2>3. ASSUME CancelGoal PROVE [Server!Next]_(Server!server)
        <3>1. PICK j \in Jobs : j = executor.job
            BY <1>2, <2>3 DEF CancelGoal, IInv, Places
        <3>2. Alive /\ Alive' /\ UNCHANGED code
            BY <2>3 DEF CancelGoal, outputs
        <3>3. CASE handle[j] = "EXECUTING"
            <4>1. handle' = [handle EXCEPT ![j] = "CANCELING"]
                BY <2>3, <3>1, <3>3 DEF CancelGoal
            <4>2. Goals[j] = "executing" /\ UNCHANGED Goals
                BY <2>0, <3>2, <3>3, <4>1, Statuses DEF GoalStatus, Live, TypeOK
            <4>3. Cancelling' = [Cancelling EXCEPT ![j] = TRUE]
                BY <2>0, <3>2, <4>1 DEF TypeOK
            <4>4. Server!Cancel(j)
                BY <3>2, <4>2, <4>3 DEF Server!Cancel
            <4> QED
                BY <4>4 DEF Server!Next
        <3>4. CASE handle[j] # "EXECUTING"
            <4>1. UNCHANGED <<handle, code>> /\ node' = node
                BY <2>0, <2>3, <3>1, <3>4 DEF CancelGoal, outputs, TypeOK
            <4> QED
                BY <4>1, <2>1
        <3> QED
            BY <3>3, <3>4
    <2>4. ASSUME Conclude PROVE Server!Next
        <3>1. /\ current \in Jobs /\ Live(current) /\ Alive /\ wpc = "conclude"
              /\ verdict \in Verdicts
              /\ verdict.code = "supervisor.job.cancelled" => verdict.call = "CANCELED"
            BY <1>2, <2>4 DEF Conclude, WorkerAt, IInv, Places, Unfinished, Settled
        <3>2. CASE verdict.call = "CANCELED" /\ handle[current] # "CANCELING"
            <4>1. ~Alive' /\ UNCHANGED <<handle, code>>
                BY <2>4, <3>2 DEF Conclude
            <4>2. Goals' = [j \in Jobs |->
                     IF Goals[j] \in {"sent", "executing", "done"} THEN "lost" ELSE Goals[j]]
                <5>1. \A j \in Jobs : Goals'[j] = "lost"
                    BY <4>1 DEF GoalStatus
                <5>2. \A j \in Jobs : Goals[j] \in {"sent", "executing", "done"}
                    BY <2>0, <3>1 DEF GoalStatus, Live, TypeOK
                <5> QED
                    BY <5>1, <5>2
            <4>3. Cancelling' = [j \in Jobs |-> FALSE]
                BY <4>1
            <4>4. Server!Crash
                BY <3>1, <4>1, <4>2, <4>3 DEF Server!Crash
            <4> QED
                BY <4>4 DEF Server!Next
        <3>3. CASE ~(verdict.call = "CANCELED" /\ handle[current] # "CANCELING")
            <4>1. /\ handle' = [handle EXCEPT ![current] = verdict.call]
                  /\ code' = [code EXCEPT ![current] = verdict.code]
                  /\ Alive'
                BY <2>4, <3>1, <3>3 DEF Conclude
            <4>2. verdict.call \in Terminal /\ verdict.code \in Codes
                BY <3>1 DEF Verdicts, Calls, Terminal
            <4>3. PICK j \in Jobs, c \in Codes : j = current /\ c = verdict.code
                BY <3>1, <4>2
            <4>4. handle'[j] \in Terminal /\ \A i \in Jobs \ {j} : handle'[i] = handle[i]
                BY <2>0, <4>1, <4>2, <4>3 DEF TypeOK
            <4>5. Goals[j] = "executing" /\ Goals' = [Goals EXCEPT ![j] = "done"]
                <5>1. Goals[j] = "executing"
                    BY <2>0, <3>1, <4>3, Statuses
                <5>2. GoalStatus(j)' = "done"
                    BY <4>1, <4>4 DEF GoalStatus, Live, Terminal
                <5>3. ASSUME NEW i \in Jobs \ {j} PROVE GoalStatus(i)' = GoalStatus(i)
                    BY <3>1, <4>1, <4>4, <5>3 DEF GoalStatus, Live
                <5> QED
                    BY <5>1, <5>2, <5>3
            <4>6. Cancelling' = [Cancelling EXCEPT ![j] = FALSE]
                BY <4>4, <3>1, <4>1 DEF Terminal
            <4>7. c = "supervisor.job.cancelled" => Cancelling[j]
                BY <3>1, <3>3, <4>3
            <4>8. code' = [code EXCEPT ![j] = c]
                BY <4>1, <4>3
            <4>9. Server!Finish(j, c)
                BY <3>1, <4>1, <4>5, <4>6, <4>7, <4>8 DEF Server!Finish
            <4> QED
                BY <4>9 DEF Server!Next
        <3> QED
            BY <3>2, <3>3
    <2> QED
        BY <1>2, InterfaceSteps, <2>1, <2>2, <2>3, <2>4
<1> QED
    BY <1>1, <1>2, Invariance, PTL DEF Spec, Server!Spec, ImplementsServer
============================================================================
