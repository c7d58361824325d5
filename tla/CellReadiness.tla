-------------------------- MODULE CellReadiness --------------------------
(***************************************************************************)
(* The readiness loop of a cell.  Device adapters and the safety status    *)
(* publish heartbeats; StateAggregatorNode folds them, together with the   *)
(* state the supervisor last published, into /cell/state once per timer    *)
(* period; the supervisor admits jobs on the last /cell/state it received  *)
(* and publishes the effect of each job on /cell/supervisor_state.         *)
(*                                                                         *)
(* The two topics between aggregator and supervisor keep their last Depth  *)
(* messages.  Clocks are abstracted to whether an entry is still within  *)
(* its heartbeat timeout: any entry may go stale, any heartbeat refreshes it. *)
(***************************************************************************)
EXTENDS Naturals, Sequences

CONSTANTS Required,   \* required_device_ids
          Optional,   \* further devices with a state topic
          Depth       \* QoS depth of the two cell state topics (10 in the code)

ASSUME DevicesAssumption == Required \cap Optional = {}
ASSUME DepthAssumption == Depth \in Nat \ {0}

Devices == Required \cup Optional

VARIABLES
    report,         \* _devices: the last DeviceState of each device
    fresh,          \* heartbeat_at is within the heartbeat timeout
    safetyReport,   \* SafetyStatusEntry.healthy
    safetyFresh,    \* SafetyStatusEntry is neither stale nor missing
    supervisorSeen, \* _supervisor_state
    toSupervisor,   \* /cell/state messages on their way
    toAggregator,   \* /cell/supervisor_state messages on their way
    supervisorState,\* state_ of the supervisor
    cellReady,      \* cell_ready_ of the supervisor
    admitted        \* a job passed the admission check and is being built

inputs == <<report, fresh, safetyReport, safetyFresh>>
supervisor == <<supervisorState, cellReady, admitted>>
vars == <<inputs, supervisorSeen, toSupervisor, toAggregator, supervisor>>

\* A ready device is neither busy nor faulted, and so on: DeviceState flags.
Reports == {"offline", "ready", "busy", "faulted"}
SupervisorStates == {"IDLE", "RUNNING", "RECOVERABLE_FAULT"}
CellStates == SupervisorStates \cup {"STARTING", "READY"}
Message == [state : CellStates, safety : BOOLEAN, devices : BOOLEAN]

TypeOK ==
    /\ report \in [Devices -> Reports]
    /\ fresh \in [Devices -> BOOLEAN]
    /\ safetyReport \in BOOLEAN
    /\ safetyFresh \in BOOLEAN
    /\ supervisorSeen \in SupervisorStates \cup {"none"}
    /\ toSupervisor \in Seq(Message) /\ Len(toSupervisor) <= Depth
    /\ toAggregator \in Seq(SupervisorStates) /\ Len(toAggregator) <= Depth
    /\ supervisorState \in SupervisorStates
    /\ cellReady \in BOOLEAN
    /\ admitted \in BOOLEAN

Init ==
    /\ report = [d \in Devices |-> "offline"]
    /\ fresh = [d \in Devices |-> TRUE]
    /\ safetyReport = FALSE
    /\ safetyFresh = FALSE
    /\ supervisorSeen = "none"
    /\ toSupervisor = <<>>
    /\ toAggregator \in {<<>>, <<"IDLE">>} \* lost if not yet discovered
    /\ supervisorState = "IDLE"
    /\ cellReady = FALSE
    /\ admitted = FALSE

\* A full KEEP_LAST queue drops its oldest message.
Send(queue, m) == Append(IF Len(queue) < Depth THEN queue ELSE Tail(queue), m)

-----------------------------------------------------------------------------
(* Heartbeats of the devices and of the safety status. *)

OnDeviceState(d) ==
    /\ report' \in {[report EXCEPT ![d] = r] : r \in Reports}
    /\ fresh' = [fresh EXCEPT ![d] = TRUE]
    /\ UNCHANGED <<safetyReport, safetyFresh, supervisorSeen, toSupervisor,
                   toAggregator, supervisor>>

GoStale(d) ==
    /\ fresh' = [fresh EXCEPT ![d] = FALSE]
    /\ UNCHANGED <<report, safetyReport, safetyFresh, supervisorSeen,
                   toSupervisor, toAggregator, supervisor>>

OnSafetyState ==
    /\ safetyReport' \in BOOLEAN
    /\ safetyFresh' = TRUE
    /\ UNCHANGED <<report, fresh, supervisorSeen, toSupervisor, toAggregator,
                   supervisor>>

SafetyGoesStale ==
    /\ safetyFresh' = FALSE
    /\ UNCHANGED <<report, fresh, safetyReport, supervisorSeen, toSupervisor,
                   toAggregator, supervisor>>

-----------------------------------------------------------------------------
(* The aggregator. *)

EffectiveHealthy == safetyReport /\ safetyFresh

\* Mutant: a device that is heard counts as ready.
AllRequiredHeard == Required # {} /\ \A d \in Required : fresh[d]
AllRequiredReady ==
    Required # {} /\ \A d \in Required : report[d] = "ready" /\ fresh[d]

AnyRequiredStale == Required = {} \/ \E d \in Required : ~fresh[d]
AnyFaulted == \E d \in Devices : report[d] = "faulted"
\* Mutant: a busy report counts for ever.
AnyBusyAgeless == \E d \in Devices : report[d] = "busy"
AnyBusy == \E d \in Devices : report[d] = "busy" /\ fresh[d]

\* compute_top_level_cell_state
DeviceCellState ==
    CASE AnyFaulted -> "RECOVERABLE_FAULT"
      [] ~AnyFaulted /\ AnyRequiredStale -> "STARTING"
      [] ~AnyFaulted /\ ~AnyRequiredStale /\ AllRequiredReady /\ EffectiveHealthy ->
            IF AnyBusy THEN "RUNNING" ELSE "READY"
      [] OTHER -> "STARTING"

\* Mutant: a fault of the supervisor does not override the devices.
ExecutionStatesWithoutFault == {"RUNNING"}
ExecutionStates == {"RUNNING", "RECOVERABLE_FAULT"}

CellState ==
    IF supervisorSeen \in ExecutionStates THEN supervisorSeen ELSE DeviceCellState

PublishCellState ==
    /\ toSupervisor' = Send(toSupervisor, [state |-> CellState,
                                           safety |-> EffectiveHealthy,
                                           devices |-> AllRequiredReady])
    /\ UNCHANGED <<inputs, supervisorSeen, toAggregator, supervisor>>

OnSupervisorState ==
    /\ toAggregator # <<>>
    /\ supervisorSeen' = Head(toAggregator)
    /\ toAggregator' = Tail(toAggregator)
    /\ UNCHANGED <<inputs, toSupervisor, supervisor>>

-----------------------------------------------------------------------------
(* The supervisor. *)

Admissible(m) == m.state = "READY" /\ m.safety /\ m.devices

OnCellState ==
    /\ toSupervisor # <<>>
    /\ cellReady' = Admissible(Head(toSupervisor))
    /\ toSupervisor' = Tail(toSupervisor)
    /\ UNCHANGED <<inputs, supervisorSeen, toAggregator, supervisorState, admitted>>

\* Every way into or out of a job publishes the state it leads to.
TransitionState(s) ==
    /\ supervisorState' = s
    /\ toAggregator' = Send(toAggregator, s)
    /\ admitted' = FALSE
    /\ UNCHANGED <<inputs, supervisorSeen, toSupervisor, cellReady>>

\* executeGoal reads cell_ready_ once, before the tree is built.
Admit ==
    /\ ~admitted
    /\ supervisorState # "RUNNING"
    /\ cellReady
    /\ admitted' = TRUE
    /\ UNCHANGED <<inputs, supervisorSeen, toSupervisor, toAggregator,
                   supervisorState, cellReady>>

\* The frozen recipe or task does not match its digest, or the tree is invalid.
RejectJob ==
    /\ admitted
    /\ admitted' = FALSE
    /\ UNCHANGED <<inputs, supervisorSeen, toSupervisor, toAggregator,
                   supervisorState, cellReady>>

StartJob == admitted /\ TransitionState("RUNNING")

\* Success and cancellation end in IDLE, every failure in RECOVERABLE_FAULT.
EndJob ==
    /\ supervisorState = "RUNNING"
    /\ TransitionState("IDLE") \/ TransitionState("RECOVERABLE_FAULT")

-----------------------------------------------------------------------------

Next ==
    \/ \E d \in Devices : OnDeviceState(d) \/ GoStale(d)
    \/ OnSafetyState
    \/ SafetyGoesStale
    \/ PublishCellState
    \/ OnSupervisorState
    \/ OnCellState
    \/ Admit
    \/ RejectJob
    \/ StartJob
    \/ EndJob

Spec == Init /\ [][Next]_vars

\* The aggregator's timer, delivery on the two topics, the worker thread that
\* builds an admitted job and the job deadline that ends a running one;
\* jobs need not arrive and nothing is assumed of devices.
Fairness ==
    /\ WF_vars(PublishCellState)
    /\ WF_vars(OnSupervisorState)
    /\ WF_vars(OnCellState)
    /\ WF_vars(RejectJob \/ StartJob \/ EndJob)

FairSpec == Spec /\ Fairness

-----------------------------------------------------------------------------
(* Properties. *)

\* A required device that is not ready, or no longer heard, closes the cell to
\* jobs, whatever it last reported and whatever is on its way.
LostDeviceClosesCell ==
    \A d \in Required :
        <>[](report[d] # "ready" \/ ~fresh[d]) => <>[]~cellReady

\* A safety status that is unhealthy or no longer heard closes the cell to jobs.
LostSafetyClosesCell == <>[](~safetyReport \/ ~safetyFresh) => <>[]~cellReady

\* The safety status and every required device are heard and good.
Healthy ==
    /\ Required # {}
    /\ safetyReport /\ safetyFresh
    /\ \A d \in Required : report[d] = "ready" /\ fresh[d]

\* No further device has reported a fault, and none is heard to be busy.
Undisturbed ==
    \A d \in Optional : report[d] # "faulted" /\ (report[d] = "busy" => ~fresh[d])

\* A healthy cell whose supervisor rests in IDLE opens to jobs and stays open,
\* also when a further device fell silent while it was busy.
HealthyCellOpens ==
    <>[](Healthy /\ Undisturbed /\ supervisorState = "IDLE") => <>[]cellReady

\* The aggregator has relayed the supervisor's fault and the supervisor knows.
Latched ==
    /\ supervisorState = "RECOVERABLE_FAULT"
    /\ supervisorSeen = "RECOVERABLE_FAULT"
    /\ toAggregator = <<>>
    /\ ~cellReady /\ ~admitted
    /\ \A i \in DOMAIN toSupervisor : ~Admissible(toSupervisor[i])

\* A relayed job fault keeps the cell closed, whatever devices report.
FaultLatches == [][Latched => Latched']_vars

\* "all failure paths transition to deterministic fault codes with declared
\* operator recovery procedures": once everything is healthy again, a faulted
\* cell can serve again.
FaultedCellRecovers == <>[](Healthy /\ Undisturbed) => []<>cellReady
============================================================================
