---------------------------- MODULE BundleAgent ----------------------------
(***************************************************************************)
(* The bundle agent of a cell: install and rollback under the activation   *)
(* lock, prepare-active without it, and the systemd target it drives.      *)
(* Every call that reaches the disk, systemd or the runtime is a step; it  *)
(* may raise, after it took effect too, and the agent may die before it.   *)
(* The agent selects a release with the link `current`; the runtime, when  *)
(* it starts, runs the release that the environment file names.            *)
(***************************************************************************)
CONSTANTS Bundles,
          Compatible, \* bundles whose profile matches the target's facts
          NoBundle

ASSUME CompatibleAssumption == Compatible \subseteq Bundles
ASSUME NoBundleAssumption == NoBundle \notin Bundles

VARIABLES
    releases, \* content of releases/<bundle>
    staging,  \* content of the staging directory of the install in progress
    signed,   \* bundles whose signature verifies with the keys on the target
    link,     \* the release selected by `current`
    env,      \* the bundle runtime.env names
    running,  \* the bundle the runtime serves
    state,    \* agent-state.json
    journal,  \* active bundle of the last deployment event
    op,       \* the locked operation in progress
    guard,    \* the release a manual prepare-active has read from the link
    overtaken,\* since the unit last came up, a prepare-active wrote another release
               \* than the one selected or being brought up
    result    \* how the last operation ended

disk == <<releases, staging>>
agentVars == <<disk, signed, link, env, running, state, journal, op, guard, overtaken, result>>

MaybeBundle == Bundles \cup {NoBundle}
AgentIdle == [phase |-> "idle", step |-> "none", cand |-> NoBundle, prev |-> NoBundle, bad |-> FALSE]

\* Ways up to a serving release: an install, the undoing of a failed one, a
\* rollback, and the restoring of the active release after a failed rollback.
Phases == {"install", "undo", "rollback", "restore"}
Steps == {"copy", "rename", "select", "environment", "stop", "clear", "link", "start",
          "health", "record", "state"}
Settled == {"activated", "rolled-back", "activation.rolled_back", "rollback.failed"}
Results == Settled \cup {"none", "busy", "error", "nothing_restored", "died", "booted"}

AgentTypeOK ==
    /\ releases \in [Bundles -> {"absent", "intact", "altered"}]
    /\ staging \in {"absent", "intact", "altered"}
    /\ signed \in SUBSET Bundles
    /\ link \in MaybeBundle
    /\ env \in MaybeBundle
    /\ running \in MaybeBundle
    /\ state \in [active : MaybeBundle, previous : MaybeBundle,
                  result : {"none", "activated", "rolled-back", "rollback-failed"}]
    /\ journal \in MaybeBundle
    /\ op \in [phase : {"idle"} \cup Phases, step : {"none"} \cup Steps,
               cand : MaybeBundle, prev : MaybeBundle, bad : BOOLEAN]
    /\ guard \in MaybeBundle
    /\ overtaken \in BOOLEAN
    /\ result \in Results

AgentInit ==
    /\ releases = [b \in Bundles |-> "absent"]
    /\ staging = "absent"
    /\ signed = Bundles
    /\ link = NoBundle
    /\ env = NoBundle
    /\ running = NoBundle
    /\ state = [active |-> NoBundle, previous |-> NoBundle, result |-> "none"]
    /\ journal = NoBundle
    /\ op = AgentIdle
    /\ guard = NoBundle
    /\ overtaken = FALSE
    /\ result = "none"

-----------------------------------------------------------------------------
(* Verification. *)

\* Mutant: any directory of the right name will do.
VerifyPresence(content) == content # "absent"

\* Layout, checksums and inventory of a bundle directory bind its content to its ID.
VerifyContent(content) == content = "intact"

VerifySignature(b) == b \in signed

VerifiedRelease(b) == b # NoBundle /\ VerifyContent(releases[b]) /\ VerifySignature(b)

PreflightTarget(b) == b \in Compatible

-----------------------------------------------------------------------------
(* How an operation goes on after a step, and after one that raised. *)

\* The release the current phase is bringing up.
Aim == IF op.phase \in {"install", "rollback"} THEN op.cand ELSE op.prev

\* The step after s; an install projects the environment before it stops the
\* running unit, every other phase after.
After(s) ==
    CASE s = "copy" -> "rename"
      [] s = "rename" -> "select"
      [] s = "select" -> "environment"
      [] s = "environment" -> IF op.phase = "install" THEN "stop" ELSE "link"
      [] s = "stop" /\ op.phase = "install" -> "link"
      [] s = "stop" /\ op.phase # "install" -> IF Aim = NoBundle THEN "clear" ELSE "environment"
      [] s = "link" -> "start"
      [] s = "start" -> "health"
      [] s \in {"health", "clear"} -> "record"
      [] OTHER -> "state"

Goto(s) == op' = [op EXCEPT !.step = s] /\ UNCHANGED result
Enter(phase) == op' = [op EXCEPT !.phase = phase, !.step = "stop"] /\ UNCHANGED result
End(r) == op' = AgentIdle /\ result' = r

\* A restore leaves nothing to record.  Without an active release nothing is
\* restored, although the same agent.rollback.failed is raised.
Proceed ==
    CASE op.phase = "restore" /\ op.step = "stop" /\ op.prev = NoBundle -> End("nothing_restored")
      [] op.phase = "restore" /\ op.step = "health" -> End("rollback.failed")
      [] OTHER -> Goto(After(op.step))

Raise ==
    CASE op.phase = "install" /\ op.step \in {"copy", "rename", "select", "environment", "stop"} ->
             End("error")
      [] op.phase = "install" /\ op.step \in {"link", "start", "health", "record", "state"} ->
             Enter("undo")
      [] op.phase \in {"undo", "restore"} /\ op.step = "stop" -> Proceed
      [] op.phase = "undo" /\ op.step \in {"environment", "link", "start", "health"} ->
             op' = [op EXCEPT !.step = "record", !.bad = TRUE] /\ UNCHANGED result
      [] op.phase = "rollback" /\ op.step \in {"environment", "link", "start", "health"} ->
             Enter("restore")
      [] OTHER -> End("error")

At(s) == op.phase # "idle" /\ op.step = s

-----------------------------------------------------------------------------
(* Operations under the lock. *)

\* install: the source verifies and suits the target; a release that is there
\* already is verified instead of copied.
Install(b) ==
    /\ op = AgentIdle
    /\ VerifySignature(b) /\ PreflightTarget(b)
    /\ releases[b] # "absent" => VerifiedRelease(b)
    /\ op' = [phase |-> "install", cand |-> b, prev |-> NoBundle, bad |-> FALSE,
              step |-> IF releases[b] = "absent" THEN "copy" ELSE "select"]
    /\ result' = "busy"
    /\ UNCHANGED <<disk, signed, link, env, running, state, journal, guard, overtaken>>

\* The source may change under the copy, or the disk fail.
CopyToStaging ==
    /\ At("copy")
    /\ \/ staging' \in {"intact", "altered"} /\ Proceed
       \/ staging' = "absent" /\ Raise
    /\ UNCHANGED <<releases, signed, link, env, running, state, journal, guard, overtaken>>

\* Only a staged copy that verifies is renamed into place.
RenameRelease ==
    /\ At("rename")
    /\ \/ /\ VerifyContent(staging) /\ VerifySignature(op.cand)
          /\ releases' = [releases EXCEPT ![op.cand] = staging]
          /\ Proceed \/ Raise
       \/ Raise /\ UNCHANGED releases
    /\ staging' = "absent"
    /\ UNCHANGED <<signed, link, env, running, state, journal, guard, overtaken>>

\* Candidate and previous release are read and verified before anything stops.
ReadPrevious ==
    /\ At("select")
    /\ IF VerifiedRelease(op.cand) /\ (link # NoBundle => VerifiedRelease(link))
       THEN op' = [op EXCEPT !.step = "environment", !.prev = link] /\ UNCHANGED result
       ELSE Raise
    /\ UNCHANGED <<disk, signed, link, env, running, state, journal, guard, overtaken>>

\* rollback: the candidate is the state file's previous bundle.
Rollback ==
    /\ op = AgentIdle
    /\ state.previous \notin {NoBundle, link}
    /\ VerifiedRelease(state.previous) /\ PreflightTarget(state.previous)
    /\ link # NoBundle => VerifiedRelease(link)
    /\ op' = [phase |-> "rollback", step |-> "stop", cand |-> state.previous, prev |-> link,
              bad |-> FALSE]
    /\ result' = "busy"
    /\ UNCHANGED <<disk, signed, link, env, running, state, journal, guard, overtaken>>

StopUnit ==
    /\ At("stop")
    /\ \/ running' = NoBundle /\ Proceed
       \/ running' \in {running, NoBundle} /\ Raise
    /\ UNCHANGED <<disk, signed, link, env, state, journal, guard, overtaken>>

\* A secret may be missing or the disk full.
PrepareEnvironment ==
    /\ At("environment")
    /\ \/ env' = Aim /\ (Proceed \/ Raise)
       \/ Raise /\ UNCHANGED env
    /\ UNCHANGED <<disk, signed, link, running, state, journal, guard, overtaken>>

\* A failed first install leaves no release selected.
ClearActive ==
    /\ At("clear")
    /\ \/ link' = NoBundle /\ env' = NoBundle /\ Proceed
       \/ link' \in {link, NoBundle} /\ Raise /\ UNCHANGED env
    /\ UNCHANGED <<disk, signed, running, state, journal, guard, overtaken>>

ActivateLink ==
    /\ At("link")
    /\ \/ link' = Aim /\ (Proceed \/ Raise)
       \/ Raise /\ UNCHANGED link
    /\ UNCHANGED <<disk, signed, env, running, state, journal, guard, overtaken>>

\* systemd runs prepare-active of the selected release, then the runtime. A
\* target that never stopped is left as it is.
Boot ==
    IF running = NoBundle /\ VerifiedRelease(link) /\ PreflightTarget(link)
    THEN env' = link /\ overtaken' = FALSE /\ running' = link
    ELSE UNCHANGED <<env, overtaken, running>>

StartUnit ==
    /\ At("start")
    /\ \/ Boot /\ running' # NoBundle /\ Proceed
       \/ Boot /\ Raise
       \/ Raise /\ UNCHANGED <<env, overtaken, running>>
    /\ UNCHANGED <<disk, signed, link, state, journal, guard>>

\* Mutant: any runtime that answers is healthy.
WaitAnyHealthy ==
    /\ At("health")
    /\ \/ running # NoBundle /\ Proceed
       \/ Raise
    /\ UNCHANGED <<disk, signed, link, env, running, state, journal, guard, overtaken>>

\* Only an answer with the identity of the release that was started counts.
WaitHealthy ==
    /\ At("health")
    /\ \/ running = Aim /\ Proceed
       \/ Raise
    /\ UNCHANGED <<disk, signed, link, env, running, state, journal, guard, overtaken>>

RecordEvent ==
    /\ At("record")
    /\ \/ journal' = Aim /\ (Proceed \/ Raise)
       \/ Raise /\ UNCHANGED journal
    /\ UNCHANGED <<disk, signed, link, env, running, state, guard, overtaken>>

\* The previously active bundle of the file becomes the rollback candidate.
NewState(r) == [active |-> Aim, previous |-> state.active, result |-> r]

WriteState ==
    /\ At("state")
    /\ LET r == CASE op.phase = "install" -> "activated"
                  [] op.bad -> "rollback-failed"
                  [] OTHER -> "rolled-back"
       IN \/ /\ state' = NewState(r)
             /\ \/ End(CASE op.phase = "install" -> "activated"
                         [] op.phase = "undo" -> "activation.rolled_back"
                         [] OTHER -> "rolled-back")
                \/ Raise
          \/ Raise /\ UNCHANGED state
    /\ UNCHANGED <<disk, signed, link, env, running, journal, guard, overtaken>>

-----------------------------------------------------------------------------
(* What happens beside the lock. *)

\* prepare-active at the command line: the link is read and its release verified ...
GuardReads ==
    /\ guard = NoBundle
    /\ VerifiedRelease(link) /\ PreflightTarget(link)
    /\ guard' = link
    /\ UNCHANGED <<disk, signed, link, env, running, state, journal, op, overtaken, result>>

\* ... and then the environment is projected.
GuardWrites ==
    /\ guard # NoBundle
    /\ guard' = NoBundle
    /\ \/ env' = guard /\ overtaken' = (overtaken \/ guard # IF op = AgentIdle THEN link ELSE Aim)
       \/ UNCHANGED <<env, overtaken>>
    /\ UNCHANGED <<disk, signed, link, running, state, journal, op, result>>

\* systemd restarts a runtime that failed, without the guard.
RuntimeRestarts ==
    /\ running # NoBundle
    /\ running' = env
    /\ UNCHANGED <<disk, signed, link, env, state, journal, op, guard, overtaken, result>>

\* A signing key is withdrawn from the target.
RevokeKey(b) ==
    /\ signed' = signed \ {b}
    /\ UNCHANGED <<disk, link, env, running, state, journal, op, guard, overtaken, result>>

\* The agent is killed; a staging directory it leaves is never looked at again.
Die ==
    /\ op # AgentIdle
    /\ End("died")
    /\ staging' = "absent"
    /\ UNCHANGED <<releases, signed, link, env, running, state, journal, guard, overtaken>>

\* The cell loses power and comes up again: the target's guard, then the runtime.
Reboot ==
    /\ op' = AgentIdle
    /\ staging' = "absent"
    /\ guard' = NoBundle
    /\ IF VerifiedRelease(link) /\ PreflightTarget(link)
       THEN /\ env' = link /\ running' = link /\ overtaken' = FALSE
            /\ result' = "booted"
       ELSE /\ running' = NoBundle /\ UNCHANGED <<env, overtaken>>
            /\ result' = "died"
    /\ UNCHANGED <<releases, signed, link, state, journal>>

Locked ==
    \/ CopyToStaging \/ RenameRelease \/ ReadPrevious \/ StopUnit \/ PrepareEnvironment
    \/ ClearActive \/ ActivateLink \/ StartUnit \/ WaitHealthy \/ RecordEvent \/ WriteState

AgentNext ==
    \/ \E b \in Bundles : Install(b) \/ RevokeKey(b)
    \/ Rollback
    \/ Locked
    \/ GuardReads \/ GuardWrites
    \/ RuntimeRestarts
    \/ Die
    \/ Reboot

AgentSpec == AgentInit /\ [][AgentNext]_agentVars

-----------------------------------------------------------------------------
(* Properties. *)

\* Only verified content is ever selected, served or offered for rollback, in
\* spite of sources that change while they are copied.
SelectedIsIntact ==
    \A b \in {link, env, running, state.previous, guard} \ {NoBundle} : releases[b] = "intact"

\* The restoring of the old release failed, and the state file says so.
Confessed == result = "activation.rolled_back" /\ state.result = "rollback-failed"

\* What an operation reports is what the cell does: after an activation, a
\* rollback, a failed attempt at either, and a reboot (wherever a crash left the
\* agent), link, environment and runtime agree, unless a prepare-active was
\* overtaken by the operation.  (If the unit of a failed first install cannot
\* be stopped, no release is selected and the candidate runs on.)
ReportedIsReal ==
    /\ op = AgentIdle
    /\ result \in Settled \cup {"booted"}
    /\ ~Confessed
    /\ ~overtaken
    => (link # NoBundle => env = link /\ running = link)

\* State file and journal name the release that is selected after every
\* operation that recorded anything, whatever was written before.
RecordedIsSelected ==
    op = AgentIdle /\ result \in {"activated", "rolled-back", "activation.rolled_back"} /\ ~Confessed
    => state.active = link /\ journal = link

\* The invariant behind SelectedIsIntact: what may become the selected, served or
\* previous release is intact before it does.
Intact ==
    /\ \A b \in {link, env, running, guard, state.active, state.previous, op.prev} \ {NoBundle} :
          releases[b] = "intact"
    /\ \/ op.phase \in {"rollback", "restore"}
       \/ op.phase = "install" /\ op.step \notin {"copy", "rename", "select"}
       => op.cand # NoBundle /\ releases[op.cand] = "intact"

\* The environment of the release the phase aims at has been written.
Projected == /\ op.phase # "idle"
             /\ \/ op.step \in {"link", "start", "health", "record", "state"}
                \/ op.phase = "install" /\ op.step = "stop"

\* The invariant behind ReportedIsReal and RecordedIsSelected: how far link,
\* environment, runtime and journal have come towards the release aimed at.
Aimed ==
    /\ op.phase = "idle" => op = AgentIdle
    /\ op.step = "clear" => op.phase = "undo" /\ op.prev = NoBundle
    /\ op.bad => op.phase = "undo" /\ op.step \in {"record", "state"}
    /\ ~op.bad /\ op.step \in {"start", "health", "record", "state"} => link = Aim
    /\ ~op.bad /\ ~overtaken /\ Aim # NoBundle =>
          /\ Projected => env = Aim
          /\ op.step \in {"record", "state"} => running = Aim
    /\ op.step = "state" => journal = Aim

\* Everything an operation writes down is inductive only together.
AgentIInv == AgentTypeOK /\ Intact /\ Aimed /\ ReportedIsReal /\ RecordedIsSelected

\* Production cells retain the previous known-good bundle (docs/deployment.md
\* section 6): no write of the state file loses the rollback candidate.
PreviousRetained ==
    [][state.previous \notin {NoBundle, state.active}
       => state'.previous \notin {NoBundle, state'.active}]_agentVars
============================================================================
