---------------------------- MODULE JobGateway ----------------------------
(***************************************************************************)
(* The public RunJob action of cellforge_job_gateway: the coroutine that   *)
(* JobGatewayNode runs for every accepted goal, the durable SqliteJobStore *)
(* it shares with the other goals, and the crash and restart of the        *)
(* process.  A step of a goal is the code between two awaits; the store's  *)
(* transactions are single steps because SqliteJobStore holds its lock.    *)
(*                                                                         *)
(* The supervisor's action server is the environment: it answers or dies.  *)
(***************************************************************************)
EXTENDS Naturals

CONSTANTS Goals,        \* public RunJob goals, each sent once by a client
          Keys,         \* idempotency keys
          Contents,     \* request documents, the idempotency key left out
          Bundles,      \* immutable bundles the process may be started on
          Freezes,      \* {<<b, c>>}: BundleResolver.freeze accepts c in b
          MaxCrashes,   \* bound on crashes of the gateway process
          MaxOutages,   \* bound on crashes of the supervisor process
          StoreFaults,  \* TRUE: an sqlite3 call may raise OperationalError
          None

ASSUME FreezesAssumption == Freezes \subseteq Bundles \X Contents
ASSUME BoundsAssumption ==
    MaxCrashes \in Nat /\ MaxOutages \in Nat /\ StoreFaults \in BOOLEAN

\* The hash of a frozen job covers the request and the bundle identity.
Digests == Bundles \X Contents

SupervisorResults == {"supervisor.job.completed", "supervisor.job.cancelled",
                      "supervisor.job.failed", "supervisor.job.outcome_unknown"}
GatewayResults == {"gateway.job.cancelled", "gateway.supervisor.unavailable",
                   "gateway.supervisor.rejected",
                   "gateway.supervisor.outcome_unknown",
                   "gateway.restart.outcome_unknown"}
Results == SupervisorResults \cup GatewayResults
Refusals == {"gateway.compatibility", "gateway.idempotency.conflict",
             "gateway.idempotency.active", "gateway.store.failure"}
EmptyResult == "" \* what rclpy returns for an execute callback that raised
CancelledCodes == {"supervisor.job.cancelled", "gateway.job.cancelled"}
Successes == {"supervisor.job.completed"}

ASSUME NoneAssumption ==
    /\ None \notin Results \cup Refusals \cup {EmptyResult}
    /\ None \notin Digests
    /\ None \notin Keys
    /\ None \notin Contents

VARIABLES
    rows,      \* the jobs table: key -> digest, status, result
    gateway,   \* the process: "up", "down", "recovering"
    bundle,    \* the manifest the process loaded when it started
    pc,        \* where _execute stands for each goal
    request,   \* key and content of each goal
    handle,    \* rcl_action state of the public goal handle
    result,    \* the local variable `result` of _execute
    reply,     \* what the client of the goal was answered
    cancelSent,\* the local variable cancel_sent of _forward
    overdue,   \* the deadline of the loop the coroutine is in has passed
    remote,    \* the supervisor's side of the goal forwarded for each goal
    answer,    \* the result the supervisor reached for it
    cancelling,\* the supervisor received a cancel request for it
    supervisorUp, crashes, outages

store == <<rows>>
process == <<gateway, bundle, crashes>>
coroutine == <<pc, request, result, cancelSent, overdue>>
public == <<handle, reply>>
supervisor == <<remote, answer, cancelling, supervisorUp, outages>>
vars == <<rows, gateway, bundle, pc, request, handle, result, reply, cancelSent,
          overdue, remote, answer, cancelling, supervisorUp, crashes, outages>>

\* The supervisor's action server: the contract ActionServer states, which the
\* supervisor is shown to implement.
Server == INSTANCE ActionServer WITH
    Codes <- SupervisorResults,
    CancelledCodes <- {"supervisor.job.cancelled"},
    goal <- remote,
    up <- supervisorUp

Row == [digest : Digests \cup {None},
        status : {"ABSENT", "PREPARED", "RUNNING", "TERMINAL", "OUTCOME_UNKNOWN"},
        result : Results \cup {None}]
NoRow == [digest |-> None, status |-> "ABSENT", result |-> None]

Waiting == {"discover", "sent", "running", "cancelWait", "lastCancelWait"}
Labels == {"idle", "queued", "finish", "terminal", "returned", "lost"} \cup Waiting
Live(g) == pc[g] \notin {"idle", "returned", "lost"}

TypeOK ==
    /\ rows \in [Keys -> Row]
    /\ gateway \in {"up", "down", "recovering"}
    /\ bundle \in Bundles
    /\ pc \in [Goals -> Labels]
    /\ request \in [Goals -> [key : Keys \cup {None}, content : Contents \cup {None}]]
    /\ handle \in [Goals -> {"NONE", "EXECUTING", "CANCELING",
                             "SUCCEEDED", "CANCELED", "ABORTED"}]
    /\ result \in [Goals -> Results \cup {None}]
    /\ reply \in [Goals -> Results \cup Refusals \cup {EmptyResult, None}]
    /\ cancelSent \in [Goals -> BOOLEAN]
    /\ overdue \in [Goals -> BOOLEAN]
    /\ remote \in [Goals -> {"none", "sent", "executing", "rejected", "done", "lost"}]
    /\ answer \in [Goals -> SupervisorResults \cup {None}]
    /\ cancelling \in [Goals -> BOOLEAN]
    /\ supervisorUp \in BOOLEAN
    /\ \A g \in Goals : pc[g] # "idle" => request[g] \in [key : Keys, content : Contents]
    /\ crashes \in 0..MaxCrashes
    /\ outages \in 0..MaxOutages

Init ==
    /\ rows = [k \in Keys |-> NoRow]
    /\ gateway = "up"
    /\ bundle \in Bundles
    /\ pc = [g \in Goals |-> "idle"]
    /\ request = [g \in Goals |-> [key |-> None, content |-> None]]
    /\ handle = [g \in Goals |-> "NONE"]
    /\ result = [g \in Goals |-> None]
    /\ reply = [g \in Goals |-> None]
    /\ cancelSent = [g \in Goals |-> FALSE]
    /\ overdue = [g \in Goals |-> FALSE]
    /\ remote = [g \in Goals |-> "none"]
    /\ answer = [g \in Goals |-> None]
    /\ cancelling = [g \in Goals |-> FALSE]
    /\ supervisorUp = TRUE
    /\ crashes = 0
    /\ outages = 0

Key(g) == request[g].key
Goto(g, label) == pc' = [pc EXCEPT ![g] = label]

-----------------------------------------------------------------------------
(* The client and rclpy's action server. *)

\* Every goal is accepted; rclpy moves it to EXECUTING and queues _execute.
Submit(g, k, c) ==
    /\ pc[g] = "idle"
    /\ gateway = "up"
    /\ Goto(g, "queued")
    /\ request' = [request EXCEPT ![g] = [key |-> k, content |-> c]]
    /\ handle' = [handle EXCEPT ![g] = "EXECUTING"]
    /\ UNCHANGED <<rows, process, result, cancelSent, overdue, reply, supervisor>>

\* Every cancel request is accepted: is_cancel_requested holds from here on.
RequestCancel(g) ==
    /\ Live(g)
    /\ handle[g] = "EXECUTING"
    /\ handle' = [handle EXCEPT ![g] = "CANCELING"]
    /\ UNCHANGED <<rows, process, coroutine, reply, supervisor>>

\* The execute callback is over: handle to terminal state h, client gets r.
Return(g, h, r) ==
    /\ Goto(g, "returned")
    /\ handle' = [handle EXCEPT ![g] = h]
    /\ reply' = [reply EXCEPT ![g] = r]

\* An exception that leaves _execute: rclpy aborts with an empty result.
Raise(g) == Return(g, "ABORTED", EmptyResult)

-----------------------------------------------------------------------------
(* _execute: freeze, prepare, and the three decisions of the store. *)

Frozen(g) == <<bundle, request[g].content>>
\* Mutant: a known key matches whatever request comes with it.
MatchesByKey(g) == rows[Key(g)].digest # None
Matches(g) == rows[Key(g)].digest = Frozen(g)

Refuse(g, code) ==
    /\ Return(g, "ABORTED", code)
    /\ UNCHANGED <<rows, result>>

PrepareNew(g) ==
    /\ rows[Key(g)].digest = None
    /\ rows' = [rows EXCEPT ![Key(g)] =
                   [digest |-> Frozen(g), status |-> "PREPARED", result |-> None]]
    /\ Goto(g, "discover")
    /\ UNCHANGED <<handle, reply, result>>

PrepareReplay(g) ==
    /\ Matches(g)
    /\ rows[Key(g)].result # None
    /\ result' = [result EXCEPT ![g] = rows[Key(g)].result]
    /\ Goto(g, "terminal")
    /\ UNCHANGED <<rows, handle, reply>>

\* Mutant: a retry of an unfinished job takes it over.
PrepareTakeOver(g) ==
    \/ /\ ~Matches(g)
       /\ rows[Key(g)].digest # None
       /\ Refuse(g, "gateway.idempotency.conflict")
    \/ /\ Matches(g)
       /\ rows[Key(g)].result = None
       /\ Goto(g, "discover")
       /\ UNCHANGED <<rows, handle, reply, result>>
PrepareRefuse(g) ==
    \/ /\ ~Matches(g)
       /\ rows[Key(g)].digest # None
       /\ Refuse(g, "gateway.idempotency.conflict")
    \/ /\ Matches(g)
       /\ rows[Key(g)].result = None
       /\ Refuse(g, "gateway.idempotency.active")

Prepare(g) ==
    /\ pc[g] = "queued"
    /\ IF Frozen(g) \in Freezes
       THEN PrepareNew(g) \/ PrepareReplay(g) \/ PrepareRefuse(g)
       ELSE Refuse(g, "gateway.compatibility")
    /\ UNCHANGED <<process, request, cancelSent, overdue, supervisor>>

\* sqlite3 raises inside prepare (rolled back), mark_running or finish.
StoreRaises(g) ==
    /\ StoreFaults
    /\ \/ pc[g] = "queued" /\ Frozen(g) \in Freezes
       \/ pc[g] = "sent" /\ remote[g] \in {"executing", "done"}
       \/ pc[g] = "finish"
    /\ Raise(g)
    /\ UNCHANGED <<rows, process, request, result, cancelSent, overdue, supervisor>>

-----------------------------------------------------------------------------
(* _forward: discovery, submission, and the loop up to the job deadline. *)

\* Mutant: the result is published without being stored.
ForwardedUnsaved(g, r) ==
    /\ result' = [result EXCEPT ![g] = r]
    /\ Goto(g, "terminal")
    /\ UNCHANGED <<rows, process, request, cancelSent, overdue, public>>
\* _forward returns r to _execute.
Forwarded(g, r) ==
    /\ result' = [result EXCEPT ![g] = r]
    /\ Goto(g, "finish")
    /\ UNCHANGED <<rows, process, request, cancelSent, overdue, public>>

\* The supervisor is looked for first, so a pending cancel does not stop it.
SendGoal(g) ==
    /\ pc[g] = "discover"
    /\ Goto(g, "sent")
    /\ Server!Submit(g)
    /\ UNCHANGED <<rows, process, request, result, cancelSent, overdue, public, outages>>

GiveUpDiscovery(g) ==
    /\ pc[g] = "discover"
    /\ ~supervisorUp
    /\ IF handle[g] = "CANCELING"
       THEN Forwarded(g, "gateway.job.cancelled")
       ELSE overdue[g] /\ Forwarded(g, "gateway.supervisor.unavailable")
    /\ UNCHANGED supervisor

SeeRejected(g) ==
    /\ pc[g] = "sent"
    /\ remote[g] = "rejected"
    /\ Forwarded(g, "gateway.supervisor.rejected")
    /\ UNCHANGED supervisor

\* mark_running, get_result_async, and the job deadline starts here.
SeeAccepted(g) ==
    /\ pc[g] = "sent"
    /\ remote[g] \in {"executing", "done"}
    /\ rows' = [rows EXCEPT ![Key(g)].status = "RUNNING"]
    /\ overdue' = [overdue EXCEPT ![g] = FALSE]
    /\ Goto(g, "running")
    /\ UNCHANGED <<process, request, result, cancelSent, public, supervisor>>

SeeResult(g) ==
    /\ pc[g] = "running"
    /\ remote[g] = "done"
    /\ Forwarded(g, answer[g])
    /\ UNCHANGED supervisor

WantsCancel(g) == handle[g] = "CANCELING" /\ ~cancelSent[g]

\* cancel_goal_async reaches a supervisor that is still running the goal.
SendCancel(g) ==
    cancelling' = [cancelling EXCEPT ![g] = @ \/ remote[g] = "executing"]

ForwardCancel(g) ==
    /\ pc[g] = "running"
    /\ remote[g] # "done"
    /\ WantsCancel(g)
    /\ SendCancel(g)
    /\ Goto(g, "cancelWait")
    /\ UNCHANGED <<rows, process, request, result, cancelSent, overdue, public,
                   remote, answer, supervisorUp, outages>>

\* The deadline is tested in the same turn of the loop, done or not.
CancelAnswered(g) ==
    /\ pc[g] = "cancelWait"
    /\ remote[g] # "lost"
    /\ cancelSent' = [cancelSent EXCEPT ![g] = TRUE]
    /\ IF overdue[g] THEN SendCancel(g) /\ Goto(g, "lastCancelWait")
                     ELSE UNCHANGED cancelling /\ Goto(g, "running")
    /\ UNCHANGED <<rows, process, request, result, overdue, public,
                   remote, answer, supervisorUp, outages>>

\* Mutant: the deadline is only tested once a cancel was forwarded.
DeadlineAfterCancel(g) ==
    /\ pc[g] = "running"
    /\ remote[g] # "done"
    /\ cancelSent[g]
    /\ overdue[g]
    /\ SendCancel(g)
    /\ Goto(g, "lastCancelWait")
    /\ UNCHANGED <<rows, process, request, result, cancelSent, overdue, public,
                   remote, answer, supervisorUp, outages>>
DeadlinePassed(g) ==
    /\ pc[g] = "running"
    /\ remote[g] # "done"
    /\ ~WantsCancel(g)
    /\ overdue[g]
    /\ SendCancel(g)
    /\ Goto(g, "lastCancelWait")
    /\ UNCHANGED <<rows, process, request, result, cancelSent, overdue, public,
                   remote, answer, supervisorUp, outages>>

LastCancelAnswered(g) ==
    /\ pc[g] = "lastCancelWait"
    /\ remote[g] # "lost"
    /\ Forwarded(g, "gateway.supervisor.outcome_unknown")
    /\ UNCHANGED supervisor

\* The steady clock passes the deadline of the loop the coroutine is in.
Expire(g) ==
    /\ pc[g] \in {"discover", "running", "cancelWait"}
    /\ ~overdue[g]
    /\ overdue' = [overdue EXCEPT ![g] = TRUE]
    /\ UNCHANGED <<rows, process, pc, request, result, cancelSent, public, supervisor>>

-----------------------------------------------------------------------------
(* _execute after _forward: store.finish, then the public terminal state. *)

Finish(g) ==
    /\ pc[g] = "finish"
    /\ IF rows[Key(g)].result = None
       THEN /\ rows' = [rows EXCEPT ![Key(g)].status = "TERMINAL",
                                    ![Key(g)].result = result[g]]
            /\ Goto(g, "terminal")
            /\ UNCHANGED public
       ELSE /\ Return(g, "ABORTED", "gateway.store.failure")
            /\ UNCHANGED rows
    /\ UNCHANGED <<process, request, result, cancelSent, overdue, supervisor>>

\* _set_terminal_state: canceled() raises unless the handle is CANCELING.
SetTerminalState(g) ==
    /\ pc[g] = "terminal"
    /\ IF result[g] \in CancelledCodes
       THEN IF handle[g] = "CANCELING" THEN Return(g, "CANCELED", result[g])
                                       ELSE Raise(g)
       ELSE IF result[g] \in Successes THEN Return(g, "SUCCEEDED", result[g])
                                       ELSE Return(g, "ABORTED", result[g])
    /\ UNCHANGED <<rows, process, request, result, cancelSent, overdue, supervisor>>

-----------------------------------------------------------------------------
(* The gateway process dies and is started again, on any bundle. *)

Crash ==
    /\ gateway # "down"
    /\ crashes < MaxCrashes
    /\ gateway' = "down"
    /\ crashes' = crashes + 1
    /\ pc' = [g \in Goals |-> IF Live(g) THEN "lost" ELSE pc[g]]
    /\ UNCHANGED <<rows, bundle, request, result, cancelSent, overdue, public, supervisor>>

Restart(b) ==
    /\ gateway = "down"
    /\ gateway' = "recovering"
    /\ bundle' = b
    /\ UNCHANGED <<rows, crashes, coroutine, public, supervisor>>

Nonterminal(k) == rows[k].status \in {"PREPARED", "RUNNING"} /\ rows[k].result = None

\* Mutant: unfinished rows are deleted at restart.
ReconcileForgets(k) ==
    /\ gateway = "recovering"
    /\ Nonterminal(k)
    /\ rows' = [rows EXCEPT ![k] = NoRow]
    /\ UNCHANGED <<process, coroutine, public, supervisor>>
\* _reconcile_restart commits row by row.
Reconcile(k) ==
    /\ gateway = "recovering"
    /\ Nonterminal(k)
    /\ rows' = [rows EXCEPT ![k].status = "OUTCOME_UNKNOWN",
                            ![k].result = "gateway.restart.outcome_unknown"]
    /\ UNCHANGED <<process, coroutine, public, supervisor>>

Serve ==
    /\ gateway = "recovering"
    /\ \A k \in Keys : ~Nonterminal(k)
    /\ gateway' = "up"
    /\ UNCHANGED <<rows, bundle, crashes, coroutine, public, supervisor>>

-----------------------------------------------------------------------------
(* The supervisor's action server, as the gateway sees it. *)

RemoteStep(g) ==
    /\ \/ Server!Accept(g)
       \/ Server!Reject(g)
       \/ \E r \in SupervisorResults : Server!Finish(g, r)
    /\ UNCHANGED <<rows, process, coroutine, public, outages>>

RemoteCrash ==
    /\ outages < MaxOutages
    /\ outages' = outages + 1
    /\ Server!Crash
    /\ UNCHANGED <<rows, process, coroutine, public>>

RemoteRestart ==
    /\ Server!Restart
    /\ UNCHANGED <<rows, process, coroutine, public, outages>>

-----------------------------------------------------------------------------

Execute(g) ==
    \/ Prepare(g) \/ SendGoal(g) \/ GiveUpDiscovery(g)
    \/ SeeRejected(g) \/ SeeAccepted(g) \/ SeeResult(g)
    \/ ForwardCancel(g) \/ CancelAnswered(g)
    \/ DeadlinePassed(g) \/ LastCancelAnswered(g)
    \/ Finish(g) \/ SetTerminalState(g)

Next ==
    \/ \E g \in Goals :
          \/ \E k \in Keys, c \in Contents : Submit(g, k, c)
          \/ RequestCancel(g)
          \/ Execute(g)
          \/ StoreRaises(g)
          \/ Expire(g)
          \/ RemoteStep(g)
    \/ Crash
    \/ \E b \in Bundles : Restart(b)
    \/ \E k \in Keys : Reconcile(k)
    \/ Serve
    \/ RemoteCrash
    \/ RemoteRestart

Spec == Init /\ [][Next]_vars

(* The executor runs every ready coroutine, clocks advance, and a living   *)
(* supervisor answers goal requests; how long a job runs is not bounded.   *)
Fairness ==
    \A g \in Goals :
        /\ WF_vars(Execute(g))
        /\ WF_vars(Expire(g))
        /\ WF_vars(RemoteStep(g) /\ remote[g] = "sent")

FairSpec == Spec /\ Fairness

-----------------------------------------------------------------------------
(* Properties. *)

\* An idempotency key reaches the supervisor at most once, whatever retries,
\* cancels, crashes and restarts happen (core.py prepare, node.py _forward).
DispatchedOnce ==
    \A g, h \in Goals :
        remote[g] # "none" /\ remote[h] # "none" /\ Key(g) = Key(h) => g = h

\* Retries of one key are answered with one outcome: a client that is told an
\* outcome is told the one the store holds, and it was stored first.
RepliesAreDurable ==
    \A g \in Goals : reply[g] \in Results => reply[g] = rows[Key(g)].result

\* A reply of success implies that the supervisor completed a job frozen from
\* exactly this request against the bundle recorded for the key.
SuccessIsEarned ==
    \A g \in Goals :
        handle[g] = "SUCCEEDED" =>
            \E h \in Goals : /\ answer[h] = "supervisor.job.completed"
                             /\ request[h] = request[g]
                             /\ rows[Key(g)].digest[2] = request[g].content

\* The request a key is bound to and its outcome are written once; after a
\* restart the job is never run again under a different outcome.
OutcomeWriteOnce ==
    [][\A k \in Keys :
          /\ rows[k].digest # None => rows'[k].digest = rows[k].digest
          /\ rows[k].result # None => rows'[k] = rows[k]]_vars

\* Every goal a client submits is answered or dies with the process, even if
\* the supervisor never finishes the job: the job deadline bounds the wait.  A
\* supervisor that dies voids it: the awaits of its answers have no deadline.
GoalsReturn ==
    \A g \in Goals : pc[g] = "queued" ~> pc[g] \in {"returned", "lost"} \/ outages > 0

\* "Matching completed retries replay the durable result": whoever is handed
\* the stored result of a matching job is answered with that result.
MatchingRetriesReplay ==
    \A g \in Goals : pc[g] = "returned" /\ result[g] # None => reply[g] = result[g]

\* A goal whose coroutine still has to record the outcome of its key.
Owner(g) == pc[g] \in Waiting \cup {"finish"}
\* A goal that has, had, or may yet have a job at the supervisor.
Claim(g) == Owner(g) \/ remote[g] # "none"

\* One goal at most claims a key, and only after binding it in the store.
Claims ==
    /\ \A g \in Goals : remote[g] # "none" => pc[g] \notin {"idle", "queued", "discover"}
    /\ \A g \in Goals : Claim(g) => rows[Key(g)].digest # None
    /\ \A g, h \in Goals : Claim(g) /\ Claim(h) /\ Key(g) = Key(h) => g = h

\* A key stays open exactly as long as its owner lives; nobody owns a key
\* while the process is down or recovering.
Open ==
    /\ gateway # "up" => \A g \in Goals : ~Live(g)
    /\ \A g \in Goals : Owner(g) => rows[Key(g)].result = None
    /\ \A k \in Keys : rows[k].digest = None => rows[k] = NoRow

\* What the coroutine carries to the store and from the store to the client.
Carried ==
    /\ \A g \in Goals : remote[g] = "done" => answer[g] # None
    /\ \A g \in Goals : pc[g] = "finish" =>
          result[g] # None /\ (result[g] \in Successes => remote[g] # "none")
    /\ \A g \in Goals : pc[g] = "terminal" =>
          result[g] # None /\ result[g] = rows[Key(g)].result
    /\ \A g \in Goals : reply[g] # None => pc[g] = "returned"

\* The inductive invariant behind DispatchedOnce, RepliesAreDurable,
\* OutcomeWriteOnce and ImplementsService (_execute, prepare, finish).
IInv == TypeOK /\ Claims /\ Open /\ Carried /\ RepliesAreDurable

\* The goals that stand for the request their key is bound to.
Bears(g) == Claim(g) \/ pc[g] = "terminal" \/ handle[g] = "SUCCEEDED"

\* The invariant behind SuccessIsEarned: a success on its way to the store is
\* the supervisor's answer, a success in the store is that of a goal of the key,
\* and whoever is answered from a row has asked for what the row is bound to.
Earned ==
    /\ \A g \in Goals : answer[g] # None => remote[g] \in {"done", "lost"}
    /\ \A g \in Goals : Bears(g) => /\ rows[Key(g)].digest # None
                                   /\ rows[Key(g)].digest[2] = request[g].content
    /\ \A g \in Goals : pc[g] = "finish" /\ result[g] \in Successes =>
          answer[g] = "supervisor.job.completed"
    /\ \A k \in Keys : rows[k].result \in Successes =>
          \E h \in Goals : Key(h) = k /\ answer[h] = "supervisor.job.completed"
    /\ \A g \in Goals : handle[g] = "SUCCEEDED" =>
          pc[g] = "returned" /\ rows[Key(g)].result \in Successes

Service == INSTANCE JobService WITH
    Outcomes <- Results,
    digest <- [k \in Keys |-> rows[k].digest],
    dispatched <- [k \in Keys |->
                     \E g \in Goals : Key(g) = k /\ remote[g] # "none"],
    outcome <- [k \in Keys |-> rows[k].result]

\* The gateway implements the abstract job service.
ImplementsService == Service!Spec
============================================================================
