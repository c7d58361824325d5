------------------------------ MODULE PenTree ------------------------------
(***************************************************************************)
(* A behaviour tree of asynchronous action leaves under the supervisor's   *)
(* worker: TypedActionNode and its pen leaves, and the supervisor's        *)
(* ExecuteSkill.  The worker ticks and halts; the executor thread delivers *)
(* goal responses and results into the AsyncState an attempt shares with   *)
(* it.  Every attempt of a leaf is a goal of an action server, of which    *)
(* only what ActionServer promises is assumed.                             *)
(***************************************************************************)
EXTENDS Naturals, Sequences

CONSTANTS Tree,     \* the action leaves in the order of the sequence
          Attempts, \* per leaf: num_attempts of the retry decorator around it
          Typed,    \* leaves built on TypedActionNode; the others are ExecuteSkill
          Process,  \* the leaf with the irreversible command
          Inspect,  \* the leaf that judges its outcome
          NoVerdict

Leaves == {Tree[i] : i \in 1..Len(Tree)}

\* A sequence of leaves, each of them once, and each attempted at least once.
IsPenTree ==
    /\ Tree \in Seq(STRING) /\ Tree # <<>>
    /\ \A i, j \in 1..Len(Tree) : Tree[i] = Tree[j] => i = j
    /\ Attempts \in [Leaves -> Nat \ {0}]
    /\ {Process, Inspect} \subseteq Leaves /\ Typed \subseteq Leaves
    /\ NoVerdict \notin {"ok", "failed", "unproven", "cancelled"}

ASSUME TreeAssumption == IsPenTree

VARIABLES
    command, reported, stopping, serving, \* the action servers, see ActionServer: goal,
                                          \* answer, cancelling and up
    state,   \* AsyncState of each attempt
    at,      \* the leaf the sequence has reached, and which attempt of it
    due,     \* the steady deadline of the running leaf has passed
    unknown, \* process_outcome_unknown on the blackboard
    recorded,\* production_result_recorded on the blackboard
    status   \* of the tree, as the worker sees it

servers == <<command, reported, stopping, serving>>
blackboard == <<unknown, recorded>>
treeVars == <<servers, state, at, due, blackboard, status>>

Goals == UNION {{l} \X (1..Attempts[l]) : l \in Leaves}
Verdicts == {"ok", "failed", "unproven", "cancelled"}

Action == INSTANCE ActionServer WITH
    goal <- command, answer <- reported, cancelling <- stopping, up <- serving,
    Codes <- Verdicts, CancelledCodes <- {"cancelled"}, None <- NoVerdict

TreeTypeOK ==
    /\ command \in [Goals -> {"none", "sent", "executing", "rejected", "done", "lost"}]
    /\ reported \in [Goals -> Verdicts \cup {NoVerdict}]
    /\ stopping \in [Goals -> BOOLEAN] /\ serving \in BOOLEAN
    /\ state \in [Goals -> [handle : {"none", "arrived", "rejected"},
                            result : Verdicts \cup {NoVerdict},
                            requested : BOOLEAN, cancels : 0..1]]
    /\ at \in Goals
    /\ {due, unknown, recorded} \subseteq BOOLEAN
    /\ status \in {"RUNNING", "SUCCESS", "FAILURE", "HALTED", "ERROR", "TERMINATED"}

NoState == [handle |-> "none", result |-> NoVerdict, requested |-> FALSE, cancels |-> 0]

TreeInit ==
    /\ command = [g \in Goals |-> "none"]
    /\ reported = [g \in Goals |-> NoVerdict]
    /\ stopping = [g \in Goals |-> FALSE]
    /\ serving = TRUE
    /\ state = [g \in Goals |-> NoState]
    /\ at = <<Tree[1], 1>>
    /\ due = FALSE
    /\ unknown = FALSE
    /\ recorded = FALSE
    /\ status = "RUNNING"

-----------------------------------------------------------------------------
(* The worker thread. *)

Ticking == status = "RUNNING"
Sent(g) == command[g] # "none"

\* The client has forgotten a goal whose result it has delivered: cancelling
\* that goal throws, and only the typed leaves catch it.
Throws(g) == state[g].handle = "arrived" /\ state[g].cancels = 0
             /\ state[g].result # NoVerdict /\ g[1] \notin Typed

\* requestCancellation: at once if the handle is there, else on acceptance.
RequestCancellation(g) ==
    state' = [state EXCEPT ![g].requested = TRUE,
                           ![g].cancels = IF state[g].handle = "arrived" THEN 1 ELSE @]

Ends(s) == status' = s /\ UNCHANGED <<at, due>>

\* onStart makes a fresh state and deadline; SendGoal sends the goal.
Begin(g) == at' = g /\ due' = FALSE /\ UNCHANGED status

\* buildGoal may not resolve the leaf's inputs.
StartLeaf(g) == Begin(g) \/ Ends("FAILURE")

\* The retry decorator, then the sequence, within the tick.
Fail ==
    IF at[2] < Attempts[at[1]]
    THEN StartLeaf(<<at[1], at[2] + 1>>)
    ELSE Ends("FAILURE")

\* The sequence goes on to the next leaf.  The last leaf is followed by RouteByInspection and RecordProductionResult.
Succeed ==
    \/ \E i \in 1..(Len(Tree) - 1) :
          at[1] = Tree[i] /\ StartLeaf(<<Tree[i + 1], 1>>) /\ UNCHANGED recorded
    \/ at[1] = Tree[Len(Tree)] /\ Ends("SUCCESS") /\ recorded' = TRUE

\* The conditions at the head of the tree: frozen job, safety, devices.
Refuse ==
    /\ Ticking
    /\ at = <<Tree[1], 1>> /\ ~Sent(at) /\ ~due
    /\ Ends("FAILURE")
    /\ UNCHANGED <<servers, state, blackboard>>

\* A tick, or onStart itself, finds the server ready.
SendCommand ==
    /\ Ticking
    /\ ~Sent(at)
    /\ Action!Submit(at)
    /\ UNCHANGED <<state, at, due, blackboard, status>>

HandleDeadline ==
    IF at[1] = Process THEN unknown' = TRUE ELSE UNCHANGED unknown

\* Mutant: a goal that was never sent has no deadline.
DeadlineOfSent ==
    /\ Ticking
    /\ due /\ Sent(at)
    /\ RequestCancellation(at)
    /\ IF Throws(at) THEN Ends("ERROR") /\ UNCHANGED unknown ELSE Fail /\ HandleDeadline
    /\ UNCHANGED <<servers, recorded>>

\* onRunning past the deadline: cancel, and fail without waiting for the command.
Deadline ==
    /\ Ticking
    /\ due
    /\ RequestCancellation(at)
    /\ IF Throws(at) THEN Ends("ERROR") /\ UNCHANGED unknown ELSE Fail /\ HandleDeadline
    /\ UNCHANGED <<servers, recorded>>

Rejected ==
    /\ Ticking /\ ~due
    /\ state[at].handle = "rejected"
    /\ Fail
    /\ UNCHANGED <<servers, state, blackboard>>

\* Mutants: an unproven process is a failure like any other; an inspection that
\* was made is one that was passed.
HandleResultCertain ==
    /\ Ticking /\ ~due
    /\ state[at].handle # "rejected" /\ state[at].result # NoVerdict
    /\ IF state[at].result = "ok" THEN Succeed ELSE Fail /\ UNCHANGED recorded
    /\ UNCHANGED <<servers, state, unknown>>
HandleResultLenient ==
    /\ Ticking /\ ~due
    /\ state[at].handle # "rejected" /\ state[at].result # NoVerdict
    /\ IF state[at].result = "ok" \/ at[1] = Inspect THEN Succeed ELSE Fail /\ UNCHANGED recorded
    /\ unknown' = (unknown \/ (at[1] = Process /\ state[at].result = "unproven"))
    /\ UNCHANGED <<servers, state>>

\* handleResult of the leaves; an inspection is ok only if it accepts the part.
HandleResult ==
    /\ Ticking /\ ~due
    /\ state[at].handle # "rejected" /\ state[at].result # NoVerdict
    /\ IF state[at].result = "ok" THEN Succeed ELSE Fail /\ UNCHANGED recorded
    /\ unknown' = (unknown \/ (at[1] = Process /\ state[at].result = "unproven"))
    /\ UNCHANGED <<servers, state>>

\* The job is cancelled, overdue, or the node goes down: between two ticks the
\* worker halts the tree, where nothing catches what a leaf throws.
Halt ==
    /\ Ticking
    /\ RequestCancellation(at)
    /\ Ends(IF Throws(at) THEN "TERMINATED" ELSE "HALTED")
    /\ UNCHANGED <<servers, blackboard>>

-----------------------------------------------------------------------------
(* The executor thread, which dies with the process. *)

Alive == status # "TERMINATED"

\* Mutant: a cancel request that came first is forgotten.
AcceptedForgetful(g) == [state[g] EXCEPT !.handle = "arrived"]

Accepted(g) ==
    [state[g] EXCEPT !.handle = "arrived", !.cancels = IF state[g].requested THEN 1 ELSE @]

\* goal_response_callback, under the mutex.
GoalResponse(g) ==
    /\ Alive
    /\ state[g].handle = "none"
    /\ \/ command[g] \in {"executing", "done"} /\ state' = [state EXCEPT ![g] = Accepted(g)]
       \/ command[g] = "rejected" /\ state' = [state EXCEPT ![g].handle = "rejected"]
    /\ UNCHANGED <<servers, at, due, blackboard, status>>

\* result_callback; the client asks for the result once it has the handle.
ResultCallback(g) ==
    /\ Alive
    /\ state[g].handle = "arrived" /\ state[g].result = NoVerdict
    /\ command[g] = "done"
    /\ state' = [state EXCEPT ![g].result = reported[g]]
    /\ UNCHANGED <<servers, at, due, blackboard, status>>

-----------------------------------------------------------------------------
(* The servers, and time. *)

ServerAnswers(g) == Action!Accept(g) \/ Action!Reject(g) \/ \E c \in Verdicts : Action!Finish(g, c)
StopArrives(g) == state[g].cancels = 1 /\ ~stopping[g] /\ Action!Cancel(g)

Environment ==
    /\ \/ \E g \in Goals : ServerAnswers(g) \/ StopArrives(g)
       \/ Action!Crash
    /\ UNCHANGED <<state, at, due, blackboard, status>>

Expire ==
    /\ Ticking /\ ~due
    /\ due' = TRUE
    /\ UNCHANGED <<servers, state, at, blackboard, status>>

Tick == Refuse \/ SendCommand \/ Deadline \/ Rejected \/ HandleResult

TreeNext ==
    \/ Tick \/ Halt
    \/ \E g \in Goals : GoalResponse(g) \/ ResultCallback(g)
    \/ Environment
    \/ Expire

TreeSpec == TreeInit /\ [][TreeNext]_treeVars

\* The worker ticks every 10 ms, the clock runs, the executor spins, and a
\* request that was sent arrives; nothing makes a server answer or succeed.
TreeFairness ==
    /\ WF_treeVars(Tick) /\ WF_treeVars(Expire)
    /\ \A g \in Goals :
          /\ WF_treeVars(GoalResponse(g)) /\ WF_treeVars(ResultCallback(g))
          /\ WF_treeVars(StopArrives(g) /\ UNCHANGED <<state, at, due, blackboard, status>>)
FairTreeSpec == TreeSpec /\ TreeFairness

-----------------------------------------------------------------------------
(* Properties. *)

Left(g) == Sent(g) /\ (~Ticking \/ at # g)

\* A command whose leaf was left by deadline or halt is asked to cancel as soon
\* as its goal is known, whichever of the two threads comes first (sendGoal's
\* response callback, requestCancellation).
LeftIsCancelled ==
    \A g \in Goals : Left(g) /\ state[g].handle = "arrived" /\ state[g].result = NoVerdict
        => state[g].cancels = 1

\* A tree that fails by itself says so when its process may have happened: the
\* command not answered, its answer lost, or given without proof.
Unsettled(g) ==
    /\ g[1] = Process /\ command[g] \notin {"none", "rejected"}
    /\ state[g].result \notin {"ok", "failed", "cancelled"}
UnprovenIsFlagged ==
    \A g \in Goals : status = "FAILURE" /\ Unsettled(g) => unknown

\* A production result is recorded only of a part whose process was proven and
\* whose inspection accepted it, and nothing was retried behind its back.
RecordedIsInspected ==
    recorded => \A l \in {Process, Inspect} :
        \E n \in 1..Attempts[l] : reported[<<l, n>>] = "ok" /\ state[<<l, n>>].result = "ok"

\* An attempt of the leaf succeeded.
Passed(l) == \E n \in 1..Attempts[l] : state[<<l, n>>].result = "ok"

\* What the state of an attempt says of its goal, and what an attempt that was left has seen to.
AttemptIsTrue(g) ==
    /\ state[g].handle = "rejected" => command[g] = "rejected"
    /\ state[g].result # NoVerdict => state[g].handle = "arrived" /\ state[g].result = reported[g]
    /\ reported[g] # NoVerdict => command[g] \in {"done", "lost"}
    /\ Left(g) /\ state[g].handle = "none" => state[g].requested
    /\ Ticking /\ g # at /\ Unsettled(g) => unknown

\* The sequence has reached a leaf over those before it, and its end over all.
SequenceIsPassed ==
    \A i \in 1..Len(Tree) :
        recorded \/ (\E j \in (i + 1)..Len(Tree) : at[1] = Tree[j]) => Passed(Tree[i])

\* The inductive invariant behind LeftIsCancelled, UnprovenIsFlagged and RecordedIsInspected.
TreeIInv ==
    /\ TreeTypeOK
    /\ \A g \in Goals : AttemptIsTrue(g)
    /\ SequenceIsPassed
    /\ LeftIsCancelled /\ UnprovenIsFlagged

\* Whatever the servers do, crash included, every tree comes to an end.
TreeEnds == <>(status # "RUNNING")

\* The server hears of it: a command that was left behind is cancelled, unless
\* it ends or its server dies.
LeftIsStopped ==
    \A g \in Goals : Left(g) /\ command[g] = "executing" ~>
        stopping[g] \/ command[g] # "executing" \/ ~Alive

\* Cancelling a command that has just ended does not take the process down
\* (the typed leaves: "A terminal result won the race with cancellation; no
\* cancellation remains to send").
HaltIsSafe == status # "TERMINATED"
============================================================================
