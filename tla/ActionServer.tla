----------------------------- MODULE ActionServer ----------------------------
(***************************************************************************)
(* A ROS 2 action server as its clients may rely on it: what the job       *)
(* gateway assumes of the supervisor, and what the supervisor and a device *)
(* node provide.  A goal is sent, accepted or rejected, and answered at    *)
(* most once; the code of a cancelled goal is only ever given to a goal    *)
(* that was asked to cancel.  When the process dies, whatever it has not   *)
(* answered stays unanswered.                                              *)
(***************************************************************************)
CONSTANTS Goals,
          Codes,          \* result codes
          CancelledCodes, \* those that say the goal was cancelled
          None

VARIABLES goal,       \* where each goal stands
          answer,     \* the result code of each answered goal
          cancelling, \* a cancel of the goal was accepted and is not settled
          up          \* the server process is alive

server == <<goal, answer, cancelling, up>>

Init ==
    /\ goal \in [Goals -> {"none", "sent"}]
    /\ answer = [g \in Goals |-> None]
    /\ cancelling = [g \in Goals |-> FALSE]
    /\ up = TRUE

Submit(g) ==
    /\ up
    /\ goal[g] = "none"
    /\ goal' = [goal EXCEPT ![g] = "sent"]
    /\ UNCHANGED <<answer, cancelling, up>>

Accept(g) ==
    /\ up
    /\ goal[g] = "sent"
    /\ goal' = [goal EXCEPT ![g] = "executing"]
    /\ UNCHANGED <<answer, cancelling, up>>

Reject(g) ==
    /\ up
    /\ goal[g] = "sent"
    /\ goal' = [goal EXCEPT ![g] = "rejected"]
    /\ UNCHANGED <<answer, cancelling, up>>

Cancel(g) ==
    /\ up
    /\ goal[g] = "executing"
    /\ cancelling' = [cancelling EXCEPT ![g] = TRUE]
    /\ UNCHANGED <<goal, answer, up>>

Finish(g, c) ==
    /\ up
    /\ goal[g] = "executing"
    /\ c \in CancelledCodes => cancelling[g]
    /\ goal' = [goal EXCEPT ![g] = "done"]
    /\ answer' = [answer EXCEPT ![g] = c]
    /\ cancelling' = [cancelling EXCEPT ![g] = FALSE]
    /\ UNCHANGED up

Crash ==
    /\ up
    /\ up' = FALSE
    /\ goal' = [g \in Goals |-> IF goal[g] \in {"sent", "executing", "done"}
                               THEN "lost" ELSE goal[g]]
    /\ cancelling' = [g \in Goals |-> FALSE]
    /\ UNCHANGED answer

Restart ==
    /\ ~up
    /\ up' = TRUE
    /\ UNCHANGED <<goal, answer, cancelling>>

Next ==
    \/ \E g \in Goals : \/ Submit(g) \/ Accept(g) \/ Reject(g) \/ Cancel(g)
                       \/ \E c \in Codes : Finish(g, c)
    \/ Crash
    \/ Restart

Spec == Init /\ [][Next]_server
============================================================================
