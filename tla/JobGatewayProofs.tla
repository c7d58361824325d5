------------------------- MODULE JobGatewayProofs -------------------------
(***************************************************************************)
(* Proofs about JobGateway for every set of goals, keys, contents and      *)
(* bundles and every bound on crashes.                                     *)
(***************************************************************************)
EXTENDS JobGateway, TLAPS

\* Every step is a step of one of these actions, or stutters.
LEMMA StepCases ==
    ASSUME [Next]_vars
    PROVE  \/ \E g \in Goals, k \in Keys, c \in Contents : Submit(g, k, c)
           \/ \E g \in Goals : \/ RequestCancel(g) \/ Prepare(g) \/ SendGoal(g)
                               \/ GiveUpDiscovery(g) \/ SeeRejected(g)
                               \/ SeeAccepted(g) \/ SeeResult(g)
                               \/ ForwardCancel(g) \/ CancelAnswered(g)
                               \/ DeadlinePassed(g) \/ LastCancelAnswered(g)
                               \/ Finish(g) \/ SetTerminalState(g)
                               \/ StoreRaises(g) \/ Expire(g)
                               \/ RemoteStep(g)
           \/ Crash \/ RemoteCrash \/ RemoteRestart \/ Serve
           \/ \E b \in Bundles : Restart(b)
           \/ \E k \in Keys : Reconcile(k)
           \/ UNCHANGED vars
BY DEF Next, Execute

\* What the supervisor does to a job it was sent, and what it leaves alone.
LEMMA RemoteSteps ==
    ASSUME NEW g \in Goals, RemoteStep(g)
    PROVE  /\ UNCHANGED <<rows, gateway, bundle, crashes, pc, request, result, cancelSent,
                          overdue, handle, reply, supervisorUp, outages>>
           /\ \/ /\ remote[g] = "sent"
                 /\ \E status \in {"executing", "rejected"} :
                       remote' = [remote EXCEPT ![g] = status]
                 /\ UNCHANGED <<answer, cancelling>>
              \/ /\ remote[g] = "executing"
                 /\ remote' = [remote EXCEPT ![g] = "done"]
                 /\ \E r \in SupervisorResults : answer' = [answer EXCEPT ![g] = r]
                 /\ cancelling' = [cancelling EXCEPT ![g] = FALSE]
<1> USE DEF RemoteStep, process, coroutine, public
<1>1. CASE Server!Accept(g)
    BY <1>1 DEF Server!Accept
<1>2. CASE Server!Reject(g)
    BY <1>2 DEF Server!Reject
<1>3. ASSUME NEW r \in SupervisorResults, Server!Finish(g, r)
      PROVE  /\ remote[g] = "executing"
             /\ remote' = [remote EXCEPT ![g] = "done"]
             /\ answer' = [answer EXCEPT ![g] = r]
             /\ cancelling' = [cancelling EXCEPT ![g] = FALSE]
             /\ UNCHANGED supervisorUp
    BY <1>3 DEF Server!Finish
<1> QED
    BY <1>1, <1>2, <1>3

\* Updating the status, or status and result, of a row leaves a table of rows.
LEMMA RowUpdates ==
    ASSUME rows \in [Keys -> Row], NEW k \in Keys, NEW o \in Results \cup {None},
           NEW s \in {"RUNNING", "TERMINAL", "OUTCOME_UNKNOWN"}
    PROVE  /\ [rows EXCEPT ![k].status = s] \in [Keys -> Row]
           /\ [rows EXCEPT ![k].status = s, ![k].result = o] \in [Keys -> Row]
<1>1. rows[k] \in Row
    OBVIOUS
<1>2. [rows[k] EXCEPT !.status = s] \in Row
    BY <1>1 DEF Row
<1>3. [rows[k] EXCEPT !.status = s, !.result = o] \in Row
    BY <1>1 DEF Row
<1> HIDE DEF Row
<1>4. [rows EXCEPT ![k] = [@ EXCEPT !.status = s]] \in [Keys -> Row]
    BY <1>2
<1>5. [rows EXCEPT ![k] = [@ EXCEPT !.status = s, !.result = o]] \in [Keys -> Row]
    BY <1>3
<1> QED
    BY <1>4, <1>5

\* A step of the gateway keeps the types.
LEMMA TypeStep == TypeOK /\ [Next]_vars => TypeOK'
<1> SUFFICES ASSUME TypeOK, [Next]_vars PROVE TypeOK'
    OBVIOUS
<1> USE FreezesAssumption, BoundsAssumption
<1> USE DEF TypeOK, Row, Results, SupervisorResults, GatewayResults, Refusals,
            Labels, Waiting, Digests, process, coroutine, public, supervisor,
            Goto, Key
<1>1. ASSUME NEW g \in Goals, NEW k \in Keys, NEW c \in Contents, Submit(g, k, c)
      PROVE  TypeOK'
    BY <1>1 DEF Submit
<1>2. ASSUME NEW g \in Goals, RequestCancel(g) PROVE TypeOK'
    BY <1>2 DEF RequestCancel, Live
<1>3. ASSUME NEW g \in Goals, Prepare(g) PROVE TypeOK'
    <2> USE DEF Prepare, Frozen
    <2>1. CASE PrepareNew(g)
        BY <1>3, <2>1 DEF PrepareNew
    <2>2. CASE PrepareReplay(g)
        BY <1>3, <2>2 DEF PrepareReplay
    <2>3. CASE \E code \in Refusals : Refuse(g, code)
        BY <1>3, <2>3 DEF Refuse, Return
    <2> QED
        BY <1>3, <2>1, <2>2, <2>3 DEF PrepareRefuse
<1>4. ASSUME NEW g \in Goals, SendGoal(g) PROVE TypeOK'
    BY <1>4 DEF SendGoal, Server!Submit
<1>5. ASSUME NEW g \in Goals, GiveUpDiscovery(g) PROVE TypeOK'
    <2>1. pc[g] = "discover" /\ UNCHANGED supervisor
        BY <1>5 DEF GiveUpDiscovery
    <2>2. Forwarded(g, "gateway.job.cancelled")
          \/ Forwarded(g, "gateway.supervisor.unavailable")
        BY <1>5 DEF GiveUpDiscovery
    <2>3. CASE Forwarded(g, "gateway.job.cancelled")
        BY <2>1, <2>3 DEF Forwarded
    <2>4. CASE Forwarded(g, "gateway.supervisor.unavailable")
        BY <2>1, <2>4 DEF Forwarded
    <2> QED
        BY <2>2, <2>3, <2>4
<1>6. ASSUME NEW g \in Goals, SeeRejected(g) PROVE TypeOK'
    BY <1>6 DEF SeeRejected, Forwarded
<1>7. ASSUME NEW g \in Goals, SeeAccepted(g) PROVE TypeOK'
    <2>1. Key(g) \in Keys
        BY <1>7 DEF SeeAccepted
    <2>2. rows' \in [Keys -> Row]
        <3> HIDE DEF Row, Results
        <3>1. "gateway.job.cancelled" \in Results /\ rows \in [Keys -> Row]
            BY DEF Results
        <3> QED
            BY <1>7, <2>1, <3>1, RowUpdates DEF SeeAccepted
    <2> QED
        BY <1>7, <2>2 DEF SeeAccepted
<1>8. ASSUME NEW g \in Goals, SeeResult(g) PROVE TypeOK'
    BY <1>8 DEF SeeResult, Forwarded
<1>9. ASSUME NEW g \in Goals, ForwardCancel(g) PROVE TypeOK'
    BY <1>9 DEF ForwardCancel, SendCancel
<1>10. ASSUME NEW g \in Goals, CancelAnswered(g) PROVE TypeOK'
    <2>1. cancelSent' = [cancelSent EXCEPT ![g] = TRUE]
        BY <1>10 DEF CancelAnswered
    <2>2. cancelling' \in [Goals -> BOOLEAN]
        BY <1>10 DEF CancelAnswered, SendCancel
    <2>3. \E label \in {"lastCancelWait", "running"} : pc' = [pc EXCEPT ![g] = label]
        BY <1>10 DEF CancelAnswered
    <2>4. UNCHANGED <<rows, gateway, bundle, crashes, request, result, overdue, handle,
                      reply, remote, answer, supervisorUp, outages>>
        BY <1>10 DEF CancelAnswered
    <2>5. /\ pc' \in [Goals -> Labels] /\ cancelSent' \in [Goals -> BOOLEAN]
          /\ \A h \in Goals : pc'[h] # "idle" => request'[h] \in [key : Keys, content : Contents]
        BY <1>10, <2>1, <2>3, <2>4 DEF CancelAnswered
    <2>6. /\ rows' \in [Keys -> Row] /\ result' \in [Goals -> Results \cup {None}]
          /\ reply' \in [Goals -> Results \cup Refusals \cup {EmptyResult, None}]
        BY <2>4
    <2>7. /\ request' \in [Goals -> [key : Keys \cup {None}, content : Contents \cup {None}]]
          /\ handle' \in [Goals -> {"NONE", "EXECUTING", "CANCELING",
                                   "SUCCEEDED", "CANCELED", "ABORTED"}]
          /\ overdue' \in [Goals -> BOOLEAN]
        BY <2>4
    <2>8. /\ remote' \in [Goals -> {"none", "sent", "executing", "rejected", "done", "lost"}]
          /\ answer' \in [Goals -> SupervisorResults \cup {None}]
          /\ gateway' \in {"up", "down", "recovering"} /\ bundle' \in Bundles
          /\ supervisorUp' \in BOOLEAN /\ crashes' \in 0..MaxCrashes /\ outages' \in 0..MaxOutages
        BY <2>4
    <2> QED
        BY <2>2, <2>5, <2>6, <2>7, <2>8
<1>11. ASSUME NEW g \in Goals, DeadlinePassed(g) PROVE TypeOK'
    BY <1>11 DEF DeadlinePassed, SendCancel
<1>12. ASSUME NEW g \in Goals, LastCancelAnswered(g) PROVE TypeOK'
    BY <1>12 DEF LastCancelAnswered, Forwarded
<1>13. ASSUME NEW g \in Goals, Finish(g) PROVE TypeOK'
    <2>1. Key(g) \in Keys /\ pc[g] = "finish"
        BY <1>13 DEF Finish
    <2>2. CASE rows[Key(g)].result = None
        <3>1. rows' \in [Keys -> Row]
            <4> HIDE DEF Row, Results
            <4>1. rows' = [rows EXCEPT ![Key(g)].status = "TERMINAL",
                                       ![Key(g)].result = result[g]]
                BY <1>13, <2>2 DEF Finish
            <4>2. rows \in [Keys -> Row] /\ result[g] \in Results \cup {None}
                OBVIOUS
            <4> HIDE DEF TypeOK
            <4> QED
                BY <2>1, <4>1, <4>2, RowUpdates
        <3>2. pc' = [pc EXCEPT ![g] = "terminal"] /\ UNCHANGED public
            BY <1>13, <2>2 DEF Finish
        <3> QED
            BY <1>13, <2>1, <3>1, <3>2 DEF Finish
    <2>3. CASE rows[Key(g)].result # None
        BY <1>13, <2>1, <2>3, ZenonT(60) DEF Finish, Return
    <2> QED
        BY <2>2, <2>3
<1>14. ASSUME NEW g \in Goals, SetTerminalState(g) PROVE TypeOK'
    <2>1. /\ pc[g] = "terminal"
          /\ UNCHANGED <<rows, process, request, result, cancelSent, overdue, supervisor>>
        BY <1>14 DEF SetTerminalState
    <2>2. \E h \in {"CANCELED", "SUCCEEDED", "ABORTED"},
             r \in {result[g], EmptyResult} : Return(g, h, r)
        BY <1>14 DEF SetTerminalState, Raise
    <2>3. PICK h \in {"CANCELED", "SUCCEEDED", "ABORTED"}, r \in {result[g], EmptyResult} :
             Return(g, h, r)
        BY <2>2
    <2>4. reply' \in [Goals -> Results \cup Refusals \cup {EmptyResult, None}]
        <3> HIDE DEF Results, Refusals
        <3> QED
            BY <2>3 DEF Return
    <2> QED
        BY <2>1, <2>3, <2>4 DEF Return
<1>15. ASSUME NEW g \in Goals, StoreRaises(g) PROVE TypeOK'
    BY <1>15 DEF StoreRaises, Return, Raise, EmptyResult
<1>16. ASSUME NEW g \in Goals, Expire(g) PROVE TypeOK'
    BY <1>16 DEF Expire
<1>17. ASSUME NEW g \in Goals, RemoteStep(g) PROVE TypeOK'
    <2>1. UNCHANGED <<rows, gateway, bundle, crashes, pc, request, result, cancelSent,
                      overdue, handle, reply, supervisorUp, outages>>
        BY <1>17, RemoteSteps
    <2>2. /\ remote' \in [Goals -> {"none", "sent", "executing", "rejected", "done", "lost"}]
          /\ answer' \in [Goals -> SupervisorResults \cup {None}]
          /\ cancelling' \in [Goals -> BOOLEAN]
        <3>1. CASE /\ remote[g] = "sent"
                   /\ \E status \in {"executing", "rejected"} :
                         remote' = [remote EXCEPT ![g] = status]
                   /\ UNCHANGED <<answer, cancelling>>
            BY <3>1
        <3>2. CASE /\ remote' = [remote EXCEPT ![g] = "done"]
                   /\ \E r \in SupervisorResults : answer' = [answer EXCEPT ![g] = r]
                   /\ cancelling' = [cancelling EXCEPT ![g] = FALSE]
            BY <3>2
        <3> QED
            BY <1>17, <3>1, <3>2, RemoteSteps
    <2> QED
        BY <2>1, <2>2
<1>19. CASE Crash
    BY <1>19 DEF Crash, Live
<1>20. CASE RemoteCrash
    <2>1. remote' \in [Goals -> {"none", "sent", "executing", "rejected", "done", "lost"}]
        BY <1>20 DEF RemoteCrash, Server!Crash
    <2>2. outages' \in 0..MaxOutages
        BY <1>20 DEF RemoteCrash, Server!Crash
    <2> QED
        BY <1>20, <2>1, <2>2 DEF RemoteCrash, Server!Crash
<1>21. CASE RemoteRestart \/ Serve \/ \E b \in Bundles : Restart(b)
    BY <1>21 DEF RemoteRestart, Server!Restart, Serve, Restart
<1>22. ASSUME NEW k \in Keys, Reconcile(k) PROVE TypeOK'
    <2>1. rows' \in [Keys -> Row]
        <3> HIDE DEF Row, Results
        <3>1. "gateway.restart.outcome_unknown" \in Results /\ rows \in [Keys -> Row]
            BY DEF Results
        <3> QED
            BY <1>22, <3>1, RowUpdates DEF Reconcile
    <2> QED
        BY <1>22, <2>1 DEF Reconcile
<1>23. CASE UNCHANGED vars
    BY <1>23 DEF vars
<1> QED
    BY StepCases, <1>1, <1>2, <1>3, <1>4, <1>5, <1>6, <1>7, <1>8, <1>9, <1>10,
       <1>11, <1>12, <1>13, <1>14, <1>15, <1>16, <1>17, <1>19, <1>20,
       <1>21, <1>22, <1>23

\* Type correctness of the gateway, for every instance.
THEOREM TypeCorrect == Spec => []TypeOK
<1>1. Init => TypeOK
    BY BoundsAssumption DEF Init, TypeOK, NoRow, Row, Labels, Waiting
<1> QED
    BY <1>1, TypeStep, PTL DEF Spec

-----------------------------------------------------------------------------
(* The inductive invariant: who may claim a key, and what a claim carries. *)

\* An execute callback that ends ends its claim, unless the job is remote.
LEMMA ReturnKeeps ==
    ASSUME IInv, NEW g \in Goals, NEW h, NEW r, Return(g, h, r), Live(g),
           r \in Results => r = rows[Key(g)].result,
           UNCHANGED <<rows, process, request, result, cancelSent, overdue, supervisor>>
    PROVE  Claims' /\ Open' /\ Carried' /\ RepliesAreDurable'
<1> USE DEF IInv, TypeOK, Claims, Open, Carried, RepliesAreDurable, Owner, Claim,
            Waiting, Goto, Key, process, supervisor, Live, Return
<1>1. Claims' /\ Open'
    OBVIOUS
<1>2. Carried' /\ RepliesAreDurable'
    OBVIOUS
<1> QED
    BY <1>1, <1>2

\* A coroutine that goes on waiting keeps its claim and carries nothing yet.
LEMMA WaitKeeps ==
    ASSUME IInv, NEW g \in Goals, NEW label \in Waiting \ {"discover"},
           Owner(g), Goto(g, label),
           UNCHANGED <<rows, gateway, request, result, reply, remote, answer>>
    PROVE  Claims' /\ Open' /\ Carried' /\ RepliesAreDurable'
<1> USE DEF IInv, TypeOK, Claims, Open, Carried, RepliesAreDurable, Owner, Claim,
            Waiting, Goto, Key, Live
<1>1. Claims' /\ Open'
    OBVIOUS
<1>2. Carried' /\ RepliesAreDurable'
    OBVIOUS
<1> QED
    BY <1>1, <1>2

\* _forward hands a result to _execute; only a job that was sent can succeed.
LEMMA ForwardedKeeps ==
    ASSUME IInv, NEW g \in Goals, NEW r \in Results, Forwarded(g, r),
           pc[g] \in Waiting, r \in Successes => remote[g] # "none",
           UNCHANGED supervisor
    PROVE  Claims' /\ Open' /\ Carried' /\ RepliesAreDurable'
<1> USE DEF IInv, TypeOK, Claims, Open, Carried, RepliesAreDurable, Owner, Claim,
            Waiting, Goto, Key, Live, Forwarded, process, public, supervisor
<1>1. Claims' /\ Open'
    OBVIOUS
<1>2. r # None
    BY NoneAssumption
<1>3. Carried'
    BY <1>2
<1>4. RepliesAreDurable'
    OBVIOUS
<1> QED
    BY <1>1, <1>3, <1>4

\* A step of the gateway, its store or the remote job keeps the invariant.
LEMMA InvStep == IInv /\ [Next]_vars => IInv'
<1> SUFFICES ASSUME IInv, [Next]_vars PROVE IInv'
    OBVIOUS
<1>0. TypeOK'
    BY TypeStep DEF IInv
<1> USE NoneAssumption
<1> DEFINE Kept == Claims' /\ Open' /\ Carried' /\ RepliesAreDurable'
<1>a. Kept => IInv'
    BY <1>0 DEF IInv
<1>b. TypeOK
    BY DEF IInv
<1>1. ASSUME NEW g \in Goals, NEW k \in Keys, NEW c \in Contents, Submit(g, k, c)
      PROVE  Kept
    <2> USE DEF IInv, TypeOK, Claims, Open, Carried, RepliesAreDurable, Owner, Claim,
                Waiting, Goto, Key, process, coroutine, public, supervisor, Live, NoRow
    <2>1. Claims' /\ Open'
        BY <1>1 DEF Submit
    <2>2. Carried'
        BY <1>1 DEF Submit
    <2>3. reply[g] \notin Results /\ UNCHANGED reply
        BY <1>1 DEF Submit
    <2>4. \A h \in Goals \ {g} : Key(h)' = Key(h)
        BY <1>1 DEF Submit
    <2>5. UNCHANGED rows
        BY <1>1 DEF Submit
    <2>6. RepliesAreDurable'
        BY <2>3, <2>4, <2>5
    <2> QED
        BY <2>1, <2>2, <2>6
<1>2. ASSUME NEW g \in Goals, RequestCancel(g)
      PROVE  Kept
    <2> USE DEF IInv, TypeOK, Claims, Open, Carried, RepliesAreDurable, Owner, Claim,
                Waiting, Goto, Key, process, coroutine, public, supervisor, Live, NoRow
    <2>1. Claims'
        BY <1>0, <1>2 DEF RequestCancel
    <2>2. Open'
        BY <1>0, <1>2 DEF RequestCancel
    <2>3. Carried'
        BY <1>0, <1>2 DEF RequestCancel
    <2>4. RepliesAreDurable'
        BY <1>0, <1>2 DEF RequestCancel
    <2> QED
        BY <2>1, <2>2, <2>3, <2>4
<1>3. ASSUME NEW g \in Goals, Prepare(g)
      PROVE  Kept
    <2>1. /\ pc[g] = "queued"
          /\ UNCHANGED <<process, request, cancelSent, overdue, supervisor>>
        BY <1>3 DEF Prepare
    <2>2. CASE PrepareNew(g)
        <3> USE DEF IInv, TypeOK, Claims, Open, Carried, RepliesAreDurable, Owner, Claim,
                    Waiting, Goto, Key, process, supervisor, Live, PrepareNew
        <3>1. Key(g) \in Keys /\ Frozen(g) # None
            BY <2>1 DEF Frozen, Digests
        <3> HIDE DEF Frozen
        <3>2. /\ rows'[Key(g)].digest # None
              /\ rows'[Key(g)].result = None
              /\ \A k \in Keys \ {Key(g)} : rows'[k] = rows[k]
            BY <2>2, <3>1
        <3>3. \A h \in Goals : Claim(h) => Key(h) # Key(g)
            BY <2>2
        <3>4. \A h \in Goals : pc[h] # "idle" => Key(h) \in Keys
            OBVIOUS
        <3>5. Claims'
            BY <2>1, <2>2, <3>2, <3>3, <3>4
        <3>6. Open'
            BY <2>1, <2>2, <3>2, <3>3, <3>4
        <3>12. rows[Key(g)].result = None
            BY <2>2, <3>1 DEF NoRow
        <3>7. \A h \in Goals : reply[h] \in Results => Key(h) # Key(g)
            BY <3>4, <3>12
        <3>8. \A h \in Goals : pc[h] = "terminal" => Key(h) # Key(g)
            BY <3>4, <3>12
        <3>9. Carried'
            BY <2>1, <2>2, <3>2, <3>4, <3>8
        <3>10. \A h \in Goals : reply[h] \in Results => Key(h) \in Keys
            BY <3>4
        <3>11. RepliesAreDurable'
            BY <2>1, <2>2, <3>2, <3>7, <3>10
        <3> QED
            BY <3>5, <3>6, <3>9, <3>11
    <2>3. CASE PrepareReplay(g)
        <3> USE DEF IInv, TypeOK, Claims, Open, Carried, RepliesAreDurable, Owner, Claim,
                    Waiting, Goto, Key, process, supervisor, Live, PrepareReplay
        <3>1. Claims' /\ Open'
            BY <2>1, <2>3
        <3>2. Carried' /\ RepliesAreDurable'
            BY <2>1, <2>3
        <3> QED
            BY <3>1, <3>2
    <2>4. CASE \E code \in Refusals : Refuse(g, code)
        <3>1. PICK code \in Refusals : Return(g, "ABORTED", code) /\ UNCHANGED <<rows, result>>
            BY <2>4 DEF Refuse
        <3>2. code \notin Results
            BY <3>1 DEF Refusals, Results, SupervisorResults, GatewayResults
        <3> QED
            BY <2>1, <3>1, <3>2, ReturnKeeps DEF Live
    <2> QED
        BY <1>3, <2>2, <2>3, <2>4 DEF Prepare, PrepareRefuse, Refusals
<1>4. ASSUME NEW g \in Goals, SendGoal(g)
      PROVE  Kept
    <2> USE DEF IInv, TypeOK, Claims, Open, Carried, RepliesAreDurable, Owner, Claim,
                Waiting, Goto, Key, process, coroutine, public, supervisor, Live, NoRow
    <2>1. Claims'
        BY <1>0, <1>4 DEF SendGoal, Server!Submit
    <2>2. Open'
        BY <1>0, <1>4 DEF SendGoal, Server!Submit
    <2>3. Carried'
        BY <1>0, <1>4 DEF SendGoal, Server!Submit
    <2>4. RepliesAreDurable'
        BY <1>0, <1>4 DEF SendGoal, Server!Submit
    <2> QED
        BY <2>1, <2>2, <2>3, <2>4
<1>5. ASSUME NEW g \in Goals, GiveUpDiscovery(g)
      PROVE  Kept
    <2>1. PICK r \in {"gateway.job.cancelled", "gateway.supervisor.unavailable"} :
             Forwarded(g, r)
        BY <1>5 DEF GiveUpDiscovery
    <2>2. r \in Results /\ r \notin Successes
        BY DEF Results, GatewayResults, Successes
    <2> QED
        BY <1>5, <2>1, <2>2, ForwardedKeeps DEF GiveUpDiscovery, Waiting
<1>6. ASSUME NEW g \in Goals, SeeRejected(g)
      PROVE  Kept
    <2>1. /\ "gateway.supervisor.rejected" \in Results
          /\ "gateway.supervisor.rejected" \notin Successes
        BY DEF Results, GatewayResults, Successes
    <2> QED
        BY <1>6, <2>1, ForwardedKeeps DEF SeeRejected, Waiting
<1>7. ASSUME NEW g \in Goals, SeeAccepted(g)
      PROVE  Kept
    <2> USE DEF IInv, TypeOK, Claims, Open, Carried, RepliesAreDurable, Owner, Claim,
                Waiting, Goto, Key, process, coroutine, public, supervisor, Live, NoRow
    <2>1. Claims'
        BY <1>0, <1>7 DEF SeeAccepted
    <2>2. Open'
        BY <1>0, <1>7 DEF SeeAccepted
    <2>3. Carried'
        BY <1>0, <1>7 DEF SeeAccepted
    <2>4. RepliesAreDurable'
        BY <1>0, <1>7 DEF SeeAccepted
    <2> QED
        BY <2>1, <2>2, <2>3, <2>4
<1>8. ASSUME NEW g \in Goals, SeeResult(g)
      PROVE  Kept
    <2>1. answer[g] \in Results /\ remote[g] = "done" /\ pc[g] = "running"
        BY <1>8 DEF SeeResult, IInv, TypeOK, Carried, Results
    <2> QED
        BY <1>8, <2>1, ForwardedKeeps DEF SeeResult, Waiting
<1>9. ASSUME NEW g \in Goals, ForwardCancel(g) \/ CancelAnswered(g) \/ DeadlinePassed(g)
      PROVE  Kept
    <2>1. PICK label \in {"running", "cancelWait", "lastCancelWait"} : Goto(g, label)
        BY <1>9 DEF ForwardCancel, CancelAnswered, DeadlinePassed
    <2>2. /\ pc[g] \in {"running", "cancelWait"}
          /\ UNCHANGED <<rows, gateway, request, result, reply, remote, answer>>
        BY <1>9 DEF ForwardCancel, CancelAnswered, DeadlinePassed, process, public
    <2> QED
        BY <2>1, <2>2, WaitKeeps DEF Owner, Waiting
<1>10. ASSUME NEW g \in Goals, LastCancelAnswered(g)
      PROVE  Kept
    <2>1. /\ "gateway.supervisor.outcome_unknown" \in Results
          /\ "gateway.supervisor.outcome_unknown" \notin Successes
        BY DEF Results, GatewayResults, Successes
    <2> QED
        BY <1>10, <2>1, ForwardedKeeps DEF LastCancelAnswered, Waiting
<1>11. ASSUME NEW g \in Goals, Finish(g)
      PROVE  Kept
    <2>1. /\ pc[g] = "finish" /\ rows[Key(g)].result = None /\ Key(g) \in Keys
          /\ UNCHANGED <<process, request, result, cancelSent, overdue, supervisor>>
        BY <1>11 DEF Finish, IInv, Open, Owner, TypeOK, Key
    <2>2. /\ Goto(g, "terminal") /\ UNCHANGED public
          /\ rows' = [rows EXCEPT ![Key(g)].status = "TERMINAL",
                                  ![Key(g)].result = result[g]]
        BY <1>11, <2>1 DEF Finish
    <2> USE DEF IInv, TypeOK, Claims, Open, Carried, RepliesAreDurable, Owner, Claim,
                Waiting, Goto, Key, process, supervisor, Live, public
    <2>3. /\ rows'[Key(g)].digest = rows[Key(g)].digest
          /\ rows'[Key(g)].result = result[g]
          /\ \A k \in Keys \ {Key(g)} : rows'[k] = rows[k]
        <3>1. rows[Key(g)] \in Row
            BY <2>1
        <3> HIDE DEF TypeOK, IInv, Claims, Open, Carried, RepliesAreDurable
        <3>2. rows \in [Keys -> Row]
            BY <1>b DEF TypeOK
        <3> QED
            BY <2>1, <2>2, <3>1, <3>2 DEF Row
    <2>4. \A h \in Goals : pc[h] # "idle" => Key(h) \in Keys
        OBVIOUS
    <2>5. \A h \in Goals : Claim(h) /\ h # g => Key(h) # Key(g)
        BY <2>1
    <2>6. rows[Key(g)].digest # None
        BY <2>1
    <2>7. \A h \in Goals : pc[h] = "terminal" \/ reply[h] \in Results => Key(h) # Key(g)
        BY <2>1
    <2>8. /\ pc'[g] = "terminal" /\ \A h \in Goals \ {g} : pc'[h] = pc[h]
          /\ UNCHANGED <<gateway, request, remote, answer, result, reply>>
        BY <2>1, <2>2
    <2>9. Claims /\ Open /\ Carried /\ RepliesAreDurable
        OBVIOUS
    <2> HIDE DEF IInv, TypeOK, Claims, Open, Carried, RepliesAreDurable, Row
    <2>10. Claims'
        BY <2>1, <2>3, <2>4, <2>6, <2>8, <2>9 DEF Claims
    <2>11. Open'
        <3>1. \A k \in Keys : rows'[k].digest = None => rows'[k] = NoRow
            BY <2>3, <2>6, <2>9 DEF Open
        <3> QED
            BY <2>1, <2>3, <2>4, <2>5, <2>8, <2>9, <3>1 DEF Open
    <2>12. Carried'
        BY <2>1, <2>3, <2>4, <2>7, <2>8, <2>9 DEF Carried, Claims
    <2>13. RepliesAreDurable'
        BY <2>3, <2>4, <2>7, <2>8, <2>9 DEF RepliesAreDurable, Carried
    <2> QED
        BY <2>10, <2>11, <2>12, <2>13
<1>12. ASSUME NEW g \in Goals, SetTerminalState(g)
      PROVE  Kept
    <2>1. PICK h \in {"CANCELED", "SUCCEEDED", "ABORTED"}, r \in {result[g], EmptyResult} :
             Return(g, h, r)
        BY <1>12 DEF SetTerminalState, Raise
    <2>2. pc[g] = "terminal" /\ result[g] = rows[Key(g)].result
        BY <1>12 DEF SetTerminalState, IInv, Carried
    <2>3. EmptyResult \notin Results
        BY DEF EmptyResult, Results, SupervisorResults, GatewayResults
    <2> QED
        BY <1>12, <2>1, <2>2, <2>3, ReturnKeeps DEF SetTerminalState, Live
<1>13. ASSUME NEW g \in Goals, StoreRaises(g)
      PROVE  Kept
    <2>1. EmptyResult \notin Results
        BY DEF EmptyResult, Results, SupervisorResults, GatewayResults
    <2>2. Live(g) /\ Return(g, "ABORTED", EmptyResult)
        BY <1>13 DEF StoreRaises, Raise, Live
    <2> QED
        BY <1>13, <2>1, <2>2, ReturnKeeps DEF StoreRaises
<1>14. ASSUME NEW g \in Goals, Expire(g)
      PROVE  Kept
    <2> USE DEF IInv, TypeOK, Claims, Open, Carried, RepliesAreDurable, Owner, Claim,
                Waiting, Goto, Key, process, coroutine, public, supervisor, Live, NoRow
    <2>1. Claims'
        BY <1>0, <1>14 DEF Expire
    <2>2. Open'
        BY <1>0, <1>14 DEF Expire
    <2>3. Carried'
        BY <1>0, <1>14 DEF Expire
    <2>4. RepliesAreDurable'
        BY <1>0, <1>14 DEF Expire
    <2> QED
        BY <2>1, <2>2, <2>3, <2>4
<1>15. ASSUME NEW g \in Goals, RemoteStep(g)
      PROVE  Kept
    <2> USE DEF IInv, TypeOK, Claims, Open, Carried, RepliesAreDurable, Owner, Claim,
                Waiting, Key, Live, NoRow
    <2>0. /\ UNCHANGED <<rows, gateway, pc, request, result, reply>>
          /\ \A h \in Goals : (remote'[h] = "none") = (remote[h] = "none")
          /\ \A h \in Goals : remote'[h] = "done" => answer'[h] # None
        <3>0. /\ remote \in [Goals -> {"none", "sent", "executing", "rejected", "done", "lost"}]
              /\ answer \in [Goals -> SupervisorResults \cup {None}]
              /\ \A h \in Goals : remote[h] = "done" => answer[h] # None
            BY <1>0
        <3>1. UNCHANGED <<rows, gateway, pc, request, result, reply>>
            BY <1>15, RemoteSteps
        <3>2. CASE /\ remote[g] = "sent"
                   /\ \E status \in {"executing", "rejected"} :
                         remote' = [remote EXCEPT ![g] = status]
                   /\ UNCHANGED <<answer, cancelling>>
            BY <3>0, <3>1, <3>2
        <3>3. CASE /\ remote[g] = "executing"
                   /\ remote' = [remote EXCEPT ![g] = "done"]
                   /\ \E r \in SupervisorResults : answer' = [answer EXCEPT ![g] = r]
            <4>1. None \notin SupervisorResults
                BY NoneAssumption DEF Results
            <4> QED
                BY <3>0, <3>1, <3>3, <4>1
        <3> QED
            BY <1>15, <3>2, <3>3, RemoteSteps
    <2>1. Claims'
        BY <1>0, <2>0
    <2>2. Open'
        BY <1>0, <2>0
    <2>3. Carried'
        BY <1>0, <2>0
    <2>4. RepliesAreDurable'
        BY <1>0, <2>0
    <2> QED
        BY <2>1, <2>2, <2>3, <2>4
<1>18. ASSUME Crash
      PROVE  Kept
    <2> USE DEF IInv, TypeOK, Claims, Open, Carried, RepliesAreDurable, Owner, Claim,
                Waiting, Goto, Key, process, coroutine, public, supervisor, Live, NoRow
    <2>1. Claims'
        BY <1>0, <1>18 DEF Crash
    <2>2. Open'
        BY <1>0, <1>18 DEF Crash
    <2>3. Carried'
        BY <1>0, <1>18 DEF Crash
    <2>4. RepliesAreDurable'
        BY <1>0, <1>18 DEF Crash
    <2> QED
        BY <2>1, <2>2, <2>3, <2>4
<1>19. ASSUME RemoteCrash
      PROVE  Kept
    <2> USE DEF IInv, TypeOK, Claims, Open, Carried, RepliesAreDurable, Owner, Claim,
                Waiting, Goto, Key, process, coroutine, public, supervisor, Live, NoRow
    <2>1. Claims'
        BY <1>0, <1>19 DEF RemoteCrash, Server!Crash
    <2>2. Open'
        BY <1>0, <1>19 DEF RemoteCrash, Server!Crash
    <2>3. Carried'
        BY <1>0, <1>19 DEF RemoteCrash, Server!Crash
    <2>4. RepliesAreDurable'
        BY <1>0, <1>19 DEF RemoteCrash, Server!Crash
    <2> QED
        BY <2>1, <2>2, <2>3, <2>4
<1>20. ASSUME RemoteRestart \/ Serve \/ \E b \in Bundles : Restart(b)
      PROVE  Kept
    <2> USE DEF IInv, TypeOK, Claims, Open, Carried, RepliesAreDurable, Owner, Claim,
                Waiting, Goto, Key, process, coroutine, public, supervisor, Live, NoRow
    <2>1. Claims'
        BY <1>0, <1>20 DEF RemoteRestart, Server!Restart, Serve, Restart
    <2>2. Open'
        BY <1>0, <1>20 DEF RemoteRestart, Server!Restart, Serve, Restart
    <2>3. Carried'
        BY <1>0, <1>20 DEF RemoteRestart, Server!Restart, Serve, Restart
    <2>4. RepliesAreDurable'
        BY <1>0, <1>20 DEF RemoteRestart, Server!Restart, Serve, Restart
    <2> QED
        BY <2>1, <2>2, <2>3, <2>4
<1>21. ASSUME NEW k \in Keys, Reconcile(k)
      PROVE  Kept
    <2>1. /\ gateway = "recovering" /\ rows[k].result = None
          /\ UNCHANGED <<process, coroutine, public, supervisor>>
        BY <1>21 DEF Reconcile, Nonterminal
    <2> USE DEF IInv, Claims, Open, Carried, RepliesAreDurable, Owner, Claim,
                Key, process, coroutine, supervisor, Live, public, Waiting
    <2>2. /\ rows'[k].digest = rows[k].digest
          /\ \A j \in Keys \ {k} : rows'[j] = rows[j]
        BY <1>21, <1>b DEF Reconcile, TypeOK, Row
    <2>3. \A h \in Goals : pc[h] # "idle" => Key(h) \in Keys
        BY <1>b DEF TypeOK
    <2>4. Claims'
        BY <2>1, <2>2, <2>3
    <2>5. rows[k].digest # None
        BY <1>21 DEF Reconcile, Nonterminal, NoRow
    <2>6. Open'
        BY <2>1, <2>2, <2>3, <2>5
    <2>7. \A h \in Goals : reply[h] \in Results => Key(h) \in Keys /\ Key(h) # k
        BY <2>1, <2>3
    <2>8. Carried'
        BY <2>1, <2>2, <2>3
    <2>9. RepliesAreDurable'
        BY <2>1, <2>2, <2>7
    <2> QED
        BY <2>4, <2>6, <2>8, <2>9
<1>22. ASSUME UNCHANGED vars
      PROVE  Kept
    <2> USE DEF IInv, TypeOK, Claims, Open, Carried, RepliesAreDurable, Owner, Claim,
                Waiting, Goto, Key, process, coroutine, public, supervisor, Live, NoRow
    <2>1. Claims'
        BY <1>0, <1>22 DEF vars
    <2>2. Open'
        BY <1>0, <1>22 DEF vars
    <2>3. Carried'
        BY <1>0, <1>22 DEF vars
    <2>4. RepliesAreDurable'
        BY <1>0, <1>22 DEF vars
    <2> QED
        BY <2>1, <2>2, <2>3, <2>4
<1> HIDE DEF Kept
<1> QED
    BY StepCases, <1>a, <1>1, <1>2, <1>3, <1>4, <1>5, <1>6, <1>7, <1>8, <1>9, <1>10,
       <1>11, <1>12, <1>13, <1>14, <1>15, <1>18, <1>19, <1>20, <1>21, <1>22

\* The invariant holds of every behaviour.
THEOREM Invariance == Spec => []IInv
<1>1. Init => TypeOK
    BY BoundsAssumption DEF Init, TypeOK, NoRow, Row, Labels, Waiting
<1>2. Init => Claims /\ Open /\ Carried /\ RepliesAreDurable
    BY NoneAssumption
       DEF Init, Claims, Open, Carried, RepliesAreDurable, Owner, Claim, Waiting, Live
<1> QED
    BY <1>1, <1>2, InvStep, PTL DEF Spec, IInv

\* An idempotency key reaches the supervisor at most once.
THEOREM DispatchedAtMostOnce == Spec => []DispatchedOnce
<1>1. IInv => DispatchedOnce
    BY DEF IInv, Claims, Claim, DispatchedOnce
<1> QED
    BY <1>1, Invariance, PTL

\* A client is told no outcome but the one the store holds for its key.
THEOREM AnswersAreDurable == Spec => []RepliesAreDurable
<1>1. IInv => RepliesAreDurable
    BY DEF IInv
<1> QED
    BY <1>1, Invariance, PTL

-----------------------------------------------------------------------------
(* What a step does to the table and to the dispatched goals.  Only the    *)
(* actions below change either; every other one leaves both alone.         *)

\* A step records an outcome for one open key, binds one new key, sends one
\* claimed goal, marks one row RUNNING, or does nothing the store can see.
LEMMA StoreSteps ==
    ASSUME IInv, [Next]_vars
    PROVE  \/ \E g \in Goals : Prepare(g) /\ PrepareNew(g)
           \/ \E g \in Goals : SendGoal(g) \/ SeeAccepted(g) \/ Finish(g)
           \/ \E k \in Keys : Reconcile(k)
           \/ /\ UNCHANGED rows
              /\ \A g \in Goals : (remote[g] # "none")' = (remote[g] # "none")
              /\ \A g \in Goals : remote[g] # "none" => Key(g)' = Key(g)
<1> DEFINE Quiet == /\ UNCHANGED rows
                    /\ \A g \in Goals : (remote[g] # "none")' = (remote[g] # "none")
                    /\ \A g \in Goals : remote[g] # "none" => Key(g)' = Key(g)
<1> USE DEF Key, process, coroutine, public, supervisor
<1>0. TypeOK /\ Claims
    BY DEF IInv
<1>1. ASSUME NEW g \in Goals, NEW k \in Keys, NEW c \in Contents, Submit(g, k, c)
      PROVE  Quiet
    BY <1>0, <1>1 DEF Submit, TypeOK, Claims
<1>2. ASSUME NEW g \in Goals, Prepare(g), ~PrepareNew(g) PROVE Quiet
    BY <1>2 DEF Prepare, PrepareReplay, PrepareRefuse, Refuse
<1>3. ASSUME NEW g \in Goals,
             \/ RequestCancel(g) \/ ForwardCancel(g) \/ CancelAnswered(g)
             \/ DeadlinePassed(g) \/ SetTerminalState(g) \/ StoreRaises(g) \/ Expire(g)
      PROVE  Quiet
    BY <1>3 DEF RequestCancel, ForwardCancel, CancelAnswered, DeadlinePassed,
                SetTerminalState, StoreRaises, Expire
<1>4. ASSUME NEW g \in Goals,
             GiveUpDiscovery(g) \/ SeeRejected(g) \/ SeeResult(g) \/ LastCancelAnswered(g)
      PROVE  Quiet
    BY <1>4 DEF GiveUpDiscovery, SeeRejected, SeeResult, LastCancelAnswered, Forwarded
<1>5. ASSUME NEW g \in Goals, RemoteStep(g) PROVE Quiet
    BY <1>0, <1>5, RemoteSteps DEF TypeOK
<1>6. ASSUME \/ Crash \/ RemoteCrash \/ RemoteRestart \/ Serve \/ UNCHANGED vars
             \/ \E b \in Bundles : Restart(b)
      PROVE  Quiet
    BY <1>0, <1>6 DEF Crash, RemoteCrash, Server!Crash, RemoteRestart, Server!Restart,
                Serve, Restart, vars, TypeOK
<1> HIDE DEF Quiet, Key, process, coroutine, public, supervisor
<1> SUFFICES ASSUME ~Quiet
             PROVE  \/ \E g \in Goals : Prepare(g) /\ PrepareNew(g)
                    \/ \E g \in Goals : SendGoal(g) \/ SeeAccepted(g) \/ Finish(g)
                    \/ \E k \in Keys : Reconcile(k)
    BY DEF Quiet
<1> QED
    BY StepCases, <1>1, <1>2, <1>3, <1>4, <1>5, <1>6

\* The effect of the four row updates on the row they touch.
LEMMA RowEffects ==
    ASSUME IInv
    PROVE  /\ \A g \in Goals : Prepare(g) /\ PrepareNew(g) =>
                 /\ Key(g) \in Keys /\ rows[Key(g)] = NoRow
                 /\ rows'[Key(g)].digest \in Digests /\ rows'[Key(g)].result = None
                 /\ \A k \in Keys \ {Key(g)} : rows'[k] = rows[k]
           /\ \A g \in Goals : SeeAccepted(g) =>
                 /\ Key(g) \in Keys /\ rows[Key(g)].result = None
                 /\ rows'[Key(g)].digest = rows[Key(g)].digest
                 /\ rows'[Key(g)].result = None
                 /\ \A k \in Keys \ {Key(g)} : rows'[k] = rows[k]
           /\ \A g \in Goals : Finish(g) =>
                 /\ Key(g) \in Keys /\ rows[Key(g)].result = None
                 /\ rows'[Key(g)].digest = rows[Key(g)].digest
                 /\ rows'[Key(g)].result = result[g]
                 /\ \A k \in Keys \ {Key(g)} : rows'[k] = rows[k]
           /\ \A k \in Keys : Reconcile(k) =>
                 /\ rows[k].result = None /\ rows[k].digest # None
                 /\ rows'[k].digest = rows[k].digest
                 /\ rows'[k].result = "gateway.restart.outcome_unknown"
                 /\ \A j \in Keys \ {k} : rows'[j] = rows[j]
<1>0. /\ rows \in [Keys -> Row]
      /\ \A g \in Goals : pc[g] # "idle" =>
            request[g] \in [key : Keys, content : Contents]
      /\ \A g \in Goals : Owner(g) => rows[Key(g)].result = None
      /\ \A k \in Keys : rows[k].digest = None => rows[k] = NoRow
      /\ bundle \in Bundles
    BY DEF IInv, TypeOK, Open
<1>1. ASSUME NEW g \in Goals, Prepare(g), PrepareNew(g)
      PROVE  /\ Key(g) \in Keys /\ rows[Key(g)] = NoRow
             /\ rows'[Key(g)].digest \in Digests /\ rows'[Key(g)].result = None
             /\ \A k \in Keys \ {Key(g)} : rows'[k] = rows[k]
    BY <1>0, <1>1 DEF Prepare, PrepareNew, Frozen, Digests, Key
<1>2. ASSUME NEW g \in Goals, SeeAccepted(g)
      PROVE  /\ Key(g) \in Keys /\ rows[Key(g)].result = None
             /\ rows'[Key(g)].digest = rows[Key(g)].digest
             /\ rows'[Key(g)].result = None
             /\ \A k \in Keys \ {Key(g)} : rows'[k] = rows[k]
    <2>1. Owner(g) /\ Key(g) \in Keys
        BY <1>0, <1>2 DEF SeeAccepted, Owner, Waiting, Key
    <2> QED
        BY <1>0, <1>2, <2>1 DEF SeeAccepted, Row
<1>3. ASSUME NEW g \in Goals, Finish(g)
      PROVE  /\ Key(g) \in Keys /\ rows[Key(g)].result = None
             /\ rows'[Key(g)].digest = rows[Key(g)].digest
             /\ rows'[Key(g)].result = result[g]
             /\ \A k \in Keys \ {Key(g)} : rows'[k] = rows[k]
    <2>1. Key(g) \in Keys /\ rows[Key(g)].result = None
        BY <1>0, <1>3 DEF Finish, Owner, Key
    <2>2. rows' = [rows EXCEPT ![Key(g)].status = "TERMINAL", ![Key(g)].result = result[g]]
        BY <1>3, <2>1 DEF Finish
    <2> QED
        BY <1>0, <2>1, <2>2 DEF Row
<1>4. ASSUME NEW k \in Keys, Reconcile(k)
      PROVE  /\ rows[k].result = None /\ rows[k].digest # None
             /\ rows'[k].digest = rows[k].digest
             /\ rows'[k].result = "gateway.restart.outcome_unknown"
             /\ \A j \in Keys \ {k} : rows'[j] = rows[j]
    BY <1>0, <1>4 DEF Reconcile, Nonterminal, NoRow, Row
<1> QED
    BY <1>1, <1>2, <1>3, <1>4

\* A step leaves the request a key is bound to, and a row with an outcome, alone.
LEMMA OnceStep ==
    ASSUME IInv, [Next]_vars
    PROVE  \A k \in Keys : /\ rows[k].digest # None => rows'[k].digest = rows[k].digest
                           /\ rows[k].result # None => rows'[k] = rows[k]
<1> DEFINE Once == \A k \in Keys :
                      /\ rows[k].digest # None => rows'[k].digest = rows[k].digest
                      /\ rows[k].result # None => rows'[k] = rows[k]
<1>1. CASE UNCHANGED rows
    BY <1>1
<1>2. ASSUME NEW g \in Goals, Prepare(g), PrepareNew(g) PROVE Once
    BY <1>2, RowEffects DEF NoRow
<1>3. ASSUME NEW g \in Goals, SeeAccepted(g) \/ Finish(g) PROVE Once
    BY <1>3, RowEffects
<1>4. ASSUME NEW k \in Keys, Reconcile(k) PROVE Once
    BY <1>4, RowEffects
<1>5. ASSUME NEW g \in Goals, SendGoal(g) PROVE UNCHANGED rows
    BY <1>5 DEF SendGoal, Server!Submit
<1> QED
    BY StoreSteps, <1>1, <1>2, <1>3, <1>4, <1>5

\* A key's request and outcome are written once, across every crash.
THEOREM WrittenOnce == Spec => OutcomeWriteOnce
<1>1. IInv /\ [Next]_vars =>
         [\A k \in Keys : /\ rows[k].digest # None => rows'[k].digest = rows[k].digest
                          /\ rows[k].result # None => rows'[k] = rows[k]]_vars
    BY OnceStep
<1> QED
    BY <1>1, Invariance, PTL DEF Spec, OutcomeWriteOnce

-----------------------------------------------------------------------------
(* Where a success comes from. *)

\* What a step may do to a goal: a request and a reply are final, an answer
\* stands, and each way to a reply of success starts with one action.
LEMMA GoalSteps ==
    ASSUME IInv, Earned, [Next]_vars, NEW g \in Goals
    PROVE  /\ pc[g] # "idle" => request'[g] = request[g] /\ pc'[g] # "idle"
           /\ pc[g] = "returned" => pc'[g] = "returned" /\ handle'[g] = handle[g]
           /\ answer[g] # None /\ remote[g] \in {"done", "lost"} =>
                 answer'[g] = answer[g] /\ remote'[g] \in {"done", "lost"}
           /\ answer[g] = None /\ answer'[g] # None => remote'[g] = "done"
           /\ Bears(g)' => \/ Bears(g) /\ pc[g] # "idle"
                           \/ Prepare(g) /\ (PrepareNew(g) \/ PrepareReplay(g))
           /\ (pc[g] = "finish" /\ result[g] \in Successes)' =>
                 (pc[g] = "finish" /\ result[g] \in Successes) \/ SeeResult(g)
           /\ handle'[g] = "SUCCEEDED" => handle[g] = "SUCCEEDED" \/ SetTerminalState(g)
<1> DEFINE
      Stands == /\ pc[g] # "idle" => request'[g] = request[g] /\ pc'[g] # "idle"
                /\ pc[g] = "returned" => pc'[g] = "returned" /\ handle'[g] = handle[g]
                /\ answer[g] # None /\ remote[g] \in {"done", "lost"} =>
                      answer'[g] = answer[g] /\ remote'[g] \in {"done", "lost"}
                /\ answer[g] = None /\ answer'[g] # None => remote'[g] = "done"
      Arises == /\ Bears(g)' => \/ Bears(g) /\ pc[g] # "idle"
                                \/ Prepare(g) /\ (PrepareNew(g) \/ PrepareReplay(g))
                /\ (pc[g] = "finish" /\ result[g] \in Successes)' =>
                      (pc[g] = "finish" /\ result[g] \in Successes) \/ SeeResult(g)
                /\ handle'[g] = "SUCCEEDED" => handle[g] = "SUCCEEDED" \/ SetTerminalState(g)
      Done == Stands /\ Arises
<1>0. /\ TypeOK /\ Claims
      /\ handle[g] = "SUCCEEDED" => pc[g] = "returned"
      /\ remote[g] # "none" => pc[g] # "idle"
    BY DEF IInv, Earned, Claims
<1> USE DEF TypeOK, Bears, Claim, Owner, Waiting, Live, Goto, Successes,
            process, coroutine, public, supervisor
<1>1. ASSUME NEW h \in Goals, NEW k \in Keys, NEW c \in Contents, Submit(h, k, c)
      PROVE  Done
    BY <1>0, <1>1 DEF Submit
<1>2. ASSUME NEW h \in Goals, RequestCancel(h) PROVE Done
    <2>1. Stands
        BY <1>0, <1>2 DEF RequestCancel
    <2>2. Arises
        BY <1>0, <1>2 DEF RequestCancel
    <2> QED
        BY <2>1, <2>2
<1>3. ASSUME NEW h \in Goals, Prepare(h) PROVE Done
    <2>1. Stands
        BY <1>0, <1>3 DEF Prepare, PrepareNew, PrepareReplay, PrepareRefuse, Refuse, Return
    <2>2. Arises
        BY <1>0, <1>3 DEF Prepare, PrepareNew, PrepareReplay, PrepareRefuse, Refuse, Return
    <2> QED
        BY <2>1, <2>2
<1>4. ASSUME NEW h \in Goals, SendGoal(h) PROVE Done
    <2>1. Stands
        BY <1>0, <1>4 DEF SendGoal, Server!Submit
    <2>2. Arises
        BY <1>0, <1>4 DEF SendGoal, Server!Submit
    <2> QED
        BY <2>1, <2>2
<1>5. ASSUME NEW h \in Goals, GiveUpDiscovery(h) PROVE Done
    <2>1. Stands
        BY <1>0, <1>5 DEF GiveUpDiscovery, Forwarded
    <2>2. Arises
        BY <1>0, <1>5 DEF GiveUpDiscovery, Forwarded
    <2> QED
        BY <2>1, <2>2
<1>6. ASSUME NEW h \in Goals, SeeRejected(h) \/ LastCancelAnswered(h) PROVE Done
    <2>1. Stands
        BY <1>0, <1>6 DEF SeeRejected, LastCancelAnswered, Forwarded
    <2>2. Arises
        BY <1>0, <1>6 DEF SeeRejected, LastCancelAnswered, Forwarded
    <2> QED
        BY <2>1, <2>2
<1>7. ASSUME NEW h \in Goals, SeeAccepted(h) PROVE Done
    <2>1. Stands
        BY <1>0, <1>7 DEF SeeAccepted
    <2>2. Arises
        BY <1>0, <1>7 DEF SeeAccepted
    <2> QED
        BY <2>1, <2>2
<1>8. ASSUME NEW h \in Goals, SeeResult(h) PROVE Done
    <2>1. Stands
        BY <1>0, <1>8 DEF SeeResult, Forwarded
    <2>2. Arises
        BY <1>0, <1>8 DEF SeeResult, Forwarded
    <2> QED
        BY <2>1, <2>2
<1>9. ASSUME NEW h \in Goals, ForwardCancel(h) \/ DeadlinePassed(h) PROVE Done
    <2>1. Stands
        BY <1>0, <1>9 DEF ForwardCancel, DeadlinePassed
    <2>2. Arises
        BY <1>0, <1>9 DEF ForwardCancel, DeadlinePassed
    <2> QED
        BY <2>1, <2>2
<1>10. ASSUME NEW h \in Goals, CancelAnswered(h) PROVE Done
    <2>1. Stands
        BY <1>0, <1>10 DEF CancelAnswered
    <2>2. Arises
        BY <1>0, <1>10 DEF CancelAnswered
    <2> QED
        BY <2>1, <2>2
<1>11. ASSUME NEW h \in Goals, Finish(h) PROVE Done
    <2>1. Stands
        BY <1>0, <1>11 DEF Finish, Return
    <2>2. Arises
        BY <1>0, <1>11 DEF Finish, Return
    <2> QED
        BY <2>1, <2>2
<1>12. ASSUME NEW h \in Goals, SetTerminalState(h) PROVE Done
    <2>1. Stands
        BY <1>0, <1>12 DEF SetTerminalState, Raise, Return
    <2>2. Arises
        BY <1>0, <1>12 DEF SetTerminalState, Raise, Return
    <2> QED
        BY <2>1, <2>2
<1>13. ASSUME NEW h \in Goals, StoreRaises(h) PROVE Done
    <2>1. Stands
        BY <1>0, <1>13 DEF StoreRaises, Raise, Return
    <2>2. Arises
        BY <1>0, <1>13 DEF StoreRaises, Raise, Return
    <2> QED
        BY <2>1, <2>2
<1>14. ASSUME NEW h \in Goals, Expire(h) PROVE Done
    <2>1. Stands
        BY <1>0, <1>14 DEF Expire
    <2>2. Arises
        BY <1>0, <1>14 DEF Expire
    <2> QED
        BY <2>1, <2>2
<1>15. ASSUME NEW h \in Goals, RemoteStep(h) PROVE Done
    <2>1. UNCHANGED <<pc, request, result, handle>>
        BY <1>15, RemoteSteps
    <2>2. CASE /\ remote[h] = "sent"
               /\ \E status \in {"executing", "rejected"} :
                     remote' = [remote EXCEPT ![h] = status]
               /\ UNCHANGED <<answer, cancelling>>
        BY <1>0, <2>1, <2>2
    <2>3. CASE /\ remote[h] = "executing"
               /\ remote' = [remote EXCEPT ![h] = "done"]
               /\ \E r \in SupervisorResults : answer' = [answer EXCEPT ![h] = r]
        BY <1>0, <2>1, <2>3
    <2> QED
        BY <1>15, <2>2, <2>3, RemoteSteps
<1>16. ASSUME \/ Crash \/ RemoteCrash \/ RemoteRestart \/ Serve \/ UNCHANGED vars
              \/ (\E b \in Bundles : Restart(b)) \/ (\E k \in Keys : Reconcile(k))
      PROVE  Done
    <2>1. CASE Crash
        BY <1>0, <2>1 DEF Crash
    <2>2. CASE RemoteCrash
        BY <1>0, <2>2 DEF RemoteCrash, Server!Crash
    <2>3. CASE \/ RemoteRestart \/ Serve \/ UNCHANGED vars
               \/ (\E b \in Bundles : Restart(b)) \/ (\E k \in Keys : Reconcile(k))
        BY <1>0, <2>3 DEF RemoteRestart, Server!Restart, Serve, Restart, Reconcile, vars
    <2> QED
        BY <1>16, <2>1, <2>2, <2>3
<1> HIDE DEF Done, Stands, Arises, TypeOK, Bears, Claim, Owner, Waiting, Live, Goto, Successes,
             process, coroutine, public, supervisor
<1>17. ASSUME NEW h \in Goals,
              \/ RequestCancel(h) \/ Prepare(h) \/ SendGoal(h) \/ GiveUpDiscovery(h)
              \/ SeeRejected(h) \/ SeeAccepted(h) \/ SeeResult(h) \/ ForwardCancel(h)
              \/ CancelAnswered(h) \/ DeadlinePassed(h) \/ LastCancelAnswered(h)
              \/ Finish(h) \/ SetTerminalState(h) \/ StoreRaises(h) \/ Expire(h)
              \/ RemoteStep(h)
       PROVE  Done
    BY <1>2, <1>3, <1>4, <1>5, <1>6, <1>7, <1>8, <1>9, <1>10, <1>11, <1>12, <1>13,
       <1>14, <1>15, <1>17
<1>18. ASSUME \E h \in Goals, k \in Keys, c \in Contents : Submit(h, k, c) PROVE Done
    BY <1>1, <1>18
<1>19. Done
    BY StepCases, <1>16, <1>17, <1>18
<1> QED
    BY <1>19 DEF Done, Stands, Arises

\* A step keeps what the replies of success rest on.
LEMMA EarnedStep == IInv /\ Earned /\ [Next]_vars => Earned'
<1> SUFFICES ASSUME IInv, Earned, [Next]_vars PROVE Earned'
    OBVIOUS
<1>0. /\ TypeOK /\ Open /\ Carried /\ IInv'
      /\ \A g \in Goals : pc[g] # "idle" => Key(g) \in Keys
    BY InvStep DEF IInv, TypeOK, Key
<1>1. \A g \in Goals : answer'[g] # None => remote'[g] \in {"done", "lost"}
    BY GoalSteps DEF Earned
<1>2. ASSUME NEW g \in Goals, Bears(g)'
      PROVE  (rows[Key(g)].digest # None /\ rows[Key(g)].digest[2] = request[g].content)'
    <2>1. CASE Bears(g) /\ pc[g] # "idle"
        <3>1. rows[Key(g)].digest # None /\ rows[Key(g)].digest[2] = request[g].content
            BY <2>1 DEF Earned
        <3>2. request'[g] = request[g] /\ rows'[Key(g)].digest = rows[Key(g)].digest
            BY <1>0, <2>1, <3>1, GoalSteps, OnceStep
        <3> QED
            BY <3>1, <3>2 DEF Key
    <2>2. CASE Prepare(g) /\ PrepareNew(g)
        <3>1. Key(g)' = Key(g) /\ request'[g] = request[g] /\ Key(g) \in Keys
            BY <1>0, <2>2 DEF Prepare, Key
        <3>2. rows'[Key(g)].digest = Frozen(g) /\ rows'[Key(g)].digest \in Digests
            BY <1>0, <2>2, <3>1, RowEffects, ZenonT(60) DEF PrepareNew, TypeOK
        <3> QED
            BY <3>1, <3>2, NoneAssumption DEF Frozen
    <2>3. CASE Prepare(g) /\ PrepareReplay(g)
        <3>1. request'[g] = request[g] /\ UNCHANGED rows
            BY <2>3 DEF Prepare, PrepareReplay
        <3>2. rows[Key(g)].digest = Frozen(g) /\ Frozen(g) \in Digests
            BY <1>0, <2>3 DEF Prepare, PrepareReplay, Matches, Frozen, Digests, TypeOK
        <3> QED
            BY <3>1, <3>2, NoneAssumption DEF Frozen, Key
    <2> QED
        BY <1>2, <2>1, <2>2, <2>3, GoalSteps
<1>3. ASSUME NEW g \in Goals, (pc[g] = "finish" /\ result[g] \in Successes)'
      PROVE  answer'[g] = "supervisor.job.completed"
    <2>1. CASE pc[g] = "finish" /\ result[g] \in Successes
        <3>1. answer[g] = "supervisor.job.completed" /\ remote[g] \in {"done", "lost"}
            BY <2>1, NoneAssumption DEF Earned, Results, SupervisorResults
        <3> QED
            BY <3>1, GoalSteps, NoneAssumption DEF Results, SupervisorResults
    <2>2. CASE SeeResult(g)
        BY <1>0, <1>3, <2>2 DEF SeeResult, Forwarded, supervisor, TypeOK, Successes
    <2> QED
        BY <1>3, <2>1, <2>2, GoalSteps
<1>4. ASSUME NEW k \in Keys, rows'[k].result \in Successes
      PROVE  \E h \in Goals : Key(h)' = k /\ answer'[h] = "supervisor.job.completed"
    <2>1. ASSUME NEW h \in Goals, Key(h) = k, answer[h] = "supervisor.job.completed"
          PROVE  Key(h)' = k /\ answer'[h] = "supervisor.job.completed"
        <3>1. remote[h] \in {"done", "lost"} /\ answer[h] # None
            BY <2>1, NoneAssumption DEF Earned, Results, SupervisorResults
        <3>2. pc[h] # "idle"
            BY <3>1 DEF IInv, Claims
        <3> QED
            BY <2>1, <3>1, <3>2, GoalSteps DEF Key
    <2>2. CASE rows[k].result \in Successes
        BY <2>1, <2>2 DEF Earned
    <2>3. ASSUME NEW g \in Goals, Finish(g), k = Key(g) PROVE \E h \in Goals :
                    Key(h) = k /\ answer[h] = "supervisor.job.completed"
        <3>1. result[g] \in Successes /\ pc[g] = "finish"
            BY <1>4, <2>3, RowEffects DEF Finish
        <3> QED
            BY <2>3, <3>1 DEF Earned
    <2>4. \/ rows'[k].result = rows[k].result \/ rows'[k].result = None
          \/ rows'[k].result = "gateway.restart.outcome_unknown"
          \/ \E g \in Goals : Finish(g) /\ k = Key(g)
        <3>1. ASSUME NEW g \in Goals, SendGoal(g) PROVE UNCHANGED rows
            BY <3>1 DEF SendGoal
        <3> QED
            BY <3>1, StoreSteps, RowEffects
    <2> QED
        BY <1>4, <2>1, <2>2, <2>3, <2>4, NoneAssumption DEF Successes, Results, SupervisorResults
<1>5. ASSUME NEW g \in Goals, handle'[g] = "SUCCEEDED"
      PROVE  pc'[g] = "returned" /\ rows'[Key(g)'].result \in Successes
    <2>1. CASE handle[g] = "SUCCEEDED"
        <3>1. pc[g] = "returned" /\ rows[Key(g)].result \in Successes
            BY <2>1 DEF Earned
        <3>2. rows[Key(g)].result # None
            BY <3>1, NoneAssumption DEF Successes, Results, SupervisorResults
        <3> QED
            BY <1>0, <3>1, <3>2, GoalSteps, OnceStep DEF Key
    <2>2. CASE SetTerminalState(g)
        <3>1. pc[g] = "terminal" /\ UNCHANGED <<rows, request>>
            BY <2>2 DEF SetTerminalState
        <3>2. result[g] \in Successes /\ pc'[g] = "returned"
            BY <1>0, <1>5, <2>2 DEF SetTerminalState, Return, Raise, Goto, TypeOK
        <3> QED
            BY <1>0, <3>1, <3>2 DEF Carried, Key
    <2> QED
        BY <1>5, <2>1, <2>2, GoalSteps
<1> QED
    BY <1>1, <1>2, <1>3, <1>4, <1>5 DEF Earned

\* A reply of success implies a job completed for exactly this request.
THEOREM RepliedSuccessIsEarned == Spec => []SuccessIsEarned
<1>1. Init => Earned
    BY NoneAssumption DEF Init, Earned, NoRow, Bears, Claim, Owner, Waiting, Successes,
                          Results, SupervisorResults
<1>2. IInv /\ Earned => SuccessIsEarned
    <2> SUFFICES ASSUME IInv, Earned, NEW g \in Goals, handle[g] = "SUCCEEDED"
                 PROVE  \E h \in Goals : /\ answer[h] = "supervisor.job.completed"
                                          /\ request[h] = request[g]
                                          /\ rows[Key(g)].digest[2] = request[g].content
        BY DEF SuccessIsEarned
    <2>1. /\ pc[g] = "returned" /\ rows[Key(g)].result \in Successes
          /\ rows[Key(g)].digest[2] = request[g].content
        BY DEF Earned, Bears
    <2>2. request[g] \in [key : Keys, content : Contents]
        BY <2>1 DEF IInv, TypeOK
    <2>3. PICK h \in Goals : Key(h) = Key(g) /\ answer[h] = "supervisor.job.completed"
        BY <2>1, <2>2 DEF Earned, Key
    <2>4. remote[h] \in {"done", "lost"}
        BY <2>3, NoneAssumption DEF Earned, Results, SupervisorResults
    <2>5. rows[Key(h)].digest[2] = request[h].content /\ pc[h] # "idle"
        BY <2>4 DEF Earned, Bears, Claim, IInv, Claims
    <2>6. request[h] \in [key : Keys, content : Contents]
        BY <2>5 DEF IInv, TypeOK
    <2>7. request[h] = request[g]
        <3>1. request[h].content = request[g].content
            BY <2>1, <2>3, <2>5
        <3>2. request[h].key = request[g].key
            BY <2>3 DEF Key
        <3> QED
            BY <2>2, <2>6, <3>1, <3>2
    <2> QED
        BY <2>1, <2>3, <2>7
<1> QED
    BY <1>1, <1>2, EarnedStep, Invariance, PTL DEF Spec

-----------------------------------------------------------------------------
(* Refinement: the store and the forwarded goals implement the job service. *)

DispatchedKeys == [k \in Keys |-> \E g \in Goals : Key(g) = k /\ remote[g] # "none"]
DigestOf == [k \in Keys |-> rows[k].digest]
OutcomeOf == [k \in Keys |-> rows[k].result]

\* A step that keeps every forwarded goal and its key dispatches nothing.
LEMMA NothingDispatched ==
    ASSUME \A g \in Goals : (remote[g] # "none")' = (remote[g] # "none"),
           \A g \in Goals : remote[g] # "none" => Key(g)' = Key(g)
    PROVE  UNCHANGED DispatchedKeys
BY DEF DispatchedKeys

\* The gateway implements the abstract job service.
THEOREM Refinement == Spec => ImplementsService
<1> USE DEF DispatchedKeys, DigestOf, OutcomeOf
<1>1. Init => Service!Init
    BY DEF Init, Service!Init, NoRow
<1>2. ASSUME IInv, [Next]_vars
      PROVE  [Service!Next]_(Service!service)
    <2>0. TypeOK /\ Claims /\ Carried /\ Open
        BY <1>2 DEF IInv
    <2>1. ASSUME NEW g \in Goals, Prepare(g), PrepareNew(g) PROVE Service!Next
        <3>1. /\ Key(g) \in Keys /\ rows[Key(g)] = NoRow
              /\ rows'[Key(g)].digest \in Digests /\ rows'[Key(g)].result = None
              /\ \A k \in Keys \ {Key(g)} : rows'[k] = rows[k]
            BY <1>2, <2>1, RowEffects
        <3>2. UNCHANGED <<remote, request>>
            BY <2>1 DEF Prepare, supervisor
        <3>3. UNCHANGED DispatchedKeys
            BY <3>2 DEF Key
        <3>4. DigestOf[Key(g)] = None
            BY <3>1 DEF NoRow
        <3>5. DigestOf' = [DigestOf EXCEPT ![Key(g)] = rows'[Key(g)].digest]
            BY <3>1
        <3>6. UNCHANGED OutcomeOf
            BY <3>1 DEF NoRow
        <3>7. PICK k \in Keys, d \in Digests : k = Key(g) /\ d = rows'[Key(g)].digest
            BY <3>1
        <3>8. Service!Register(k, d)
            BY <3>3, <3>4, <3>5, <3>6, <3>7 DEF Service!Register
        <3> QED
            BY <3>8 DEF Service!Next
    <2>2. ASSUME NEW g \in Goals, SendGoal(g) PROVE Service!Next
        <3>1. Key(g) \in Keys /\ Claim(g) /\ remote[g] = "none"
            BY <2>0, <2>2 DEF SendGoal, Server!Submit, TypeOK, Claims, Claim, Owner, Waiting, Key
        <3>2. DigestOf[Key(g)] # None /\ OutcomeOf[Key(g)] = None
            BY <2>0, <3>1, <2>2 DEF Claims, Open, Owner, Waiting, SendGoal, Server!Submit
        <3>3. ~DispatchedKeys[Key(g)]
            BY <2>0, <3>1 DEF Claims, Claim
        <3>4. /\ UNCHANGED <<rows, request>>
              /\ remote' = [remote EXCEPT ![g] = "sent"]
            BY <2>2 DEF SendGoal, Server!Submit
        <3>5. DispatchedKeys' = [DispatchedKeys EXCEPT ![Key(g)] = TRUE]
            BY <2>0, <3>1, <3>4 DEF TypeOK, Key
        <3>6. UNCHANGED <<DigestOf, OutcomeOf>>
            BY <3>4
        <3>7. PICK k \in Keys : k = Key(g)
            BY <3>1
        <3>8. Service!Dispatch(k)
            BY <3>2, <3>3, <3>5, <3>6, <3>7 DEF Service!Dispatch
        <3> QED
            BY <3>8 DEF Service!Next
    <2>3. ASSUME NEW g \in Goals, SeeAccepted(g) PROVE UNCHANGED Service!service
        <3>1. /\ Key(g) \in Keys /\ rows[Key(g)].result = None
              /\ rows'[Key(g)].digest = rows[Key(g)].digest
              /\ rows'[Key(g)].result = None
              /\ \A k \in Keys \ {Key(g)} : rows'[k] = rows[k]
            BY <1>2, <2>3, RowEffects
        <3>2. UNCHANGED <<remote, request>>
            BY <2>3 DEF SeeAccepted, supervisor
        <3>3. UNCHANGED <<DigestOf, DispatchedKeys, OutcomeOf>>
            BY <3>1, <3>2 DEF Key
        <3> QED
            BY <3>3 DEF Service!service
    <2>4. ASSUME NEW g \in Goals, Finish(g) PROVE Service!Next
        <3>1. /\ Key(g) \in Keys /\ rows[Key(g)].result = None
              /\ rows'[Key(g)].digest = rows[Key(g)].digest
              /\ rows'[Key(g)].result = result[g]
              /\ \A k \in Keys \ {Key(g)} : rows'[k] = rows[k]
            BY <1>2, <2>4, RowEffects
        <3>2. /\ result[g] \in Results
              /\ result[g] \in Successes => remote[g] # "none"
              /\ rows[Key(g)].digest # None
            BY <2>0, <2>4 DEF Finish, Carried, TypeOK, Claims, Claim, Owner
        <3>3. UNCHANGED <<remote, request>>
            BY <2>4 DEF Finish, supervisor
        <3>4. UNCHANGED <<DigestOf, DispatchedKeys>>
            BY <3>1, <3>3 DEF Key
        <3>5. OutcomeOf' = [OutcomeOf EXCEPT ![Key(g)] = result[g]]
            BY <3>1
        <3>6. result[g] \in Successes => DispatchedKeys[Key(g)]
            BY <3>1, <3>2
        <3>7. PICK k \in Keys, o \in Results : k = Key(g) /\ o = result[g]
            BY <3>1, <3>2
        <3>8. Service!Resolve(k, o)
            BY <3>1, <3>2, <3>4, <3>5, <3>6, <3>7 DEF Service!Resolve
        <3> QED
            BY <3>8 DEF Service!Next
    <2>5. ASSUME NEW k \in Keys, Reconcile(k) PROVE Service!Next
        <3>0. PICK o \in Results : o = "gateway.restart.outcome_unknown"
            BY DEF Results, GatewayResults
        <3>1. /\ rows[k].result = None /\ rows[k].digest # None
              /\ rows'[k].digest = rows[k].digest
              /\ rows'[k].result = o
              /\ \A j \in Keys \ {k} : rows'[j] = rows[j]
            BY <1>2, <2>5, <3>0, RowEffects
        <3>2. UNCHANGED <<remote, request>>
            BY <2>5 DEF Reconcile, supervisor, coroutine
        <3>3. UNCHANGED <<DigestOf, DispatchedKeys>>
            BY <3>1, <3>2 DEF Key
        <3>4. OutcomeOf' = [OutcomeOf EXCEPT ![k] = o]
            BY <3>1
        <3>5. o \notin Successes
            BY <3>0 DEF Successes
        <3>6. Service!Resolve(k, o)
            BY <3>1, <3>3, <3>4, <3>5 DEF Service!Resolve
        <3> QED
            BY <3>6 DEF Service!Next
    <2>6. ASSUME UNCHANGED rows,
                 \A g \in Goals : (remote[g] # "none")' = (remote[g] # "none"),
                 \A g \in Goals : remote[g] # "none" => Key(g)' = Key(g)
          PROVE  UNCHANGED Service!service
        <3>1. UNCHANGED <<DigestOf, DispatchedKeys, OutcomeOf>>
            BY <2>6, NothingDispatched
        <3> QED
            BY <3>1 DEF Service!service
    <2> QED
        BY <1>2, StoreSteps, <2>1, <2>2, <2>3, <2>4, <2>5, <2>6
<1> QED
    BY <1>1, <1>2, Invariance, PTL DEF Spec, Service!Spec, ImplementsService

-----------------------------------------------------------------------------
(* The other side of the gateway: what it relies on the supervisor for.     *)

\* A dead supervisor holds no goal that it could still accept or answer.
Deserted == supervisorUp \/ \A g \in Goals : remote[g] \notin {"sent", "executing"}

\* What any step of the gateway and its environment does to the supervisor.
LEMMA ServerSteps ==
    ASSUME TypeOK, Deserted, [Next]_vars
    PROVE  [Server!Next]_(Server!server)
<1> USE DEF Server!server
<1>1. ASSUME NEW g \in Goals, SendCancel(g), UNCHANGED <<remote, answer, supervisorUp>>
      PROVE  [Server!Next]_(Server!server)
    <2>1. CASE remote[g] = "executing"
        <3>1. supervisorUp
            BY <2>1 DEF Deserted
        <3>2. cancelling' = [cancelling EXCEPT ![g] = TRUE]
            BY <1>1, <2>1 DEF SendCancel
        <3>3. Server!Cancel(g)
            BY <1>1, <2>1, <3>1, <3>2 DEF Server!Cancel
        <3> QED
            BY <3>3 DEF Server!Next
    <2>2. CASE remote[g] # "executing"
        <3>1. cancelling \in [Goals -> BOOLEAN]
            BY DEF TypeOK
        <3>2. UNCHANGED cancelling
            BY <1>1, <2>2, <3>1 DEF SendCancel
        <3> QED
            BY <1>1, <3>2
    <2> QED
        BY <2>1, <2>2
<1>2. ASSUME NEW g \in Goals, Execute(g) PROVE [Server!Next]_(Server!server)
    <2>1. CASE SendGoal(g)
        BY <2>1 DEF SendGoal, Server!Next
    <2>2. CASE ForwardCancel(g)
        BY <1>1, <2>2 DEF ForwardCancel
    <2>3. CASE CancelAnswered(g)
        <3>1. CASE overdue[g]
            BY <1>1, <2>3, <3>1 DEF CancelAnswered
        <3>2. CASE ~overdue[g]
            BY <2>3, <3>2 DEF CancelAnswered
        <3> QED
            BY <3>1, <3>2
    <2>4. CASE DeadlinePassed(g)
        BY <1>1, <2>4 DEF DeadlinePassed
    <2>5. CASE Prepare(g) \/ GiveUpDiscovery(g) \/ SeeRejected(g) \/ SeeAccepted(g)
        BY <2>5 DEF Prepare, GiveUpDiscovery, SeeRejected, SeeAccepted, supervisor
    <2>6. CASE SeeResult(g) \/ LastCancelAnswered(g) \/ Finish(g) \/ SetTerminalState(g)
        BY <2>6 DEF SeeResult, LastCancelAnswered, Finish, SetTerminalState, supervisor
    <2> QED
        BY <1>2, <2>1, <2>2, <2>3, <2>4, <2>5, <2>6 DEF Execute
<1>3. ASSUME NEW g \in Goals, RemoteStep(g) PROVE Server!Next
    BY <1>3 DEF RemoteStep, Server!Next
<1>4. CASE RemoteCrash \/ RemoteRestart
    BY <1>4 DEF RemoteCrash, RemoteRestart, Server!Next
<1>5. ASSUME NEW g \in Goals,
             \/ \E k \in Keys, c \in Contents : Submit(g, k, c)
             \/ RequestCancel(g) \/ StoreRaises(g) \/ Expire(g)
      PROVE  UNCHANGED Server!server
    BY <1>5 DEF Submit, RequestCancel, StoreRaises, Expire, supervisor
<1>6. CASE \/ Crash \/ Serve
           \/ \E b \in Bundles : Restart(b)
           \/ \E k \in Keys : Reconcile(k)
    BY <1>6 DEF Crash, Serve, Restart, Reconcile, supervisor
<1>7. CASE UNCHANGED vars
    BY <1>7 DEF vars
<1> QED
    BY <1>2, <1>3, <1>4, <1>5, <1>6, <1>7 DEF Next

\* Every step of an action server leaves no work with a dead process.
LEMMA DesertedStep ==
    ASSUME TypeOK, Deserted, [Server!Next]_(Server!server)
    PROVE  Deserted'
<1>0. remote \in [Goals -> {"none", "sent", "executing", "rejected", "done", "lost"}]
    BY DEF TypeOK
<1>1. CASE UNCHANGED Server!server
    BY <1>1 DEF Deserted, Server!server
<1>2. CASE Server!Crash
    BY <1>0, <1>2 DEF Deserted, Server!Crash
<1>3. CASE Server!Restart
    BY <1>3 DEF Deserted, Server!Restart
<1>4. ASSUME NEW g \in Goals,
             \/ Server!Submit(g) \/ Server!Accept(g) \/ Server!Reject(g) \/ Server!Cancel(g)
             \/ \E c \in SupervisorResults : Server!Finish(g, c)
      PROVE  supervisorUp'
    BY <1>4 DEF Server!Submit, Server!Accept, Server!Reject, Server!Cancel, Server!Finish
<1> QED
    BY <1>1, <1>2, <1>3, <1>4 DEF Deserted, Server!Next

\* The gateway asks nothing of the supervisor but what an action server offers
\* its clients (send_goal_async, cancel_goal_async, get_result_async in
\* _forward): the world the gateway lives in is the contract that the
\* supervisor node is proved to implement.
THEOREM ReliesOnServer == Spec => Server!Spec
<1>1. Init => Server!Init /\ Deserted
    BY DEF Init, Server!Init, Deserted
<1>2. ASSUME TypeOK, Deserted, [Next]_vars
      PROVE  Deserted' /\ [Server!Next]_(Server!server)
    BY <1>2, ServerSteps, DesertedStep
<1> QED
    BY <1>1, <1>2, TypeCorrect, PTL DEF Spec, Server!Spec
============================================================================
