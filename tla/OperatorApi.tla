----------------------------- MODULE OperatorApi -----------------------------
(***************************************************************************)
(* The operator API of a cell: OperatorService journals each mutation      *)
(* around a call of RosRuntimePort, which blocks a worker thread.  Three   *)
(* parties share a request: its coroutine on the event loop, which waits   *)
(* with a deadline, the thread, which goes on when the coroutine has given *)
(* up and is told so by the cancel event, and the cell, of which only what *)
(* ActionServer promises is assumed.  A step of the coroutine between two  *)
(* awaits is one action, with its journal writes.                          *)
(***************************************************************************)
EXTENDS Naturals, Sequences, FiniteSets

CONSTANTS Submissions, Cancels, Recoveries, \* HTTP requests
          Codes,      \* result codes of the gateway: "ok", "failed", "cancelled", "unknown"
          JobOf,      \* the job that a submission or a cancel names
          Workers,    \* threads of the default executor
          MaxFaults,  \* bound on failing journal writes
          MaxRequests, \* bound on the requests that arrive
          None

Requests == Submissions \cup Cancels \cup Recoveries
Jobs == {JobOf[r] : r \in Submissions \cup Cancels}

\* OperationResult.outcome_certain, and the failures that are no answer of the cell.
CertainCodes == {"ok", "failed", "cancelled", "rejected", "unavailable", "not_active", "accepted", "refused"}
Returns == CertainCodes \cup {"unknown", "cancel_requested", "cancel_accepted", "cancel_rejected",
                              "failure"}
Replies == Returns \cup {"timeout", "denied", "gone", "journal"}

\* A request is of one kind, and the gateway answers with what it knows.
AreRequests ==
    /\ Submissions \cap (Cancels \cup Recoveries) = {} /\ Cancels \cap Recoveries = {}
    /\ Codes \subseteq {"ok", "failed", "cancelled", "unknown"} /\ None \notin Replies
    /\ Workers \in Nat \ {0} /\ MaxFaults \in Nat

ASSUME RequestsAssumption == AreRequests

VARIABLES
    goal, answer, cancelling, up, \* the job gateway, see ActionServer
    ran,       \* whether the supervisor has run a submission's job
    events, told, \* job events and cell states on their way
    service,   \* the operator-action service, per recovery
    http, reply, \* the coroutines and what they answered
    thread, result, \* their threads, and a return the coroutine has not taken
    signalled, \* requests whose cancel event is set
    asked,     \* cancel requests sent for a goal
    journal, faults, \* outcomes recorded for each request; writes that failed
    handles, active  \* the goal handle of each job, the job on display

gateway == <<goal, answer, cancelling, up>>
cell == <<gateway, ran, events, told, service>>
coroutines == <<http, reply, journal, faults>>
display == <<handles, active>>
apiVars == <<cell, http, reply, thread, result, signalled, asked, journal, faults, display>>

Gateway == INSTANCE ActionServer WITH Goals <- Submissions, CancelledCodes <- {"cancelled"}

Outcomes == {"REQUESTED", "COMPLETED", "FAILED", "TIMED_OUT", "CANCELLED", "DENIED"}

ApiTypeOK ==
    /\ goal \in [Submissions -> {"none", "sent", "executing", "rejected", "done"}]
    /\ answer \in [Submissions -> Codes \cup {None}]
    /\ cancelling \in [Submissions -> BOOLEAN] /\ up \in BOOLEAN
    /\ events \in Seq([started : BOOLEAN, job : Jobs]) /\ told \subseteq Jobs \cup {None}
    /\ ran \in [Submissions -> {"no", "running", "ended"}]
    /\ service \in [Recoveries -> {"idle", "called", "accepted", "refused"}]
    /\ http \in [Requests -> {"new", "waiting", "answered"}]
    /\ thread \in [Requests -> {"none", "queued", "server", "response", "result", "done"}]
    /\ reply \in [Requests -> Replies \cup {None}]
    /\ result \in [Requests -> Returns \cup {None}]
    /\ signalled \subseteq Requests
    /\ asked \in [Submissions -> {"no", "asked", "accepted", "refused"}]
    /\ journal \in [Requests -> Seq(Outcomes)]
    /\ faults \in 0..MaxFaults
    /\ handles \in [Jobs -> Submissions \cup {None}]
    /\ active \in Jobs \cup {None}

ApiInit ==
    /\ Gateway!Init /\ goal = [s \in Submissions |-> "none"]
    /\ ran = [s \in Submissions |-> "no"]
    /\ events = << >>
    /\ told = {}
    /\ service = [r \in Recoveries |-> "idle"]
    /\ http = [r \in Requests |-> "new"]
    /\ reply = [r \in Requests |-> None]
    /\ thread = [r \in Requests |-> "none"]
    /\ result = [r \in Requests |-> None]
    /\ signalled = {}
    /\ asked = [s \in Submissions |-> "no"]
    /\ journal = [r \in Requests |-> << >>]
    /\ faults = 0
    /\ handles = [j \in Jobs |-> None]
    /\ active = None

-----------------------------------------------------------------------------
(* The event loop. *)

Journal(r, outcome) == journal' = [journal EXCEPT ![r] = Append(@, outcome)] /\ UNCHANGED faults

\* A write fails, and _audited_error tries to record the error as a denial.
JournalFails(r) ==
    \/ /\ faults + 1 <= MaxFaults /\ faults' = faults + 1
       /\ journal' = [journal EXCEPT ![r] = Append(@, "DENIED")]
    \/ /\ faults + 2 <= MaxFaults /\ faults' = faults + 2
       /\ UNCHANGED journal

Arrives(r) == http[r] = "new" /\ Cardinality({q \in Requests : http[q] # "new"}) < MaxRequests

Answer(r, code) ==
    /\ http' = [http EXCEPT ![r] = "answered"]
    /\ reply' = [reply EXCEPT ![r] = code]

\* The terminal entry comes before the response; without it there is only an error.
Conclude(r, outcome, code) ==
    \/ Journal(r, outcome) /\ Answer(r, code)
    \/ JournalFails(r) /\ Answer(r, "journal")

\* Bad credentials, input, role, or a recovery for a fault the cell does not show.
Deny(r) ==
    /\ Arrives(r)
    /\ Answer(r, "denied")
    /\ \/ Journal(r, "DENIED")
       \/ faults < MaxFaults /\ faults' = faults + 1 /\ UNCHANGED journal
    /\ UNCHANGED <<cell, thread, result, signalled, asked, display>>

Enqueue(r) ==
    /\ http' = [http EXCEPT ![r] = "waiting"]
    /\ thread' = [thread EXCEPT ![r] = "queued"]
    /\ UNCHANGED reply

\* Mutant: the operation goes on without its REQUESTED entry.
DispatchAnyway(r) ==
    /\ Arrives(r)
    /\ Journal(r, "REQUESTED") \/ (faults < MaxFaults /\ faults' = faults + 1 /\ UNCHANGED journal)
    /\ Enqueue(r)
    /\ UNCHANGED <<cell, result, signalled, asked, display>>

\* _mutate up to its await.
Dispatch(r) ==
    /\ Arrives(r)
    /\ \/ Journal(r, "REQUESTED") /\ Enqueue(r)
       \/ JournalFails(r) /\ Answer(r, "journal") /\ UNCHANGED thread
    /\ UNCHANGED <<cell, result, signalled, asked, display>>

Taken(r) == result' = [result EXCEPT ![r] = None]

\* The thread's result reaches the loop before the deadline does.
Complete(r) ==
    /\ http[r] = "waiting" /\ thread[r] = "done"
    /\ Conclude(r, IF result[r] \in {"ok", "accepted", "cancel_accepted"} THEN "COMPLETED" ELSE "FAILED",
                result[r])
    /\ Taken(r)
    /\ UNCHANGED <<cell, thread, signalled, asked, display>>

\* A work item that no thread has taken is cancelled with its coroutine.
Withdraw(r) == thread' = [thread EXCEPT ![r] = IF @ = "queued" THEN "done" ELSE @]

Timeout(r) ==
    /\ http[r] = "waiting"
    /\ signalled' = signalled \cup {r}
    /\ Withdraw(r)
    /\ Conclude(r, "TIMED_OUT", "timeout")
    /\ Taken(r)
    /\ UNCHANGED <<cell, asked, display>>

\* The caller is gone, or the server stops.
Abandon(r) ==
    /\ http[r] = "waiting"
    /\ signalled' = signalled \cup {r}
    /\ Withdraw(r)
    /\ Conclude(r, "CANCELLED", "gone")
    /\ Taken(r)
    /\ UNCHANGED <<cell, asked, display>>

-----------------------------------------------------------------------------
(* The worker threads.  Each deadline may pass whenever a thread looks. *)

Busy == {r \in Requests : thread[r] \in {"server", "response", "result"}}

\* What a thread returns to a request that was given up is dropped.
Return(r, code) ==
    /\ thread' = [thread EXCEPT ![r] = "done"]
    /\ result' = [result EXCEPT ![r] = IF http[r] = "waiting" THEN code ELSE None]

Proceed(r, stage) == thread' = [thread EXCEPT ![r] = stage] /\ UNCHANGED result

\* _cancel_blocking looks for the handle at once.
StartThread(r) ==
    /\ thread[r] = "queued"
    /\ Cardinality(Busy) < Workers
    /\ \/ r \notin Cancels /\ Proceed(r, "server") /\ UNCHANGED asked
       \/ /\ r \in Cancels /\ handles[JobOf[r]] = None
          /\ Return(r, "not_active") /\ UNCHANGED asked
       \/ /\ r \in Cancels /\ handles[JobOf[r]] # None
          /\ Proceed(r, "response")
          /\ asked' = [asked EXCEPT ![handles[JobOf[r]]] = IF @ = "no" THEN "asked" ELSE @]
    /\ UNCHANGED <<cell, coroutines, signalled, display>>

\* The server may be found although the request has just been given up.
SendGoal(s) ==
    /\ thread[s] = "server"
    /\ Gateway!Submit(s)
    /\ Proceed(s, "response")
    /\ UNCHANGED <<coroutines, ran, events, told, service, signalled, asked, display>>

CallService(r) ==
    /\ thread[r] = "server"
    /\ service' = [service EXCEPT ![r] = "called"]
    /\ Proceed(r, "response")
    /\ UNCHANGED <<coroutines, gateway, ran, events, told, signalled, asked, display>>

\* The client raises, or no server is found in time.
GiveUpServer(r) ==
    /\ thread[r] = "server"
    /\ Return(r, "unavailable") \/ Return(r, "failure")
    /\ UNCHANGED <<cell, coroutines, signalled, asked, display>>

\* Mutant: an answer that does not come is a refusal.
GiveUpAsRejected(r) ==
    /\ thread[r] = "response"
    /\ Return(r, "rejected")
    /\ UNCHANGED <<cell, coroutines, signalled, asked, display>>

\* The deadline passes or the event is set before a response is seen, which may be on its way.
GiveUpResponse(r) ==
    /\ thread[r] = "response"
    /\ Return(r, "unknown")
    /\ UNCHANGED <<cell, coroutines, signalled, asked, display>>

AwaitResponse(s) ==
    /\ thread[s] = "response"
    /\ \/ /\ goal[s] = "rejected"
          /\ Return(s, "rejected") /\ UNCHANGED display
       \/ /\ goal[s] \in {"executing", "done"}
          /\ handles' = [handles EXCEPT ![JobOf[s]] = s]
          /\ active' = JobOf[s]
          /\ Proceed(s, "result")
    /\ UNCHANGED <<cell, coroutines, signalled, asked>>

TakeResult(s) ==
    /\ thread[s] = "result" /\ goal[s] = "done"
    /\ handles' = [handles EXCEPT ![JobOf[s]] = None]
    /\ Return(s, answer[s])
    /\ UNCHANGED <<cell, coroutines, signalled, asked, active>>

\* Mutant: the thread leaves its goal running.
LeaveResult(s) ==
    /\ thread[s] = "result" /\ s \in signalled
    /\ Return(s, "cancel_requested")
    /\ UNCHANGED <<cell, coroutines, signalled, asked, display>>

\* The request was given up: its goal is asked to cancel, and its handle stays.
RequestCancel(s) ==
    /\ thread[s] = "result" /\ s \in signalled
    /\ asked' = [asked EXCEPT ![s] = IF @ = "no" THEN "asked" ELSE @]
    /\ Return(s, "cancel_requested")
    /\ UNCHANGED <<cell, coroutines, signalled, display>>

\* goals_canceling of the gateway's response; the handle was taken when the thread began.
AwaitCancel(c) ==
    /\ thread[c] = "response"
    /\ \E s \in Submissions : /\ JobOf[s] = JobOf[c]
                              /\ \/ asked[s] = "accepted" /\ Return(c, "cancel_accepted")
                                 \/ asked[s] = "refused" /\ Return(c, "cancel_rejected")
    /\ UNCHANGED <<cell, coroutines, signalled, asked, display>>

AwaitService(r) ==
    /\ thread[r] = "response"
    /\ service[r] \in {"accepted", "refused"}
    /\ Return(r, service[r])
    /\ UNCHANGED <<cell, coroutines, signalled, asked, display>>

-----------------------------------------------------------------------------
(* The subscriptions. *)

\* Mutant: a cell state without a job leaves the display alone.
OnShownStateSticky ==
    \E m \in told :
        /\ told' = {}
        /\ active' = IF m = None THEN active ELSE m
        /\ UNCHANGED <<gateway, ran, events, service, coroutines, thread, result, signalled, asked, handles>>

OnShownState ==
    \E m \in told :
        /\ told' = {}
        /\ active' = m
        /\ UNCHANGED <<gateway, ran, events, service, coroutines, thread, result, signalled, asked, handles>>

OnJobEvent ==
    /\ events # << >>
    /\ events' = Tail(events)
    /\ active' = IF Head(events).started THEN Head(events).job
                 ELSE IF active = Head(events).job THEN None ELSE active
    /\ UNCHANGED <<gateway, ran, told, service, coroutines, thread, result, signalled, asked, handles>>

-----------------------------------------------------------------------------
(* The cell: one job at a time, and each job at most once.  A gateway that  *)
(* dies is one that does not answer.                                       *)

Running == {s \in Submissions : ran[s] = "running"}

Untouched == <<coroutines, thread, result, signalled, display>>

GatewayAccepts(s) ==
    /\ Gateway!Accept(s) \/ Gateway!Reject(s)
    /\ UNCHANGED <<ran, events, told, service, asked, Untouched>>

JobStarts(s) ==
    /\ goal[s] = "executing"
    /\ \A t \in Submissions : ran[t] = "no" \/ (ran[t] = "ended" /\ JobOf[t] # JobOf[s])
    /\ ran' = [ran EXCEPT ![s] = "running"]
    /\ events' = Append(events, [started |-> TRUE, job |-> JobOf[s]])
    /\ UNCHANGED <<gateway, told, service, asked, Untouched>>

JobEnds(s) ==
    /\ ran[s] = "running"
    /\ ran' = [ran EXCEPT ![s] = "ended"]
    /\ events' = Append(events, [started |-> FALSE, job |-> JobOf[s]])
    /\ UNCHANGED <<gateway, told, service, asked, Untouched>>

GatewayAnswers(s, c) ==
    /\ ran[s] # "running"
    /\ c = "ok" => ran[s] = "ended"
    /\ Gateway!Finish(s, c)
    /\ UNCHANGED <<ran, events, told, service, asked, Untouched>>

CancelArrives(s) ==
    /\ asked[s] = "asked"
    /\ \/ Gateway!Cancel(s) /\ asked' = [asked EXCEPT ![s] = "accepted"]
       \/ /\ goal[s] # "executing"
          /\ asked' = [asked EXCEPT ![s] = "refused"] /\ UNCHANGED gateway
    /\ UNCHANGED <<ran, events, told, service, Untouched>>

\* active_job_id; a state without a job in which a device is still busy changes nothing here.
CellStatePublished ==
    /\ told = {}
    /\ told' = IF Running = {} THEN {None} ELSE {JobOf[s] : s \in Running}
    /\ UNCHANGED <<gateway, ran, events, service, asked, Untouched>>

\* The coordinator looks for the fault in its own copy of the cell state.
CoordinatorAnswers(r) ==
    /\ service[r] = "called"
    /\ \E verdict \in {"accepted", "refused"} : service' = [service EXCEPT ![r] = verdict]
    /\ UNCHANGED <<gateway, ran, events, told, asked, Untouched>>

ThreadStep(r) ==
    \/ StartThread(r)
    \/ GiveUpServer(r)
    \/ GiveUpResponse(r)
    \/ r \in Submissions /\ (SendGoal(r) \/ AwaitResponse(r) \/ TakeResult(r) \/ RequestCancel(r))
    \/ r \in Cancels /\ AwaitCancel(r)
    \/ r \in Recoveries /\ (CallService(r) \/ AwaitService(r))

ApiNext ==
    \/ \E r \in Requests : \/ Deny(r) \/ Dispatch(r) \/ Complete(r) \/ Timeout(r) \/ Abandon(r)
                          \/ ThreadStep(r)
    \/ OnShownState \/ OnJobEvent
    \/ \E s \in Submissions : \/ GatewayAccepts(s) \/ JobStarts(s) \/ JobEnds(s) \/ CancelArrives(s)
                             \/ \E c \in Codes : GatewayAnswers(s, c)
    \/ CellStatePublished
    \/ \E r \in Recoveries : CoordinatorAnswers(r)

ApiSpec == ApiInit /\ [][ApiNext]_apiVars

\* The event loop, the threads and the executor run, wait_for has a deadline, cell states keep
\* coming and a cell without a job is at rest eventually.  Nothing is assumed of the gateway.
ApiFairness ==
    /\ WF_apiVars(\E r \in Requests : Timeout(r))      \* each request has one, each thread a few
    /\ WF_apiVars(\E r \in Requests : ThreadStep(r))
    /\ WF_apiVars(OnShownState) /\ WF_apiVars(OnJobEvent)
    /\ WF_apiVars(CellStatePublished)

FairApiSpec == ApiSpec /\ ApiFairness

-----------------------------------------------------------------------------
(* Properties. *)

Dispatched(r) == IF r \in Submissions THEN goal[r] # "none" ELSE r \in Recoveries /\ service[r] # "idle"

Last(q) == q[Len(q)]

\* Nothing reaches the cell whose request the journal does not hold, and success is recorded only
\* of what the cell did.
EntriesAreTrue(r) ==
    /\ Dispatched(r) => journal[r] # << >> /\ Head(journal[r]) = "REQUESTED"
    /\ (\E i \in DOMAIN journal[r] : journal[r][i] = "COMPLETED")
           => IF r \in Submissions THEN answer[r] = "ok" ELSE service[r] = "accepted"
JournalIsTrue == \A r \in Submissions \cup Recoveries : EntriesAreTrue(r)

\* A caller who is given an outcome finds it in the journal, however coroutine, thread and deadline met.
ReplyIsJournalled(r) ==
    reply[r] \notin {None, "journal", "denied"} =>
        /\ Len(journal[r]) = 2 /\ Head(journal[r]) = "REQUESTED"
        /\ Last(journal[r]) =
               CASE reply[r] = "timeout" -> "TIMED_OUT"
                 [] reply[r] = "gone" -> "CANCELLED"
                 [] reply[r] \in {"ok", "accepted", "cancel_accepted"} -> "COMPLETED"
                 [] OTHER -> "FAILED"
AnsweredIsJournalled == \A r \in Requests : ReplyIsJournalled(r)

\* An outcome reported as certain is final: the cell neither holds the goal nor the call any more,
\* and no thread is left that could send it.
Final(r) ==
    /\ thread[r] = "done"
    /\ r \in Submissions => goal[r] \notin {"sent", "executing"} /\ ran[r] # "running"
    /\ r \in Recoveries => service[r] # "called"
CertainIsFinal == \A r \in Requests : reply[r] \in CertainCodes => Final(r)

\* What coroutine and thread of a request know of each other, of the journal and of the cell.
RequestIsTrue(r) ==
    /\ http[r] = "new" => thread[r] = "none" /\ journal[r] = << >> /\ reply[r] = None
    /\ http[r] = "waiting" => thread[r] # "none" /\ journal[r] = <<"REQUESTED">> /\ reply[r] = None
    /\ thread[r] # "none" => journal[r] # << >> /\ Head(journal[r]) = "REQUESTED"
    /\ result[r] \in CertainCodes => Final(r)
    /\ result[r] = "ok" => r \in Submissions /\ answer[r] = "ok"
    /\ result[r] = "accepted" => r \in Recoveries /\ service[r] = "accepted"
    /\ result[r] = "cancel_accepted" => r \in Cancels
    /\ r \in Submissions =>
          /\ goal[r] # "none" => thread[r] \in {"response", "result", "done"}
          /\ goal[r] = "done" <=> answer[r] # None
          /\ ran[r] = "running" => goal[r] = "executing"
    /\ r \in Recoveries =>
          /\ service[r] # "idle" => thread[r] \in {"response", "done"}
          /\ thread[r] # "result"

\* The inductive invariant behind JournalIsTrue, AnsweredIsJournalled and CertainIsFinal.
ApiIInv ==
    /\ ApiTypeOK
    /\ \A r \in Requests : RequestIsTrue(r)
    /\ JournalIsTrue /\ AnsweredIsJournalled /\ CertainIsFinal

\* Every thread comes back to the pool, whatever the gateway does, since the deadline of its
\* request sets the cancel event.
WorkersReturn == []<>(Busy = {})

\* A job whose request was given up while its thread watched it is asked to cancel, unless it
\* is over.
AbandonedIsCancelled ==
    \A s \in Submissions :
        thread[s] = "result" /\ s \in signalled ~> asked[s] # "no" \/ goal[s] = "done"

\* A job that is over leaves the display, although threads, events and cell states put it there
\* in any order.
DisplaySettles == active # None /\ Running = {} ~> active = None \/ Running # {}
=============================================================================
