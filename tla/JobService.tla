---------------------------- MODULE JobService ----------------------------
(***************************************************************************)
(* What the job gateway promises its clients, with no processes, messages  *)
(* or restarts: an idempotency key names at most one frozen job, that job  *)
(* is handed to the supervisor at most once and never after its outcome is *)
(* recorded, and an outcome, once recorded, is the outcome for ever.       *)
(* A successful outcome is only ever recorded for a job that was handed    *)
(* over (docs/cell-runtime.md section 3.2).                                *)
(***************************************************************************)
CONSTANTS Keys,       \* idempotency keys
          Digests,    \* hashes of a frozen request
          Outcomes,   \* result codes that may be recorded
          Successes,  \* the outcomes that report success
          None

VARIABLES digest, dispatched, outcome

service == <<digest, dispatched, outcome>>

Init ==
    /\ digest = [k \in Keys |-> None]
    /\ dispatched = [k \in Keys |-> FALSE]
    /\ outcome = [k \in Keys |-> None]

\* A key is bound to the request that used it first.
Register(k, d) ==
    /\ digest[k] = None
    /\ digest' = [digest EXCEPT ![k] = d]
    /\ UNCHANGED <<dispatched, outcome>>

Dispatch(k) ==
    /\ digest[k] # None
    /\ ~dispatched[k]
    /\ outcome[k] = None
    /\ dispatched' = [dispatched EXCEPT ![k] = TRUE]
    /\ UNCHANGED <<digest, outcome>>

Resolve(k, o) ==
    /\ digest[k] # None
    /\ outcome[k] = None
    /\ o \in Successes => dispatched[k]
    /\ outcome' = [outcome EXCEPT ![k] = o]
    /\ UNCHANGED <<digest, dispatched>>

Next ==
    \E k \in Keys :
        \/ \E d \in Digests : Register(k, d)
        \/ Dispatch(k)
        \/ \E o \in Outcomes : Resolve(k, o)

Spec == Init /\ [][Next]_service
============================================================================
