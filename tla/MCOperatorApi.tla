---------------------------- MODULE MCOperatorApi ----------------------------
(* Instances of OperatorApi for TLC. *)
EXTENDS OperatorApi

CONSTANTS submit, again, cancel, recover, job

\* A submission and its retry under the same job, a cancel of the job, and a recovery.
MCJobOf == [r \in {submit, again, cancel} |-> job]

\* The two submissions are alike: the first to arrive is `submit'.  No arrival is fair.
InOrder == http[again] # "new" => http[submit] # "new"
==============================================================================
