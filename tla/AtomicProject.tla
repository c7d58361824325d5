--------------------------- MODULE AtomicProject ---------------------------
(***************************************************************************)
(* What the recovery journal promises of a project directory: whatever     *)
(* fails and wherever the process stops, the files are as a save found     *)
(* them or as it meant to leave them, never a part of each.                *)
(***************************************************************************)
CONSTANTS Files, Revisions, Absent

VARIABLES
    content, \* the files as they are once a retained journal is resolved
    call     \* the save in progress: what it found and what it writes

Tree == [Files -> Revisions \cup {Absent}]
NoCall == [active |-> FALSE]

\* The files of `written` replaced; a file a save does not write is Absent in it.
Overlay(tree, written) == [f \in Files |-> IF written[f] = Absent THEN tree[f] ELSE written[f]]

Init ==
    /\ content \in Tree
    /\ call = NoCall

Begin ==
    /\ ~call.active
    /\ call' \in [active : {TRUE}, base : {content}, target : Tree]
    /\ UNCHANGED content

\* The whole save takes effect; a failure after that may still take it back.
Commit == call.active /\ content' = Overlay(call.base, call.target) /\ UNCHANGED call
Withdraw == call.active /\ content' = call.base /\ UNCHANGED call

\* The answer, or the death of the process.
End == call.active /\ call' = NoCall /\ UNCHANGED content

\* Another tool changes the files, or the directory is created.
Edit == ~call.active /\ content' \in Tree /\ UNCHANGED call

Next == Begin \/ Commit \/ Withdraw \/ End \/ Edit

Spec == Init /\ [][Next]_<<content, call>>
============================================================================
