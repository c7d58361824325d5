---------------------------- MODULE StudioSession ----------------------------
(***************************************************************************)
(* The two lives of a Studio: a project that is edited and saved, and the  *)
(* guided projects that are proposed, reviewed and written beside it.      *)
(***************************************************************************)
EXTENDS StudioProject

CONSTANTS Templates, Sources, Blank, Requests, Seeded(_), SoundTree(_), MaxChanges
                                                                 \* see GuidedProjects

VARIABLES sources, schemas, places, drafts, screen, saving, changes

G == INSTANCE GuidedProjects

ASSUME GuidedAssumption ==
    /\ \A s \in G!Named :
          /\ s = [complete |-> s.complete, cell |-> s.cell, components |-> s.components, rest |-> s.rest]
          /\ s.complete \in BOOLEAN /\ s.components \in Seq(G!Ids)
    /\ None \notin G!CandidateTrees
    /\ Absent \notin [by : {"studio", "other"}, tree : G!CandidateTrees \cup {None}]

guidedVars == <<sources, schemas, places, drafts, screen, saving, changes>>

\* A guided project is written to a directory of its own, so that no interleaving with the edits
\* of another project tells more: one of the two runs, the edits beside one state of the templates.
Untaught == CHOOSE s \in [Templates \ {"blank"} -> Sources] : TRUE
Proposing ==
    \/ sources # Untaught
    \/ screen # None \/ changes > 0
    \/ \E r \in Requests : drafts[r] # None \/ places[r.destination] # Absent
Untouched == ~exists /\ op.step = "idle" /\ ~open /\ ~draft /\ edits + faults + crashes = 0

SessionInit == Init /\ G!GuidedInit

SessionNext ==
    \/ ~Proposing /\ Next /\ UNCHANGED guidedVars
    \/ Untouched /\ G!GuidedNext /\ UNCHANGED vars

SessionSpec == SessionInit /\ [][SessionNext]_<<vars, guidedVars>>

\* Only what was reviewed is written, and only where nothing was: see GuidedProjects.
OnlyReviewed == G!OnlyReviewed
=============================================================================
