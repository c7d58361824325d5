--------------------------- MODULE GuidedProjects ---------------------------
(***************************************************************************)
(* Guided projects: a request is turned into a candidate tree in memory,   *)
(* shown as a preview, and saved as a new directory once the engineer      *)
(* confirms it.  Templates are directories that other tools edit, and a    *)
(* destination may appear at any time.                                     *)
(***************************************************************************)
EXTENDS Naturals, Sequences, SequencesExt

CONSTANTS Templates,    \* the IDs of the supported templates; "blank" has no directory
          Sources,      \* what a template's directory may hold: [complete, cell, components, rest],
                        \* complete when the canonical files are all there, cell None when
                        \* cell.yaml holds no cell, components the instance IDs in order
          Blank,        \* the starter the command line renders
          Requests,     \* [template, destination, faulty, fit, seed, cell, ids]: faulty when it
                        \* names no destination, one out of its place or a version that is not
                        \* supported, fit when it names the cell and asks for a simulation;
                        \* cell and ids are choices
          Seeded(_),    \* the cell ID that a seed gives
          SoundTree(_), \* the validator's verdict on all but the identities
          Absent, None,
          MaxChanges    \* bound on what other tools do

Destinations == {r.destination : r \in Requests}

VARIABLES
    sources, \* template -> its directory
    schemas, \* the revision of the canonical schemas
    places,  \* destination -> Absent or [by, tree], tree None until it is written
    drafts,  \* request -> its last preview, in the service
    screen,  \* the preview the engineer looks at
    saving,  \* the save in progress
    changes  \* used up

guidedVars == <<sources, schemas, places, drafts, screen, saving, changes>>

NoSave == [step |-> "idle", preview |-> None, shown |-> None]

GuidedInit ==
    /\ sources \in [Templates \ {"blank"} -> Sources]
    /\ schemas = 0
    /\ places = [d \in Destinations |-> Absent]
    /\ drafts = [r \in Requests |-> None]
    /\ screen = None
    /\ saving = NoSave
    /\ changes = 0

-----------------------------------------------------------------------------
\* Candidates.

\* A text that is only the beginning of an ID selects nothing.
Resolved(template) == IF template \in Templates THEN template ELSE None

SourceOf(template) ==
    CASE template = None -> Absent
      [] template = "blank" -> Blank
      [] OTHER -> sources[template]

Allocated(request, old) == IF old \in DOMAIN request.ids THEN request.ids[old] ELSE old

\* cell.yaml and the scene are rewritten ID by ID, each time everywhere: an ID
\* that was just given is given away again when it is also an old one.
Renamed(request, components) ==
    FoldLeft(LAMBDA names, old : [i \in DOMAIN names |->
                                    IF names[i] = old THEN Allocated(request, old) ELSE names[i]],
             components, components)

CellOf(request, source) ==
    IF request.template # "blank" THEN source.cell
    ELSE IF request.cell # None THEN request.cell ELSE Seeded(request.seed)

CandidateTree(request, source) ==
    [complete |-> source.complete, cell |-> CellOf(request, source),
     components |-> Renamed(request, source.components),
     rest |-> source.rest, schemas |-> schemas]

\* The candidate is written to a directory of its own and validated there.
ValidTree(tree) ==
    /\ tree.complete /\ SoundTree(tree)
    /\ IsInjective(tree.components)

AllocationAccepted(request, source) ==
    /\ request.template # "blank" => request.cell \in {None, source.cell}
    /\ IsInjective([i \in DOMAIN source.components |-> Allocated(request, source.components[i])])

\* A request that is wrong by itself, or whose destination exists, gets no
\* files; neither does one whose template cannot be read.
Read(request, source) ==
    ~request.faulty /\ places[request.destination] = Absent /\ source # Absent

\* Without a cell in it the source is shown as it is.
Parsed(request, source) == Read(request, source) /\ source.cell # None

Preview(request) ==
    LET source == SourceOf(Resolved(request.template))
        read == Read(request, source)
        parsed == Parsed(request, source)
        tree == CASE parsed -> CandidateTree(request, source)
                  [] read /\ ~parsed -> source
                  [] OTHER -> None
    IN  [request |-> request, tree |-> tree,
         ids |-> IF parsed THEN [i \in DOMAIN source.components |->
                                    Allocated(request, source.components[i])] ELSE <<>>,
         can_save |-> parsed /\ request.fit /\ AllocationAccepted(request, source)
                      /\ ValidTree(tree)]

-----------------------------------------------------------------------------
\* Commands.  Each runs to its end; only the save meets others at the disk.

Ready == saving = NoSave

Review(request) ==
    /\ drafts' = [drafts EXCEPT ![request] = Preview(request)]
    /\ screen' = Preview(request)

CreateDraft ==
    /\ Ready
    /\ \E request \in Requests : Review(request)
    /\ UNCHANGED <<sources, schemas, places, saving, changes>>

\* Without its draft the screen shows an empty preview.
PreviewDraft ==
    /\ Ready /\ screen # None
    /\ IF drafts[screen.request] # None THEN Review(screen.request)
       ELSE /\ screen' = [screen EXCEPT !.tree = None, !.ids = <<>>, !.can_save = FALSE]
            /\ UNCHANGED drafts
    /\ UNCHANGED <<sources, schemas, places, saving, changes>>

CancelDraft ==
    /\ Ready /\ screen # None
    /\ drafts[screen.request] # None
    /\ drafts' = [drafts EXCEPT ![screen.request] = None]
    /\ screen' = None
    /\ UNCHANGED <<sources, schemas, places, saving, changes>>

\* Opening a project takes the preview off the screen; the draft stays.
OpenOther ==
    /\ Ready /\ screen # None
    /\ screen' = None
    /\ UNCHANGED <<sources, schemas, places, drafts, saving, changes>>

FreshAny(refreshed, reviewed) == refreshed.tree # None \* mutant: whatever it is now
\* The candidate is built once more, and must be what was reviewed.
Fresh(refreshed, reviewed) == refreshed.tree = reviewed.tree

ConfirmSave ==
    /\ Ready /\ screen # None
    /\ drafts[screen.request] # None
    /\ LET reviewed == drafts[screen.request]
           refreshed == Preview(screen.request)
       IN  /\ drafts' = [drafts EXCEPT ![screen.request] = refreshed]
           /\ IF Fresh(refreshed, reviewed) /\ refreshed.can_save
              THEN /\ saving' = [step |-> "stage", preview |-> refreshed, shown |-> screen]
                   /\ UNCHANGED screen
              ELSE screen' = refreshed /\ UNCHANGED saving
    /\ UNCHANGED <<sources, schemas, places, changes>>

-----------------------------------------------------------------------------
\* The save of a new project, as the disk sees it.

Destination == saving.preview.request.destination

Refused == saving' = NoSave /\ screen' = saving.preview /\ UNCHANGED drafts
GoOn(step) == saving' = [saving EXCEPT !.step = step] /\ UNCHANGED <<screen, drafts>>

\* The tree is validated in a sibling directory, as the preview was.
StageTree ==
    /\ saving.step = "stage"
    /\ \/ places[Destination] = Absent /\ GoOn("make")
       \/ Refused
    /\ UNCHANGED <<sources, schemas, places, changes>>

MakeDirectory ==
    /\ saving.step = "make"
    /\ IF places[Destination] = Absent
       THEN /\ places' = [places EXCEPT ![Destination] = [by |-> "studio", tree |-> None]]
            /\ GoOn("write")
       ELSE Refused /\ UNCHANGED places
    /\ UNCHANGED <<sources, schemas, changes>>

\* One transaction (StudioProject has its steps): it is complete, or undone and
\* the directory removed, or neither, and its journal is left with the rest.
WriteTree ==
    /\ saving.step = "write"
    /\ \/ /\ places' = [places EXCEPT ![Destination].tree = saving.preview.tree]
          /\ GoOn("reopen")
       \/ places' = [places EXCEPT ![Destination] = Absent] /\ Refused
       \/ UNCHANGED places /\ Refused
    /\ UNCHANGED <<sources, schemas, changes>>

\* The new project is inspected and opened again: the first inspection that
\* fails removes it, the second leaves it and shows the preview still.
ReopenTree ==
    /\ saving.step = "reopen"
    /\ \/ /\ saving' = NoSave
          /\ drafts' = [drafts EXCEPT ![saving.preview.request] = None]
          /\ screen' \in {None, saving.preview}
          /\ UNCHANGED places
       \/ places' = [places EXCEPT ![Destination] = Absent] /\ Refused
    /\ UNCHANGED <<sources, schemas, changes>>

-----------------------------------------------------------------------------
\* Others.

EditTemplate ==
    /\ changes < MaxChanges /\ changes' = changes + 1
    /\ \/ \E t \in DOMAIN sources, s \in Sources \cup {Absent} : sources' = [sources EXCEPT ![t] = s]
          /\ UNCHANGED schemas
       \/ schemas' = 1 - schemas /\ UNCHANGED sources
    /\ UNCHANGED <<places, drafts, screen, saving>>

TakeDestination ==
    /\ changes < MaxChanges /\ changes' = changes + 1
    /\ \E d \in Destinations :
          /\ places[d] = Absent
          /\ places' = [places EXCEPT ![d] = [by |-> "other", tree |-> None]]
    /\ UNCHANGED <<sources, schemas, drafts, screen, saving>>

StudioDies ==
    /\ changes < MaxChanges /\ changes' = changes + 1
    /\ drafts' = [r \in Requests |-> None]
    /\ screen' = None /\ saving' = NoSave
    /\ UNCHANGED <<sources, schemas, places>>

GuidedNext ==
    \/ CreateDraft \/ PreviewDraft \/ CancelDraft \/ OpenOther \/ ConfirmSave
    \/ StageTree \/ MakeDirectory \/ WriteTree \/ ReopenTree
    \/ EditTemplate \/ TakeDestination \/ StudioDies

GuidedSpec == GuidedInit /\ [][GuidedNext]_guidedVars

-----------------------------------------------------------------------------
\* Properties.

\* Whatever happens to templates, schemas, drafts and destinations meanwhile,
\* Studio writes nothing but the tree that was on the screen when the engineer
\* confirmed, under the component IDs that the preview named, into a directory
\* it has made itself; and it takes back no directory but its own.
OnlyReviewed ==
    [][\A d \in Destinations :
          places[d] # Absent /\ places'[d] # places[d] =>
             /\ places[d].by = "studio"
             /\ places'[d] # Absent =>
                   /\ places'[d].tree = saving.shown.tree
                   /\ places'[d].tree.components = saving.shown.ids]_guidedVars

\* The service saves its own preview of a request: it is the one on the screen.
ScreenIsDraft ==
    Ready /\ screen # None /\ drafts[screen.request] # None => screen = drafts[screen.request]

\* The trees that Studio may be asked to write.
Named == Sources \cup {Blank}
Ids == UNION ({ToSet(s.components) : s \in Named} \cup {ToSet(r.ids) : r \in Requests})
CandidateTrees ==
    [complete : BOOLEAN,
     cell : {s.cell : s \in Named} \cup UNION {{r.cell, Seeded(r.seed)} : r \in Requests},
     components : Seq(Ids), rest : {s.rest : s \in Named}, schemas : {0, 1}]

\* What makes it true: a preview names the IDs its tree has, unless the tree could not be saved;
\* the draft of a request is a preview of it, and the one on the screen; and a save holds on to
\* the draft it was confirmed for, and to its directory once that is made.
Faithful(preview) ==
    preview.tree \in CandidateTrees /\ IsInjective(preview.tree.components) =>
        preview.ids = preview.tree.components

DraftsOK ==
    /\ DOMAIN drafts = Requests
    /\ \A r \in Requests : drafts[r] # None => drafts[r].request = r /\ Faithful(drafts[r])
ScreenOK == screen # None => screen.request \in Requests

Confirmed ==
    /\ saving = [step |-> saving.step, preview |-> saving.preview, shown |-> saving.shown]
    /\ saving.step \in {"stage", "make", "write", "reopen"}
    /\ saving.preview.request \in Requests
    /\ drafts[saving.preview.request] = saving.preview
    /\ saving.preview.tree \in CandidateTrees
    /\ saving.shown.tree = saving.preview.tree
    /\ saving.shown.ids = saving.preview.tree.components
PlacesOK ==
    /\ DOMAIN places = Destinations
    /\ \A d \in Destinations :
          places[d] = Absent \/ places[d] \in [by : {"studio", "other"}, tree : CandidateTrees \cup {None}]
OwnPlace == saving.step \in {"write", "reopen"} => places[Destination] # Absent /\ places[Destination].by = "studio"

GuidedIInv ==
    /\ sources \in [Templates \ {"blank"} -> Sources \cup {Absent}] /\ schemas \in {0, 1}
    /\ DraftsOK /\ ScreenOK /\ ScreenIsDraft /\ PlacesOK
    /\ saving = NoSave \/ Confirmed
    /\ OwnPlace
=============================================================================
