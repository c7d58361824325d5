--------------------------- MODULE StudioProject ---------------------------
(***************************************************************************)
(* A Studio session and the project directory it edits.  The session keeps *)
(* the buffers, the undo and redo stacks and three kinds of reviewed       *)
(* candidates; every save goes through one transaction of the project      *)
(* service, which journals the previous bytes and replaces file by file.   *)
(* Commands run to their end on the UI thread, so that a step of a service *)
(* call interleaves only with the death of the process; other tools edit   *)
(* the directory between the commands.                                     *)
(***************************************************************************)
EXTENDS Naturals, Sequences, SequencesExt

CONSTANTS Order,      \* the files of the project in the order they are replaced
          Opened,     \* those that opening loads: cell.yaml, the scene, calibrations
          Revisions,  \* what a file may hold
          Absent,     \* no file, or not among the files of a candidate
          None,       \* no buffers, no journal, no candidate
          Starter,    \* the tree a new project starts with
          Valid(_),   \* the validator's verdict on a tree
          Linked(_),  \* the verdict on cell.yaml and the scene of a tree alone
          UndoDepth,  \* edits the session can undo (100 in the code)
          MaxEdits, MaxFaults, MaxCrashes \* bounds

Files == ToSet(Order)
Tree == [Files -> Revisions \cup {Absent}]
Nothing == [f \in Files |-> Absent]
Journals == [before : Tree, candidate : Tree]

\* A form of a source: the text it was built from, and of its reviewed edit the text,
\* absent if there is none to save, and whether the buffer at the review was that of
\* the form.
Forms == [file : Files, base : Revisions \cup {Absent}, text : Revisions \cup {Absent},
          current : BOOLEAN]

ASSUME ConstantsAssumption ==
    /\ Opened \subseteq Files
    /\ Absent \notin Revisions /\ None \notin Tree \cup Journals
    /\ Starter \in Tree /\ Valid(Starter) /\ ~Valid(Nothing)
    /\ {UndoDepth, MaxEdits, MaxFaults, MaxCrashes} \subseteq Nat

VARIABLES
    disk,      \* the files of the project; all absent when there is no directory
    exists,    \* the directory of the project exists
    journal,   \* .cellforge-save-recovery.json
    op,        \* the service call in progress
    open,      \* the snapshot shows a project
    working, saved, \* the buffers, and the text last opened or saved
    dirty,     \* the snapshot's flag
    undo, redo,
    readiness, \* the reviewed remediation: candidate, and the sources it was made from
    authoring, \* the form of a source, what it was built from, and the reviewed edit of it
    draft,     \* a guided project is under review
    edits, faults, crashes \* used up

store == <<disk, exists, journal, op>>
session == <<open, working, saved, dirty, undo, redo, readiness, authoring, draft>>
vars == <<store, session, edits, faults, crashes>>

Callers == {"save", "readiness", "authoring", "guided", "recover"}
Answers == {"none", "saved", "restored", "retained", "refused"}
Idle == [step |-> "idle", by |-> "save", target |-> Nothing, orig |-> Nothing, todo |-> {},
         answer |-> "none"]

TypeOK ==
    /\ disk \in Tree
    /\ exists \in BOOLEAN
    /\ journal = None \/ journal \in Journals
    /\ op \in [step : {"idle", "check", "restore", "clear", "journal", "replace", "unlink",
                       "undo", "drop", "answer"},
               by : Callers, target : Tree, orig : Tree, todo : SUBSET Files, answer : Answers]
    /\ open \in BOOLEAN /\ dirty \in BOOLEAN /\ draft \in BOOLEAN
    /\ {working, saved} \subseteq Tree \cup {None}
    /\ undo \in Seq(Tree) /\ redo \in Seq(Tree) /\ Len(undo) + Len(redo) <= UndoDepth
    /\ readiness = None \/ readiness \in [candidate : Tree, base : Tree]
    /\ authoring = None \/ authoring \in Forms

-----------------------------------------------------------------------------
\* Trees and candidates.

Overlay(tree, written) == [f \in Files |-> IF written[f] = Absent THEN tree[f] ELSE written[f]]

WrittenPair(tree) == {f \in {Order[1], Order[2]} : tree[f] # Absent} \* mutant
Written(tree) == {f \in Files : tree[f] # Absent}

\* Opening reads cell.yaml, the scene and the calibrations, no other artifact.
Read(tree) == [f \in Files |-> IF f \in Opened THEN tree[f] ELSE Absent]

Complete == \A f \in Files : journal.candidate[f] # Absent => disk[f] = journal.candidate[f]
Before(tree) == [f \in Files |-> IF journal.candidate[f] = Absent THEN tree[f] ELSE journal.before[f]]

Init ==
    /\ \/ disk = Starter /\ exists = TRUE
       \/ disk = Nothing /\ exists = FALSE
    /\ journal = None
    /\ op = Idle
    /\ open = FALSE /\ dirty = FALSE /\ draft = FALSE
    /\ working = None /\ saved = None
    /\ undo = <<>> /\ redo = <<>>
    /\ readiness = None /\ authoring = None
    /\ edits = 0 /\ faults = 0 /\ crashes = 0

Command == op.step = "idle"

-----------------------------------------------------------------------------
\* The transaction of the project service, one access to the disk per step.

At(step) == op' = [op EXCEPT !.step = step]
Answer(answer) == op' = [op EXCEPT !.step = "answer", !.answer = answer]

\* A loop over files, one per step and in their order.
Loop(step, files, end) ==
    op' = [op EXCEPT !.step = IF files = {} THEN end ELSE step, !.todo = files]

Place(f) == CHOOSE i \in DOMAIN Order : Order[i] = f
First(f) == f \in op.todo /\ \A g \in op.todo : Place(f) <= Place(g)

\* The journal is written with the bytes found now.
Transaction == op' = [op EXCEPT !.step = "journal", !.orig = disk]

CheckJournal ==
    /\ op.step = "check"
    /\ CASE journal = None /\ op.by # "recover" -> Transaction
         [] journal = None /\ op.by = "recover" -> Answer("saved")
         [] journal # None -> IF Complete THEN At("clear")
                              ELSE Loop("restore", Written(journal.candidate), "clear")
    /\ UNCHANGED <<disk, exists, journal>>

Restore ==
    /\ op.step = "restore"
    /\ \E f \in Files : /\ First(f)
                        /\ disk' = [disk EXCEPT ![f] = journal.before[f]]
                        /\ Loop("restore", op.todo \ {f}, "clear")
    /\ UNCHANGED <<exists, journal>>

ClearJournal ==
    /\ op.step = "clear"
    /\ journal' = None
    /\ IF op.by = "recover" THEN Answer("saved") ELSE Transaction
    /\ UNCHANGED <<disk, exists>>

WriteJournal ==
    /\ op.step = "journal"
    /\ journal' = [before |-> op.orig, candidate |-> op.target]
    /\ Loop("replace", Written(op.target), "unlink")
    /\ UNCHANGED <<disk, exists>>

ReplaceFile ==
    /\ op.step = "replace"
    /\ \E f \in Files : /\ First(f)
                        /\ disk' = [disk EXCEPT ![f] = op.target[f]]
                        /\ Loop("replace", op.todo \ {f}, "unlink")
    /\ UNCHANGED <<exists, journal>>

UnlinkJournal ==
    /\ op.step = "unlink"
    /\ journal' = None
    /\ Answer("saved")
    /\ UNCHANGED <<disk, exists>>

RollBackFile ==
    /\ op.step = "undo"
    /\ \E f \in Files : /\ First(f)
                        /\ disk' = [disk EXCEPT ![f] = op.orig[f]]
                        /\ Loop("undo", op.todo \ {f}, "drop")
    /\ UNCHANGED <<exists, journal>>

DropJournal ==
    /\ op.step = "drop"
    /\ journal' = None
    /\ Answer("restored")
    /\ UNCHANGED <<disk, exists>>

RollBackPair == WrittenPair(op.target) \* mutant
RollBack == Written(op.target)

\* A call to the file system raises: the transaction rolls back, and a
\* rollback or a recovery that raises leaves the journal where it is.
StepFails ==
    /\ faults < MaxFaults
    /\ faults' = faults + 1
    /\ \/ /\ op.step \in {"journal", "replace", "unlink"}
          /\ Loop("undo", RollBack, "drop")
       \/ op.step \in {"check", "restore", "clear", "undo", "drop"} /\ Answer("retained")
    /\ UNCHANGED <<disk, exists, journal>>

ServiceStep ==
    /\ \/ /\ CheckJournal \/ Restore \/ ClearJournal \/ WriteJournal \/ ReplaceFile
             \/ UnlinkJournal \/ RollBackFile \/ DropJournal
          /\ UNCHANGED faults
       \/ StepFails
    /\ UNCHANGED <<session, edits, crashes>>

\* save(): the sources on the disk and the tree with the candidate in it are
\* validated, then a retained journal is resolved, then the files replaced.
Save(caller, contents) ==
    op' = IF Valid(disk) /\ Valid(Overlay(disk, contents))
          THEN [Idle EXCEPT !.step = "check", !.by = caller, !.target = contents]
          ELSE [Idle EXCEPT !.step = "answer", !.by = caller, !.answer = "refused"]

-----------------------------------------------------------------------------
\* The session.

Load(contents) ==
    /\ open' = TRUE /\ dirty' = FALSE
    /\ working' = contents /\ saved' = contents
    /\ undo' = <<>> /\ redo' = <<>>
    /\ readiness' = None /\ authoring' = None

\* An invalid project leaves no session, except for a reviewed source edit.
Unload ==
    /\ open' = FALSE /\ dirty' = FALSE
    /\ working' = None /\ saved' = None
    /\ undo' = <<>> /\ redo' = <<>>
    /\ readiness' = None

LoadFrom(tree) ==
    IF Valid(tree) THEN Load(Read(tree)) ELSE Unload /\ UNCHANGED authoring

\* A command that fails without keeping the project shows none, and leaves
\* buffers and stacks as they are.
ShowNoProject ==
    /\ open' = FALSE
    /\ UNCHANGED <<working, saved, undo, redo, readiness, authoring>>

OpenProject ==
    /\ Command
    /\ \/ LoadFrom(disk) /\ UNCHANGED faults
       \/ Unload /\ authoring' = None /\ UNCHANGED faults \* no path given
       \/ /\ faults < MaxFaults /\ faults' = faults + 1
          /\ ShowNoProject /\ UNCHANGED dirty
    /\ UNCHANGED <<store, draft, edits, crashes>>

CreateProject ==
    /\ Command
    /\ IF exists
       THEN ShowNoProject /\ dirty' = FALSE /\ UNCHANGED <<disk, exists>>
       ELSE disk' = Starter /\ exists' = TRUE /\ Load(Read(Starter))
    /\ UNCHANGED <<journal, op, draft, edits, faults, crashes>>

\* The guided service opens with its own validation and clears nothing when
\* it rejects the project.
OpenGuided ==
    /\ Command
    /\ IF Valid(disk) THEN Load(Read(disk)) /\ draft' = FALSE
                      ELSE ShowNoProject /\ dirty' = FALSE /\ UNCHANGED draft
    /\ UNCHANGED <<store, edits, faults, crashes>>

Editing ==
    /\ Command
    /\ open /\ working # None

Differs == working' # saved

\* Typing into cell.yaml or the scene is not undoable, and drops a remediation.
EditText ==
    /\ Command /\ working # None
    /\ edits < MaxEdits /\ edits' = edits + 1
    /\ \E i \in 1..2, r \in Revisions : working' = [working EXCEPT ![Order[i]] = r]
    /\ dirty' = Differs
    /\ readiness' = None
    /\ UNCHANGED <<store, open, saved, undo, redo, authoring, draft, faults, crashes>>

RecordEdit ==
    /\ undo' = LET stack == Append(undo, working)
               IN  SubSeq(stack, IF Len(stack) > UndoDepth THEN 2 ELSE 1, Len(stack))
    /\ redo' = <<>>

\* A component, connection, spatial, task or recipe edit of the services, which
\* return a linked pair or reject it (CellDocuments).  Placing, removing and
\* connecting return the pair alone: every artifact drops out of the buffers.
EditProject ==
    /\ Editing
    /\ edits < MaxEdits /\ edits' = edits + 1
    /\ \E c \in Tree :
          /\ c # working /\ Linked(c)
          /\ \/ \A f \in Files : working[f] # Absent => c[f] # Absent
             \/ \A i \in 3..Len(Order) : c[Order[i]] = Absent
          /\ working' = c
    /\ RecordEdit
    /\ dirty' = Differs
    /\ UNCHANGED <<store, open, saved, readiness, authoring, draft, faults, crashes>>

UndoneTwice == Append(redo, Last(undo)) \* mutant
Undone == Append(redo, working)

Undo ==
    /\ Editing /\ undo # <<>>
    /\ working' = Last(undo)
    /\ undo' = Front(undo)
    /\ redo' = Undone
    /\ dirty' = Differs
    /\ UNCHANGED <<store, open, saved, readiness, authoring, draft, edits, faults, crashes>>

Redo ==
    /\ Editing /\ redo # <<>>
    /\ working' = Last(redo)
    /\ redo' = Front(redo)
    /\ undo' = Append(undo, working)
    /\ dirty' = Differs
    /\ UNCHANGED <<store, open, saved, readiness, authoring, draft, edits, faults, crashes>>

SaveProject ==
    /\ Editing /\ dirty
    /\ Save("save", working)
    /\ UNCHANGED <<disk, exists, journal, session, edits, faults, crashes>>

\* The buffers, judged in a copy of the project; a preview that cannot be saved is
\* as good as none.
Remediation == IF Valid(Overlay(disk, working))
               THEN [candidate |-> working, base |-> Read(disk)] ELSE None

PreviewReadiness ==
    /\ Editing
    /\ readiness' = Remediation
    /\ UNCHANGED <<store, open, working, saved, dirty, undo, redo, authoring, draft,
                   edits, faults, crashes>>

Unchanged(preview) == Read(disk) = preview.base

SaveReadiness ==
    /\ Command /\ readiness # None
    /\ Unchanged(readiness)
    /\ Save("readiness", readiness.candidate)
    /\ UNCHANGED <<disk, exists, journal, session, edits, faults, crashes>>

\* The form takes its source from the buffers, or from the disk when no buffer
\* holds the file.  A new form takes the place of the reviewed edit.
SourceText(f) == IF working[f] # Absent THEN working[f] ELSE disk[f]

Form(f) == [file |-> f, base |-> SourceText(f), text |-> Absent, current |-> TRUE]

BuildForm ==
    /\ Editing
    /\ edits < MaxEdits /\ edits' = edits + 1
    /\ \E f \in Files \ {Order[2]} : authoring' = Form(f)
    /\ UNCHANGED <<store, open, working, saved, dirty, undo, redo, readiness, draft, faults, crashes>>

Unreviewed(form) == [form EXCEPT !.text = Absent, !.current = TRUE]

UpdateForm ==
    /\ Command /\ authoring # None
    /\ authoring' = Unreviewed(authoring)
    /\ UNCHANGED <<store, open, working, saved, dirty, undo, redo, readiness, draft,
                   edits, faults, crashes>>

\* The tree with the edited source in it, put on the disk, is what is validated.
EditSound(f, text) == Valid([disk EXCEPT ![f] = text])

Candidate(form, text) ==
    [form EXCEPT !.text = text, !.current = working[form.file] \in {form.base, Absent}]

\* An edit with a finding, of the tree or of the form's own values, is shown but
\* cannot be saved.
SourceEdits(form) ==
    {Unreviewed(form)} \cup {Candidate(form, t) : t \in {r \in Revisions : EditSound(form.file, r)}}

\* The form's values and the edit must agree, and what they make together is
\* validated; what is saved is the text of the edit.
Merges(candidate) == {candidate, Unreviewed(candidate)}

PreviewAuthoring ==
    /\ Editing /\ authoring # None
    /\ \E candidate \in SourceEdits(authoring) :
          \/ authoring' = candidate
          \/ authoring' \in Merges(candidate)
    /\ UNCHANGED <<store, open, working, saved, dirty, undo, redo, readiness, draft,
                   edits, faults, crashes>>

SourcePresent(candidate) == disk[candidate.file] # Absent \* mutant
SourceUnchanged(candidate) ==
    \/ disk[candidate.file] = candidate.base
    \/ disk[candidate.file] = Absent /\ candidate.current

\* The candidate is put into the sources on the disk, not into the buffers.
Reviewed(candidate) == [Read(disk) EXCEPT ![candidate.file] = candidate.text]

\* There is an edit to save, its source is as it was, and the project can be read.
Savable(candidate) == candidate.text # Absent /\ SourceUnchanged(candidate) /\ Valid(disk)

SaveAuthoring ==
    /\ Editing /\ authoring # None
    /\ Savable(authoring)
    /\ Save("authoring", Reviewed(authoring))
    /\ UNCHANGED <<disk, exists, journal, session, edits, faults, crashes>>

ReviewDraft ==
    /\ Command
    /\ \/ ~draft /\ edits < MaxEdits /\ edits' = edits + 1 \* create or preview a guided draft
       \/ draft /\ UNCHANGED edits                        \* cancel it
    /\ draft' = ~draft
    /\ UNCHANGED <<store, open, working, saved, dirty, undo, redo, readiness, authoring,
                   faults, crashes>>

\* A confirmed draft becomes a new project; a destination that exists blocks it.
ConfirmDraft ==
    /\ Command /\ draft
    /\ IF exists
       THEN dirty' = FALSE /\ UNCHANGED <<exists, op>>
       ELSE /\ exists' = TRUE
            /\ op' = [Idle EXCEPT !.step = "journal", !.by = "guided", !.target = Starter]
            /\ UNCHANGED dirty
    /\ UNCHANGED <<disk, journal, open, working, saved, undo, redo, readiness, authoring, draft,
                   edits, faults, crashes>>

Recover ==
    /\ Command /\ exists
    /\ op' = [Idle EXCEPT !.step = "check", !.by = "recover"]
    /\ UNCHANGED <<disk, exists, journal, session, edits, faults, crashes>>

\* The command takes the answer of the service.
TakeAnswer ==
    /\ op.step = "answer"
    /\ op' = Idle
    /\ LET ok == op.answer = "saved"
           keep == UNCHANGED session
           abandoned == op.by = "guided" /\ ~ok /\ journal = None
       IN  /\ CASE op.by = "save" /\ ok -> Load(op.target) /\ UNCHANGED draft
                [] op.by = "save" /\ op.answer = "refused" ->
                     dirty' = TRUE /\ UNCHANGED <<open, working, saved, undo, redo, readiness,
                                                  authoring, draft>>
                [] op.by \in {"readiness", "authoring"} /\ ok -> LoadFrom(disk) /\ UNCHANGED draft
                [] op.by = "guided" /\ ok -> LoadFrom(disk) /\ draft' = FALSE
                [] op.by = "guided" /\ ~ok ->
                     dirty' = FALSE /\ UNCHANGED <<open, working, saved, undo, redo, readiness,
                                                   authoring, draft>>
                [] OTHER -> keep
           /\ exists' = (exists /\ ~abandoned)
           /\ disk' = IF abandoned THEN Nothing ELSE disk
    /\ UNCHANGED <<journal, edits, faults, crashes>>

\* The process dies, in a command or between two.
Die ==
    /\ crashes < MaxCrashes /\ crashes' = crashes + 1
    /\ op' = Idle
    /\ Unload /\ authoring' = None /\ draft' = FALSE
    /\ UNCHANGED <<disk, exists, journal, edits, faults>>

\* Another tool edits the project (external); not while a save of it is to be
\* recovered.
OtherTool ==
    /\ Command /\ exists /\ journal = None
    /\ edits < MaxEdits /\ edits' = edits + 1
    /\ \E f \in Files, r \in Revisions : disk' = [disk EXCEPT ![f] = r]
    /\ UNCHANGED <<exists, journal, op, session, faults, crashes>>

Next ==
    \/ ServiceStep \/ TakeAnswer
    \/ OpenProject \/ CreateProject \/ OpenGuided
    \/ EditText \/ EditProject \/ Undo \/ Redo
    \/ SaveProject \/ PreviewReadiness \/ SaveReadiness
    \/ BuildForm \/ UpdateForm \/ PreviewAuthoring \/ SaveAuthoring
    \/ ReviewDraft \/ ConfirmDraft
    \/ Recover \/ Die \/ OtherTool

Spec == Init /\ [][Next]_vars

-----------------------------------------------------------------------------
\* Properties.

\* The sources as the next recovery will find or make them.
Effective == IF journal = None \/ Complete THEN disk ELSE Before(disk)

InTransaction == op.step \in {"journal", "replace", "unlink", "undo", "drop"}

\* The call a caller is waiting for.
Call == IF InTransaction THEN [active |-> TRUE, base |-> op.orig, target |-> op.target]
                         ELSE [active |-> FALSE]

\* The transaction with its journal, its rollback and its recovery is a save
\* of the whole tree at once, wherever a call raises or the process dies.
Atomic == INSTANCE AtomicProject WITH
    content <- Effective,
    call <- Call
AtomicSave == Atomic!Spec

\* There is no project but in a directory, which a service call or a session needs.
Founded ==
    /\ ~exists => disk = Nothing /\ journal = None
    /\ open \/ readiness # None \/ op.step # "idle" => exists
    /\ op.by = "guided" /\ op.step # "idle" => ~open /\ readiness = None

\* A retained journal knows each file it is to restore, as it was and as it was to be.
Recoverable ==
    journal # None => \A f \in Files :
        journal.candidate[f] # Absent => disk[f] \in {journal.before[f], journal.candidate[f]}

\* The journal and the disk at each step of a transaction.
Replaced(f) == op.target[f] # Absent /\ disk[f] = op.target[f]
Underway ==
    /\ op.step = "restore" => /\ journal # None /\ ~Complete
                              /\ op.todo \subseteq Written(journal.candidate)
                              /\ \A f \in Files : journal.candidate[f] # Absent =>
                                     f \in op.todo \/ disk[f] = journal.before[f]
    /\ op.step = "clear" => journal # None /\ (Complete \/ disk = Before(disk))
    /\ op.step = "journal" => journal = None /\ disk = op.orig
    /\ op.step \in {"replace", "unlink"} => journal # None
    /\ InTransaction =>
          /\ journal = None \/ journal = [before |-> op.orig, candidate |-> op.target]
          /\ \A f \in Files : disk[f] = op.orig[f] \/ Replaced(f)
    /\ op.step = "replace" => /\ op.todo \subseteq Written(op.target)
                              /\ \A f \in Files : op.target[f] # Absent => f \in op.todo \/ Replaced(f)
    /\ op.step = "unlink" => \A f \in Files : op.target[f] # Absent => Replaced(f)
    /\ op.step = "undo" => \A f \in Files : f \in op.todo \/ disk[f] = op.orig[f]
    /\ InTransaction /\ op.step # "journal" /\ journal = None => disk = op.orig
    /\ op.step = "drop" => disk = op.orig

\* What is answered as saved is on the disk, valid, and needs no recovery.
SavedIsStored ==
    op.step = "answer" /\ op.answer = "saved" /\ op.by # "recover"
    => journal = None /\ disk = Overlay(op.orig, op.target)
SavedIsValid ==
    op.step = "answer" /\ op.answer = "saved" /\ op.by # "recover" => Valid(disk)

\* In a tree, a file the candidate of the call was made from is as it was reviewed.
AsReviewed(f, tree) ==
    /\ op.by = "readiness" => Read(tree)[f] = readiness.base[f]
    /\ op.by = "authoring" /\ f = authoring.file => tree[f] \in {authoring.base, Absent}

\* What was reviewed was left there by a save that failed, and the recovery put back what
\* that save had replaced.
PutBack(f) ==
    /\ journal # None /\ ~Complete
    /\ journal.candidate[f] # Absent /\ disk[f] = journal.before[f]
    /\ AsReviewed(f, journal.candidate)

\* A reviewed candidate replaces the sources it was made from: between its review and the
\* transaction that writes it no other save, no other tool and no restart changes them.  The
\* one exception is the recovery the save itself begins with.
ReviewedIsFresh ==
    [][op.step \in {"check", "clear"} /\ op'.step = "journal"
       => \A f \in Files : AsReviewed(f, disk) \/ PutBack(f)]_vars

\* Not so: "Canonical sources changed after preview; refresh readiness before Save"
\* (readiness.py:1448, and so schema_authoring.py:1540).  The recovery of a retained journal
\* comes after that check.
ReviewedIsUntouched ==
    [][op.step \in {"check", "clear"} /\ op'.step = "journal"
       => \A f \in Files : AsReviewed(f, disk)]_vars

\* The invariant behind ReviewedIsFresh, from the check of the review to the transaction.
ReviewCarried ==
    /\ op.step = "check" => \A f \in Files : AsReviewed(f, disk)
    /\ op.step \in {"restore", "clear"} => \A f \in Files : AsReviewed(f, disk) \/ PutBack(f)

\* The inductive invariant behind AtomicSave, SavedIsStored and ReviewedIsFresh.
IInv == TypeOK /\ Founded /\ Recoverable /\ Underway /\ ReviewCarried /\ SavedIsStored

\* Undo and redo move along the history and change nothing of it.
Timeline == undo \o <<working>> \o Reverse(redo)
TimelineKept ==
    [][edits' = edits /\ undo' # undo /\ undo' \o redo' # <<>> => Timeline' = Timeline]_vars

\* docs/cell-studio.md: "Dirty state is derived by comparing the working
\* buffers with the exact text last opened or successfully saved".
DirtyIsDerived == open => dirty = (working # saved)
DirtyIsReal == open /\ dirty => working # saved
============================================================================
