-------------------------- MODULE StudioProjectProofs --------------------------
(***************************************************************************)
(* Proofs about StudioProject for every list of files, every validator and *)
(* every bound: the transaction of a save is atomic whatever raises and    *)
(* wherever the process dies, and a reviewed candidate reaches it fresh;   *)
(* and about GuidedProjects: nothing is written that was not reviewed.     *)
(***************************************************************************)
EXTENDS StudioSession, SequenceTheorems, WellFoundedInduction, TLAPS

Steps == {"idle", "check", "restore", "clear", "journal", "replace", "unlink", "undo", "drop",
          "answer"}
Operations == [step : Steps, by : Callers, target : Tree, orig : Tree, todo : SUBSET Files,
               answer : Answers]

StoreOK == /\ disk \in Tree /\ exists \in BOOLEAN
           /\ journal = None \/ journal \in Journals
           /\ op \in Operations
SessionOK ==
    /\ open \in BOOLEAN /\ dirty \in BOOLEAN /\ draft \in BOOLEAN
    /\ working \in Tree \cup {None} /\ saved \in Tree \cup {None}
    /\ undo \in Seq(Tree) /\ redo \in Seq(Tree) /\ Len(undo) + Len(redo) <= UndoDepth
    /\ readiness = None \/ readiness \in [candidate : Tree, base : Tree]
    /\ authoring = None \/ authoring \in Forms

LEMMA TypeParts == TypeOK <=> StoreOK /\ SessionOK
BY DEF TypeOK, StoreOK, SessionOK, Operations, Steps

\* Trees are equal that agree on each file.
LEMMA SameTree ==
    ASSUME NEW s \in Tree, NEW t \in Tree, \A f \in Files : s[f] = t[f]
    PROVE  s = t
BY DEF Tree

LEMMA Trees ==
    /\ Nothing \in Tree /\ Starter \in Tree
    /\ \A s, t \in Tree : Overlay(s, t) \in Tree
    /\ \A s \in Tree : Read(s) \in Tree
    /\ \A s \in Tree, r \in Revisions \cup {Absent} : \A f : [s EXCEPT ![f] = r] \in Tree
BY ConstantsAssumption DEF Nothing, Tree, Overlay, Read

\* Where a step leaves the call: the fields that none but some steps change.
OpIs(step, by, target, orig, todo, answer) ==
    /\ op' \in Operations
    /\ op'.step = step /\ op'.by = by /\ op'.target = target
    /\ op'.orig = orig /\ op'.todo = todo /\ op'.answer = answer

LEMMA AtOp ==
    ASSUME op \in Operations, NEW step \in Steps, At(step)
    PROVE  OpIs(step, op.by, op.target, op.orig, op.todo, op.answer)
BY DEF At, OpIs, Operations

LEMMA AnswerOp ==
    ASSUME op \in Operations, NEW answer \in Answers, Answer(answer)
    PROVE  OpIs("answer", op.by, op.target, op.orig, op.todo, answer)
BY DEF Answer, OpIs, Operations, Steps

LEMMA LoopOp ==
    ASSUME op \in Operations, NEW step \in Steps, NEW end \in Steps, NEW files \in SUBSET Files,
           Loop(step, files, end)
    PROVE  OpIs(IF files = {} THEN end ELSE step, op.by, op.target, op.orig, files, op.answer)
<1> DEFINE next == IF files = {} THEN end ELSE step
<1>1. next \in Steps
    OBVIOUS
<1>2. op' = [op EXCEPT !.step = next, !.todo = files]
    BY DEF Loop
<1> HIDE DEF next
<1>3. OpIs(next, op.by, op.target, op.orig, files, op.answer)
    BY <1>1, <1>2 DEF OpIs, Operations
<1> QED
    BY <1>3 DEF next

LEMMA TransactionOp ==
    ASSUME op \in Operations, disk \in Tree, Transaction
    PROVE  OpIs("journal", op.by, op.target, disk, op.todo, op.answer)
BY DEF Transaction, OpIs, Operations, Steps

LEMMA IdleOp == Idle \in Operations /\ Idle.step = "idle" /\ Idle.by = "save" /\ Idle.orig = Nothing
                /\ Idle.target = Nothing /\ Idle.todo = {} /\ Idle.answer = "none"
BY Trees DEF Idle, Operations, Steps, Callers, Answers

LEMMA SaveOp ==
    ASSUME NEW caller \in Callers, NEW contents \in Tree, Save(caller, contents)
    PROVE  \/ OpIs("check", caller, contents, Nothing, {}, "none")
           \/ OpIs("answer", caller, Nothing, Nothing, {}, "refused")
BY IdleOp DEF Save, OpIs, Operations, Steps, Answers, Idle

-----------------------------------------------------------------------------
\* The transaction.

StoreInv == Recoverable /\ Underway /\ SavedIsStored
Kept == StoreOK' /\ StoreInv' /\ op'.by = op.by

\* Between transactions nothing more is asked than that a retained journal can be used.
LEMMA OutsideTransaction ==
    ASSUME Recoverable', op'.step \in {"idle", "check", "answer"},
           op'.step = "answer" /\ op'.by # "recover" => op'.answer # "saved"
    PROVE  StoreInv'
BY DEF StoreInv, Underway, SavedIsStored, InTransaction

\* A journal that is retained, not resolved, knows each file it names.
LEMMA WrittenFiles ==
    ASSUME NEW t \in Tree
    PROVE  Written(t) \in SUBSET Files /\ \A f \in Files : f \in Written(t) <=> t[f] # Absent
BY DEF Written

LEMMA CheckJournalStep ==
    ASSUME StoreOK, StoreInv, CheckJournal
    PROVE  Kept
<1>0. op \in Operations /\ disk \in Tree /\ disk' = disk /\ journal' = journal /\ exists' = exists
    BY DEF StoreOK, CheckJournal
<1>1. Recoverable'
    BY <1>0 DEF StoreInv, Recoverable
<1>2. ASSUME journal = None, op.by # "recover" PROVE Kept
    <2>1. OpIs("journal", op.by, op.target, disk, op.todo, op.answer)
        BY <1>0, <1>2, TransactionOp DEF CheckJournal
    <2>2. Underway' /\ SavedIsStored'
        BY <1>0, <1>2, <2>1 DEF Underway, SavedIsStored, InTransaction, OpIs
    <2> QED
        BY <1>0, <1>1, <1>2, <2>1, <2>2 DEF Kept, StoreOK, StoreInv, OpIs
<1>3. ASSUME journal = None, op.by = "recover" PROVE Kept
    <2>1. OpIs("answer", op.by, op.target, op.orig, op.todo, "saved")
        BY <1>0, <1>3, AnswerOp DEF CheckJournal, Answers
    <2>2. StoreInv'
        BY <1>1, <1>3, <2>1, OutsideTransaction DEF OpIs
    <2> QED
        BY <1>0, <1>3, <2>1, <2>2 DEF Kept, StoreOK, OpIs
<1>4. ASSUME journal # None, Complete PROVE Kept
    <2>1. OpIs("clear", op.by, op.target, op.orig, op.todo, op.answer)
        BY <1>0, <1>4, AtOp DEF CheckJournal, Steps
    <2>2. Complete'
        BY <1>0, <1>4 DEF Complete
    <2>3. Underway' /\ SavedIsStored'
        BY <1>0, <1>4, <2>1, <2>2 DEF Underway, SavedIsStored, InTransaction, OpIs
    <2> QED
        BY <1>0, <1>1, <1>4, <2>1, <2>3 DEF Kept, StoreOK, StoreInv, OpIs
<1>5. ASSUME journal # None, ~Complete PROVE Kept
    <2>0. journal \in Journals /\ journal.candidate \in Tree
        BY <1>5 DEF StoreOK, Journals
    <2>1. /\ Written(journal.candidate) # {} /\ Written(journal.candidate) \in SUBSET Files
          /\ \A f \in Files : f \in Written(journal.candidate) <=> journal.candidate[f] # Absent
        BY <1>5, <2>0, WrittenFiles DEF Complete
    <2>2. OpIs("restore", op.by, op.target, op.orig, Written(journal.candidate), op.answer)
        BY <1>0, <1>5, <2>1, LoopOp DEF CheckJournal, Steps
    <2>3. ~Complete'
        BY <1>0, <1>5 DEF Complete
    <2>4. op'.todo = Written(journal'.candidate)
        BY <1>0, <2>2 DEF OpIs
    <2>5. Underway' /\ SavedIsStored'
        BY <1>0, <1>5, <2>1, <2>2, <2>3, <2>4 DEF Underway, SavedIsStored, InTransaction, OpIs
    <2> QED
        BY <1>0, <1>1, <1>5, <2>2, <2>5 DEF Kept, StoreOK, StoreInv, OpIs
<1> QED
    BY <1>2, <1>3, <1>4, <1>5

\* A file that is replaced leaves the others as they are.
LEMMA OneFile ==
    ASSUME disk \in Tree, NEW f \in Files, NEW t \in Tree, disk' = [disk EXCEPT ![f] = t[f]]
    PROVE  disk' \in Tree /\ disk'[f] = t[f] /\ \A g \in Files \ {f} : disk'[g] = disk[g]
BY DEF Tree

LEMMA RestoreStep ==
    ASSUME StoreOK, StoreInv, Restore
    PROVE  Kept
<1>0. /\ op \in Operations /\ op.todo \in SUBSET Files /\ disk \in Tree /\ exists \in BOOLEAN
      /\ journal' = journal /\ exists' = exists /\ op.step = "restore"
    BY DEF StoreOK, Restore, Operations
<1>1. /\ journal # None /\ ~Complete /\ op.todo \subseteq Written(journal.candidate)
      /\ \A f \in Files : journal.candidate[f] # Absent =>
             f \in op.todo \/ disk[f] = journal.before[f]
    BY <1>0 DEF StoreInv, Underway
<1>2. journal \in Journals /\ journal.before \in Tree /\ journal.candidate \in Tree
    BY <1>1 DEF StoreOK, Journals
<1>3. PICK f \in Files : /\ First(f)
                         /\ disk' = [disk EXCEPT ![f] = journal.before[f]]
                         /\ Loop("restore", op.todo \ {f}, "clear")
    BY DEF Restore
<1>4. disk' \in Tree /\ disk'[f] = journal.before[f] /\ \A g \in Files \ {f} : disk'[g] = disk[g]
    BY <1>0, <1>2, <1>3, OneFile
<1>5. OpIs(IF op.todo \ {f} = {} THEN "clear" ELSE "restore", op.by, op.target, op.orig,
           op.todo \ {f}, op.answer)
    BY <1>0, <1>3, LoopOp DEF Steps
<1>6. \A g \in Files : journal.candidate[g] # Absent =>
          disk[g] \in {journal.before[g], journal.candidate[g]}
    BY <1>1 DEF StoreInv, Recoverable
<1>7. Recoverable'
    BY <1>0, <1>4, <1>6 DEF Recoverable
<1>8. \A g \in Files : journal.candidate[g] # Absent =>
          g \in op'.todo \/ disk'[g] = journal.before[g]
    BY <1>1, <1>4, <1>5 DEF OpIs
<1>9. ~Complete'
    <2>1. PICK g \in Files : journal.candidate[g] # Absent /\ disk[g] # journal.candidate[g]
        BY <1>1 DEF Complete
    <2>2. disk'[g] # journal.candidate[g]
        BY <1>4, <1>6, <2>1
    <2> QED
        BY <1>0, <2>1, <2>2 DEF Complete
<1>10. op.todo \ {f} = {} => disk' = Before(disk)'
    <2> SUFFICES ASSUME op.todo \ {f} = {} PROVE disk' = Before(disk)'
        OBVIOUS
    <2>1. Before(disk)' \in Tree
        BY <1>0, <1>2, <1>4 DEF Before, Tree
    <2>2. \A g \in Files : disk'[g] = Before(disk)'[g]
        BY <1>0, <1>5, <1>8 DEF Before, OpIs
    <2> QED
        BY <1>4, <2>1, <2>2, SameTree
<1>11. Underway' /\ SavedIsStored'
    <2>1. CASE op.todo \ {f} = {}
        <3>1. op'.step = "clear"
            BY <1>5, <2>1 DEF OpIs
        <3> QED
            BY <1>0, <1>1, <1>10, <2>1, <3>1 DEF Underway, SavedIsStored, InTransaction
    <2>2. CASE op.todo \ {f} # {}
        <3>1. op'.step = "restore" /\ op'.todo \subseteq Written(journal'.candidate)
            BY <1>0, <1>1, <1>5, <2>2 DEF OpIs
        <3> QED
            BY <1>0, <1>1, <1>8, <1>9, <3>1 DEF Underway, SavedIsStored, InTransaction
    <2> QED
        BY <2>1, <2>2
<1> QED
    BY <1>0, <1>2, <1>4, <1>5, <1>7, <1>11 DEF Kept, StoreOK, StoreInv, OpIs

LEMMA ClearJournalStep ==
    ASSUME StoreOK, StoreInv, ClearJournal
    PROVE  Kept
<1>0. /\ op \in Operations /\ disk \in Tree /\ exists \in BOOLEAN
      /\ journal' = None /\ exists' = exists /\ disk' = disk
    BY DEF StoreOK, ClearJournal
<1>1. Recoverable'
    BY <1>0 DEF Recoverable
<1>2. CASE op.by = "recover"
    <2>1. OpIs("answer", op.by, op.target, op.orig, op.todo, "saved")
        BY <1>0, <1>2, AnswerOp DEF ClearJournal, Answers
    <2>2. StoreInv'
        BY <1>1, <1>2, <2>1, OutsideTransaction DEF OpIs
    <2> QED
        BY <1>0, <1>2, <2>1, <2>2 DEF Kept, StoreOK, OpIs
<1>3. CASE op.by # "recover"
    <2>1. OpIs("journal", op.by, op.target, disk, op.todo, op.answer)
        BY <1>0, <1>3, TransactionOp DEF ClearJournal
    <2>2. Underway' /\ SavedIsStored'
        BY <1>0, <2>1 DEF Underway, SavedIsStored, InTransaction, OpIs
    <2> QED
        BY <1>0, <1>1, <1>3, <2>1, <2>2 DEF Kept, StoreOK, StoreInv, OpIs
<1> QED
    BY <1>2, <1>3

LEMMA WriteJournalStep ==
    ASSUME StoreOK, StoreInv, WriteJournal
    PROVE  Kept
<1>0. /\ op \in Operations /\ op.target \in Tree /\ op.orig \in Tree /\ disk \in Tree
      /\ op.step = "journal" /\ exists \in BOOLEAN
      /\ journal' = [before |-> op.orig, candidate |-> op.target]
      /\ exists' = exists /\ disk' = disk /\ disk = op.orig
    BY DEF StoreOK, WriteJournal, Operations, StoreInv, Underway
<1>1. /\ journal' \in Journals /\ journal' # None
      /\ journal'.before = op.orig /\ journal'.candidate = op.target
    <2>1. journal' \in Journals /\ journal'.before = op.orig /\ journal'.candidate = op.target
        BY <1>0 DEF Journals
    <2>2. journal' # None
        BY <2>1, ConstantsAssumption
    <2> QED
        BY <2>1, <2>2
<1>2. /\ Written(op.target) \in SUBSET Files
      /\ \A f \in Files : f \in Written(op.target) <=> op.target[f] # Absent
    BY <1>0, WrittenFiles
<1>3. OpIs(IF Written(op.target) = {} THEN "unlink" ELSE "replace", op.by, op.target, op.orig,
           Written(op.target), op.answer)
    BY <1>0, <1>2, LoopOp DEF WriteJournal, Steps
<1>4. Recoverable'
    BY <1>0, <1>1 DEF Recoverable
<1>5. /\ journal' = [before |-> op'.orig, candidate |-> op'.target]
      /\ \A f \in Files : disk'[f] = op'.orig[f]
      /\ op'.todo = Written(op'.target)
      /\ \A f \in Files : op'.target[f] # Absent => f \in op'.todo
    BY <1>0, <1>2, <1>3 DEF OpIs
<1>6. CASE Written(op.target) = {}
    <2>1. op'.step = "unlink" /\ \A f \in Files : op'.target[f] = Absent
        BY <1>2, <1>3, <1>6 DEF OpIs
    <2>2. Underway' /\ SavedIsStored'
        BY <1>1, <1>5, <2>1 DEF Underway, SavedIsStored, InTransaction
    <2> QED
        BY <1>0, <1>1, <1>3, <1>4, <2>2 DEF Kept, StoreOK, StoreInv, OpIs
<1>7. CASE Written(op.target) # {}
    <2>1. op'.step = "replace"
        BY <1>3, <1>7 DEF OpIs
    <2>2. Underway' /\ SavedIsStored'
        BY <1>1, <1>5, <2>1 DEF Underway, SavedIsStored, InTransaction
    <2> QED
        BY <1>0, <1>1, <1>3, <1>4, <2>2 DEF Kept, StoreOK, StoreInv, OpIs
<1> QED
    BY <1>6, <1>7

LEMMA ReplaceFileStep ==
    ASSUME StoreOK, StoreInv, ReplaceFile
    PROVE  Kept
<1>0. /\ op \in Operations /\ op.target \in Tree /\ op.orig \in Tree /\ disk \in Tree
      /\ op.todo \in SUBSET Files /\ op.step = "replace" /\ exists \in BOOLEAN
      /\ exists' = exists /\ journal' = journal
    BY DEF StoreOK, ReplaceFile, Operations
<1>1. /\ journal = [before |-> op.orig, candidate |-> op.target] /\ journal # None
      /\ op.todo \subseteq Written(op.target)
      /\ \A f \in Files : disk[f] = op.orig[f] \/ Replaced(f)
      /\ \A f \in Files : op.target[f] # Absent => f \in op.todo \/ Replaced(f)
    BY <1>0 DEF StoreInv, Underway, InTransaction
<1>2. PICK f \in Files : /\ First(f)
                         /\ disk' = [disk EXCEPT ![f] = op.target[f]]
                         /\ Loop("replace", op.todo \ {f}, "unlink")
    BY DEF ReplaceFile
<1>3. disk' \in Tree /\ disk'[f] = op.target[f] /\ \A g \in Files \ {f} : disk'[g] = disk[g]
    BY <1>0, <1>2, OneFile
<1>4. OpIs(IF op.todo \ {f} = {} THEN "unlink" ELSE "replace", op.by, op.target, op.orig,
           op.todo \ {f}, op.answer)
    BY <1>0, <1>2, LoopOp DEF Steps
<1>5. op.target[f] # Absent
    BY <1>0, <1>1, <1>2, WrittenFiles DEF First
<1>6. /\ op'.target = op.target /\ op'.orig = op.orig /\ op'.todo = op.todo \ {f}
      /\ op'.by = op.by /\ op' \in Operations
    BY <1>4 DEF OpIs
<1>7. \A g \in Files : disk'[g] = op'.orig[g] \/ Replaced(g)'
    BY <1>1, <1>3, <1>5, <1>6 DEF Replaced
<1>8. \A g \in Files : op'.target[g] # Absent => g \in op'.todo \/ Replaced(g)'
    BY <1>1, <1>3, <1>5, <1>6 DEF Replaced
<1>9. /\ journal' = [before |-> op'.orig, candidate |-> op'.target] /\ journal' # None
      /\ journal'.before = op'.orig /\ journal'.candidate = op'.target
    BY <1>0, <1>1, <1>6
<1>10. Recoverable'
    BY <1>7, <1>9 DEF Recoverable, Replaced
<1>11. CASE op.todo \ {f} = {}
    <2>1. op'.step = "unlink" /\ \A g \in Files : op'.target[g] # Absent => Replaced(g)'
        BY <1>4, <1>6, <1>8, <1>11 DEF OpIs
    <2>2. Underway' /\ SavedIsStored'
        BY <1>7, <1>9, <2>1 DEF Underway, SavedIsStored, InTransaction
    <2> QED
        BY <1>0, <1>3, <1>6, <1>9, <1>10, <2>2 DEF Kept, StoreOK, StoreInv
<1>12. CASE op.todo \ {f} # {}
    <2>1. op'.step = "replace" /\ op'.todo \subseteq Written(op'.target)
        BY <1>1, <1>4, <1>6, <1>12 DEF OpIs
    <2>2. Underway' /\ SavedIsStored'
        BY <1>7, <1>8, <1>9, <2>1 DEF Underway, SavedIsStored, InTransaction
    <2> QED
        BY <1>0, <1>3, <1>6, <1>9, <1>10, <2>2 DEF Kept, StoreOK, StoreInv
<1> QED
    BY <1>11, <1>12

LEMMA UnlinkJournalStep ==
    ASSUME StoreOK, StoreInv, UnlinkJournal
    PROVE  Kept
<1>0. /\ op \in Operations /\ op.target \in Tree /\ op.orig \in Tree /\ disk \in Tree
      /\ op.step = "unlink" /\ exists \in BOOLEAN
      /\ exists' = exists /\ journal' = None /\ disk' = disk
    BY DEF StoreOK, UnlinkJournal, Operations
<1>1. /\ \A f \in Files : disk[f] = op.orig[f] \/ Replaced(f)
      /\ \A f \in Files : op.target[f] # Absent => Replaced(f)
    BY <1>0 DEF StoreInv, Underway, InTransaction
<1>2. OpIs("answer", op.by, op.target, op.orig, op.todo, "saved")
    BY <1>0, AnswerOp DEF UnlinkJournal, Answers
<1>3. disk = Overlay(op.orig, op.target)
    <2>1. Overlay(op.orig, op.target) \in Tree
        BY <1>0, Trees
    <2>2. \A f \in Files : disk[f] = Overlay(op.orig, op.target)[f]
        BY <1>1 DEF Overlay, Replaced
    <2> QED
        BY <1>0, <2>1, <2>2, SameTree
<1>4. op'.target = op.target /\ op'.orig = op.orig /\ op'.step = "answer" /\ op'.by = op.by
      /\ op' \in Operations
    BY <1>2 DEF OpIs
<1>5. Recoverable' /\ Underway'
    BY <1>0, <1>4 DEF Recoverable, Underway, InTransaction
<1>6. SavedIsStored'
    BY <1>0, <1>3, <1>4 DEF SavedIsStored
<1> QED
    BY <1>0, <1>4, <1>5, <1>6 DEF Kept, StoreOK, StoreInv

LEMMA RollBackFileStep ==
    ASSUME StoreOK, StoreInv, RollBackFile
    PROVE  Kept
<1>0. /\ op \in Operations /\ op.target \in Tree /\ op.orig \in Tree /\ disk \in Tree
      /\ op.todo \in SUBSET Files /\ op.step = "undo" /\ exists \in BOOLEAN
      /\ exists' = exists /\ journal' = journal /\ (journal = None \/ journal \in Journals)
    BY DEF StoreOK, RollBackFile, Operations
<1>1. /\ journal = None \/ journal = [before |-> op.orig, candidate |-> op.target]
      /\ \A f \in Files : disk[f] = op.orig[f] \/ Replaced(f)
      /\ \A f \in Files : f \in op.todo \/ disk[f] = op.orig[f]
      /\ journal = None => disk = op.orig
    BY <1>0 DEF StoreInv, Underway, InTransaction
<1>2. PICK f \in Files : /\ First(f)
                         /\ disk' = [disk EXCEPT ![f] = op.orig[f]]
                         /\ Loop("undo", op.todo \ {f}, "drop")
    BY DEF RollBackFile
<1>3. disk' \in Tree /\ disk'[f] = op.orig[f] /\ \A g \in Files \ {f} : disk'[g] = disk[g]
    BY <1>0, <1>2, OneFile
<1>4. OpIs(IF op.todo \ {f} = {} THEN "drop" ELSE "undo", op.by, op.target, op.orig,
           op.todo \ {f}, op.answer)
    BY <1>0, <1>2, LoopOp DEF Steps
<1>5. /\ op'.target = op.target /\ op'.orig = op.orig /\ op'.todo = op.todo \ {f}
      /\ op'.by = op.by /\ op' \in Operations
    BY <1>4 DEF OpIs
<1>6. \A g \in Files : disk'[g] = op'.orig[g] \/ Replaced(g)'
    BY <1>1, <1>3, <1>5 DEF Replaced
<1>7. \A g \in Files : g \in op'.todo \/ disk'[g] = op'.orig[g]
    BY <1>1, <1>3, <1>5
<1>8. journal' = None \/ journal' = [before |-> op'.orig, candidate |-> op'.target]
    BY <1>0, <1>1, <1>5
<1>9. journal' = None => disk' = op'.orig
    <2> SUFFICES ASSUME journal = None PROVE disk' = op.orig
        BY <1>0, <1>5
    <2>1. \A g \in Files : disk'[g] = op.orig[g]
        BY <1>1, <1>3
    <2> QED
        BY <1>0, <1>3, <2>1, SameTree
<1>10. Recoverable'
    BY <1>6, <1>8 DEF Recoverable, Replaced
<1>11. CASE op.todo \ {f} = {}
    <2>1. op'.step = "drop" /\ \A g \in Files : disk'[g] = op'.orig[g]
        BY <1>4, <1>5, <1>7, <1>11 DEF OpIs
    <2>2. disk' = op'.orig
        BY <1>0, <1>3, <1>5, <2>1, SameTree
    <2>3. Underway' /\ SavedIsStored'
        BY <1>6, <1>8, <2>1, <2>2 DEF Underway, SavedIsStored, InTransaction
    <2> QED
        BY <1>0, <1>3, <1>5, <1>10, <2>3 DEF Kept, StoreOK, StoreInv
<1>12. CASE op.todo \ {f} # {}
    <2>1. op'.step = "undo"
        BY <1>4, <1>12 DEF OpIs
    <2>2. Underway' /\ SavedIsStored'
        BY <1>6, <1>7, <1>8, <1>9, <2>1 DEF Underway, SavedIsStored, InTransaction
    <2> QED
        BY <1>0, <1>3, <1>5, <1>10, <2>2 DEF Kept, StoreOK, StoreInv
<1> QED
    BY <1>11, <1>12

LEMMA DropJournalStep ==
    ASSUME StoreOK, StoreInv, DropJournal
    PROVE  Kept
<1>0. /\ op \in Operations /\ disk \in Tree /\ exists \in BOOLEAN
      /\ exists' = exists /\ journal' = None /\ disk' = disk
    BY DEF StoreOK, DropJournal
<1>1. OpIs("answer", op.by, op.target, op.orig, op.todo, "restored")
    BY <1>0, AnswerOp DEF DropJournal, Answers
<1>2. Recoverable'
    BY <1>0 DEF Recoverable
<1>3. StoreInv'
    BY <1>1, <1>2, OutsideTransaction DEF OpIs
<1> QED
    BY <1>0, <1>1, <1>3 DEF Kept, StoreOK, OpIs

\* A rollback begins with all the files written, or with none to roll back.
LEMMA StepFailsStep ==
    ASSUME StoreOK, StoreInv, StepFails
    PROVE  Kept
<1>0. /\ op \in Operations /\ op.target \in Tree /\ op.orig \in Tree /\ disk \in Tree
      /\ exists \in BOOLEAN /\ (journal = None \/ journal \in Journals)
      /\ exists' = exists /\ journal' = journal /\ disk' = disk
    BY DEF StoreOK, StepFails, Operations
<1>1. Recoverable'
    BY <1>0 DEF StoreInv, Recoverable
<1>2. ASSUME op.step \in {"journal", "replace", "unlink"}, Loop("undo", RollBack, "drop")
      PROVE  Kept
    <2>1. /\ Written(op.target) \in SUBSET Files
          /\ \A f \in Files : f \in Written(op.target) <=> op.target[f] # Absent
        BY <1>0, WrittenFiles
    <2>2. OpIs(IF Written(op.target) = {} THEN "drop" ELSE "undo", op.by, op.target, op.orig,
               Written(op.target), op.answer)
        BY <1>0, <1>2, <2>1, LoopOp DEF RollBack, Steps
    <2>3. /\ journal = None \/ journal = [before |-> op.orig, candidate |-> op.target]
          /\ \A f \in Files : disk[f] = op.orig[f] \/ Replaced(f)
          /\ journal = None => disk = op.orig
        BY <1>2 DEF StoreInv, Underway, InTransaction
    <2>4. /\ op'.target = op.target /\ op'.orig = op.orig /\ op'.todo = Written(op.target)
          /\ op'.by = op.by /\ op' \in Operations
        BY <2>2 DEF OpIs
    <2>5. \A f \in Files : disk'[f] = op'.orig[f] \/ Replaced(f)'
        BY <1>0, <2>3, <2>4 DEF Replaced
    <2>6. \A f \in Files : f \in op'.todo \/ disk'[f] = op'.orig[f]
        BY <1>0, <2>1, <2>3, <2>4 DEF Replaced
    <2>7. journal' = None \/ journal' = [before |-> op'.orig, candidate |-> op'.target]
        BY <1>0, <2>3, <2>4
    <2>8. journal' = None => disk' = op'.orig
        BY <1>0, <2>3, <2>4
    <2>9. Underway' /\ SavedIsStored'
        <3>1. CASE Written(op.target) = {}
            <4>1. op'.step = "drop" /\ \A f \in Files : disk[f] = op.orig[f]
                BY <1>0, <2>2, <2>4, <2>6, <3>1 DEF OpIs
            <4>2. disk' = op'.orig
                BY <1>0, <2>4, <4>1, SameTree
            <4> QED
                BY <2>5, <2>7, <4>1, <4>2 DEF Underway, SavedIsStored, InTransaction
        <3>2. CASE Written(op.target) # {}
            <4>1. op'.step = "undo"
                BY <2>2, <3>2 DEF OpIs
            <4> QED
                BY <2>5, <2>6, <2>7, <2>8, <4>1 DEF Underway, SavedIsStored, InTransaction
        <3> QED
            BY <3>1, <3>2
    <2> QED
        BY <1>0, <1>1, <2>4, <2>9 DEF Kept, StoreOK, StoreInv
<1>3. ASSUME Answer("retained") PROVE Kept
    <2>1. OpIs("answer", op.by, op.target, op.orig, op.todo, "retained")
        BY <1>0, <1>3, AnswerOp DEF Answers
    <2>2. StoreInv'
        BY <1>1, <2>1, OutsideTransaction DEF OpIs
    <2> QED
        BY <1>0, <2>1, <2>2 DEF Kept, StoreOK, OpIs
<1> QED
    BY <1>2, <1>3 DEF StepFails

\* Every step of a transaction moves on from where it checks for a journal.
LEMMA ServiceLeavesCheck ==
    ASSUME op \in Operations, ServiceStep
    PROVE  /\ op.step # "idle" /\ op'.step # "check" /\ exists' = exists
           /\ UNCHANGED session
<1>1. /\ \A s : At(s) => op'.step = s
      /\ \A a : Answer(a) => op'.step = "answer"
      /\ \A s, fs, e : Loop(s, fs, e) => op'.step = s \/ op'.step = e
      /\ Transaction => op'.step = "journal"
    BY DEF At, Answer, Loop, Transaction, Operations
<1>2. CASE CheckJournal \/ Restore \/ ClearJournal
    BY <1>1, <1>2 DEF CheckJournal, Restore, ClearJournal, ServiceStep
<1>3. CASE WriteJournal \/ ReplaceFile \/ UnlinkJournal
    BY <1>1, <1>3 DEF WriteJournal, ReplaceFile, UnlinkJournal, ServiceStep
<1>4. CASE RollBackFile \/ DropJournal \/ StepFails
    BY <1>1, <1>4 DEF RollBackFile, DropJournal, StepFails, ServiceStep
<1> QED
    BY <1>2, <1>3, <1>4 DEF ServiceStep

\* Only the look for a journal and the recovery lead to a recovery.
LEMMA IntoRecovery ==
    ASSUME op \in Operations, ServiceStep, op'.step \in {"restore", "clear"}
    PROVE  CheckJournal \/ Restore
<1>1. /\ \A s : At(s) => op'.step = s
      /\ \A a : Answer(a) => op'.step = "answer"
      /\ \A s, fs, e : Loop(s, fs, e) => op'.step = s \/ op'.step = e
      /\ Transaction => op'.step = "journal"
    BY DEF At, Answer, Loop, Transaction, Operations
<1>2. ~ClearJournal
    BY <1>1 DEF ClearJournal
<1>3. ~WriteJournal /\ ~ReplaceFile /\ ~UnlinkJournal
    BY <1>1 DEF WriteJournal, ReplaceFile, UnlinkJournal
<1>4. ~RollBackFile /\ ~DropJournal /\ ~StepFails
    BY <1>1 DEF RollBackFile, DropJournal, StepFails
<1> QED
    BY <1>2, <1>3, <1>4 DEF ServiceStep

\* What is reviewed stays as reviewed until the transaction, or is put back by the recovery.
LEMMA CarriedOn ==
    ASSUME StoreOK, StoreOK', StoreInv, StoreInv', ReviewCarried, ServiceStep, op'.by = op.by
    PROVE  ReviewCarried'
<1>1. /\ op \in Operations /\ disk \in Tree
      /\ op'.step # "check" /\ readiness' = readiness /\ authoring' = authoring
    BY ServiceLeavesCheck DEF StoreOK, session
<1> SUFFICES ASSUME op'.step \in {"restore", "clear"}, NEW f \in Files
             PROVE  AsReviewed(f, disk)' \/ PutBack(f)'
    BY <1>1 DEF ReviewCarried
<1>2. CASE CheckJournal
    <2>1. op.step = "check" /\ disk' = disk
        BY <1>2 DEF CheckJournal
    <2>2. AsReviewed(f, disk)
        BY <2>1 DEF ReviewCarried
    <2> QED
        BY <1>1, <2>1, <2>2 DEF AsReviewed, Read
<1>3. CASE Restore
    <2>1. op.step = "restore" /\ journal' = journal
        BY <1>3 DEF Restore
    <2>2. journal # None /\ ~Complete /\ op.todo \subseteq Written(journal.candidate)
        BY <2>1 DEF StoreInv, Underway
    <2>3. journal \in Journals /\ journal.before \in Tree /\ journal.candidate \in Tree
        BY <2>2 DEF StoreOK, Journals
    <2>4. PICK g \in Files : First(g) /\ disk' = [disk EXCEPT ![g] = journal.before[g]]
        BY <1>3 DEF Restore
    <2>5. disk' \in Tree /\ disk'[g] = journal.before[g] /\ \A h \in Files \ {g} : disk'[h] = disk[h]
        BY <1>1, <2>3, <2>4, OneFile
    <2>6. g \in op.todo /\ journal.candidate[g] # Absent
        BY <2>2, <2>4 DEF First, Written
    <2>7. \A h \in Files : journal.candidate[h] # Absent =>
              disk[h] \in {journal.before[h], journal.candidate[h]}
        BY <2>2 DEF StoreInv, Recoverable
    <2>8. ~Complete'
        <3>1. PICK h \in Files : journal.candidate[h] # Absent /\ disk[h] # journal.candidate[h]
            BY <2>2 DEF Complete
        <3>2. disk'[h] # journal.candidate[h]
            BY <2>5, <2>7, <3>1
        <3> QED
            BY <2>1, <3>1, <3>2 DEF Complete
    <2>9. AsReviewed(f, disk) \/ PutBack(f)
        BY <2>1 DEF ReviewCarried
    <2>10. ASSUME PutBack(f), disk'[f] = journal.before[f] PROVE PutBack(f)'
        BY <1>1, <2>1, <2>2, <2>8, <2>10 DEF PutBack, AsReviewed, Read
    <2>11. CASE f # g
        <3>1. disk'[f] = disk[f]
            BY <2>5, <2>11
        <3>2. CASE AsReviewed(f, disk)
            BY <1>1, <3>1, <3>2 DEF AsReviewed, Read
        <3>3. CASE PutBack(f)
            BY <2>10, <3>1, <3>3 DEF PutBack
        <3> QED
            BY <2>9, <3>2, <3>3
    <2>12. CASE f = g
        <3>1. disk'[f] = journal.before[f] /\ disk[f] \in {journal.before[f], journal.candidate[f]}
            BY <2>5, <2>6, <2>7, <2>12
        <3>2. CASE PutBack(f)
            BY <2>10, <3>1, <3>2
        <3>3. CASE AsReviewed(f, disk) /\ disk[f] = journal.before[f]
            BY <1>1, <3>1, <3>3 DEF AsReviewed, Read
        <3>4. CASE AsReviewed(f, disk) /\ disk[f] = journal.candidate[f]
            <4>1. AsReviewed(f, journal.candidate)'
                BY <1>1, <2>1, <3>4 DEF AsReviewed, Read
            <4> QED
                BY <2>1, <2>2, <2>6, <2>8, <2>12, <3>1, <4>1 DEF PutBack
        <3> QED
            BY <2>9, <3>1, <3>2, <3>3, <3>4
    <2> QED
        BY <2>11, <2>12
<1> QED
    BY <1>1, <1>2, <1>3, IntoRecovery

LEMMA ServiceStepKeeps ==
    ASSUME IInv, ServiceStep
    PROVE  IInv'
<1>1. StoreOK /\ SessionOK /\ StoreInv /\ Founded
    BY TypeParts DEF IInv, StoreInv
<1>2. Kept
    BY <1>1, CheckJournalStep, RestoreStep, ClearJournalStep, WriteJournalStep, ReplaceFileStep,
       UnlinkJournalStep, RollBackFileStep, DropJournalStep, StepFailsStep DEF ServiceStep
<1>3. /\ op.step # "idle" /\ op'.step # "check" /\ exists' = exists /\ op'.by = op.by
      /\ UNCHANGED session
    BY <1>1, <1>2, ServiceLeavesCheck DEF StoreOK, Kept
<1>4. SessionOK'
    BY <1>1, <1>3 DEF SessionOK, session
<1>5. TypeOK'
    BY <1>2, <1>4, TypeParts DEF Kept, TypeOK, StoreOK, SessionOK, Operations, Steps
<1>6. Founded'
    BY <1>1, <1>3 DEF Founded, session
<1>7. ReviewCarried'
    BY <1>1, <1>2, CarriedOn DEF IInv, Kept
<1> QED
    BY <1>2, <1>5, <1>6, <1>7 DEF IInv, Kept, StoreInv

-----------------------------------------------------------------------------
\* The session.

LEMMA NoHistory == <<>> \in Seq(Tree) /\ Len(<<>>) + Len(<<>>) <= UndoDepth
BY ConstantsAssumption

LEMMA LoadOK ==
    ASSUME SessionOK, NEW contents \in Tree, Load(contents), draft' \in BOOLEAN
    PROVE  SessionOK' /\ readiness' = None /\ open' = TRUE
<1>1. /\ undo' = <<>> /\ redo' = <<>> /\ working' = contents /\ saved' = contents
      /\ readiness' = None /\ authoring' = None /\ open' = TRUE /\ dirty' = FALSE
    BY DEF Load
<1>2. undo' \in Seq(Tree) /\ redo' \in Seq(Tree) /\ Len(undo') + Len(redo') <= UndoDepth
    BY <1>1, NoHistory
<1> QED
    BY <1>1, <1>2 DEF SessionOK

LEMMA UnloadOK ==
    ASSUME SessionOK, Unload, authoring' = authoring \/ authoring' = None, draft' \in BOOLEAN
    PROVE  SessionOK' /\ readiness' = None /\ open' = FALSE
<1>1. /\ undo' = <<>> /\ redo' = <<>> /\ working' = None /\ saved' = None
      /\ readiness' = None /\ open' = FALSE /\ dirty' = FALSE
    BY DEF Unload
<1>2. undo' \in Seq(Tree) /\ redo' \in Seq(Tree) /\ Len(undo') + Len(redo') <= UndoDepth
    BY <1>1, NoHistory
<1> QED
    BY <1>1, <1>2 DEF SessionOK

\* A project is loaded from a directory that exists.
LEMMA LoadFromOK ==
    ASSUME SessionOK, Founded, disk \in Tree, LoadFrom(disk), draft' \in BOOLEAN
    PROVE  SessionOK' /\ readiness' = None /\ (open' => exists)
<1>1. Read(disk) \in Tree
    BY Trees
<1>2. Valid(disk) => exists
    BY ConstantsAssumption DEF Founded
<1> QED
    BY <1>1, <1>2, LoadOK, UnloadOK DEF LoadFrom

LEMMA ShowNoProjectOK ==
    ASSUME SessionOK, ShowNoProject, draft' \in BOOLEAN, dirty' \in BOOLEAN
    PROVE  SessionOK' /\ readiness' = readiness /\ open' = FALSE
BY DEF SessionOK, ShowNoProject

\* The history stays within its depth.
LEMMA RecordEditOK ==
    ASSUME SessionOK, working \in Tree, RecordEdit
    PROVE  undo' \in Seq(Tree) /\ redo' \in Seq(Tree) /\ Len(undo') + Len(redo') <= UndoDepth
<1> DEFINE stack == Append(undo, working)
           from == IF Len(stack) > UndoDepth THEN 2 ELSE 1
<1>0. undo \in Seq(Tree) /\ redo \in Seq(Tree) /\ Len(undo) + Len(redo) <= UndoDepth
    BY DEF SessionOK
<1>1. UndoDepth \in Nat /\ Len(undo) \in Nat /\ Len(redo) \in Nat
    BY <1>0, ConstantsAssumption
<1>2. stack \in Seq(Tree) /\ Len(stack) = Len(undo) + 1
    BY <1>0
<1>3. undo' = SubSeq(stack, from, Len(stack)) /\ redo' = <<>>
    BY DEF RecordEdit
<1> HIDE DEF stack
<1>4. from \in {1, 2} /\ from <= Len(stack) + 1
    BY <1>1, <1>2
<1>5. undo' \in Seq(Tree)
    BY <1>2, <1>3, <1>4, SubSeqProperties
<1>6. Len(undo') = IF from <= Len(stack) THEN Len(stack) - from + 1 ELSE 0
    BY <1>2, <1>3, <1>4, SubSeqProperties
<1>7. Len(undo') <= UndoDepth /\ Len(undo') \in Nat
    BY <1>0, <1>1, <1>2, <1>4, <1>6
<1> QED
    BY <1>1, <1>3, <1>5, <1>7

LEMMA HistoryOK ==
    ASSUME NEW s \in Seq(Tree), NEW t \in Seq(Tree), NEW w \in Tree, s # <<>>
    PROVE  /\ Last(s) \in Tree /\ Front(s) \in Seq(Tree) /\ Append(t, w) \in Seq(Tree)
           /\ Len(Front(s)) + Len(Append(t, w)) = Len(s) + Len(t)
<1>1. Len(s) \in Nat /\ Len(s) # 0
    OBVIOUS
<1>2. Last(s) \in Tree
    BY <1>1 DEF Last
<1>3. Front(s) \in Seq(Tree) /\ Len(Front(s)) = Len(s) - 1
    <2> DEFINE n == Len(s) - 1
    <2>1. n \in Nat /\ 1 \in Int /\ \A i \in 1..n : s[i] \in Tree
        BY <1>1
    <2>2. Front(s) = SubSeq(s, 1, n)
        BY DEF Front
    <2> HIDE DEF n
    <2>3. SubSeq(s, 1, n) \in Seq(Tree) /\ Len(SubSeq(s, 1, n)) = IF 1 <= n THEN n - 1 + 1 ELSE 0
        BY <2>1, SubSeqProperties
    <2>4. Len(SubSeq(s, 1, n)) = n
        BY <2>1, <2>3
    <2> QED
        BY <2>2, <2>3, <2>4 DEF n
<1>4. Append(t, w) \in Seq(Tree) /\ Len(Append(t, w)) = Len(t) + 1
    OBVIOUS
<1> QED
    BY <1>1, <1>2, <1>3, <1>4

LEMMA InvParts == IInv <=> StoreOK /\ SessionOK /\ StoreInv /\ Founded /\ ReviewCarried
BY TypeParts DEF IInv, StoreInv

\* The same, of the state a step leads to.
LEMMA InvPartsNext ==
    ASSUME StoreOK', SessionOK', StoreInv', Founded', ReviewCarried'
    PROVE  IInv'
<1>1. TypeOK'
    BY DEF TypeOK, StoreOK, SessionOK, Operations, Steps
<1> QED
    BY <1>1 DEF IInv, StoreInv

\* A command that calls no service.
LEMMA SessionAction ==
    ASSUME IInv, Command, UNCHANGED store, SessionOK', open' \/ readiness' # None => exists
    PROVE  IInv'
<1>1. StoreOK /\ StoreInv /\ Founded
    BY InvParts
<1>2. disk' = disk /\ exists' = exists /\ journal' = journal /\ op' = op /\ op.step = "idle"
    BY DEF store, Command
<1>3. StoreOK'
    BY <1>1, <1>2 DEF StoreOK
<1>4. Recoverable'
    BY <1>1, <1>2 DEF StoreInv, Recoverable
<1>5. StoreInv'
    BY <1>2, <1>4, OutsideTransaction
<1>6. Founded'
    BY <1>1, <1>2 DEF Founded
<1>7. ReviewCarried'
    BY <1>2 DEF ReviewCarried
<1> QED
    BY <1>3, <1>5, <1>6, <1>7, InvPartsNext

LEMMA OpenProjectKeeps == IInv /\ OpenProject => IInv'
<1> SUFFICES ASSUME IInv, OpenProject PROVE IInv'
    OBVIOUS
<1>1. SessionOK /\ Founded /\ disk \in Tree /\ Command /\ UNCHANGED store /\ draft' = draft
    BY InvParts DEF StoreOK, OpenProject
<1>2. draft' \in BOOLEAN /\ dirty \in BOOLEAN
    BY <1>1 DEF SessionOK
<1>3. ASSUME LoadFrom(disk) PROVE SessionOK' /\ (open' \/ readiness' # None => exists)
    BY <1>1, <1>2, <1>3, LoadFromOK
<1>4. ASSUME Unload, authoring' = None PROVE SessionOK' /\ (open' \/ readiness' # None => exists)
    BY <1>1, <1>2, <1>4, UnloadOK
<1>5. ASSUME ShowNoProject, dirty' = dirty
      PROVE  SessionOK' /\ (open' \/ readiness' # None => exists)
    BY <1>1, <1>2, <1>5, ShowNoProjectOK DEF Founded
<1> QED
    BY <1>1, <1>3, <1>4, <1>5, SessionAction DEF OpenProject

LEMMA OpenGuidedKeeps == IInv /\ OpenGuided => IInv'
<1> SUFFICES ASSUME IInv, OpenGuided PROVE IInv'
    OBVIOUS
<1>1. SessionOK /\ Founded /\ disk \in Tree /\ Command /\ UNCHANGED store
    BY InvParts DEF StoreOK, OpenGuided
<1>2. Valid(disk) => exists
    BY <1>1, ConstantsAssumption DEF Founded
<1>3. CASE Valid(disk)
    <2>1. Load(Read(disk)) /\ draft' \in BOOLEAN /\ Read(disk) \in Tree
        BY <1>1, <1>3, Trees DEF OpenGuided
    <2> QED
        BY <1>1, <1>2, <1>3, <2>1, LoadOK, SessionAction
<1>4. CASE ~Valid(disk)
    <2>1. ShowNoProject /\ dirty' \in BOOLEAN /\ draft' \in BOOLEAN
        BY <1>1, <1>4 DEF OpenGuided, SessionOK
    <2>2. SessionOK' /\ readiness' = readiness /\ open' = FALSE
        BY <1>1, <2>1, ShowNoProjectOK
    <2> QED
        BY <1>1, <2>2, SessionAction DEF Founded
<1> QED
    BY <1>3, <1>4

LEMMA EditTextKeeps == IInv /\ EditText => IInv'
<1> SUFFICES ASSUME IInv, EditText PROVE IInv'
    OBVIOUS
<1>1. SessionOK /\ Founded /\ Command /\ UNCHANGED store
    BY InvParts DEF EditText
<1>2. /\ open' = open /\ saved' = saved /\ undo' = undo /\ redo' = redo /\ authoring' = authoring
      /\ draft' = draft /\ readiness' = None
    BY DEF EditText
<1>3. working' \in Tree /\ dirty' \in BOOLEAN
    <2>1. PICK i \in 1..2, r \in Revisions : working' = [working EXCEPT ![Order[i]] = r]
        BY DEF EditText
    <2>2. working \in Tree
        BY <1>1 DEF SessionOK, EditText
    <2>3. dirty' = (working' # saved')
        BY <1>2 DEF EditText, Differs
    <2> QED
        BY <2>1, <2>2, <2>3, Trees
<1>4. SessionOK'
    BY <1>1, <1>2, <1>3 DEF SessionOK
<1> QED
    BY <1>1, <1>2, <1>4, SessionAction DEF Founded

LEMMA EditProjectKeeps == IInv /\ EditProject => IInv'
<1> SUFFICES ASSUME IInv, EditProject PROVE IInv'
    OBVIOUS
<1>1. SessionOK /\ Founded /\ Command /\ UNCHANGED store /\ working \in Tree
    BY InvParts DEF EditProject, Editing, SessionOK
<1>2. /\ open' = open /\ saved' = saved /\ authoring' = authoring
      /\ draft' = draft /\ readiness' = readiness
    BY DEF EditProject
<1>3. working' \in Tree /\ dirty' \in BOOLEAN
    <2>1. dirty' = (working' # saved')
        BY <1>2 DEF EditProject, Differs
    <2> QED
        BY <2>1 DEF EditProject
<1>4. undo' \in Seq(Tree) /\ redo' \in Seq(Tree) /\ Len(undo') + Len(redo') <= UndoDepth
    BY <1>1, RecordEditOK DEF EditProject
<1>5. SessionOK'
    BY <1>1, <1>2, <1>3, <1>4 DEF SessionOK
<1> QED
    BY <1>1, <1>2, <1>5, SessionAction DEF Founded

LEMMA UndoRedoKeeps == IInv /\ (Undo \/ Redo) => IInv'
<1> SUFFICES ASSUME IInv, Undo \/ Redo PROVE IInv'
    OBVIOUS
<1>1. /\ SessionOK /\ Founded /\ Command /\ UNCHANGED store /\ working \in Tree
      /\ undo \in Seq(Tree) /\ redo \in Seq(Tree) /\ Len(undo) + Len(redo) <= UndoDepth
    BY InvParts DEF Undo, Redo, Editing, SessionOK
<1>2. /\ open' = open /\ saved' = saved /\ authoring' = authoring
      /\ draft' = draft /\ readiness' = readiness
    BY DEF Undo, Redo
<1>3. dirty' \in BOOLEAN
    <2>1. dirty' = (working' # saved')
        BY <1>2 DEF Undo, Redo, Differs
    <2> QED
        BY <2>1
<1>4. /\ working' \in Tree /\ undo' \in Seq(Tree) /\ redo' \in Seq(Tree)
      /\ Len(undo') + Len(redo') <= UndoDepth
    <2>1. CASE Undo
        <3>1. undo # <<>> /\ working' = Last(undo) /\ undo' = Front(undo)
              /\ redo' = Append(redo, working)
            BY <2>1 DEF Undo, Undone
        <3> QED
            BY <1>1, <3>1, HistoryOK
    <2>2. CASE Redo
        <3>1. redo # <<>> /\ working' = Last(redo) /\ redo' = Front(redo)
              /\ undo' = Append(undo, working)
            BY <2>2 DEF Redo
        <3>2. /\ working' \in Tree /\ undo' \in Seq(Tree) /\ redo' \in Seq(Tree)
              /\ Len(redo') + Len(undo') = Len(redo) + Len(undo)
            BY <1>1, <3>1, HistoryOK
        <3> QED
            BY <1>1, <3>2
    <2> QED
        BY <2>1, <2>2
<1>5. SessionOK'
    BY <1>1, <1>2, <1>3, <1>4 DEF SessionOK
<1> QED
    BY <1>1, <1>2, <1>5, SessionAction DEF Founded

LEMMA PreviewReadinessKeeps == IInv /\ PreviewReadiness => IInv'
<1> SUFFICES ASSUME IInv, PreviewReadiness PROVE IInv'
    OBVIOUS
<1>1. /\ SessionOK /\ Founded /\ Command /\ UNCHANGED store /\ working \in Tree
      /\ Read(disk) \in Tree /\ open
    BY InvParts, Trees DEF PreviewReadiness, Editing, SessionOK, StoreOK
<1>2. /\ open' = open /\ saved' = saved /\ authoring' = authoring /\ draft' = draft
      /\ working' = working /\ dirty' = dirty /\ undo' = undo /\ redo' = redo
    BY DEF PreviewReadiness
<1>3. readiness' = None \/ readiness' \in [candidate : Tree, base : Tree]
    BY <1>1 DEF PreviewReadiness, Remediation
<1>4. SessionOK'
    BY <1>1, <1>2, <1>3 DEF SessionOK
<1> QED
    BY <1>1, <1>4, SessionAction DEF Founded

\* A command about the form of a source leaves all but the form alone.
LEMMA FormKeeps ==
    ASSUME IInv, Command, UNCHANGED store, authoring' \in Forms,
           UNCHANGED <<open, working, saved, dirty, undo, redo, readiness, draft>>
    PROVE  IInv'
<1>1. SessionOK /\ Founded
    BY InvParts
<1>2. SessionOK'
    BY <1>1 DEF SessionOK
<1> QED
    BY <1>1, <1>2, SessionAction DEF Founded

LEMMA BuildFormKeeps == IInv /\ BuildForm => IInv'
<1> SUFFICES ASSUME IInv, BuildForm PROVE IInv'
    OBVIOUS
<1>1. working \in Tree /\ disk \in Tree
    BY InvParts DEF BuildForm, Editing, SessionOK, StoreOK
<1>2. PICK f \in Files : authoring' = Form(f)
    BY DEF BuildForm
<1>3. SourceText(f) \in Revisions \cup {Absent}
    BY <1>1 DEF SourceText, Tree
<1>4. authoring' \in Forms
    BY <1>2, <1>3 DEF Form, Forms
<1> QED
    BY <1>4, FormKeeps DEF BuildForm, Editing

LEMMA UnreviewedForm == \A form \in Forms : Unreviewed(form) \in Forms
BY DEF Unreviewed, Forms

LEMMA UpdateFormKeeps == IInv /\ UpdateForm => IInv'
<1> SUFFICES ASSUME IInv, UpdateForm PROVE IInv'
    OBVIOUS
<1>1. authoring \in Forms
    BY InvParts DEF UpdateForm, SessionOK
<1>2. authoring' \in Forms
    BY <1>1, UnreviewedForm DEF UpdateForm
<1> QED
    BY <1>2, FormKeeps DEF UpdateForm

LEMMA PreviewAuthoringKeeps == IInv /\ PreviewAuthoring => IInv'
<1> SUFFICES ASSUME IInv, PreviewAuthoring PROVE IInv'
    OBVIOUS
<1>1. authoring \in Forms
    BY InvParts DEF PreviewAuthoring, SessionOK
<1>2. \A text \in Revisions : Candidate(authoring, text) \in Forms
    <2>1. \A text \in Revisions, current \in BOOLEAN :
              [authoring EXCEPT !.text = text, !.current = current] \in Forms
        BY <1>1 DEF Forms
    <2>2. (working[authoring.file] \in {authoring.base, Absent}) \in BOOLEAN
        OBVIOUS
    <2> QED
        BY <2>1, <2>2 DEF Candidate
<1>3. SourceEdits(authoring) \subseteq Forms
    BY <1>1, <1>2, UnreviewedForm DEF SourceEdits
<1>4. authoring' \in Forms
    BY <1>3, UnreviewedForm DEF PreviewAuthoring, Merges
<1> QED
    BY <1>4, FormKeeps DEF PreviewAuthoring, Editing

LEMMA ReviewDraftKeeps == IInv /\ ReviewDraft => IInv'
<1> SUFFICES ASSUME IInv, ReviewDraft PROVE IInv'
    OBVIOUS
<1>1. SessionOK /\ Founded /\ Command /\ UNCHANGED store
    BY InvParts DEF ReviewDraft
<1>2. /\ open' = open /\ saved' = saved /\ readiness' = readiness /\ authoring' = authoring
      /\ working' = working /\ dirty' = dirty /\ undo' = undo /\ redo' = redo
      /\ draft' = ~draft
    BY DEF ReviewDraft
<1>3. SessionOK'
    BY <1>1, <1>2 DEF SessionOK
<1> QED
    BY <1>1, <1>2, <1>3, SessionAction DEF Founded

\* A command that hands a candidate to the service, fresh from its review.
LEMMA CallKeeps ==
    ASSUME IInv, Command, exists, UNCHANGED <<disk, exists, journal, session>>,
           NEW caller \in {"save", "readiness", "authoring"}, NEW contents \in Tree,
           Save(caller, contents),
           caller = "readiness" => Unchanged(readiness),
           caller = "authoring" => SourceUnchanged(authoring)
    PROVE  IInv'
<1>1. StoreOK /\ SessionOK /\ StoreInv /\ Founded
    BY InvParts
<1>2. disk' = disk /\ exists' = exists /\ journal' = journal /\ UNCHANGED session
    OBVIOUS
<1>3. \/ OpIs("check", caller, contents, Nothing, {}, "none")
      \/ OpIs("answer", caller, Nothing, Nothing, {}, "refused")
    BY SaveOp DEF Callers
<1>4. /\ op' \in Operations /\ op'.by = caller
      /\ op'.step = "check" \/ (op'.step = "answer" /\ op'.answer = "refused")
    BY <1>3 DEF OpIs
<1>5. StoreOK' /\ SessionOK'
    BY <1>1, <1>2, <1>4 DEF StoreOK, SessionOK, session
<1>6. StoreInv'
    <2>1. Recoverable'
        BY <1>1, <1>2 DEF StoreInv, Recoverable
    <2> QED
        BY <1>4, <2>1, OutsideTransaction
<1>7. Founded'
    BY <1>1, <1>2, <1>4 DEF Founded, session
<1>8. ReviewCarried'
    <2>1. readiness' = readiness /\ authoring' = authoring
        BY <1>2 DEF session
    <2>2. Read(disk)' = Read(disk)
        BY <1>2 DEF Read
    <2> QED
        BY <1>2, <1>4, <2>1, <2>2 DEF ReviewCarried, AsReviewed, Unchanged, SourceUnchanged, Read
<1> QED
    BY <1>5, <1>6, <1>7, <1>8, InvPartsNext

LEMMA SaveProjectKeeps == IInv /\ SaveProject => IInv'
<1> SUFFICES ASSUME IInv, SaveProject PROVE IInv'
    OBVIOUS
<1>1. /\ Command /\ exists /\ working \in Tree /\ Save("save", working)
      /\ UNCHANGED <<disk, exists, journal, session>>
    BY InvParts DEF SaveProject, Editing, SessionOK, Founded
<1> QED
    BY <1>1, CallKeeps

LEMMA SaveReadinessKeeps == IInv /\ SaveReadiness => IInv'
<1> SUFFICES ASSUME IInv, SaveReadiness PROVE IInv'
    OBVIOUS
<1>1. /\ Command /\ exists /\ readiness.candidate \in Tree /\ Unchanged(readiness)
      /\ Save("readiness", readiness.candidate) /\ UNCHANGED <<disk, exists, journal, session>>
    BY InvParts DEF SaveReadiness, SessionOK, Founded
<1> QED
    BY <1>1, CallKeeps

LEMMA SaveAuthoringKeeps == IInv /\ SaveAuthoring => IInv'
<1> SUFFICES ASSUME IInv, SaveAuthoring PROVE IInv'
    OBVIOUS
<1>1. /\ Command /\ exists /\ SourceUnchanged(authoring)
      /\ Save("authoring", Reviewed(authoring)) /\ UNCHANGED <<disk, exists, journal, session>>
    BY InvParts DEF SaveAuthoring, Savable, Editing, Founded
<1>2. Reviewed(authoring) \in Tree
    <2>1. authoring.text \in Revisions \cup {Absent} /\ Read(disk) \in Tree
        BY InvParts, Trees DEF SaveAuthoring, SessionOK, StoreOK, Forms
    <2> QED
        BY <2>1, Trees DEF Reviewed
<1> QED
    BY <1>1, <1>2, CallKeeps

LEMMA RecoverKeeps == IInv /\ Recover => IInv'
<1> SUFFICES ASSUME IInv, Recover PROVE IInv'
    OBVIOUS
<1>1. StoreOK /\ SessionOK /\ StoreInv /\ Founded /\ exists /\ Command
    BY InvParts DEF Recover
<1>2. disk' = disk /\ exists' = exists /\ journal' = journal /\ UNCHANGED session
    BY DEF Recover
<1>3. op' \in Operations /\ op'.by = "recover" /\ op'.step = "check"
    BY IdleOp DEF Recover, Operations, Callers, Steps
<1>4. StoreOK' /\ SessionOK'
    BY <1>1, <1>2, <1>3 DEF StoreOK, SessionOK, session
<1>5. StoreInv'
    <2>1. Recoverable'
        BY <1>1, <1>2 DEF StoreInv, Recoverable
    <2> QED
        BY <1>3, <2>1, OutsideTransaction
<1>6. Founded' /\ ReviewCarried'
    BY <1>1, <1>2, <1>3 DEF Founded, session, ReviewCarried, AsReviewed
<1> QED
    BY <1>4, <1>5, <1>6, InvPartsNext

LEMMA CreateProjectKeeps == IInv /\ CreateProject => IInv'
<1> SUFFICES ASSUME IInv, CreateProject PROVE IInv'
    OBVIOUS
<1>1. /\ StoreOK /\ SessionOK /\ StoreInv /\ Founded /\ Command
      /\ journal' = journal /\ op' = op /\ draft' = draft
    BY InvParts DEF CreateProject
<1>2. CASE exists
    <2>1. ShowNoProject /\ dirty' = FALSE /\ UNCHANGED store /\ draft' \in BOOLEAN
        BY <1>1, <1>2 DEF CreateProject, store, SessionOK
    <2>2. SessionOK' /\ open' = FALSE
        BY <1>1, <2>1, ShowNoProjectOK
    <2> QED
        BY <1>1, <1>2, <2>1, <2>2, SessionAction
<1>3. CASE ~exists
    <2>1. disk' = Starter /\ exists' = TRUE /\ Load(Read(Starter)) /\ draft' \in BOOLEAN
        BY <1>1, <1>3 DEF CreateProject, SessionOK
    <2>2. SessionOK'
        BY <1>1, <2>1, LoadOK, Trees
    <2>3. journal' = None /\ StoreOK'
        BY <1>1, <1>3, <2>1, Trees DEF Founded, StoreOK
    <2>4. Recoverable'
        BY <2>3 DEF Recoverable
    <2>5. op'.step = "idle"
        BY <1>1 DEF Command
    <2>6. StoreInv'
        BY <2>4, <2>5, OutsideTransaction
    <2>7. Founded' /\ ReviewCarried'
        BY <2>1, <2>5 DEF Founded, ReviewCarried
    <2> QED
        BY <2>2, <2>3, <2>6, <2>7, InvPartsNext
<1> QED
    BY <1>2, <1>3

LEMMA ConfirmDraftKeeps == IInv /\ ConfirmDraft => IInv'
<1> SUFFICES ASSUME IInv, ConfirmDraft PROVE IInv'
    OBVIOUS
<1>1. /\ StoreOK /\ SessionOK /\ StoreInv /\ Founded /\ Command /\ disk' = disk
      /\ journal' = journal
    BY InvParts DEF ConfirmDraft
<1>2. /\ open' = open /\ saved' = saved /\ readiness' = readiness /\ authoring' = authoring
      /\ working' = working /\ undo' = undo /\ redo' = redo /\ draft' = draft
      /\ dirty' \in BOOLEAN
    BY <1>1 DEF ConfirmDraft, SessionOK
<1>3. SessionOK'
    BY <1>1, <1>2 DEF SessionOK
<1>4. CASE exists
    <2>1. UNCHANGED store
        BY <1>1, <1>4 DEF ConfirmDraft, store
    <2> QED
        BY <1>1, <1>2, <1>3, <1>4, <2>1, SessionAction
<1>5. CASE ~exists
    <2>1. /\ exists' = TRUE
          /\ op' = [Idle EXCEPT !.step = "journal", !.by = "guided", !.target = Starter]
        BY <1>5 DEF ConfirmDraft
    <2>2. OpIs("journal", "guided", Starter, Nothing, {}, "none")
        BY <2>1, IdleOp, Trees DEF OpIs, Operations, Steps, Callers
    <2>3. /\ journal' = None /\ disk' = Nothing /\ ~open' /\ readiness' = None
        BY <1>1, <1>2, <1>5 DEF Founded
    <2>4. StoreOK'
        BY <1>1, <2>1, <2>2, <2>3 DEF StoreOK, OpIs
    <2>5. Recoverable' /\ Underway' /\ SavedIsStored'
        BY <2>2, <2>3 DEF Recoverable, Underway, SavedIsStored, InTransaction, OpIs
    <2>6. Founded' /\ ReviewCarried'
        BY <2>1, <2>2, <2>3 DEF Founded, ReviewCarried, OpIs
    <2> QED
        BY <1>3, <2>4, <2>5, <2>6, InvPartsNext DEF StoreInv
<1> QED
    BY <1>4, <1>5

LEMMA DieKeeps == IInv /\ Die => IInv'
<1> SUFFICES ASSUME IInv, Die PROVE IInv'
    OBVIOUS
<1>1. /\ StoreOK /\ SessionOK /\ StoreInv /\ Founded
      /\ journal' = journal /\ disk' = disk /\ exists' = exists /\ op' = Idle
      /\ Unload /\ authoring' = None /\ draft' = FALSE
    BY InvParts DEF Die
<1>2. SessionOK' /\ readiness' = None /\ open' = FALSE
    BY <1>1, UnloadOK
<1>3. op'.step = "idle" /\ StoreOK'
    BY <1>1, IdleOp DEF StoreOK
<1>4. Recoverable'
    BY <1>1 DEF StoreInv, Recoverable
<1>5. StoreInv'
    BY <1>3, <1>4, OutsideTransaction
<1>6. Founded' /\ ReviewCarried'
    BY <1>1, <1>2, <1>3 DEF Founded, ReviewCarried
<1> QED
    BY <1>2, <1>3, <1>5, <1>6, InvPartsNext

LEMMA OtherToolKeeps == IInv /\ OtherTool => IInv'
<1> SUFFICES ASSUME IInv, OtherTool PROVE IInv'
    OBVIOUS
<1>1. /\ StoreOK /\ SessionOK /\ Founded /\ journal' = None /\ exists' = exists /\ exists
      /\ op' = op /\ op'.step = "idle" /\ UNCHANGED session /\ disk \in Tree
    BY InvParts DEF OtherTool, Command, StoreOK
<1>2. disk' \in Tree
    <2>1. PICK f \in Files, r \in Revisions : disk' = [disk EXCEPT ![f] = r]
        BY DEF OtherTool
    <2> QED
        BY <1>1, <2>1, Trees
<1>3. SessionOK' /\ StoreOK'
    BY <1>1, <1>2 DEF SessionOK, StoreOK, session
<1>4. Recoverable'
    BY <1>1 DEF Recoverable
<1>5. StoreInv'
    BY <1>1, <1>4, OutsideTransaction
<1>6. Founded' /\ ReviewCarried'
    BY <1>1 DEF Founded, ReviewCarried, session
<1> QED
    BY <1>3, <1>5, <1>6, InvPartsNext

\* Only a guided project that failed without a journal takes its directory away.
LEMMA TakeAnswerKeeps == IInv /\ TakeAnswer => IInv'
<1> SUFFICES ASSUME IInv, TakeAnswer PROVE IInv'
    OBVIOUS
<1> DEFINE ok == op.answer = "saved"
           abandoned == op.by = "guided" /\ ~ok /\ journal = None
<1>1. /\ StoreOK /\ SessionOK /\ StoreInv /\ Founded /\ disk \in Tree /\ op \in Operations
      /\ op.step = "answer" /\ exists = TRUE /\ journal' = journal /\ op' = Idle
    BY InvParts DEF TakeAnswer, Founded, StoreOK
<1>2. exists' = ~abandoned /\ disk' = IF abandoned THEN Nothing ELSE disk
    BY <1>1 DEF TakeAnswer
<1>3. op'.step = "idle" /\ StoreOK'
    BY <1>1, <1>2, IdleOp, Trees DEF StoreOK
<1>4. Recoverable'
    BY <1>1, <1>2 DEF StoreInv, Recoverable
<1>5. StoreInv'
    BY <1>3, <1>4, OutsideTransaction
<1>6. SessionOK' /\ (abandoned => ~open' /\ readiness' = None)
    <2> DEFINE Goal == SessionOK' /\ (abandoned => ~open' /\ readiness' = None)
               Same == UNCHANGED <<open, working, saved, undo, redo, readiness, authoring, draft>>
    <2>1. op.target \in Tree /\ op.by \in Callers /\ draft \in BOOLEAN /\ dirty \in BOOLEAN
        BY <1>1 DEF Operations, SessionOK
    <2>2. abandoned => ~open /\ readiness = None
        BY <1>1 DEF Founded
    <2>3. ASSUME Load(op.target), draft' = draft, op.by = "save" PROVE Goal
        BY <1>1, <2>1, <2>3, LoadOK
    <2>4. ASSUME LoadFrom(disk), draft' = draft \/ draft' = FALSE, ~abandoned PROVE Goal
        BY <1>1, <2>1, <2>4, LoadFromOK
    <2>5. ASSUME dirty' \in BOOLEAN, Same PROVE Goal
        BY <1>1, <2>2, <2>5 DEF SessionOK
    <2>6. UNCHANGED session => dirty' = dirty /\ Same
        BY DEF session
    <2> HIDE DEF Goal, Same
    <2>7. /\ op.by = "save" /\ ok => Load(op.target) /\ draft' = draft
          /\ op.by = "save" /\ ~ok /\ op.answer = "refused" => dirty' = TRUE /\ Same
          /\ op.by = "save" /\ ~ok /\ op.answer # "refused" => UNCHANGED session
        BY DEF TakeAnswer, Same
    <2>8. /\ op.by \in {"readiness", "authoring"} /\ ok => LoadFrom(disk) /\ draft' = draft
          /\ op.by \in {"readiness", "authoring"} /\ ~ok => UNCHANGED session
          /\ op.by = "recover" => UNCHANGED session
        BY DEF TakeAnswer, Same
    <2>9. /\ op.by = "guided" /\ ok => LoadFrom(disk) /\ draft' = FALSE
          /\ op.by = "guided" /\ ~ok => dirty' = FALSE /\ Same
        BY DEF TakeAnswer, Same
    <2>10. op.by \in {"readiness", "authoring", "save", "recover"} => ~abandoned
        OBVIOUS
    <2>11. ok => ~abandoned
        OBVIOUS
    <2> HIDE DEF ok, abandoned
    <2>12. Goal
        BY <2>1, <2>3, <2>4, <2>5, <2>6, <2>7, <2>8, <2>9, <2>10, <2>11 DEF Callers
    <2> QED
        BY <2>12 DEF Goal
<1>7. Founded' /\ ReviewCarried'
    BY <1>1, <1>2, <1>3, <1>6 DEF Founded, ReviewCarried
<1> QED
    BY <1>3, <1>5, <1>6, <1>7, InvPartsNext

-----------------------------------------------------------------------------
\* The invariant.

LEMMA InitKeeps == Init => IInv
<1> SUFFICES ASSUME Init PROVE IInv
    OBVIOUS
<1>1. StoreOK
    BY Trees, IdleOp DEF Init, StoreOK
<1>2. SessionOK
    <2>1. undo \in Seq(Tree) /\ redo \in Seq(Tree) /\ Len(undo) + Len(redo) <= UndoDepth
        BY NoHistory DEF Init
    <2> QED
        BY <2>1 DEF Init, SessionOK
<1>3. op.step = "idle" /\ journal = None
    BY IdleOp DEF Init
<1>4. Recoverable /\ Underway /\ SavedIsStored /\ ReviewCarried
    BY <1>3 DEF Recoverable, Underway, SavedIsStored, ReviewCarried, InTransaction
<1>5. Founded
    BY <1>3 DEF Init, Founded
<1> QED
    BY <1>1, <1>2, <1>4, <1>5, InvParts DEF StoreInv

LEMMA StutterKeeps == IInv /\ UNCHANGED vars => IInv'
<1> SUFFICES ASSUME IInv, UNCHANGED vars PROVE IInv'
    OBVIOUS
<1>1. StoreOK /\ SessionOK /\ StoreInv /\ Founded /\ ReviewCarried
    BY InvParts
<1>2. disk' = disk /\ exists' = exists /\ journal' = journal /\ op' = op /\ UNCHANGED session
    BY DEF vars, store
<1>3. StoreOK' /\ SessionOK' /\ Founded' /\ ReviewCarried'
    BY <1>1, <1>2 DEF StoreOK, SessionOK, Founded, ReviewCarried, AsReviewed, PutBack, Complete,
        session, Read
<1>4. Complete' = Complete /\ Before(disk)' = Before(disk) /\ \A f : Replaced(f)' = Replaced(f)
    BY <1>2 DEF Complete, Before, Replaced
<1>5. StoreInv'
    BY <1>1, <1>2, <1>4 DEF StoreInv, Recoverable, Underway, SavedIsStored, InTransaction
<1> QED
    BY <1>3, <1>5, InvPartsNext

LEMMA NextKeeps == IInv /\ [Next]_vars => IInv'
BY ServiceStepKeeps, TakeAnswerKeeps, OpenProjectKeeps, CreateProjectKeeps, OpenGuidedKeeps,
   EditTextKeeps, EditProjectKeeps, UndoRedoKeeps, SaveProjectKeeps, PreviewReadinessKeeps,
   SaveReadinessKeeps, BuildFormKeeps, UpdateFormKeeps, PreviewAuthoringKeeps, SaveAuthoringKeeps, ReviewDraftKeeps,
   ConfirmDraftKeeps, RecoverKeeps, DieKeeps, OtherToolKeeps, StutterKeeps DEF Next

\* The inductive invariant holds of every run of a session, whatever the files, the validator
\* and the faults of the file system.
THEOREM Invariance == Spec => []IInv
BY InitKeeps, NextKeeps, PTL DEF Spec

\* A guided life beside it takes no step of the session's project.
THEOREM OneLife == SessionSpec => Spec
<1>1. SessionInit => Init
    BY DEF SessionInit
<1>2. [SessionNext]_<<vars, guidedVars>> => [Next]_vars
    BY DEF SessionNext
<1> QED
    BY <1>1, <1>2, PTL DEF SessionSpec, Spec

\* The variables of the session and of the service stay in their types; the undo and redo stacks
\* together stay within their depth.
THEOREM TypeCorrect == SessionSpec => []TypeOK
<1>1. IInv => TypeOK
    BY DEF IInv
<1> QED
    BY <1>1, Invariance, OneLife, PTL

\* A reviewed remediation or source edit is written over the sources it was made from, whatever
\* other saves, tools and deaths of the process came between, or over what the recovery of a
\* failed save has put back of them.
THEOREM ReviewedCandidatesAreFresh == SessionSpec => ReviewedIsFresh
<1> DEFINE Fresh == op.step \in {"check", "clear"} /\ op'.step = "journal"
                    => \A f \in Files : AsReviewed(f, disk) \/ PutBack(f)
<1>1. IInv => ReviewCarried
    BY DEF IInv
<1>2. IInv => Fresh
    BY <1>1 DEF ReviewCarried
<1> QED
    BY <1>2, Invariance, OneLife, PTL DEF ReviewedIsFresh

\* A save that is answered as saved has left the candidate on the disk, every file of it, over
\* what the journal found, and no journal behind.
THEOREM SavedMeansStored == SessionSpec => []SavedIsStored
<1>1. IInv => SavedIsStored
    BY DEF IInv
<1> QED
    BY <1>1, Invariance, OneLife, PTL

-----------------------------------------------------------------------------
\* The refinement: the journalled transaction is one save of the whole tree.

LEMMA EffectiveTree == StoreOK => Effective \in Tree
<1> SUFFICES ASSUME StoreOK, journal # None PROVE Before(disk) \in Tree
    BY DEF Effective, StoreOK
<1>1. disk \in Tree /\ journal.before \in Tree /\ journal.candidate \in Tree
    BY DEF StoreOK, Journals
<1> QED
    BY <1>1 DEF Before, Tree

\* In a transaction, recovery would leave the files as they were or as they were to be.
LEMMA EitherOutcome ==
    StoreOK /\ StoreInv /\ InTransaction =>
        Effective \in {op.orig, Overlay(op.orig, op.target)}
<1> SUFFICES ASSUME StoreOK, StoreInv, InTransaction
             PROVE  Effective \in {op.orig, Overlay(op.orig, op.target)}
    OBVIOUS
<1>1. /\ disk \in Tree /\ op.orig \in Tree /\ op.target \in Tree
      /\ Overlay(op.orig, op.target) \in Tree
    BY Trees DEF StoreOK, Operations
<1>2. /\ journal = None \/ journal = [before |-> op.orig, candidate |-> op.target]
      /\ \A f \in Files : disk[f] = op.orig[f] \/ Replaced(f)
    BY DEF StoreInv, Underway
<1>3. CASE journal = None
    <2>1. disk = op.orig
        BY <1>3 DEF StoreInv, Underway
    <2> QED
        BY <1>3, <2>1 DEF Effective
<1>4. CASE journal # None /\ Complete
    <2>1. journal.candidate = op.target
        BY <1>2, <1>4
    <2>2. \A f \in Files : disk[f] = Overlay(op.orig, op.target)[f]
        BY <1>2, <1>4, <2>1 DEF Complete, Overlay, Replaced
    <2>3. disk = Overlay(op.orig, op.target)
        BY <1>1, <2>2, SameTree
    <2> QED
        BY <1>4, <2>3 DEF Effective
<1>5. CASE journal # None /\ ~Complete
    <2>1. journal.candidate = op.target /\ journal.before = op.orig
        BY <1>2, <1>5
    <2>2. Effective = Before(disk) /\ Before(disk) \in Tree
        BY <1>5, EffectiveTree DEF Effective
    <2>3. \A f \in Files : Before(disk)[f] = op.orig[f]
        BY <1>2, <2>1 DEF Before, Replaced
    <2> QED
        BY <1>1, <2>2, <2>3, SameTree
<1> QED
    BY <1>3, <1>4, <1>5

\* A transaction ends, in success or rolled back, with the disk as a recovery would leave it.
LEMMA TransactionEnds ==
    ASSUME StoreOK, StoreInv, op.step \in {"unlink", "drop"}
    PROVE  Effective = disk
<1>1. disk \in Tree /\ op.orig \in Tree /\ op.target \in Tree
    BY DEF StoreOK, Operations
<1>2. journal = None \/ journal = [before |-> op.orig, candidate |-> op.target]
    BY DEF StoreInv, Underway, InTransaction
<1>3. CASE op.step = "unlink"
    <2>1. \A f \in Files : op.target[f] # Absent => Replaced(f)
        BY <1>3 DEF StoreInv, Underway
    <2> QED
        BY <1>2, <2>1 DEF Effective, Complete, Replaced
<1>4. CASE op.step = "drop" /\ journal # None
    <2>1. disk = op.orig /\ journal.before = op.orig
        BY <1>2, <1>4 DEF StoreInv, Underway
    <2>2. \A f \in Files : Before(disk)[f] = disk[f]
        BY <2>1 DEF Before
    <2>3. Effective \in {disk, Before(disk)}
        BY DEF Effective
    <2>4. Before(disk) \in [Files -> Revisions \cup {Absent}]
        <3>1. \A f \in Files : disk[f] \in Revisions \cup {Absent}
            BY <1>1 DEF Tree
        <3> QED
            BY <2>1, <3>1 DEF Before
    <2> QED
        BY <1>1, <2>2, <2>3, <2>4, SameTree DEF Tree
<1>5. CASE journal = None
    BY <1>5 DEF Effective
<1> QED
    BY <1>3, <1>4, <1>5

LEMMA EffectiveKept == UNCHANGED <<disk, journal>> => Effective' = Effective
BY DEF Effective, Complete, Before

AtomicStep == [Atomic!Next]_<<Effective, Call>>

\* The four ways in which a step of the code is one of the whole tree, or none.
LEMMA NextOutcome ==
    StoreOK' /\ StoreInv' /\ InTransaction' =>
        Effective' \in {op'.orig, Overlay(op'.orig, op'.target)}
<1>1. (StoreOK /\ StoreInv /\ InTransaction =>
          Effective \in {op.orig, Overlay(op.orig, op.target)})'
    BY EitherOutcome, PTL
<1> QED
    BY <1>1

LEMMA Within ==
    ASSUME StoreOK', StoreInv', InTransaction, InTransaction', op'.orig = op.orig,
           op'.target = op.target
    PROVE  AtomicStep
<1>1. Effective' \in {op.orig, Overlay(op.orig, op.target)}
    BY NextOutcome
<1>2. /\ Call = [active |-> TRUE, base |-> op.orig, target |-> op.target]
      /\ Call' = Call
    BY DEF Call
<1>3. Call.active /\ Call.base = op.orig /\ Call.target = op.target
    BY <1>2
<1>4. Overlay(op.orig, op.target) = Atomic!Overlay(Call.base, Call.target)
    BY <1>3 DEF Overlay, Atomic!Overlay
<1>5. Atomic!Commit \/ Atomic!Withdraw
    BY <1>1, <1>2, <1>3, <1>4 DEF Atomic!Commit, Atomic!Withdraw
<1> QED
    BY <1>5 DEF AtomicStep, Atomic!Next

LEMMA Begins ==
    ASSUME ~InTransaction, InTransaction', Effective' = Effective, op'.orig = Effective,
           op'.target \in Tree
    PROVE  AtomicStep
<1>1. /\ Call = [active |-> FALSE]
      /\ Call' = [active |-> TRUE, base |-> Effective, target |-> op'.target]
    BY DEF Call
<1>2. ~Call.active /\ op'.target \in Atomic!Tree
    BY <1>1 DEF Atomic!Tree, Tree
<1>3. Atomic!Begin
    BY <1>1, <1>2 DEF Atomic!Begin
<1> QED
    BY <1>3 DEF AtomicStep, Atomic!Next

LEMMA Ends ==
    ASSUME ~InTransaction', Effective' = Effective
    PROVE  AtomicStep
<1>1. Call' = [active |-> FALSE]
    BY DEF Call
<1>2. CASE InTransaction
    <2>1. Call.active
        BY <1>2 DEF Call
    <2>2. Atomic!End
        BY <1>1, <2>1 DEF Atomic!End, Atomic!NoCall
    <2> QED
        BY <2>2 DEF AtomicStep, Atomic!Next
<1>3. CASE ~InTransaction
    <2>1. Call = [active |-> FALSE]
        BY <1>3 DEF Call
    <2> QED
        BY <1>1, <2>1 DEF AtomicStep
<1> QED
    BY <1>2, <1>3

LEMMA Edits ==
    ASSUME ~InTransaction, ~InTransaction', Effective' \in Tree
    PROVE  AtomicStep
<1>1. Call = [active |-> FALSE] /\ Call' = Call
    BY DEF Call
<1>2. ~Call.active /\ Effective' \in Atomic!Tree
    BY <1>1 DEF Atomic!Tree, Tree
<1>3. Atomic!Edit
    BY <1>1, <1>2 DEF Atomic!Edit
<1> QED
    BY <1>3 DEF AtomicStep, Atomic!Next

LEMMA CheckJournalRefines == IInv /\ CheckJournal => AtomicStep
<1> SUFFICES ASSUME IInv, CheckJournal PROVE AtomicStep
    OBVIOUS
<1>1. /\ StoreOK /\ disk \in Tree /\ op \in Operations /\ op.step = "check"
      /\ disk' = disk /\ journal' = journal /\ ~InTransaction
    BY InvParts DEF StoreOK, CheckJournal, InTransaction
<1>2. Effective' = Effective
    BY <1>1, EffectiveKept
<1>3. CASE journal = None /\ op.by # "recover"
    <2>1. OpIs("journal", op.by, op.target, disk, op.todo, op.answer)
        BY <1>1, <1>3, TransactionOp DEF CheckJournal
    <2>2. InTransaction' /\ op'.orig = Effective /\ op'.target \in Tree
        BY <1>1, <1>3, <2>1 DEF InTransaction, OpIs, Effective, Operations
    <2> QED
        BY <1>1, <1>2, <2>2, Begins
<1>4. CASE ~(journal = None /\ op.by # "recover")
    <2>1. ~InTransaction'
        <3>1. \/ op' = [op EXCEPT !.step = "answer", !.answer = "saved"]
              \/ op' = [op EXCEPT !.step = "clear"]
              \/ Loop("restore", Written(journal.candidate), "clear")
            BY <1>4 DEF CheckJournal, At, Answer
        <3>2. op'.step \in {"answer", "clear", "restore"}
            BY <1>1, <3>1 DEF Loop, Operations
        <3> QED
            BY <3>2 DEF InTransaction
    <2> QED
        BY <1>2, <2>1, Ends
<1> QED
    BY <1>3, <1>4

\* A recovery changes no source that it would not change anyway.
LEMMA RestoreRefines == IInv /\ IInv' /\ Restore => AtomicStep
<1> SUFFICES ASSUME IInv, IInv', Restore PROVE AtomicStep
    OBVIOUS
<1>1. /\ StoreOK /\ StoreInv /\ disk \in Tree /\ op \in Operations /\ op.step = "restore"
      /\ journal' = journal
    BY InvParts DEF StoreOK, Restore
<1>2. journal # None /\ ~Complete /\ op.todo \subseteq Written(journal.candidate)
    BY <1>1 DEF StoreInv, Underway
<1>3. /\ journal.candidate \in Tree /\ journal.before \in Tree
      /\ \A f \in Files : journal.candidate[f] # Absent =>
             disk[f] \in {journal.before[f], journal.candidate[f]}
    BY <1>1, <1>2 DEF StoreOK, Journals, StoreInv, Recoverable
<1>4. PICK f \in Files : /\ First(f)
                         /\ disk' = [disk EXCEPT ![f] = journal.before[f]]
                         /\ Loop("restore", op.todo \ {f}, "clear")
    BY DEF Restore
<1>5. disk' \in Tree /\ disk'[f] = journal.before[f] /\ \A g \in Files \ {f} : disk'[g] = disk[g]
    BY <1>1, <1>3, <1>4, OneFile
<1>6. journal.candidate[f] # Absent
    BY <1>2, <1>3, <1>4, WrittenFiles DEF First
<1>7. ~Complete'
    <2>1. PICK g \in Files : journal.candidate[g] # Absent /\ disk[g] # journal.candidate[g]
        BY <1>2 DEF Complete
    <2>2. disk'[g] # journal.candidate[g]
        BY <1>3, <1>5, <2>1
    <2> QED
        BY <1>1, <2>1, <2>2 DEF Complete
<1>8. Before(disk)' = Before(disk)
    <2>1. Before(disk)' = [g \in Files |-> IF journal.candidate[g] = Absent THEN disk'[g]
                                                                          ELSE journal.before[g]]
        BY <1>1 DEF Before
    <2> QED
        BY <1>5, <1>6, <2>1 DEF Before
<1>9. Effective' = Effective
    BY <1>1, <1>2, <1>7, <1>8 DEF Effective
<1>10. ~InTransaction'
    <2>1. op'.step \in {"restore", "clear"}
        BY <1>1, <1>4 DEF Loop, Operations
    <2> QED
        BY <2>1 DEF InTransaction
<1> QED
    BY <1>9, <1>10, Ends

LEMMA ClearJournalRefines == IInv /\ ClearJournal => AtomicStep
<1> SUFFICES ASSUME IInv, ClearJournal PROVE AtomicStep
    OBVIOUS
<1>1. /\ StoreOK /\ StoreInv /\ disk \in Tree /\ op \in Operations /\ op.step = "clear"
      /\ disk' = disk /\ journal' = None /\ ~InTransaction
    BY InvParts DEF StoreOK, ClearJournal, InTransaction
<1>2. Effective = disk /\ Effective' = disk
    BY <1>1 DEF StoreInv, Underway, Effective
<1>3. CASE op.by = "recover"
    <2>1. OpIs("answer", op.by, op.target, op.orig, op.todo, "saved")
        BY <1>1, <1>3, AnswerOp DEF ClearJournal, Answers
    <2>2. ~InTransaction'
        BY <2>1 DEF OpIs, InTransaction
    <2> QED
        BY <1>2, <2>2, Ends
<1>4. CASE op.by # "recover"
    <2>1. OpIs("journal", op.by, op.target, disk, op.todo, op.answer)
        BY <1>1, <1>4, TransactionOp DEF ClearJournal
    <2>2. InTransaction' /\ op'.orig = Effective /\ op'.target \in Tree
        BY <1>1, <1>2, <2>1 DEF InTransaction, OpIs, Operations
    <2> QED
        BY <1>1, <1>2, <2>2, Begins
<1> QED
    BY <1>3, <1>4

LEMMA TransactionRefines ==
    IInv /\ IInv' /\ (WriteJournal \/ ReplaceFile \/ RollBackFile) => AtomicStep
<1> SUFFICES ASSUME IInv, IInv', WriteJournal \/ ReplaceFile \/ RollBackFile PROVE AtomicStep
    OBVIOUS
<1>1. op \in Operations /\ StoreOK' /\ StoreInv' /\ InTransaction
    <2>1. StoreOK' /\ StoreInv'
        BY DEF IInv, StoreInv, TypeOK, StoreOK, Operations, Steps
    <2> QED
        BY <2>1, InvParts DEF StoreOK, InTransaction, WriteJournal, ReplaceFile, RollBackFile
<1>2. ASSUME NEW s \in {"replace", "undo"}, NEW e \in {"unlink", "drop"}, NEW fs, Loop(s, fs, e)
      PROVE  InTransaction' /\ op'.orig = op.orig /\ op'.target = op.target
    BY <1>1, <1>2 DEF Loop, InTransaction, Operations
<1>3. InTransaction' /\ op'.orig = op.orig /\ op'.target = op.target
    BY <1>2 DEF WriteJournal, ReplaceFile, RollBackFile
<1> QED
    BY <1>1, <1>3, Within

LEMMA EndingRefines == IInv /\ (UnlinkJournal \/ DropJournal) => AtomicStep
<1> SUFFICES ASSUME IInv, UnlinkJournal \/ DropJournal PROVE AtomicStep
    OBVIOUS
<1>1. /\ StoreOK /\ StoreInv /\ op \in Operations /\ op.step \in {"unlink", "drop"}
      /\ journal' = None /\ disk' = disk
    BY InvParts DEF StoreOK, UnlinkJournal, DropJournal
<1>2. op'.step = "answer"
    BY <1>1 DEF UnlinkJournal, DropJournal, Answer, Operations
<1>3. Effective' = Effective /\ ~InTransaction'
    BY <1>1, <1>2, TransactionEnds DEF Effective, InTransaction
<1> QED
    BY <1>3, Ends

LEMMA StepFailsRefines == IInv /\ IInv' /\ StepFails => AtomicStep
<1> SUFFICES ASSUME IInv, IInv', StepFails PROVE AtomicStep
    OBVIOUS
<1>1. op \in Operations /\ StoreOK' /\ StoreInv' /\ Effective' = Effective
    <2>1. StoreOK' /\ StoreInv'
        BY DEF IInv, StoreInv, TypeOK, StoreOK, Operations, Steps
    <2> QED
        BY <2>1, InvParts, EffectiveKept DEF StoreOK, StepFails
<1>2. ASSUME op.step \in {"journal", "replace", "unlink"}, Loop("undo", RollBack, "drop")
      PROVE  AtomicStep
    <2>1. InTransaction /\ InTransaction' /\ op'.orig = op.orig /\ op'.target = op.target
        BY <1>1, <1>2 DEF Loop, InTransaction, Operations
    <2> QED
        BY <1>1, <2>1, Within
<1>3. ASSUME Answer("retained") PROVE AtomicStep
    <2>1. ~InTransaction'
        BY <1>1, <1>3 DEF Answer, InTransaction, Operations
    <2> QED
        BY <1>1, <2>1, Ends
<1> QED
    BY <1>2, <1>3 DEF StepFails

LEMMA ServiceStepRefines == IInv /\ IInv' /\ ServiceStep => AtomicStep
BY CheckJournalRefines, RestoreRefines, ClearJournalRefines, TransactionRefines, EndingRefines,
   StepFailsRefines DEF ServiceStep

\* A command calls the service or leaves the sources alone.
LEMMA CommandRefines ==
    ASSUME IInv, Command \/ op.step = "answer", disk' = disk, journal' = journal,
           op'.step \in {"idle", "check", "answer"}
    PROVE  AtomicStep
<1>1. ~InTransaction' /\ Effective' = Effective
    BY EffectiveKept DEF InTransaction
<1> QED
    BY <1>1, Ends

LEMMA SavesRefine == IInv /\ (SaveProject \/ SaveReadiness \/ SaveAuthoring \/ Recover) => AtomicStep
<1> SUFFICES ASSUME IInv, SaveProject \/ SaveReadiness \/ SaveAuthoring \/ Recover
             PROVE  AtomicStep
    OBVIOUS
<1>1. Command /\ disk' = disk /\ journal' = journal
    BY DEF SaveProject, SaveReadiness, SaveAuthoring, Recover, Editing
<1>2. \A caller, contents : Save(caller, contents) => op'.step \in {"check", "answer"}
    BY IdleOp DEF Save, Operations
<1>3. Recover => op'.step = "check"
    BY IdleOp DEF Recover, Operations
<1>4. op'.step \in {"check", "answer"}
    BY <1>2, <1>3 DEF SaveProject, SaveReadiness, SaveAuthoring
<1> QED
    BY <1>1, <1>4, CommandRefines

LEMMA SessionRefines ==
    /\ IInv
    /\ \/ OpenProject \/ OpenGuided \/ EditText \/ EditProject \/ Undo \/ Redo
       \/ PreviewReadiness \/ BuildForm \/ UpdateForm \/ PreviewAuthoring \/ ReviewDraft
    => AtomicStep
<1> SUFFICES ASSUME IInv,
                    \/ OpenProject \/ OpenGuided \/ EditText \/ EditProject \/ Undo \/ Redo
                    \/ PreviewReadiness \/ BuildForm \/ UpdateForm \/ PreviewAuthoring \/ ReviewDraft
             PROVE  AtomicStep
    OBVIOUS
<1>1. Command /\ UNCHANGED store
    BY DEF OpenProject, OpenGuided, EditText, EditProject, Undo, Redo, PreviewReadiness,
           BuildForm, UpdateForm, PreviewAuthoring, ReviewDraft, Editing
<1>2. disk' = disk /\ journal' = journal /\ op'.step = "idle"
    BY <1>1 DEF store, Command
<1> QED
    BY <1>1, <1>2, CommandRefines

LEMMA CreateProjectRefines == IInv /\ CreateProject => AtomicStep
<1> SUFFICES ASSUME IInv, CreateProject PROVE AtomicStep
    OBVIOUS
<1>1. Command /\ journal' = journal /\ op' = op /\ Founded
    BY InvParts DEF CreateProject
<1>2. CASE exists
    <2>1. disk' = disk /\ op'.step = "idle"
        BY <1>1, <1>2 DEF CreateProject, Command
    <2> QED
        BY <1>1, <2>1, CommandRefines
<1>3. CASE ~exists
    <2>1. journal' = None /\ disk' \in Tree
        BY <1>1, <1>3, Trees DEF CreateProject, Founded
    <2>2. ~InTransaction /\ ~InTransaction' /\ Effective' \in Tree
        BY <1>1, <2>1 DEF Command, InTransaction, Effective
    <2> QED
        BY <2>2, Edits
<1> QED
    BY <1>2, <1>3

LEMMA ConfirmDraftRefines == IInv /\ ConfirmDraft => AtomicStep
<1> SUFFICES ASSUME IInv, ConfirmDraft PROVE AtomicStep
    OBVIOUS
<1>1. Command /\ disk' = disk /\ journal' = journal /\ Founded
    BY InvParts DEF ConfirmDraft
<1>2. CASE exists
    <2>1. op' = op /\ op'.step = "idle"
        BY <1>1, <1>2 DEF ConfirmDraft, Command
    <2> QED
        BY <1>1, <2>1, CommandRefines
<1>3. CASE ~exists
    <2>1. op' = [Idle EXCEPT !.step = "journal", !.by = "guided", !.target = Starter]
        BY <1>3 DEF ConfirmDraft
    <2>2. op'.step = "journal" /\ op'.orig = Nothing /\ op'.target = Starter
        BY <2>1, IdleOp DEF Operations
    <2>3. Effective = Nothing /\ Effective' = Effective
        BY <1>1, <1>3, EffectiveKept DEF Founded, Effective
    <2>4. ~InTransaction /\ InTransaction'
        BY <1>1, <2>2 DEF Command, InTransaction
    <2> QED
        BY <2>2, <2>3, <2>4, Trees, Begins
<1> QED
    BY <1>2, <1>3

LEMMA TakeAnswerRefines == IInv /\ TakeAnswer => AtomicStep
<1> SUFFICES ASSUME IInv, TakeAnswer PROVE AtomicStep
    OBVIOUS
<1> DEFINE abandoned == op.by = "guided" /\ ~(op.answer = "saved") /\ journal = None
<1>1. /\ op.step = "answer" /\ journal' = journal /\ op'.step = "idle"
      /\ disk' = IF abandoned THEN Nothing ELSE disk
    BY IdleOp DEF TakeAnswer
<1>2. CASE abandoned
    <2>1. ~InTransaction /\ ~InTransaction' /\ Effective' \in Tree
        BY <1>1, <1>2, Trees DEF InTransaction, Effective
    <2> QED
        BY <2>1, Edits
<1>3. CASE ~abandoned
    <2>1. disk' = disk
        BY <1>1, <1>3
    <2> QED
        BY <1>1, <2>1, CommandRefines
<1> QED
    BY <1>2, <1>3

LEMMA DieRefines == IInv /\ Die => AtomicStep
<1> SUFFICES ASSUME IInv, Die PROVE AtomicStep
    OBVIOUS
<1>1. disk' = disk /\ journal' = journal /\ op'.step = "idle"
    BY IdleOp DEF Die
<1>2. ~InTransaction' /\ Effective' = Effective
    BY <1>1, EffectiveKept DEF InTransaction
<1> QED
    BY <1>2, Ends

LEMMA OtherToolRefines == IInv /\ IInv' /\ OtherTool => AtomicStep
<1> SUFFICES ASSUME IInv, IInv', OtherTool PROVE AtomicStep
    OBVIOUS
<1>1. op.step = "idle" /\ op' = op /\ journal' = None
    BY DEF OtherTool, Command
<1>2. disk' \in Tree
    BY DEF IInv, TypeOK
<1>3. ~InTransaction /\ ~InTransaction' /\ Effective' \in Tree
    BY <1>1, <1>2 DEF InTransaction, Effective
<1> QED
    BY <1>3, Edits

LEMMA StutterRefines == UNCHANGED vars => AtomicStep
<1> SUFFICES ASSUME UNCHANGED vars PROVE AtomicStep
    OBVIOUS
<1>1. disk' = disk /\ journal' = journal /\ op' = op
    BY DEF vars, store
<1>2. Effective' = Effective /\ Call' = Call
    BY <1>1, EffectiveKept DEF Call, InTransaction
<1> QED
    BY <1>2 DEF AtomicStep

LEMMA NextRefines == IInv /\ IInv' /\ [Next]_vars => AtomicStep
BY ServiceStepRefines, TakeAnswerRefines, SessionRefines, CreateProjectRefines, SavesRefine,
   ConfirmDraftRefines, DieRefines, OtherToolRefines, StutterRefines DEF Next

\* The journalled transaction of the project service, interrupted anywhere by a failing call or by
\* the death of the process, rolled back, recovered or left with its journal, is a save of the
\* whole tree that takes effect at once: the files a recovery leaves are those the save found or
\* those it meant to write, never a part of each.
THEOREM Refinement == SessionSpec => AtomicSave
<1>1. Init => Atomic!Init
    <2> SUFFICES ASSUME Init PROVE Atomic!Init
        OBVIOUS
    <2>1. IInv /\ op.step = "idle"
        BY InitKeeps, IdleOp DEF Init
    <2>2. Effective \in Tree
        BY <2>1, InvParts, EffectiveTree
    <2>3. Call = [active |-> FALSE]
        BY <2>1 DEF Call, InTransaction
    <2> QED
        BY <2>2, <2>3 DEF Atomic!Init, Atomic!NoCall, Atomic!Tree, Tree
<1>2. IInv /\ IInv' /\ [Next]_vars => [Atomic!Next]_<<Effective, Call>>
    BY NextRefines DEF AtomicStep
<1>3. Spec => AtomicSave
    BY <1>1, <1>2, Invariance, PTL DEF Spec, AtomicSave, Atomic!Spec
<1> QED
    BY <1>3, OneLife, PTL

--------------------------------------------------------------------------------
\* Guided projects: the renaming of the components of a template.

Less == {pair \in Nat \X Nat : pair[1] < pair[2]}

\* Every set of numbers has a least one.
LEMMA Least ==
    ASSUME NEW T, T \subseteq Nat, T # {}
    PROVE  \E x \in T : \A y \in T : x <= y
<1>1. IsWellFoundedOn(Less, Nat)
    BY NatLessThanWellFounded DEF OpToRel, Less
<1>2. PICK x \in T : \A y \in T : ~ (<<y, x>> \in Less)
    BY <1>1, WFMin, Zenon
<1>3. \A a, b \in Nat : a < b => <<a, b>> \in Less
    BY DEF Less
<1>4. ASSUME NEW y \in T PROVE x <= y
    <2>1. x \in Nat /\ y \in Nat /\ ~ (y < x)
        BY <1>2, <1>3
    <2> QED
        BY <2>1
<1> QED
    BY <1>4

\* A property of 0 that passes from each number to the next holds of them all.
LEMMA UpTo ==
    ASSUME NEW n \in Nat, NEW T, 0 \in T, \A k \in 1..n : k - 1 \in T => k \in T
    PROVE  \A k \in 0..n : k \in T
<1> DEFINE Missed == {k \in Nat : k <= n /\ k \notin T}
<1>1. SUFFICES ASSUME Missed # {} PROVE FALSE
    OBVIOUS
<1>2. PICK x \in Missed : \A y \in Missed : x <= y
    BY <1>1, Least
<1>3. x \in 1..n /\ x - 1 \in Nat /\ x - 1 <= n /\ ~ (x <= x - 1)
    BY <1>2
<1>4. x - 1 \in T
    BY <1>2, <1>3
<1> QED
    BY <1>2, <1>3, <1>4

\* The renaming of the components, ID by ID, without the fold: the names after the first k of
\* them, for each k.
Substituted(request, names, old) ==
    [i \in DOMAIN names |-> IF names[i] = old THEN G!Allocated(request, old) ELSE names[i]]
Renaming(request, components, names, D) ==
    names = [s \in SUBSET D |->
               IF s = {} THEN components
               ELSE Substituted(request, names[s \ {Max(s)}], components[Max(s)])]

LEMMA RenamedIs ==
    ASSUME NEW request, NEW components
    PROVE  G!Renamed(request, components)
             = (CHOOSE names : Renaming(request, components, names, DOMAIN components))[DOMAIN components]
BY DEF G!Renamed, G!FoldLeft, G!MapThenFoldSet, Max, G!Max, Renaming, Substituted

LEMMA MaxIs ==
    ASSUME NEW x \in Nat, NEW s \in SUBSET (1..x), x \in s
    PROVE  Max(s) = x
<1>1. \A y \in s : x >= y
    OBVIOUS
<1>2. \A z \in s : (\A y \in s : z >= y) => z = x
    OBVIOUS
<1> QED
    BY <1>1, <1>2 DEF Max

LEMMA RenamingExists ==
    ASSUME NEW request, NEW components, NEW n \in Nat
    PROVE  \E names : Renaming(request, components, names, 1..n)
<1> DEFINE T == {k \in Nat : \E names : Renaming(request, components, names, 1..k)}
<1>1. 0 \in T
    <2> DEFINE names == [s \in SUBSET (1..0) |-> components]
    <2>1. \A s \in SUBSET (1..0) : s = {}
        OBVIOUS
    <2>2. Renaming(request, components, names, 1..0)
        BY <2>1 DEF Renaming
    <2> QED
        BY <2>2
<1>2. ASSUME NEW x \in 1..n, x - 1 \in T PROVE x \in T
    <2>1. PICK before : Renaming(request, components, before, 1..(x - 1))
        BY <1>2
    <2> DEFINE names == [s \in SUBSET (1..x) |->
                           IF x \in s THEN Substituted(request, before[s \ {x}], components[x])
                           ELSE before[s]]
    <2>2. ASSUME NEW s \in SUBSET (1..x)
          PROVE  names[s] = IF s = {} THEN components
                            ELSE Substituted(request, names[s \ {Max(s)}], components[Max(s)])
        <3>1. CASE x \in s
            <4>1. Max(s) = x /\ s # {}
                BY <3>1, MaxIs
            <4>2. s \ {x} \in SUBSET (1..x) /\ x \notin s \ {x}
                OBVIOUS
            <4>3. names[s \ {x}] = before[s \ {x}]
                BY <4>2
            <4> QED
                BY <3>1, <4>1, <4>3
        <3>2. CASE x \notin s
            <4>1. s \in SUBSET (1..(x - 1))
                BY <3>2
            <4>2. s \ {Max(s)} \in SUBSET (1..x) /\ x \notin s \ {Max(s)}
                BY <3>2
            <4>3. names[s \ {Max(s)}] = before[s \ {Max(s)}] /\ names[s] = before[s]
                BY <3>2, <4>2
            <4> HIDE DEF names
            <4>4. before[s] = IF s = {} THEN components
                              ELSE Substituted(request, before[s \ {Max(s)}], components[Max(s)])
                BY <2>1, <4>1 DEF Renaming
            <4> QED
                BY <4>3, <4>4
        <3> QED
            BY <3>1, <3>2
    <2>3. names = [s \in SUBSET (1..x) |-> names[s]]
        OBVIOUS
    <2> HIDE DEF names
    <2>4. Renaming(request, components, names, 1..x)
        BY <2>2, <2>3 DEF Renaming
    <2> QED
        BY <2>4
<1>3. n \in 0..n
    OBVIOUS
<1> HIDE DEF T
<1>4. n \in T
    BY <1>1, <1>2, <1>3, UpTo
<1> QED
    BY <1>4 DEF T

Names(components, names) == names = [i \in DOMAIN components |-> names[i]]

LEMMA RenamedSteps ==
    ASSUME NEW request, NEW S, NEW components \in Seq(S)
    PROVE  \E names :
              /\ names[0] = components /\ names[Len(components)] = G!Renamed(request, components)
              /\ \A k \in 1..Len(components) :
                    names[k] = Substituted(request, names[k - 1], components[k])
<1> DEFINE n == Len(components)
<1>1. n \in Nat /\ DOMAIN components = 1..n
    OBVIOUS
<1> DEFINE fold == CHOOSE names : Renaming(request, components, names, 1..n)
<1>2. Renaming(request, components, fold, 1..n)
    BY <1>1, RenamingExists
<1>3. G!Renamed(request, components) = fold[1..n]
    BY <1>1, RenamedIs
<1> HIDE DEF fold, n
<1> DEFINE names == [k \in 0..n |-> fold[1..k]]
<1>4. names[0] = components /\ names[n] = G!Renamed(request, components)
    <2>1. 1..0 = {} /\ {} \in SUBSET (1..n) /\ 0 \in 0..n /\ n \in 0..n
        BY <1>1
    <2>2. fold[{}] = components
        BY <1>2, <2>1 DEF Renaming
    <2> QED
        BY <1>3, <2>1, <2>2
<1>5. ASSUME NEW k \in 1..n PROVE names[k] = Substituted(request, names[k - 1], components[k])
    <2>1. 1..k \in SUBSET (1..n) /\ 1..k # {} /\ k \in 1..k /\ 1..k \in SUBSET (1..k) /\ k \in Nat
        BY <1>1
    <2>2. Max(1..k) = k
        BY <2>1, MaxIs
    <2>3. (1..k) \ {k} = 1..(k - 1) /\ k - 1 \in 0..n /\ k \in 0..n
        BY <1>1
    <2>4. fold[1..k] = Substituted(request, fold[(1..k) \ {k}], components[k])
        BY <1>2, <2>1, <2>2 DEF Renaming
    <2> QED
        BY <2>3, <2>4
<1> QED
    BY <1>4, <1>5 DEF n

\* If the renaming leaves no two components of one name, no replacement met a name that another
\* one had given: each component has the name that was allocated for it, and for no other.
LEMMA RenamedAsAllocated ==
    ASSUME NEW request, NEW S, NEW components \in Seq(S),
           IsInjective(G!Renamed(request, components))
    PROVE  G!Renamed(request, components)
             = [i \in DOMAIN components |-> G!Allocated(request, components[i])]
<1> DEFINE n == Len(components)
<1>1. n \in Nat /\ DOMAIN components = 1..n
    OBVIOUS
<1>2. PICK names :
         /\ names[0] = components /\ names[n] = G!Renamed(request, components)
         /\ \A k \in 1..n : names[k] = Substituted(request, names[k - 1], components[k])
    BY RenamedSteps
<1> HIDE DEF n
<1>3. \A k \in 0..n : Names(components, names[k])
    <2> DEFINE T == {k \in Nat : Names(components, names[k])}
    <2>1. 0 \in T
        BY <1>2 DEF Names
    <2>2. ASSUME NEW k \in 1..n, k - 1 \in T PROVE k \in T
        <3>1. Names(components, names[k - 1]) /\ k \in Nat
            BY <1>1, <2>2
        <3>2. DOMAIN names[k - 1] = DOMAIN components
            BY <3>1 DEF Names
        <3>3. names[k] = Substituted(request, names[k - 1], components[k])
            BY <1>2
        <3>4. Names(components, names[k])
            BY <3>2, <3>3 DEF Names, Substituted
        <3> QED
            BY <3>1, <3>4
    <2> HIDE DEF T
    <2>3. \A k \in 0..n : k \in T
        BY <1>1, <2>1, <2>2, UpTo
    <2> QED
        BY <2>3 DEF T
<1>4. \A k \in 1..n, i \in 1..n :
         names[k][i] = IF names[k - 1][i] = components[k] THEN G!Allocated(request, components[k])
                       ELSE names[k - 1][i]
    <2> TAKE k \in 1..n, i \in 1..n
    <2>1. k - 1 \in 0..n
        BY <1>1
    <2>2. i \in DOMAIN names[k - 1]
        BY <1>1, <1>3, <2>1 DEF Names
    <2>3. names[k] = Substituted(request, names[k - 1], components[k])
        BY <1>2
    <2>4. Substituted(request, names[k - 1], components[k])[i]
              = IF names[k - 1][i] = components[k] THEN G!Allocated(request, components[k])
                ELSE names[k - 1][i]
        BY <2>2 DEF Substituted
    <2> QED
        BY <2>3, <2>4
<1>5. ASSUME NEW i \in 1..n, NEW j \in 1..n, NEW m \in 0..n, names[m][i] = names[m][j]
      PROVE  names[n][i] = names[n][j]
    <2> DEFINE T == {k \in Nat : k < m \/ names[k][i] = names[k][j]}
    <2>1. 0 \in T
        BY <1>5
    <2>2. ASSUME NEW k \in 1..n, k - 1 \in T PROVE k \in T
        <3>1. CASE k <= m
            BY <1>5, <3>1
        <3>2. CASE ~ (k <= m)
            <4>1. names[k - 1][i] = names[k - 1][j]
                BY <2>2, <3>2
            <4> QED
                BY <1>4, <4>1
        <3> QED
            BY <3>1, <3>2
    <2> HIDE DEF T
    <2>3. n \in T
        BY <1>1, <2>1, <2>2, UpTo, SMTT(40)
    <2> QED
        BY <1>1, <2>3 DEF T
<1>6. \A i, j \in 1..n : names[n][i] = names[n][j] => i = j
    <2>1. DOMAIN names[n] = 1..n
        <3>1. n \in 0..n
            BY <1>1
        <3>2. Names(components, names[n])
            BY <1>3, <3>1
        <3> QED
            BY <1>1, <3>2 DEF Names
    <2> QED
        BY <1>2, <2>1 DEF IsInjective
<1>7. \A k \in 0..n, i \in 1..n :
         names[k][i] = IF i <= k THEN G!Allocated(request, components[i]) ELSE components[i]
    <2> DEFINE T == {k \in Nat : \A i \in 1..n :
                        names[k][i] = IF i <= k THEN G!Allocated(request, components[i])
                                      ELSE components[i]}
    <2>1. 0 \in T
        BY <1>1, <1>2
    <2>2. ASSUME NEW k \in 1..n, k - 1 \in T PROVE k \in T
        <3> SUFFICES ASSUME NEW i \in 1..n
                     PROVE  names[k][i] = IF i <= k THEN G!Allocated(request, components[i])
                                          ELSE components[i]
            BY <1>1
        <3>1. /\ names[k - 1][i] = IF i <= k - 1 THEN G!Allocated(request, components[i])
                                   ELSE components[i]
              /\ names[k - 1][k] = components[k]
              /\ k - 1 \in 0..n
            BY <1>1, <2>2
        <3>2. CASE i = k
            BY <1>4, <3>1, <3>2
        <3>3. CASE i # k
            <4>1. names[k - 1][i] # components[k]
                BY <1>5, <1>6, <3>1, <3>3
            <4>2. i <= k <=> i <= k - 1
                BY <1>1, <3>3
            <4> QED
                BY <1>4, <3>1, <4>1, <4>2
        <3> QED
            BY <3>2, <3>3
    <2> HIDE DEF T
    <2>3. \A k \in 0..n : k \in T
        BY <1>1, <2>1, <2>2, UpTo
    <2> QED
        BY <2>3 DEF T
<1>8. \A i \in 1..n : names[n][i] = G!Allocated(request, components[i])
    BY <1>1, <1>7
<1>9. Names(components, names[n])
    BY <1>1, <1>3
<1> QED
    BY <1>1, <1>2, <1>8, <1>9 DEF Names

--------------------------------------------------------------------------------
\* Previews.

LEMMA SameInjective == \A f : G!IsInjective(f) <=> IsInjective(f)
BY DEF G!IsInjective, IsInjective

LEMMA AllocatedIds ==
    ASSUME NEW request \in Requests, NEW old \in G!Ids
    PROVE  G!Allocated(request, old) \in G!Ids
<1>1. CASE old \in DOMAIN request.ids
    <2>1. request.ids[old] \in G!ToSet(request.ids)
        BY <1>1 DEF G!ToSet
    <2>2. G!ToSet(request.ids) \in {G!ToSet(r.ids) : r \in Requests}
        OBVIOUS
    <2> QED
        BY <1>1, <2>1, <2>2 DEF G!Ids, G!Allocated
<1>2. CASE old \notin DOMAIN request.ids
    BY <1>2 DEF G!Allocated
<1> QED
    BY <1>1, <1>2

LEMMA CandidateOK ==
    ASSUME NEW request \in Requests, NEW source \in G!Named, schemas \in {0, 1},
           IsInjective(G!CandidateTree(request, source).components)
    PROVE  /\ G!CandidateTree(request, source) \in G!CandidateTrees
           /\ G!CandidateTree(request, source).components
                = [i \in DOMAIN source.components |-> G!Allocated(request, source.components[i])]
<1> DEFINE tree == G!CandidateTree(request, source)
<1>1. source.complete \in BOOLEAN /\ source.components \in Seq(G!Ids)
    BY GuidedAssumption
<1>2. tree = [complete |-> source.complete, cell |-> G!CellOf(request, source),
              components |-> G!Renamed(request, source.components),
              rest |-> source.rest, schemas |-> schemas]
    BY DEF G!CandidateTree
<1>3. tree.components = G!Renamed(request, source.components)
    BY <1>2
<1>4. tree.components
        = [i \in DOMAIN source.components |-> G!Allocated(request, source.components[i])]
    BY <1>1, <1>3, RenamedAsAllocated
<1>5. tree.components \in Seq(G!Ids)
    <2>1. Len(source.components) \in Nat /\ DOMAIN source.components = 1..Len(source.components)
        BY <1>1
    <2>2. \A i \in 1..Len(source.components) : G!Allocated(request, source.components[i]) \in G!Ids
        BY <1>1, AllocatedIds
    <2>3. tree.components
            = [i \in 1..Len(source.components) |-> G!Allocated(request, source.components[i])]
        BY <1>4, <2>1
    <2> QED
        BY <2>1, <2>2, <2>3
<1>6. G!CellOf(request, source) \in {s.cell : s \in G!Named}
                                     \cup UNION {{r.cell, Seeded(r.seed)} : r \in Requests}
    <2>1. source.cell \in {s.cell : s \in G!Named}
        OBVIOUS
    <2>2. {request.cell, Seeded(request.seed)} \in {{r.cell, Seeded(r.seed)} : r \in Requests}
        OBVIOUS
    <2>3. G!CellOf(request, source) \in {source.cell, request.cell, Seeded(request.seed)}
        BY DEF G!CellOf
    <2> QED
        BY <2>1, <2>2, <2>3
<1>7. source.rest \in {s.rest : s \in G!Named}
    OBVIOUS
<1> HIDE DEF tree
<1>8. tree \in G!CandidateTrees
    BY <1>1, <1>2, <1>3, <1>5, <1>6, <1>7 DEF G!CandidateTrees
<1> QED
    BY <1>4, <1>8 DEF tree

\* A preview is of its request and names the IDs of the tree that it would save.
LEMMA PreviewOK ==
    ASSUME NEW request \in Requests, G!GuidedIInv
    PROVE  /\ G!Preview(request).request = request
           /\ G!Faithful(G!Preview(request))
           /\ G!Preview(request).can_save =>
                 /\ G!Preview(request).tree \in G!CandidateTrees
                 /\ G!Preview(request).ids = G!Preview(request).tree.components
<1> DEFINE source == G!SourceOf(G!Resolved(request.template))
           read == G!Read(request, source)
           parsed == G!Parsed(request, source)
           allocated == [i \in DOMAIN source.components |->
                           G!Allocated(request, source.components[i])]
           preview == G!Preview(request)
<1>1. preview = [request |-> request,
                 tree |-> CASE parsed -> G!CandidateTree(request, source)
                            [] read /\ ~parsed -> source
                            [] OTHER -> None,
                 ids |-> IF parsed THEN allocated ELSE <<>>,
                 can_save |-> parsed /\ request.fit /\ G!AllocationAccepted(request, source)
                              /\ G!ValidTree(CASE parsed -> G!CandidateTree(request, source)
                                               [] read /\ ~parsed -> source
                                               [] OTHER -> None)]
    BY DEF G!Preview
<1>2. schemas \in {0, 1} /\ (read => source \in G!Named)
    BY DEF G!GuidedIInv, G!Read, G!SourceOf, G!Resolved, G!Named
<1>3. parsed => read
    BY DEF G!Parsed
<1> HIDE DEF source, read, parsed, allocated, preview
<1>4. CASE parsed
    <2>1. preview.tree = G!CandidateTree(request, source) /\ preview.ids = allocated
          /\ preview.request = request
        BY <1>1, <1>4
    <2>2. IsInjective(preview.tree.components) =>
             preview.tree \in G!CandidateTrees /\ preview.ids = preview.tree.components
        BY <1>2, <1>3, <1>4, <2>1, CandidateOK DEF G!GuidedIInv, allocated
    <2>3. preview.can_save => IsInjective(preview.tree.components)
        BY <1>1, <1>4, <2>1, SameInjective DEF G!ValidTree
    <2> QED
        BY <2>1, <2>2, <2>3, SameInjective DEF G!Faithful, preview
<1>5. CASE ~parsed
    <2>1. preview.request = request /\ ~preview.can_save
        BY <1>1, <1>5
    <2>2. preview.tree \notin G!CandidateTrees
        <3>1. CASE read
            <4>0. source \in G!Named
                BY <1>2, <3>1
            <4>1. preview.tree = source
                BY <1>1, <1>5, <3>1
            <4>2. source = [complete |-> source.complete, cell |-> source.cell,
                            components |-> source.components, rest |-> source.rest]
                BY <4>0, GuidedAssumption
            <4>3. DOMAIN source = {"complete", "cell", "components", "rest"}
                BY <4>2
            <4>4. \A tree \in G!CandidateTrees : "schemas" \in DOMAIN tree
                BY DEF G!CandidateTrees
            <4> QED
                BY <4>1, <4>3, <4>4
        <3>2. CASE ~read
            BY <1>1, <1>5, <3>2, GuidedAssumption
        <3> QED
            BY <3>1, <3>2
    <2> QED
        BY <2>1, <2>2 DEF G!Faithful, preview
<1> QED
    BY <1>4, <1>5

--------------------------------------------------------------------------------
\* The invariant, action by action.

LEMMA NotSaving == G!NoSave.step = "idle" /\ ~ (G!NoSave.step \in {"stage", "make", "write", "reopen"})
BY DEF G!NoSave

LEMMA ReviewKeeps ==
    ASSUME NEW request \in Requests, G!GuidedIInv, G!Ready, G!Review(request),
           UNCHANGED <<sources, schemas, places, saving, changes>>
    PROVE  G!GuidedIInv'
<1>1. G!Preview(request).request = request /\ G!Faithful(G!Preview(request))
    BY PreviewOK
<1>2. /\ drafts' = [drafts EXCEPT ![request] = G!Preview(request)]
      /\ screen' = G!Preview(request)
    BY DEF G!Review
<1>3. DOMAIN drafts = Requests /\ drafts'[request] = screen'
    BY <1>2 DEF G!GuidedIInv, G!DraftsOK
<1>4. G!DraftsOK'
    BY <1>1, <1>2, <1>3 DEF G!GuidedIInv, G!DraftsOK, G!Faithful, G!CandidateTrees
<1>5. G!ScreenOK' /\ G!ScreenIsDraft'
    BY <1>1, <1>2, <1>3 DEF G!ScreenOK, G!ScreenIsDraft
<1>6. saving' = G!NoSave /\ ~(saving'.step \in {"write", "reopen"})
    BY NotSaving DEF G!Ready
<1> QED
    BY <1>4, <1>5, <1>6 DEF G!GuidedIInv, G!PlacesOK, G!OwnPlace

LEMMA CreateDraftKeeps == G!GuidedIInv /\ G!CreateDraft => G!GuidedIInv'
BY ReviewKeeps DEF G!CreateDraft

LEMMA PreviewDraftKeeps == G!GuidedIInv /\ G!PreviewDraft => G!GuidedIInv'
<1> SUFFICES ASSUME G!GuidedIInv, G!PreviewDraft PROVE G!GuidedIInv'
    OBVIOUS
<1>1. screen.request \in Requests
    BY DEF G!PreviewDraft, G!GuidedIInv, G!ScreenOK
<1>2. CASE drafts[screen.request] # None
    BY <1>1, <1>2, ReviewKeeps DEF G!PreviewDraft
<1>3. CASE drafts[screen.request] = None
    <2>1. screen' = [screen EXCEPT !.tree = None, !.ids = <<>>, !.can_save = FALSE]
          /\ drafts' = drafts
        BY <1>3 DEF G!PreviewDraft
    <2>2. screen'.request = screen.request
        BY <2>1
    <2>3. G!ScreenOK' /\ G!ScreenIsDraft'
        BY <1>1, <1>3, <2>1, <2>2 DEF G!ScreenOK, G!ScreenIsDraft
    <2>4. saving' = G!NoSave /\ ~(saving'.step \in {"write", "reopen"})
        BY NotSaving DEF G!Ready, G!PreviewDraft
    <2> QED
        BY <2>1, <2>3, <2>4 DEF G!GuidedIInv, G!DraftsOK, G!PlacesOK, G!OwnPlace, G!PreviewDraft
<1> QED
    BY <1>2, <1>3

LEMMA CancelDraftKeeps == G!GuidedIInv /\ G!CancelDraft => G!GuidedIInv'
<1> SUFFICES ASSUME G!GuidedIInv, G!CancelDraft PROVE G!GuidedIInv'
    OBVIOUS
<1>1. saving' = G!NoSave /\ ~(saving'.step \in {"write", "reopen"})
    BY NotSaving DEF G!Ready, G!CancelDraft
<1>2. G!DraftsOK' /\ G!ScreenOK' /\ G!ScreenIsDraft'
    BY DEF G!GuidedIInv, G!DraftsOK, G!ScreenOK, G!ScreenIsDraft, G!CancelDraft
<1> QED
    BY <1>1, <1>2 DEF G!GuidedIInv, G!PlacesOK, G!OwnPlace, G!CancelDraft

LEMMA OpenOtherKeeps == G!GuidedIInv /\ G!OpenOther => G!GuidedIInv'
<1> SUFFICES ASSUME G!GuidedIInv, G!OpenOther PROVE G!GuidedIInv'
    OBVIOUS
<1>1. saving' = G!NoSave /\ ~(saving'.step \in {"write", "reopen"})
    BY NotSaving DEF G!Ready, G!OpenOther
<1>2. G!DraftsOK' /\ G!ScreenOK' /\ G!ScreenIsDraft'
    BY DEF G!GuidedIInv, G!DraftsOK, G!ScreenOK, G!ScreenIsDraft, G!OpenOther
<1> QED
    BY <1>1, <1>2 DEF G!GuidedIInv, G!PlacesOK, G!OwnPlace, G!OpenOther

LEMMA ConfirmSaveKeeps == G!GuidedIInv /\ G!ConfirmSave => G!GuidedIInv'
<1> SUFFICES ASSUME G!GuidedIInv, G!ConfirmSave PROVE G!GuidedIInv'
    OBVIOUS
<1> DEFINE request == screen.request
           reviewed == drafts[request]
           refreshed == G!Preview(request)
<1>1. request \in Requests /\ reviewed # None /\ screen = reviewed
    BY DEF G!ConfirmSave, G!GuidedIInv, G!ScreenOK, G!ScreenIsDraft
<1>2. refreshed.request = request /\ G!Faithful(refreshed) /\ G!Faithful(reviewed)
    BY <1>1, PreviewOK DEF G!GuidedIInv, G!DraftsOK
<1>3. /\ drafts' = [drafts EXCEPT ![request] = refreshed]
      /\ \/ /\ refreshed.tree = reviewed.tree /\ refreshed.can_save
            /\ saving' = [step |-> "stage", preview |-> refreshed, shown |-> screen]
            /\ screen' = screen
         \/ screen' = refreshed /\ saving' = saving
      /\ UNCHANGED <<sources, schemas, places>>
    BY DEF G!ConfirmSave, G!Fresh
<1>4. refreshed.can_save =>
         refreshed.tree \in G!CandidateTrees /\ refreshed.ids = refreshed.tree.components
    BY <1>1, PreviewOK
<1>5. refreshed.can_save => G!IsInjective(refreshed.tree.components)
    BY DEF G!Preview, G!ValidTree
<1> HIDE DEF refreshed, reviewed
<1>6. G!DraftsOK'
    BY <1>1, <1>2, <1>3 DEF G!GuidedIInv, G!DraftsOK, G!Faithful, G!CandidateTrees, reviewed
<1>7. DOMAIN drafts = Requests /\ drafts'[request] = refreshed
    BY <1>1, <1>3 DEF G!GuidedIInv, G!DraftsOK
<1>8. CASE /\ refreshed.tree = reviewed.tree /\ refreshed.can_save
           /\ saving' = [step |-> "stage", preview |-> refreshed, shown |-> screen]
           /\ screen' = screen
    <2>1. G!Confirmed'
        BY <1>1, <1>2, <1>4, <1>5, <1>7, <1>8, SameInjective
           DEF G!Confirmed, G!Faithful, G!CandidateTrees, reviewed
    <2>2. saving'.step = "stage" /\ saving' # G!NoSave
        BY <1>8, NotSaving
    <2> QED
        BY <1>1, <1>3, <1>6, <1>8, <2>1, <2>2
           DEF G!GuidedIInv, G!PlacesOK, G!OwnPlace, G!ScreenOK, G!ScreenIsDraft, G!Ready
<1>9. CASE screen' = refreshed /\ saving' = saving
    <2>1. saving' = G!NoSave /\ ~(saving'.step \in {"write", "reopen"})
        BY <1>9, NotSaving DEF G!Ready, G!ConfirmSave
    <2>2. G!ScreenOK' /\ G!ScreenIsDraft'
        BY <1>1, <1>2, <1>7, <1>9 DEF G!ScreenOK, G!ScreenIsDraft
    <2> QED
        BY <1>3, <1>6, <2>1, <2>2 DEF G!GuidedIInv, G!PlacesOK, G!OwnPlace
<1> QED
    BY <1>3, <1>8, <1>9

\* A save ends with its preview on the screen, or goes on to another of its steps.
LEMMA SaveOngoing ==
    ASSUME G!GuidedIInv, saving.step \in {"stage", "make", "write", "reopen"}
    PROVE  G!Confirmed /\ saving # G!NoSave /\ G!Destination \in G!Destinations
           /\ DOMAIN places = G!Destinations
<1>1. G!Confirmed /\ saving # G!NoSave
    BY NotSaving DEF G!GuidedIInv
<1> QED
    BY <1>1 DEF G!Confirmed, G!Destination, G!Destinations, G!GuidedIInv, G!PlacesOK

LEMMA RefusedKeeps ==
    ASSUME G!GuidedIInv, saving.step \in {"stage", "make", "write", "reopen"}, G!Refused,
           UNCHANGED <<sources, schemas>>, G!PlacesOK'
    PROVE  G!GuidedIInv'
<1>1. G!Confirmed
    BY SaveOngoing
<1>2. saving' = G!NoSave /\ ~(saving'.step \in {"write", "reopen"})
    BY NotSaving DEF G!Refused
<1>3. G!DraftsOK' /\ G!ScreenOK' /\ G!ScreenIsDraft'
    BY <1>1 DEF G!Refused, G!GuidedIInv, G!DraftsOK, G!ScreenOK, G!ScreenIsDraft, G!Confirmed
<1> QED
    BY <1>2, <1>3 DEF G!GuidedIInv, G!OwnPlace

LEMMA GoOnKeeps ==
    ASSUME NEW step \in {"make", "write", "reopen"}, G!GuidedIInv,
           saving.step \in {"stage", "make", "write", "reopen"}, G!GoOn(step),
           UNCHANGED <<sources, schemas>>, G!PlacesOK',
           step \in {"write", "reopen"} =>
              places'[G!Destination] # Absent /\ places'[G!Destination].by = "studio"
    PROVE  G!GuidedIInv'
<1>1. G!Confirmed
    BY SaveOngoing
<1>2. saving' = [step |-> step, preview |-> saving.preview, shown |-> saving.shown]
    BY <1>1 DEF G!GoOn, G!Confirmed
<1>3. saving'.step = step /\ saving'.preview = saving.preview /\ saving'.shown = saving.shown
      /\ saving' # G!NoSave /\ drafts' = drafts /\ screen' = screen
    BY <1>2, NotSaving DEF G!GoOn
<1>4. G!Confirmed'
    BY <1>1, <1>2, <1>3 DEF G!Confirmed, G!CandidateTrees
<1>5. G!DraftsOK' /\ G!ScreenOK' /\ G!ScreenIsDraft'
    BY <1>3 DEF G!GuidedIInv, G!DraftsOK, G!ScreenOK, G!ScreenIsDraft, G!Ready
<1>6. G!OwnPlace'
    BY <1>3 DEF G!OwnPlace, G!Destination
<1> QED
    BY <1>4, <1>5, <1>6 DEF G!GuidedIInv

\* A directory may appear, be filled or vanish.
Placed == [by : {"studio", "other"}, tree : G!CandidateTrees \cup {None}]
LEMMA PlacesAfter ==
    ASSUME G!PlacesOK, NEW d \in G!Destinations, NEW place \in Placed \cup {Absent},
           places' = [places EXCEPT ![d] = place]
    PROVE  G!PlacesOK' /\ places'[d] = place
BY DEF G!PlacesOK, Placed, G!CandidateTrees, G!Destinations

LEMMA StageTreeKeeps == G!GuidedIInv /\ G!StageTree => G!GuidedIInv'
<1> SUFFICES ASSUME G!GuidedIInv, G!StageTree PROVE G!GuidedIInv'
    OBVIOUS
<1>1. G!PlacesOK' /\ saving.step \in {"stage", "make", "write", "reopen"}
    BY DEF G!GuidedIInv, G!PlacesOK, G!StageTree
<1> QED
    BY <1>1, RefusedKeeps, GoOnKeeps DEF G!StageTree

LEMMA MakeDirectoryKeeps == G!GuidedIInv /\ G!MakeDirectory => G!GuidedIInv'
<1> SUFFICES ASSUME G!GuidedIInv, G!MakeDirectory PROVE G!GuidedIInv'
    OBVIOUS
<1>1. saving.step \in {"stage", "make", "write", "reopen"} /\ UNCHANGED <<sources, schemas>>
    BY DEF G!MakeDirectory
<1>2. G!Destination \in G!Destinations
    BY <1>1, SaveOngoing
<1>3. CASE places[G!Destination] = Absent
    <2> DEFINE place == [by |-> "studio", tree |-> None]
    <2>1. place \in Placed /\ place # Absent /\ place.by = "studio"
        BY GuidedAssumption DEF Placed
    <2> HIDE DEF place
    <2>2. places' = [places EXCEPT ![G!Destination] = place] /\ G!GoOn("write")
        BY <1>3 DEF G!MakeDirectory, place
    <2>3. G!PlacesOK' /\ places'[G!Destination] = place
        BY <1>2, <2>1, <2>2, PlacesAfter DEF G!GuidedIInv
    <2> QED
        BY <1>1, <2>1, <2>2, <2>3, GoOnKeeps
<1>4. CASE places[G!Destination] # Absent
    <2>1. G!Refused /\ G!PlacesOK'
        BY <1>4 DEF G!MakeDirectory, G!GuidedIInv, G!PlacesOK
    <2> QED
        BY <1>1, <2>1, RefusedKeeps
<1> QED
    BY <1>3, <1>4

LEMMA WriteTreeKeeps == G!GuidedIInv /\ G!WriteTree => G!GuidedIInv'
<1> SUFFICES ASSUME G!GuidedIInv, G!WriteTree PROVE G!GuidedIInv'
    OBVIOUS
<1>1. saving.step = "write" /\ saving.step \in {"stage", "make", "write", "reopen"}
      /\ UNCHANGED <<sources, schemas>>
    BY DEF G!WriteTree
<1>2. G!Destination \in G!Destinations /\ G!Confirmed
    BY <1>1, SaveOngoing
<1>3. places[G!Destination] \in Placed /\ places[G!Destination].by = "studio"
    BY <1>1, <1>2 DEF G!GuidedIInv, G!OwnPlace, G!PlacesOK, Placed
<1>4. CASE places' = [places EXCEPT ![G!Destination].tree = saving.preview.tree] /\ G!GoOn("reopen")
    <2> DEFINE place == [by |-> "studio", tree |-> saving.preview.tree]
    <2>1. [places[G!Destination] EXCEPT !.tree = saving.preview.tree] = place
        BY <1>3 DEF Placed
    <2>2. place \in Placed /\ place # Absent /\ place.by = "studio"
        BY <1>2, GuidedAssumption DEF Placed, G!Confirmed
    <2> HIDE DEF place
    <2>3. places' = [places EXCEPT ![G!Destination] = place]
        BY <1>4, <2>1
    <2>4. G!PlacesOK' /\ places'[G!Destination] = place
        BY <1>2, <2>2, <2>3, PlacesAfter DEF G!GuidedIInv
    <2> QED
        BY <1>1, <1>4, <2>2, <2>4, GoOnKeeps
<1>5. CASE places' = [places EXCEPT ![G!Destination] = Absent] /\ G!Refused
    BY <1>1, <1>2, <1>5, PlacesAfter, RefusedKeeps DEF G!GuidedIInv
<1>6. CASE UNCHANGED places /\ G!Refused
    <2>1. G!PlacesOK'
        BY <1>6 DEF G!GuidedIInv, G!PlacesOK
    <2> QED
        BY <1>1, <1>6, <2>1, RefusedKeeps
<1> QED
    BY <1>4, <1>5, <1>6 DEF G!WriteTree

LEMMA ReopenTreeKeeps == G!GuidedIInv /\ G!ReopenTree => G!GuidedIInv'
<1> SUFFICES ASSUME G!GuidedIInv, G!ReopenTree PROVE G!GuidedIInv'
    OBVIOUS
<1>1. saving.step \in {"stage", "make", "write", "reopen"} /\ UNCHANGED <<sources, schemas>>
    BY DEF G!ReopenTree
<1>2. G!Destination \in G!Destinations /\ G!Confirmed
    BY <1>1, SaveOngoing
<1>3. CASE /\ saving' = G!NoSave
           /\ drafts' = [drafts EXCEPT ![saving.preview.request] = None]
           /\ screen' \in {None, saving.preview}
           /\ UNCHANGED places
    <2>1. ~(saving'.step \in {"write", "reopen"})
        BY <1>3, NotSaving
    <2>2. G!DraftsOK' /\ G!ScreenOK' /\ G!ScreenIsDraft'
        BY <1>2, <1>3 DEF G!GuidedIInv, G!DraftsOK, G!ScreenOK, G!ScreenIsDraft, G!Confirmed
    <2> QED
        BY <1>1, <1>3, <2>1, <2>2 DEF G!GuidedIInv, G!PlacesOK, G!OwnPlace
<1>4. CASE places' = [places EXCEPT ![G!Destination] = Absent] /\ G!Refused
    BY <1>1, <1>2, <1>4, PlacesAfter, RefusedKeeps DEF G!GuidedIInv
<1> QED
    BY <1>3, <1>4 DEF G!ReopenTree

LEMMA EditTemplateKeeps == G!GuidedIInv /\ G!EditTemplate => G!GuidedIInv'
<1> SUFFICES ASSUME G!GuidedIInv, G!EditTemplate PROVE G!GuidedIInv'
    OBVIOUS
<1>1. sources' \in [Templates \ {"blank"} -> Sources \cup {Absent}] /\ schemas' \in {0, 1}
    BY DEF G!GuidedIInv, G!EditTemplate
<1>2. UNCHANGED <<places, drafts, screen, saving>>
    BY DEF G!EditTemplate
<1> QED
    BY <1>1, <1>2 DEF G!GuidedIInv, G!DraftsOK, G!ScreenOK, G!ScreenIsDraft, G!PlacesOK,
        G!OwnPlace, G!Confirmed, G!Ready, G!Destination

LEMMA TakeDestinationKeeps == G!GuidedIInv /\ G!TakeDestination => G!GuidedIInv'
<1> SUFFICES ASSUME G!GuidedIInv, G!TakeDestination PROVE G!GuidedIInv'
    OBVIOUS
<1> DEFINE place == [by |-> "other", tree |-> None]
<1>1. PICK d \in G!Destinations : places[d] = Absent /\ places' = [places EXCEPT ![d] = place]
    BY DEF G!TakeDestination
<1>2. place \in Placed
    BY DEF Placed
<1> HIDE DEF place
<1>3. G!PlacesOK'
    BY <1>1, <1>2, PlacesAfter DEF G!GuidedIInv
<1>4. UNCHANGED <<sources, schemas, drafts, screen, saving>>
    BY DEF G!TakeDestination
<1>5. G!OwnPlace'
    <2>1. saving.step \in {"write", "reopen"} => G!Destination \in G!Destinations
        BY SaveOngoing
    <2> QED
        BY <1>1, <1>4, <2>1 DEF G!GuidedIInv, G!OwnPlace, G!Destination, G!PlacesOK
<1> QED
    BY <1>3, <1>4, <1>5 DEF G!GuidedIInv, G!DraftsOK, G!ScreenOK, G!ScreenIsDraft,
        G!Confirmed, G!Ready

LEMMA StudioDiesKeeps == G!GuidedIInv /\ G!StudioDies => G!GuidedIInv'
<1> SUFFICES ASSUME G!GuidedIInv, G!StudioDies PROVE G!GuidedIInv'
    OBVIOUS
<1>1. saving' = G!NoSave /\ ~(saving'.step \in {"write", "reopen"})
    BY NotSaving DEF G!StudioDies
<1>2. G!DraftsOK' /\ G!ScreenOK' /\ G!ScreenIsDraft'
    BY DEF G!DraftsOK, G!ScreenOK, G!ScreenIsDraft, G!StudioDies
<1> QED
    BY <1>1, <1>2 DEF G!GuidedIInv, G!PlacesOK, G!OwnPlace, G!StudioDies

LEMMA GuidedStutterKeeps == G!GuidedIInv /\ UNCHANGED guidedVars => G!GuidedIInv'
BY DEF guidedVars, G!GuidedIInv, G!DraftsOK, G!ScreenOK, G!ScreenIsDraft, G!PlacesOK,
       G!OwnPlace, G!Confirmed, G!Ready, G!Destination

LEMMA GuidedInitKeeps == G!GuidedInit => G!GuidedIInv
BY NotSaving DEF G!GuidedInit, G!GuidedIInv, G!DraftsOK, G!ScreenOK, G!ScreenIsDraft,
       G!PlacesOK, G!OwnPlace

LEMMA GuidedNextKeeps == G!GuidedIInv /\ G!GuidedNext => G!GuidedIInv'
BY CreateDraftKeeps, PreviewDraftKeeps, CancelDraftKeeps, OpenOtherKeeps, ConfirmSaveKeeps,
   StageTreeKeeps, MakeDirectoryKeeps, WriteTreeKeeps, ReopenTreeKeeps, EditTemplateKeeps,
   TakeDestinationKeeps, StudioDiesKeeps DEF G!GuidedNext

--------------------------------------------------------------------------------
\* The theorem.

\* What the property says of a step.
WritesReviewed ==
    \A d \in G!Destinations :
       places[d] # Absent /\ places'[d] # places[d] =>
          /\ places[d].by = "studio"
          /\ places'[d] # Absent =>
                /\ places'[d].tree = saving.shown.tree
                /\ places'[d].tree.components = saving.shown.ids

LEMMA UntouchedPlaces == UNCHANGED places => WritesReviewed
BY DEF WritesReviewed

LEMMA SavesReviewed ==
    G!GuidedIInv /\ (G!StageTree \/ G!MakeDirectory \/ G!WriteTree \/ G!ReopenTree) => WritesReviewed
<1> SUFFICES ASSUME G!GuidedIInv, G!StageTree \/ G!MakeDirectory \/ G!WriteTree \/ G!ReopenTree
             PROVE  WritesReviewed
    OBVIOUS
<1>1. saving.step \in {"stage", "make", "write", "reopen"}
    BY DEF G!StageTree, G!MakeDirectory, G!WriteTree, G!ReopenTree
<1>2. G!Destination \in G!Destinations /\ DOMAIN places = G!Destinations /\ G!Confirmed
    BY <1>1, SaveOngoing
<1>3. CASE UNCHANGED places
    BY <1>3, UntouchedPlaces
<1>4. CASE saving.step \in {"write", "reopen"} /\ places' = [places EXCEPT ![G!Destination] = Absent]
    BY <1>2, <1>4 DEF WritesReviewed, G!GuidedIInv, G!OwnPlace
<1>5. CASE saving.step = "write"
           /\ places' = [places EXCEPT ![G!Destination].tree = saving.preview.tree]
    <2>1. places[G!Destination] \in Placed /\ places[G!Destination].by = "studio"
        BY <1>2, <1>5 DEF G!GuidedIInv, G!OwnPlace, G!PlacesOK, Placed
    <2>2. places'[G!Destination].tree = saving.preview.tree
        BY <1>2, <1>5, <2>1 DEF Placed
    <2>3. \A d \in G!Destinations : d # G!Destination => places'[d] = places[d]
        BY <1>2, <1>5
    <2> QED
        BY <1>2, <2>1, <2>2, <2>3 DEF WritesReviewed, G!Confirmed
<1>6. CASE places[G!Destination] = Absent
           /\ places' = [places EXCEPT ![G!Destination] = [by |-> "studio", tree |-> None]]
    BY <1>2, <1>6 DEF WritesReviewed
<1> QED
    BY <1>1, <1>3, <1>4, <1>5, <1>6
       DEF G!StageTree, G!MakeDirectory, G!WriteTree, G!ReopenTree

LEMMA GuidedReviewed == G!GuidedIInv /\ [G!GuidedNext]_guidedVars => WritesReviewed
<1> SUFFICES ASSUME G!GuidedIInv, [G!GuidedNext]_guidedVars PROVE WritesReviewed
    OBVIOUS
<1>1. CASE G!TakeDestination
    <2>1. PICK d \in G!Destinations :
             places[d] = Absent /\ places' = [places EXCEPT ![d] = [by |-> "other", tree |-> None]]
        BY <1>1 DEF G!TakeDestination
    <2> QED
        BY <2>1 DEF WritesReviewed, G!GuidedIInv, G!PlacesOK
<1>2. CASE G!StageTree \/ G!MakeDirectory \/ G!WriteTree \/ G!ReopenTree
    BY <1>2, SavesReviewed
<1>3. CASE \/ G!CreateDraft \/ G!PreviewDraft \/ G!CancelDraft \/ G!OpenOther \/ G!ConfirmSave
           \/ G!EditTemplate \/ G!StudioDies \/ UNCHANGED guidedVars
    BY <1>3, UntouchedPlaces
       DEF G!CreateDraft, G!PreviewDraft, G!CancelDraft, G!OpenOther, G!ConfirmSave,
           G!EditTemplate, G!StudioDies, guidedVars
<1> QED
    BY <1>1, <1>2, <1>3 DEF G!GuidedNext

\* Every interleaving of the commands and the saves of guided projects with the edits of their
\* templates, of the schemas and of the destinations keeps the drafts, the screen and the save in
\* agreement.
THEOREM GuidedInvariance == SessionSpec => []G!GuidedIInv
<1>1. SessionInit => G!GuidedIInv
    BY GuidedInitKeeps DEF SessionInit
<1>2. G!GuidedIInv /\ [SessionNext]_<<vars, guidedVars>> => G!GuidedIInv'
    BY GuidedNextKeeps, GuidedStutterKeeps DEF SessionNext
<1> QED
    BY <1>1, <1>2, PTL DEF SessionSpec

\* GuidedProjectService.save writes no tree but the one that was on the screen when the engineer
\* confirmed, under the component IDs its preview named, into a directory that Studio made, and
\* removes no directory of another.
THEOREM OnlyReviewedIsWritten == SessionSpec => OnlyReviewed
<1>1. G!GuidedIInv /\ [SessionNext]_<<vars, guidedVars>> => [WritesReviewed]_guidedVars
    <2> SUFFICES ASSUME G!GuidedIInv, [SessionNext]_<<vars, guidedVars>> PROVE WritesReviewed
        OBVIOUS
    <2>1. [G!GuidedNext]_guidedVars
        BY DEF SessionNext
    <2> QED
        BY <2>1, GuidedReviewed
<1>2. OnlyReviewed <=> [][WritesReviewed]_guidedVars
    BY PTL DEF OnlyReviewed, G!OnlyReviewed, WritesReviewed, guidedVars, G!guidedVars
<1> QED
    BY <1>1, <1>2, GuidedInvariance, PTL DEF SessionSpec

================================================================================
