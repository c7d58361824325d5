---------------------------- MODULE Qualification ----------------------------
(***************************************************************************)
(* The qualification of a release: the suite reads the revision and the    *)
(* sources, runs one gate after the other, and its script judges the       *)
(* report.  Gates read the project again when they run, commands may fail  *)
(* or time out, and two invocations may share their evidence directory,    *)
(* where most artifacts have fixed names.                                  *)
(***************************************************************************)
EXTENDS Naturals, Sequences, Functions

CONSTANTS Invocations, Revisions, First,
          Branched,   \* pairs of a file and a revision of it that branches on the simulator
          Seeded,     \* external L2 reports: [sound, scene, tree, recipe, commit], the
                      \* identities being optional except the scene's
          Checkouts,  \* working trees to start from: the first revision, with local edits or not
          Probes,     \* the gates after the bundle's: restart, stale device, platform, kitting
          None,
          MaxChanges  \* bound on edits and commits

Sources == {"cell", "scene", "recipe", "tree"}
Projects == [Sources -> Revisions]

\* The gates that leave an artifact of a fixed name.
Gates == {"l0", "bundle"} \cup Range(Probes)

VARIABLES
    project,  \* the working tree
    head,     \* the revision that git names
    evidence, \* the evidence directory: gate -> the invocation that wrote its artifact last
    signing,  \* bundle-signing-key.pem: the invocation whose key it is
    trusted,  \* trusted-keys
    quals,    \* the invocations
    changes   \* used up

vars == <<project, head, evidence, signing, trusted, quals, changes>>

Idle == [pc |-> "idle"]

Init ==
    /\ head = [s \in Sources |-> First] /\ project \in Checkouts
    /\ evidence = [g \in Gates |-> None]
    /\ signing = None /\ trusted = {}
    /\ quals = [q \in Invocations |-> Idle]
    /\ changes = 0

-----------------------------------------------------------------------------
\* Others at work.

Running(q) == quals[q].pc \notin {"idle", "ended"}

\* `steady' remembers that the project was left alone while an invocation ran.
Disturb ==
    quals' = [q \in Invocations |->
                 IF Running(q) THEN [quals[q] EXCEPT !.steady = FALSE] ELSE quals[q]]

Edit(s, r) ==
    /\ changes < MaxChanges /\ changes' = changes + 1
    /\ project[s] # r /\ project' = [project EXCEPT ![s] = r]
    /\ Disturb
    /\ UNCHANGED <<head, evidence, signing, trusted>>

Commit ==
    /\ changes < MaxChanges /\ changes' = changes + 1
    /\ head # project /\ head' = project
    /\ Disturb
    /\ UNCHANGED <<project, evidence, signing, trusted>>

-----------------------------------------------------------------------------
\* One invocation.

Move(q, pc, changed) == quals' = [quals EXCEPT ![q] = [changed EXCEPT !.pc = pc]]
At(q, pc) == quals[q].pc = pc

\* The report of an invocation: what it names, and what its gates have found.
Blank(commit, l2) ==
    [pc |-> IF commit = None THEN "sources" ELSE "status", commit |-> commit, clean |-> FALSE,
     sources |-> None, tree |-> None, rows |-> None, bundle |-> None, l2 |-> l2, l2passed |-> FALSE,
     failed |-> FALSE, gate |-> None, digests |-> [g \in Gates |-> None], exit |-> None,
     steady |-> TRUE]

\* _get_git_info: the revision, then the status; no fallback identity when git
\* fails.
Start(q, l2) ==
    /\ At(q, "idle")
    /\ \E commit \in {head, None} : quals' = [quals EXCEPT ![q] = Blank(commit, l2)]
    /\ UNCHANGED <<project, head, evidence, signing, trusted, changes>>

ReadStatus(q) ==
    /\ At(q, "status")
    /\ \/ Move(q, "sources", [quals[q] EXCEPT !.clean = (project = head)])
       \/ Move(q, "sources", [quals[q] EXCEPT !.commit = None])
    /\ UNCHANGED <<project, head, evidence, signing, trusted, changes>>

ReadSources(q) ==
    /\ At(q, "sources")
    /\ Move(q, "parity", [quals[q] EXCEPT !.sources = project])
    /\ UNCHANGED <<project, head, evidence, signing, trusted, changes>>

\* verify_tree_and_recipe_parity
Parity(q) ==
    LET branched == \E s \in {"tree", "recipe"} : <<s, project[s]>> \in Branched
    IN  /\ At(q, "parity")
        /\ Move(q, "l0", [quals[q] EXCEPT !.failed = branched])
        /\ UNCHANGED <<project, head, evidence, signing, trusted, changes>>

\* A gate writes its artifact, whatever came out, and then takes the digest of
\* the file of that name.
Leave(q, gate, changed) ==
    /\ evidence' = [evidence EXCEPT ![gate] = q]
    /\ Move(q, "digest", [changed EXCEPT !.gate = gate])

\* One gate after the other, the last L2.
Schedule == <<"bundle">> \o Probes \o <<"l2">>
After(gate) ==
    IF gate = "l0" THEN "key"
    ELSE Schedule[1 + CHOOSE i \in DOMAIN Schedule : Schedule[i] = gate]

Digest(q, gate) ==
    /\ At(q, "digest") /\ quals[q].gate = gate
    /\ Move(q, After(gate), [quals[q] EXCEPT !.digests[gate] = evidence[gate]])
    /\ UNCHANGED <<project, head, evidence, signing, trusted, changes>>

\* A runner's reports go to a directory that is new for each invocation.
ReportDirectory(q) == {}

\* Every scenario is graded by its row: without one it is unavailable, and a row
\* of another outcome than the expected one fails.
Graded(emitted, passed) == emitted /\ passed

\* The runner is given the files as they are now.  It may emit its report, of
\* passed scenarios or others, or fail or time out before.
RunL0(q) ==
    /\ At(q, "l0")
    /\ \E emitted, passed \in BOOLEAN :
        LET found == IF emitted THEN {q} ELSE ReportDirectory(q)
        IN  Leave(q, "l0", [quals[q] EXCEPT
                !.tree = project["tree"],
                !.rows = IF found = {} THEN None ELSE CHOOSE p \in found : TRUE,
                !.failed = @ \/ ~Graded(emitted, passed)])
    /\ UNCHANGED <<project, head, signing, trusted, changes>>

\* _run_bundle_evidence.  Without a revision nothing is assembled.
WriteKey(q) ==
    /\ At(q, "key")
    /\ IF quals[q].commit = None
       THEN /\ Move(q, After("bundle"), [quals[q] EXCEPT !.failed = TRUE])
            /\ UNCHANGED <<signing, trusted>>
       ELSE /\ Move(q, "assemble", quals[q])
            /\ signing' = q /\ trusted' = trusted \cup {q}
    /\ UNCHANGED <<project, head, evidence, changes>>

\* The assembly reads project and key again; it may be refused, and the agent
\* accepts the signature of a trusted key.
Assemble(q) ==
    /\ At(q, "assemble")
    /\ \/ /\ signing \in trusted
          /\ Move(q, "probe", [quals[q] EXCEPT !.bundle = [content |-> project, key |-> signing]])
       \/ Move(q, "probe", [quals[q] EXCEPT !.failed = TRUE])
    /\ UNCHANGED <<project, head, evidence, signing, trusted, changes>>

WriteBundleProbe(q) ==
    /\ At(q, "probe")
    /\ Leave(q, "bundle", quals[q])
    /\ UNCHANGED <<project, head, signing, trusted, changes>>

\* Restart, stale device and platform: a command with its verdict.
Probe(q, gate) ==
    /\ At(q, gate) /\ gate # "kitting"
    /\ \E passed \in BOOLEAN :
          Leave(q, gate, [quals[q] EXCEPT !.failed = @ \/ ~passed])
    /\ UNCHANGED <<project, head, signing, trusted, changes>>

\* The scenarios of the other project, which run like L0's.
Kitting(q) ==
    /\ At(q, "kitting")
    /\ \E emitted, passed \in BOOLEAN :
          Leave(q, "kitting", [quals[q] EXCEPT !.failed = @ \/ ~Graded(emitted, passed)])
    /\ UNCHANGED <<project, head, signing, trusted, changes>>

\* validate_task027_l2_report, against the files as they are now.
L2Valid(q) ==
    LET report == quals[q].l2
    IN  /\ report # None
        /\ report.sound /\ report.scene = project["scene"]
        /\ \A s \in {"tree", "recipe"} : report[s] \in {None, project[s]}
        /\ report.commit = None \/ quals[q].commit = None \/ report.commit = quals[q].commit

ValidateL2(q) ==
    /\ At(q, "l2")
    /\ Move(q, "judge", [quals[q] EXCEPT !.l2passed = L2Valid(q)])
    /\ UNCHANGED <<project, head, evidence, signing, trusted, changes>>

-----------------------------------------------------------------------------
\* The script's verdict.

\* Mutant: the status of the tree is read and not asked.
OverallUnclean(run) == run.commit # None /\ ~run.failed /\ run.l2passed
Overall(run) == run.commit # None /\ run.clean /\ ~run.failed /\ run.l2passed

\* Each artifact is hashed again.
Intact(q) == \A g \in Gates : quals[q].digests[g] = evidence[g]

\* Of a run that is not qualified nobody asks further.
End(q, exit) == quals' = [quals EXCEPT ![q] = [pc |-> "ended", exit |-> exit]]

\* Without an L2 report a run whose other gates passed ends well too, whether
\* its tree was clean or not.
Judge(q) ==
    LET run == quals[q]
        sound == ~run.failed /\ Intact(q)
        exit == IF Overall(run) /\ sound THEN "qualified"
                ELSE IF ~Overall(run) /\ sound /\ run.l2 = None THEN "l0 only" ELSE "rejected"
    IN  /\ At(q, "judge")
        /\ IF exit = "qualified" THEN Move(q, "ended", [run EXCEPT !.exit = exit]) ELSE End(q, exit)
        /\ UNCHANGED <<project, head, evidence, signing, trusted, changes>>

Kill(q) ==
    /\ Running(q)
    /\ End(q, "killed")
    /\ UNCHANGED <<project, head, evidence, signing, trusted, changes>>

Qualify(q) ==
    \/ \E l2 \in Seeded \cup {None} : Start(q, l2)
    \/ ReadStatus(q) \/ ReadSources(q) \/ Parity(q) \/ RunL0(q)
    \/ WriteKey(q) \/ Assemble(q) \/ WriteBundleProbe(q)
    \/ \E g \in Range(Probes) : Probe(q, g)
    \/ Kitting(q)
    \/ \E g \in Gates : Digest(q, g)
    \/ ValidateL2(q) \/ Judge(q) \/ Kill(q)

Next ==
    \/ \E q \in Invocations : Qualify(q)
    \/ \E s \in Sources, r \in Revisions : Edit(s, r)
    \/ Commit

Spec == Init /\ [][Next]_vars

-----------------------------------------------------------------------------
\* Properties.

Runs ==
    [pc : {"status", "sources", "parity", "l0", "digest", "key", "assemble", "probe", "l2", "judge",
           "ended"} \cup Range(Probes),
     commit : Projects \cup {None}, clean : BOOLEAN, sources : Projects \cup {None},
     tree : Revisions \cup {None}, rows : Invocations \cup {None},
     bundle : [content : Projects, key : Invocations] \cup {None},
     l2 : Seeded \cup {None}, l2passed : BOOLEAN, failed : BOOLEAN, gate : Gates \cup {None},
     digests : [Gates -> Invocations \cup {None}], exit : {None, "qualified"}, steady : BOOLEAN]

\* What is kept of a run that ended otherwise.
Outcomes == [pc : {"ended"}, exit : {"l0 only", "rejected", "killed"}]

TypeOK ==
    /\ project \in Projects /\ head \in Projects
    /\ evidence \in [Gates -> Invocations \cup {None}]
    /\ signing \in Invocations \cup {None} /\ trusted \subseteq Invocations
    /\ quals \in [Invocations -> {Idle} \cup Runs \cup Outcomes]

\* What an invocation has found while nobody edited or committed is of one project, the one it
\* looks at, from the stage on at which it finds it; each gate must pass, or the run has failed.
Found(q, run) ==
    LET sourced == run.pc \notin {"status", "sources"}
        driven == sourced /\ run.pc \notin {"parity", "l0"}
        bundled == \/ run.pc \in {"probe", "l2", "judge"} \cup Range(Probes)
                   \/ run.pc = "digest" /\ run.gate # "l0"
    IN  /\ run.commit \in {None, head}
        /\ run.clean => project = head
        /\ sourced => run.sources = project
        /\ driven => run.tree = project["tree"] /\ (~run.failed => run.rows = q)
        /\ bundled /\ ~run.failed => run.bundle.content = project
        /\ run.pc = "judge" /\ run.l2passed =>
              run.l2 # None /\ run.l2.scene = project["scene"]

FoundIsOne == \A q \in Invocations : Running(q) /\ quals[q].steady => Found(q, quals[q])

Exact(q, run) ==
    /\ run.sources = run.commit
    /\ run.tree = run.commit["tree"] /\ run.rows = q
    /\ run.bundle.content = run.commit
    /\ run.l2.scene = run.commit["scene"]

\* A release that was qualified while nobody edited or committed the project is
\* exactly the revision that the report names: the digests in the report, the
\* tree the L0 scenarios ran, the content of the bundle and the scene of the L2
\* evidence; and its L0 rows were emitted by its own runner, never left behind by
\* another.  A second qualification in the same directory changes none of that.
QualifiedIsExact ==
    \A q \in Invocations : At(q, "ended") /\ quals[q].exit = "qualified" /\ quals[q].steady =>
        Exact(q, quals[q])

\* Stated, and not so.  A qualified report is about one project, whoever edits
\* meanwhile: git is asked once, and gates read the project again.
QualifiedIsOne ==
    \A q \in Invocations : At(q, "ended") /\ quals[q].exit = "qualified" =>
        quals[q].bundle.content = quals[q].commit

\* Nor is this.  The key that a report names is the one its bundle was signed with.
KeyIsOwn ==
    \A q \in Invocations : Running(q) /\ quals[q].bundle # None => quals[q].bundle.key = q
=============================================================================
