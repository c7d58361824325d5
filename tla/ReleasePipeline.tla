--------------------------- MODULE ReleasePipeline ---------------------------
(***************************************************************************)
(* From the platform's ledger to a compiled release: snapshots that the    *)
(* server has issued reach the compiler later, while the server goes on,   *)
(* crashes or loses a commit and the project is edited.  Beside it the     *)
(* software release of a revision is qualified, in a checkout of its own.  *)
(***************************************************************************)
EXTENDS PlatformServer

CONSTANTS Contents, Original, EvidenceKinds, Foreign, MaxEdits, MaxCompiles     \* see ReleaseCompiler

CONSTANTS Invocations, Revisions, First, Branched, Seeded, Checkouts, Probes, MaxChanges
                                                                 \* see Qualification

VARIABLES file, build, plans, output, edits, compiles

VARIABLES project, head, evidence, signing, trusted, quals, changes

INSTANCE ReleaseCompiler
Q == INSTANCE Qualification

compilerVars == <<file, build, plans, output, edits, compiles>>
qualificationVars == <<project, head, evidence, signing, trusted, quals, changes>>

ASSUME CompilerAssumption == Original \in Contents
ASSUME QualificationAssumption ==
    /\ Checkouts \subseteq Q!Projects /\ First \in Revisions
    /\ Probes \in Seq({"restart", "stale_device", "platform", "kitting"})

vars == <<stored, seen, blobs, call, answered, calls, faults, crashes,
          file, build, plans, output, edits, compiles,
          project, head, evidence, signing, trusted, quals, changes>>

Init == ServerInit /\ CompilerInit /\ Q!Init

\* The qualification shares no state with the other two, so that no interleaving with their steps
\* tells more: it runs before them, or not at all.
Qualifying == project # head \/ changes > 0 \/ \E q \in Invocations : quals[q].pc # "idle"
Untouched == calls = 0 /\ call = None /\ faults + crashes + edits + compiles = 0

Next ==
    \/ ~Qualifying /\ ServerNext /\ UNCHANGED compilerVars /\ UNCHANGED qualificationVars
    \/ ~Qualifying /\ CompilerNext(Snapshots, ApprovalRoles) /\ UNCHANGED serverVars
                   /\ UNCHANGED qualificationVars
    \/ Untouched /\ Q!Next /\ UNCHANGED serverVars /\ UNCHANGED compilerVars

Spec == Init /\ [][Next]_vars

TypeOK == ServerTypeOK /\ CompilerTypeOK(Snapshots) /\ Q!TypeOK

\* What was qualified is the revision the report names: see Qualification.
QualifiedIsExact == Q!QualifiedIsExact

\* Two people other than the author, each holding the role he signed with, stand behind a release.
IndependentlyApproved(ledger, author) ==
    \E i, j \in DOMAIN ledger :
        /\ ledger[i].by # ledger[j].by /\ ledger[i].role # ledger[j].role
        /\ author \notin {ledger[i].by, ledger[j].by}
        /\ \A k \in {i, j} : /\ ledger[k].decision = "approved"
                             /\ MayApprove(ledger[k].by, ledger[k].role)

ApprovedIn(d, rev) ==
    /\ d.rows["recipe"] # None
    /\ d.rows["recipe"].rev = rev
    /\ IndependentlyApproved(d.approvals, d.rows["recipe"].by)

\* A manifest whose evidence was verified with the platform's public keys freezes exactly the
\* recipe the platform stores, and the stored ledger has its two independent approvals, whatever
\* status it was published with, whatever was lost in a crash, however old the snapshot and
\* whatever else was passed for one.
VerifiedIsApproved ==
    \A p \in plans : p.evidence = "verified" /\ p.keys => ApprovedIn(stored, p.frozen)

\* "Verifying signed Ed25519 evidence snapshots" (docs/deployment.md): a manifest says "verified"
\* of any document with a signature when no keys were passed.
VerifiedIsAuthentic ==
    \A p \in plans : p.evidence = "verified" => ApprovedIn(stored, p.frozen)

\* What the evidence stage of a compile has verified with keys is approved already.
BuildIsFounded ==
    build.stage # "idle" /\ build.evidence = "verified" /\ build.keys =>
        build.stage # "recipes" /\ ApprovedIn(stored, build.frozen)

\* The inductive invariant behind AnsweredIsDurable, VerifiedIsApproved and QualifiedIsExact.
IInv ==
    /\ ServerInv /\ CompilerTypeOK(Snapshots) /\ BuildIsFounded /\ VerifiedIsApproved
    /\ Q!TypeOK /\ Q!FoundIsOne /\ Q!QualifiedIsExact

\* Production is never compiled without evidence that passed every check made of it, and never
\* assembled: the assembly passes no snapshot.
ProductionFailsClosed ==
    /\ \A p \in plans : p.mode = "production" => p.evidence = "verified"
    /\ output # None => output.mode # "production"

\* The guarantee the documentation gives: a recipe the platform has approved, unedited, verifies.
ApprovedVerifies ==
    [][build.stage = "evidence" /\ build'.stage = "inventory" /\ build.mode = "simulation" =>
         (/\ build.snapshot # None /\ ~ Expired(build.snapshot.until, build.late)
          /\ build.snapshot.recipe # None
          /\ build.snapshot.recipe.status = "APPROVED"
          /\ ApprovedForProduction(build.snapshot.recipe.by, build.snapshot.approvals)
          /\ build.snapshot.recipe.rev.data = build.frozen.data
          /\ build.snapshot.evidence = None
          => build'.evidence = "verified")]_vars
=============================================================================
