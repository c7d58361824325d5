--------------------------- MODULE ReleaseCompiler ---------------------------
(***************************************************************************)
(* compile_project and assemble_bundle over a project whose files other    *)
(* programs may edit meanwhile.  The compiler reads a recipe three times:  *)
(* to validate it (load_document), to freeze its digest into the manifest  *)
(* (_read_bytes) and to take the inventory (_FileInventory.freeze); the    *)
(* assembly reads all sources again and finds each inventory entry by its  *)
(* digest.  `file' is the recipe file, one of Contents, its own digest;    *)
(* the other inputs are read the same way and are abstracted to it.        *)
(***************************************************************************)
EXTENDS Naturals, Sequences, FiniteSets

CONSTANTS Contents, Original,  \* recipe files: [data, form, sound], and the first
          EvidenceKinds,       \* the evidence kinds production requires
          Foreign,             \* documents like a snapshot that no platform issued
          None,
          MaxEdits, MaxCompiles

VARIABLES file, build, plans, output, edits, compiles

\* The platform hashes the canonical JSON of the recipe data, the compiler the bytes of the file.
PlatformDigest(data) == [data |-> data, form |-> "canonical", sound |-> TRUE]

Stages == {"recipes", "evidence", "inventory", "gather", "write", "sign"}

Idle == [stage |-> "idle"]

Edit(c) ==
    /\ edits < MaxEdits
    /\ c # file
    /\ file' = c
    /\ edits' = edits + 1
    /\ UNCHANGED <<build, plans, output, compiles>>

\* Schema and recipe validation.  `assemble' is the command-line assembly, which passes no
\* snapshot; `snapshot' any document a caller of compile_project has, `signature' its signature
\* and key ID ("none": one of the two is missing) and `keys' whether he passes the platform's
\* public keys: by default he does not.
\* `late': the near validity date, of days, has passed.
Begin(mode, assemble, snapshot, signature, keys, late) ==
    /\ assemble => snapshot = None
    /\ snapshot = None => ~ late /\ ~ keys /\ signature = "none"     \* nothing else has them
    /\ file.sound
    /\ compiles' = compiles + 1
    /\ build' = [stage |-> "recipes", mode |-> mode, assemble |-> assemble, snapshot |-> snapshot,
                 signature |-> signature, keys |-> keys, late |-> late,
                 checked |-> file, frozen |-> None, inventory |-> None,
                 errors |-> FALSE, evidence |-> "none"]
    /\ UNCHANGED <<file, plans, output, edits>>

Signatures == {"platform", "other", "none"}

\* The platform has signed the snapshots it issued and nothing else.
Compile(snapshots) ==
    /\ build.stage = "idle"
    /\ compiles < MaxCompiles
    /\ \E mode \in {"simulation", "production"}, assemble, keys, late \in BOOLEAN,
          snapshot \in snapshots \cup Foreign \cup {None}, signature \in Signatures :
          /\ signature = "platform" => snapshot \in snapshots
          /\ Begin(mode, assemble, snapshot, signature, keys, late)

\* _freeze_recipes: the digest of the reference is that of a second read.
FreezeRecipe ==
    /\ build.stage = "recipes"
    /\ build' = [build EXCEPT !.stage = "evidence", !.frozen = file]
    /\ UNCHANGED <<file, plans, output, edits, compiles>>

(***************************************************************************)
(* _validate_evidence_stage.                                               *)
(***************************************************************************)
Approvers(recipe, ledger, roles) ==
    {i \in DOMAIN ledger : /\ ledger[i].decision = "approved" /\ ledger[i].role \in roles
                           /\ ledger[i].by # recipe.by
                           /\ \A j \in 1..(i - 1) : ~ (/\ ledger[j].decision = "approved"
                                                       /\ ledger[j].role \in roles
                                                       /\ ledger[j].by = ledger[i].by)}

DualRole(recipe, ledger, roles) ==
    /\ Cardinality({ledger[i].by : i \in Approvers(recipe, ledger, roles)}) >= 2
    /\ Cardinality({ledger[i].role : i \in Approvers(recipe, ledger, roles)}) >= 2

Expired(until, late) == until = "soon" /\ late

RecipeErrorsTrusting(snap, digest, roles) ==      \* mutant: the platform's status is trusted
    \/ snap.recipe = None
    \/ snap.recipe.status # "APPROVED"
    \/ snap.recipe.rev # digest

RecipeErrors(snap, digest, roles) ==
    \/ snap.recipe = None
    \/ snap.recipe.status # "APPROVED"
    \/ snap.recipe.rev # digest
    \/ ~ DualRole(snap.recipe, snap.approvals, roles)

EvidenceErrors(snap, mode, late) ==
    \/ snap.evidence # None /\ Expired(snap.evidence.until, late)
    \/ mode = "production" /\ \E k \in EvidenceKinds : snap.evidence = None \/ snap.evidence.rev # k

\* Without a snapshot a simulation needs no evidence and production fails.
Unproven(snap, mode) == snap = None /\ mode = "production"

\* The signature is only verified with public keys at hand.
Unsigned(snap) ==
    \/ build.signature = "none"
    \/ build.keys /\ build.signature # "platform"

Refused(snap, roles) ==
    \/ Unsigned(snap)
    \/ Expired(snap.until, build.late)
    \/ RecipeErrors(snap, build.frozen, roles)
    \/ EvidenceErrors(snap, build.mode, build.late)

CheckEvidence(roles) ==
    LET snap   == build.snapshot
        failed == Unproven(snap, build.mode) \/ (snap # None /\ Refused(snap, roles))
    IN /\ build.stage = "evidence"
       /\ build' = [build EXCEPT !.stage = "inventory", !.errors = failed,
                                 !.evidence = CASE failed -> "failed"
                                                [] snap = None -> "not-required"
                                                [] OTHER -> "verified"]
       /\ UNCHANGED <<file, plans, output, edits, compiles>>

\* The inventory is the third read; a report with errors has no manifest, and assembly refuses an
\* output that exists.
FreezeInventory ==
    LET done == [build EXCEPT !.inventory = file]
    IN /\ build.stage = "inventory"
       /\ IF build.errors
          THEN build' = Idle /\ UNCHANGED plans
          ELSE /\ plans' = plans \cup {[mode |-> done.mode, evidence |-> done.evidence, keys |-> done.keys,
                                        frozen |-> done.frozen, inventory |-> done.inventory]}
               /\ build' = IF done.assemble /\ output = None THEN [done EXCEPT !.stage = "gather"]
                           ELSE Idle
       /\ UNCHANGED <<file, output, edits, compiles>>

Output(state) == [state |-> state, inventory |-> build.inventory, frozen |-> build.frozen,
                  shipped |-> build.inventory, mode |-> build.mode]

GatherByName ==                                   \* mutant: sources are looked up by path
    /\ build.stage = "gather"
    /\ output' = [Output("unsigned") EXCEPT !.shipped = file]
    /\ build' = [build EXCEPT !.stage = "sign"]
    /\ UNCHANGED <<file, plans, edits, compiles>>

\* mkdir, then _source_files and _resolve_source: an input that changed since the inventory has
\* no source with its digest, and the directory is removed again.
Gather ==
    /\ build.stage = "gather"
    /\ IF file = build.inventory
       THEN output' = Output("unsigned") /\ build' = [build EXCEPT !.stage = "sign"]
       ELSE UNCHANGED output /\ build' = Idle
    /\ UNCHANGED <<file, plans, edits, compiles>>

\* signature.json and checksums.txt close the directory.
Sign ==
    /\ build.stage = "sign"
    /\ output' = [output EXCEPT !.state = "signed"]
    /\ build' = Idle
    /\ UNCHANGED <<file, plans, edits, compiles>>

\* The command is killed: what it wrote stays, and is in the way of the next assembly.
Kill ==
    /\ build.stage # "idle"
    /\ build' = Idle
    /\ UNCHANGED <<file, plans, output, edits, compiles>>

CompilerInit ==
    /\ file = Original
    /\ build = Idle
    /\ plans = {}
    /\ output = None
    /\ edits = 0
    /\ compiles = 0

CompilerNext(snapshots, roles) ==
    \/ \E c \in Contents : Edit(c)
    \/ Compile(snapshots)
    \/ FreezeRecipe
    \/ CheckEvidence(roles)
    \/ FreezeInventory
    \/ Gather
    \/ Sign
    \/ Kill

Builds(snapshots) ==
    {b \in [stage : Stages, mode : {"simulation", "production"}, assemble : BOOLEAN,
            snapshot : snapshots \cup Foreign \cup {None}, signature : Signatures, keys : BOOLEAN,
            late : BOOLEAN, checked : Contents,
            frozen : Contents \cup {None}, inventory : Contents \cup {None},
            errors : BOOLEAN, evidence : {"none", "failed", "not-required", "verified"}] :
        b.signature = "platform" => b.snapshot \in snapshots}

CompilerTypeOK(snapshots) ==
    /\ file \in Contents
    /\ build = Idle \/ build \in Builds(snapshots)

(***************************************************************************)
(* What the consumers of an assembled release check: the bundle agent the  *)
(* signature and the inventory, the gateway the digest of the reference.   *)
(***************************************************************************)
Accepted(o) == o.state = "signed" /\ o.shipped = o.inventory

Served(o) == Accepted(o) /\ o.shipped = o.frozen

\* A release whose assembly was signed passes the agent's checks: it is never rejected on the
\* robot for a file that was edited while the command ran.
SignedIsAccepted == output # None /\ output.state = "signed" => Accepted(output)
=============================================================================
