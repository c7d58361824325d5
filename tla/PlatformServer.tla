--------------------------- MODULE PlatformServer ---------------------------
(***************************************************************************)
(* The engineering platform: one process, one SQLite connection shared by  *)
(* every request handler.  A handler never awaits between its statements,  *)
(* so one runs at a time, but it commits once per repository call: a       *)
(* publication and its audit entry, an approval and the status it earns,   *)
(* are separate transactions.  A commit may fail (the file is locked by a  *)
(* reader): the statement then stays in the open transaction, where later  *)
(* handlers see it and where the next commit makes it durable.             *)
(*                                                                         *)
(* `stored' is the database file, `seen' what the connection sees, and     *)
(* `call' the handler between two of its commits.  One entity of each kind *)
(* stands for a table: publications of different entities do not meet.     *)
(***************************************************************************)
EXTENDS Naturals, FiniteSets, Sequences

CONSTANTS Users, RolesOf,     \* the users and the roles their tokens carry
          Requests,           \* what they publish: [kind, rev, blob, status, until, by]
          Ballots,            \* how they vote on the recipe: [by, role, decision]
          Blobs,
          Stock,              \* the rows of the database at the start
          None,
          MaxCalls,           \* bound on the requests served
          MaxFaults,          \* bound on failing commits
          MaxCrashes

VARIABLES stored, seen, blobs, call, answered, calls, faults, crashes

serverVars == <<stored, seen, blobs, call, answered, calls, faults, crashes>>

Kinds == {"component", "project", "recipe", "bundle", "evidence"}

\* What a row of the tables may hold.
Known == Requests \cup ({Stock[k] : k \in Kinds} \ {None})
Rows == [rev : {r.rev : r \in Known}, blob : Blobs \cup {None},
         status : {r.status : r \in Known} \cup {"deprecated", "APPROVED"},
         until : {r.until : r \in Known}, by : {r.by : r \in Known}]

ASSUME StockAssumption == None \notin Rows /\ Stock \in [Kinds -> Rows \cup {None}]
ASSUME RequestsAssumption == \A r \in Requests : r.kind \in Kinds /\ r.blob \in Blobs \cup {None}

\* AUTHORIZED_APPROVAL_ROLES
ApprovalRoles == {"process_engineer", "automation_engineer", "administrator", "safety_engineer"}

\* require_role of each handler, and ROLE_HIERARCHY as far as they ask for it.
Required ==
    [component |-> {"automation_engineer", "administrator"},
     project   |-> {"automation_engineer", "administrator"},
     bundle    |-> {"automation_engineer", "administrator"},
     recipe    |-> {"process_engineer", "automation_engineer", "administrator"},
     evidence  |-> {"maintainer", "process_engineer", "automation_engineer", "administrator"}]

Implied ==
    [operator            |-> {"operator"},
     maintainer          |-> {"maintainer"},
     process_engineer    |-> {"process_engineer"},
     automation_engineer |-> {"automation_engineer", "process_engineer", "maintainer"},
     administrator       |-> {"administrator", "automation_engineer", "process_engineer", "maintainer"}]

HasRole(u, required) == (UNION {Implied[r] : r \in RolesOf[u]}) \cap required # {}

Row(r) == [rev |-> r.rev, blob |-> r.blob, status |-> r.status, until |-> r.until, by |-> r.by]

\* Each repository's "already exists with the same content" compares other columns.
SameComponent(row, r) == row.rev = r.rev /\ row.blob = r.blob
SameRecipe(row, r) == row.rev = r.rev
SameBundle(row, r) == row.rev = r.rev
SameEvidence(row, r) == row.rev = r.rev /\ row.blob = r.blob

\* get_approval_summary: per approver the first counting entry, never the author's own.
Counts(author, a) == a.decision = "approved" /\ a.role \in ApprovalRoles /\ a.by # author

FirstOf(author, ledger) ==
    {i \in DOMAIN ledger : /\ Counts(author, ledger[i])
                           /\ \A j \in 1..(i - 1) :
                                  Counts(author, ledger[j]) => ledger[j].by # ledger[i].by}

ApprovedForProduction(author, ledger) ==
    /\ Cardinality({ledger[i].by : i \in FirstOf(author, ledger)}) >= 2
    /\ Cardinality({ledger[i].role : i \in FirstOf(author, ledger)}) >= 2

(***************************************************************************)
(* One repository call: the statement and its commit.                      *)
(***************************************************************************)
Commit(new, next) ==
    \/ /\ stored' = new /\ seen' = new /\ call' = next /\ UNCHANGED faults
    \/ /\ faults < MaxFaults                    \* the commit raises: the caller gets a 500
       /\ faults' = faults + 1
       /\ seen' = new /\ call' = None /\ UNCHANGED stored

\* What the handler still has to do; `fact' is what its success will tell the caller.
Pending(step, fact) == [step |-> step, fact |-> fact]

Fact(op, kind, what) == [op |-> op, kind |-> kind, what |-> what]

\* The event loop starts a handler when none runs.
Accept ==
    /\ call = None
    /\ calls < MaxCalls
    /\ calls' = calls + 1

Stored(r) == [seen EXCEPT !.rows[r.kind] = Row(r)]

Published(r) == Pending("audit", Fact("publish", r.kind, Row(r)))

ReferenceKnown(r) == r.blob # None => r.blob \in blobs

\* The publish method of a repository: INSERT, or the existing row is the answer.
InsertOnce(r, same) ==
    \/ /\ seen.rows[r.kind] = None
       /\ Commit(Stored(r), Published(r))
    \/ /\ seen.rows[r.kind] # None /\ same
       /\ call' = Published(r)
       /\ UNCHANGED <<stored, seen, faults>>

Handle(r, kind) ==
    /\ r.kind = kind
    /\ Accept
    /\ HasRole(r.by, Required[kind])
    /\ UNCHANGED <<blobs, answered, crashes>>

PublishComponent(r) ==
    /\ Handle(r, "component")
    /\ ReferenceKnown(r)
    /\ InsertOnce(r, SameComponent(seen.rows["component"], r))

PublishRecipe(r) ==
    /\ Handle(r, "recipe")
    /\ InsertOnce(r, SameRecipe(seen.rows["recipe"], r))

PublishBundle(r) ==
    /\ Handle(r, "bundle")
    /\ ReferenceKnown(r)
    /\ InsertOnce(r, SameBundle(seen.rows["bundle"], r))

CreateEvidence(r) ==
    /\ Handle(r, "evidence")
    /\ ReferenceKnown(r)
    /\ InsertOnce(r, SameEvidence(seen.rows["evidence"], r))

\* A known project is updated and keeps its author.
RegisterProject(r) ==
    /\ Handle(r, "project")
    /\ LET row == seen.rows["project"]
       IN Commit([seen EXCEPT !.rows["project"] =
                      IF row = None THEN Row(r) ELSE [Row(r) EXCEPT !.by = row.by]],
                 Published(r))

Deprecate(u) ==
    /\ Accept
    /\ HasRole(u, {"maintainer", "administrator"})
    /\ seen.rows["component"] # None
    /\ Commit([seen EXCEPT !.rows["component"].status = "deprecated"],
              Pending("audit", Fact("deprecate", "component", u)))
    /\ UNCHANGED <<blobs, answered, crashes>>

\* The blob reaches the store by an atomic rename, then the artifacts table.
Upload(b) ==
    /\ Accept
    /\ blobs' = blobs \cup {b}
    /\ call' = Pending("register", Fact("upload", "artifact", b))
    /\ UNCHANGED <<stored, seen, answered, faults, crashes>>

RegisterArtifact ==
    /\ call # None /\ call.step = "register"
    /\ Commit([seen EXCEPT !.artifacts = @ \cup {call.fact.what}], None)
    /\ answered' = IF faults' = faults THEN answered \cup {call.fact} ELSE answered
    /\ UNCHANGED <<calls, blobs, crashes>>

(***************************************************************************)
(* approve_recipe: the ledger entry is committed first; only then is the   *)
(* summary computed and the status, read before the insert, raised.        *)
(***************************************************************************)
MayApprove(u, role) == role \in RolesOf[u] \/ "administrator" \in RolesOf[u]

NextOfApproval(row, ledger, a) ==
    LET earned == ApprovedForProduction(row.by, ledger)
    IN Pending(IF earned /\ row.status # "APPROVED" THEN "status" ELSE "audit",
               Fact("approve", "recipe", [entry |-> a, approved |-> earned]))

Approve(a) ==
    LET row    == seen.rows["recipe"]
        ledger == Append(seen.approvals, a)
    IN /\ Accept
       /\ HasRole(a.by, Required.recipe)
       /\ MayApprove(a.by, a.role)
       /\ row # None
       /\ Commit([seen EXCEPT !.approvals = ledger], NextOfApproval(row, ledger, a))
       /\ UNCHANGED <<blobs, answered, crashes>>

RaiseStatus ==
    /\ call # None /\ call.step = "status"
    /\ Commit([seen EXCEPT !.rows["recipe"].status = "APPROVED"], Pending("audit", call.fact))
    /\ UNCHANGED <<calls, blobs, answered, crashes>>

\* generate_evidence_snapshot: everything known of the cell, signed; audited before it is sent.
SnapshotNow(until) ==
    [recipe |-> seen.rows["recipe"], approvals |-> seen.approvals,
     evidence |-> seen.rows["evidence"], until |-> until]

Snapshot(u, until) ==
    /\ Accept
    /\ HasRole(u, Required.recipe)
    /\ call' = Pending("audit", Fact("snapshot", "cell", SnapshotNow(until)))
    /\ UNCHANGED <<stored, seen, blobs, answered, faults, crashes>>

RecordAuditLost ==                               \* mutant: the audit entry is not committed
    /\ call # None /\ call.step = "audit"
    /\ seen' = [seen EXCEPT !.audit = @ \cup {call.fact}]
    /\ call' = None
    /\ answered' = answered \cup {call.fact}
    /\ UNCHANGED <<calls, stored, blobs, faults, crashes>>

\* AuditRepository.record, the last statement of every handler but the upload's: its commit also
\* makes durable what an earlier handler left in the open transaction.
RecordAudit ==
    /\ call # None /\ call.step = "audit"
    /\ Commit([seen EXCEPT !.audit = @ \cup {call.fact}], None)
    /\ answered' = IF faults' = faults THEN answered \cup {call.fact} ELSE answered
    /\ UNCHANGED <<calls, blobs, crashes>>

\* The process dies: what was not committed is gone.
Crash ==
    /\ crashes < MaxCrashes
    /\ crashes' = crashes + 1
    /\ seen' = stored
    /\ call' = None
    /\ UNCHANGED <<calls, stored, blobs, answered, faults>>

\* An orderly stop: DatabaseEngine.connect() commits whatever is open.
Stop ==
    /\ call = None
    /\ seen # stored
    /\ stored' = seen
    /\ UNCHANGED <<calls, seen, blobs, call, answered, faults, crashes>>

ServerInit ==
    /\ blobs = {Stock[k].blob : k \in {k \in Kinds : Stock[k] # None}} \ {None}
    /\ stored = [rows |-> Stock, approvals |-> << >>, artifacts |-> blobs, audit |-> {}]
    /\ seen = stored
    /\ call = None
    /\ answered = {}
    /\ calls = 0
    /\ faults = 0
    /\ crashes = 0

ServerNext ==
    \/ \E r \in Requests : \/ PublishComponent(r) \/ PublishRecipe(r) \/ PublishBundle(r)
                          \/ CreateEvidence(r) \/ RegisterProject(r)
    \/ \E u \in Users : Deprecate(u)
    \/ \E b \in Blobs : Upload(b)
    \/ RegisterArtifact
    \/ \E a \in Ballots : Approve(a)
    \/ RaiseStatus
    \/ \E u \in Users, until \in {None, "soon"} : Snapshot(u, until)
    \/ RecordAudit
    \/ Crash
    \/ Stop

Snapshots == {f.what : f \in {g \in answered : g.op = "snapshot"}}

(***************************************************************************)
(* Properties of the server.                                               *)
(***************************************************************************)
\* What is told of an approval and of a snapshot.
Entries == [entry : Ballots, approved : BOOLEAN]
SnapshotsOf == [recipe : Rows \cup {None}, approvals : Seq(Ballots), evidence : Rows \cup {None},
                until : {None, "soon"}]
Facts == [op : {"publish"}, kind : Kinds, what : Rows]
         \cup [op : {"deprecate"}, kind : {"component"}, what : Users]
         \cup [op : {"upload"}, kind : {"artifact"}, what : Blobs]
         \cup [op : {"approve"}, kind : {"recipe"}, what : Entries]
         \cup [op : {"snapshot"}, kind : {"cell"}, what : SnapshotsOf]
Databases == [rows : [Kinds -> Rows \cup {None}], approvals : Seq(Ballots),
              artifacts : SUBSET Blobs, audit : SUBSET Facts]
Handlers == [step : {"audit", "status", "register"}, fact : Facts]

ServerTypeOK ==
    /\ {stored, seen} \subseteq Databases
    /\ blobs \subseteq Blobs
    /\ call \in Handlers \cup {None}
    /\ answered \subseteq Facts
    /\ {calls, faults, crashes} \subseteq Nat

Rest(row) == [row EXCEPT !.status = "any"]

\* The ledger `old' is where `ledger' begins.
Begins(old, ledger) ==
    Len(old) <= Len(ledger) /\ \A i \in 1..Len(old) : ledger[i] = old[i]

\* What a fact told to a caller requires of a state of database and blob store.
HoldsIn(d, store, f) ==
    CASE f.op = "publish"   -> /\ d.rows[f.kind] # None
                               /\ f.kind # "project" => d.rows[f.kind].rev = f.what.rev
                               /\ f.kind \in {"component", "evidence"} =>
                                      d.rows[f.kind].blob = f.what.blob
      [] f.op = "deprecate" -> d.rows["component"] # None /\ d.rows["component"].status = "deprecated"
      [] f.op = "upload"    -> f.what \in d.artifacts /\ f.what \in store
      [] f.op = "approve"   -> \E i \in DOMAIN d.approvals : d.approvals[i] = f.what.entry
      [] f.op = "snapshot"  -> /\ f.what.recipe # None =>
                                      /\ d.rows["recipe"] # None
                                      /\ d.rows["recipe"].rev = f.what.recipe.rev
                                      /\ d.rows["recipe"].by = f.what.recipe.by
                               /\ Begins(f.what.approvals, d.approvals)
                               /\ f.what.evidence # None => d.rows["evidence"] # None
Holds(f) == HoldsIn(stored, blobs, f)

\* Whatever a caller was told has happened is in the database file with its audit entry, although
\* the answer may rest on rows an earlier handler failed to commit, and stays there across crashes.
AnsweredIsDurable ==
    \A f \in answered : Holds(f) /\ (f.op # "upload" => f \in stored.audit)

TakesEffectIn(d, f) ==
    f.op = "approve" /\ f.what.approved =>
        d.rows["recipe"] # None /\ d.rows["recipe"].status = "APPROVED"

\* A caller who is told that the recipe is approved for production finds it APPROVED, although
\* ledger entry and status are two commits and the process may die between them.
ApprovalTakesEffect == \A f \in answered : TakesEffectIn(stored, f)

\* `later' keeps what `earlier' holds: no row is lost or rewritten but for its status, and what
\* is deprecated, approved, voted, registered or audited stays so.
Keeps(earlier, later) ==
    /\ \A k \in Kinds : earlier.rows[k] # None =>
           /\ later.rows[k] # None
           /\ k # "project" => Rest(later.rows[k]) = Rest(earlier.rows[k])
    /\ earlier.rows["component"] # None /\ earlier.rows["component"].status = "deprecated" =>
           later.rows["component"].status = "deprecated"
    /\ earlier.rows["recipe"] # None /\ earlier.rows["recipe"].status = "APPROVED" =>
           later.rows["recipe"].status = "APPROVED"
    /\ Begins(earlier.approvals, later.approvals)
    /\ earlier.artifacts \subseteq later.artifacts
    /\ earlier.audit \subseteq later.audit

\* What the handler between two commits will tell is in the open transaction, at least.
EarnedIn(d, store, c) ==
    c # None =>
        /\ c.step \in {"audit", "status"} => c.fact.op # "upload" /\ HoldsIn(d, store, c.fact)
        /\ c.step = "register" => c.fact.op = "upload" /\ c.fact.what \in store
        /\ c.step = "status" => d.rows["recipe"] # None
        /\ c.step = "audit" => TakesEffectIn(d, c.fact)
CallIsEarned == EarnedIn(seen, blobs, call)

\* Who signed as what, he was.
SignedIn(d) == \A i \in DOMAIN d.approvals : MayApprove(d.approvals[i].by, d.approvals[i].role)
LedgerIsSigned == SignedIn(seen)

\* The inductive invariant behind AnsweredIsDurable, ApprovalTakesEffect and ReleasedIsKept.
ServerInv ==
    /\ ServerTypeOK /\ Keeps(stored, seen) /\ CallIsEarned /\ LedgerIsSigned
    /\ AnsweredIsDurable /\ ApprovalTakesEffect

\* No row names a blob that cannot be downloaded.
ReferencesResolve ==
    \A k \in Kinds : stored.rows[k] # None /\ stored.rows[k].blob # None => stored.rows[k].blob \in blobs

\* Released entities never change but for their status, and the ledger only grows.
ReleasedIsKept ==
    [][/\ \A k \in Kinds \ {"project"} :
              stored.rows[k] # None => stored'.rows[k] # None /\ Rest(stored'.rows[k]) = Rest(stored.rows[k])
       /\ Begins(stored.approvals, stored'.approvals)]_stored
=============================================================================
