------------------------ MODULE ReleasePipelineProofs ------------------------
(***************************************************************************)
(* Proofs about the two ends of a release: ReleasePipeline, which makes    *)
(* one, for every set of users, roles, requests, ballots and recipes, with *)
(* any number of calls, lost commits, crashes, compiles, invocations and   *)
(* edits; and BundleAgent, which installs one, for every set of bundles,   *)
(* compatible or not, and every length of its behaviours.                  *)
(***************************************************************************)
EXTENDS ReleasePipeline, BundleAgent, FiniteSetTheorems, SequenceTheorems, TLAPS

-----------------------------------------------------------------------------
(* The database only grows. *)

LEMMA BeginsItself == \A s \in Seq(Ballots) : Begins(s, s)
BY DEF Begins

LEMMA BeginsTransitive ==
    ASSUME NEW s \in Seq(Ballots), NEW t \in Seq(Ballots), NEW u \in Seq(Ballots),
           Begins(s, t), Begins(t, u)
    PROVE  Begins(s, u)
BY DEF Begins

LEMMA BeginsAppended ==
    ASSUME NEW s \in Seq(Ballots), NEW a \in Ballots
    PROVE  Append(s, a) \in Seq(Ballots) /\ Begins(s, Append(s, a))
BY DEF Begins

\* What a row is compared by once its status has been left out.
LEMMA RestFields ==
    ASSUME NEW a \in Rows, NEW b \in Rows, Rest(a) = Rest(b)
    PROVE  a.rev = b.rev /\ a.blob = b.blob /\ a.until = b.until /\ a.by = b.by
<1>1. /\ Rest(a).rev = a.rev /\ Rest(a).blob = a.blob /\ Rest(a).until = a.until /\ Rest(a).by = a.by
      /\ Rest(b).rev = b.rev /\ Rest(b).blob = b.blob /\ Rest(b).until = b.until /\ Rest(b).by = b.by
    BY DEF Rest, Rows
<1> QED
    BY <1>1

LEMMA DatabaseFields ==
    ASSUME NEW d \in Databases
    PROVE  /\ d.rows \in [Kinds -> Rows \cup {None}]
           /\ d.approvals \in Seq(Ballots)
           /\ d.artifacts \subseteq Blobs
           /\ d.audit \subseteq Facts
BY DEF Databases

LEMMA KeepsItself == \A d \in Databases : Keeps(d, d)
BY DatabaseFields, BeginsItself DEF Keeps

LEMMA KeepsTransitive ==
    ASSUME NEW c \in Databases, NEW d \in Databases, NEW e \in Databases, Keeps(c, d), Keeps(d, e)
    PROVE  Keeps(c, e)
<1>1. Begins(c.approvals, e.approvals)
    BY DatabaseFields, BeginsTransitive DEF Keeps
<1>2. ASSUME NEW k \in Kinds, c.rows[k] # None
      PROVE  e.rows[k] # None /\ (k # "project" => Rest(e.rows[k]) = Rest(c.rows[k]))
    BY <1>2 DEF Keeps
<1>3. {"component", "recipe"} \subseteq Kinds
    BY DEF Kinds
<1> QED
    BY <1>1, <1>2, <1>3 DEF Keeps

\* What was told of a database holds of whatever keeps it.
LEMMA HoldsStays ==
    ASSUME NEW d \in Databases, NEW e \in Databases, Keeps(d, e), NEW s, NEW t, s \subseteq t,
           NEW f \in Facts, HoldsIn(d, s, f)
    PROVE  HoldsIn(e, t, f)
<1>0. /\ d.rows \in [Kinds -> Rows \cup {None}] /\ e.rows \in [Kinds -> Rows \cup {None}]
      /\ d.approvals \in Seq(Ballots) /\ e.approvals \in Seq(Ballots)
    BY DatabaseFields
<1>k. {"component", "recipe", "evidence"} \subseteq Kinds
    BY DEF Kinds
<1>1. CASE f.op = "publish"
    <2>1. f.kind \in Kinds /\ d.rows[f.kind] # None /\ e.rows[f.kind] # None
        BY <1>1 DEF Facts, HoldsIn, Keeps
    <2>2. ASSUME f.kind # "project"
          PROVE  e.rows[f.kind].rev = d.rows[f.kind].rev /\ e.rows[f.kind].blob = d.rows[f.kind].blob
        BY <1>0, <2>1, <2>2, RestFields DEF Keeps
    <2> QED
        BY <1>1, <2>1, <2>2 DEF HoldsIn
<1>2. CASE f.op = "deprecate"
    BY <1>2, <1>k DEF HoldsIn, Keeps
<1>3. CASE f.op = "upload"
    BY <1>3 DEF HoldsIn, Keeps
<1>4. CASE f.op = "approve"
    <2>1. PICK i \in DOMAIN d.approvals : d.approvals[i] = f.what.entry
        BY <1>4 DEF HoldsIn
    <2>2. i \in DOMAIN e.approvals /\ e.approvals[i] = d.approvals[i]
        BY <1>0 DEF Keeps, Begins
    <2> QED
        BY <1>4, <2>1, <2>2 DEF HoldsIn
<1>5. CASE f.op = "snapshot"
    <2>0. f.what.approvals \in Seq(Ballots)
        BY <1>5 DEF Facts, SnapshotsOf
    <2>1. Begins(f.what.approvals, e.approvals)
        BY <1>0, <1>5, <2>0, BeginsTransitive DEF HoldsIn, Keeps
    <2>2. ASSUME f.what.recipe # None
          PROVE  /\ e.rows["recipe"] # None /\ e.rows["recipe"].rev = f.what.recipe.rev
                 /\ e.rows["recipe"].by = f.what.recipe.by
        <3>1. d.rows["recipe"] # None /\ d.rows["recipe"].rev = f.what.recipe.rev
              /\ d.rows["recipe"].by = f.what.recipe.by
            BY <1>5, <2>2 DEF HoldsIn
        <3>2. e.rows["recipe"] # None /\ Rest(e.rows["recipe"]) = Rest(d.rows["recipe"])
            BY <3>1, <1>k DEF Keeps
        <3> QED
            BY <1>0, <1>k, <3>1, <3>2, RestFields
    <2>3. f.what.evidence # None => e.rows["evidence"] # None
        BY <1>5, <1>k DEF HoldsIn, Keeps
    <2> QED
        BY <1>5, <2>1, <2>2, <2>3 DEF HoldsIn
<1>6. f.op \in {"publish", "deprecate", "upload", "approve", "snapshot"}
    BY DEF Facts
<1> QED
    BY <1>1, <1>2, <1>3, <1>4, <1>5, <1>6

LEMMA EffectStays ==
    ASSUME NEW d \in Databases, NEW e \in Databases, Keeps(d, e), NEW f, TakesEffectIn(d, f)
    PROVE  TakesEffectIn(e, f)
BY DEF TakesEffectIn, Keeps, Kinds

LEMMA SignedBefore ==
    ASSUME NEW d \in Databases, NEW e \in Databases, Keeps(d, e), SignedIn(e)
    PROVE  SignedIn(d)
<1>1. ASSUME NEW i \in DOMAIN d.approvals
      PROVE  i \in DOMAIN e.approvals /\ e.approvals[i] = d.approvals[i]
    BY DatabaseFields DEF Keeps, Begins
<1> QED
    BY <1>1 DEF SignedIn

-----------------------------------------------------------------------------
(* The server. *)

\* What any step may do to connection, file and handler.
LEMMA Moved ==
    ASSUME ServerInv,
           stored' \in Databases, seen' \in Databases, Keeps(stored, stored'), Keeps(stored', seen'),
           SignedIn(seen'),
           blobs \subseteq blobs', blobs' \subseteq Blobs,
           call' \in Handlers \cup {None}, EarnedIn(seen', blobs', call'),
           answered \subseteq answered',
           \A f \in answered' \ answered :
               /\ f \in Facts /\ HoldsIn(stored', blobs', f) /\ TakesEffectIn(stored', f)
               /\ f.op # "upload" => f \in stored'.audit,
           calls' \in Nat, faults' \in Nat, crashes' \in Nat
    PROVE  ServerInv' /\ Keeps(stored, stored') /\ answered \subseteq answered'
<1>0. stored \in Databases /\ answered \subseteq Facts
    BY DEF ServerInv, ServerTypeOK
<1>1. ServerTypeOK'
    BY <1>0 DEF ServerTypeOK
<1>2. Keeps(stored, seen)' /\ CallIsEarned' /\ LedgerIsSigned'
    BY DEF CallIsEarned, LedgerIsSigned
<1>3. ASSUME NEW f \in answered'
      PROVE  /\ HoldsIn(stored', blobs', f) /\ TakesEffectIn(stored', f)
             /\ f.op # "upload" => f \in stored'.audit
    <2>1. CASE f \in answered
        <3>1. f \in Facts /\ HoldsIn(stored, blobs, f) /\ TakesEffectIn(stored, f)
              /\ (f.op # "upload" => f \in stored.audit)
            BY <1>0, <2>1 DEF ServerInv, AnsweredIsDurable, Holds, ApprovalTakesEffect
        <3>2. HoldsIn(stored', blobs', f)
            BY <1>0, <3>1, HoldsStays
        <3>3. TakesEffectIn(stored', f)
            BY <1>0, <3>1, EffectStays
        <3>4. f.op # "upload" => f \in stored'.audit
            BY <3>1 DEF Keeps
        <3> QED
            BY <3>2, <3>3, <3>4
    <2>2. CASE f \notin answered
        BY <1>3, <2>2
    <2> QED
        BY <2>1, <2>2
<1>4. AnsweredIsDurable'
    BY <1>3 DEF AnsweredIsDurable, Holds
<1>5. ApprovalTakesEffect'
    BY <1>3 DEF ApprovalTakesEffect
<1> QED
    BY <1>1, <1>2, <1>4, <1>5 DEF ServerInv

\* One repository call, whether its commit succeeds or not.
LEMMA Transacted ==
    ASSUME ServerInv, NEW new, NEW next,
           new \in Databases, Keeps(seen, new), SignedIn(new),
           next \in Handlers \cup {None}, EarnedIn(new, blobs, next),
           Commit(new, next), blobs' = blobs, calls' \in Nat, crashes' = crashes,
           \/ answered' = answered
           \/ /\ faults' = faults /\ \E f \in Facts : answered' = answered \cup {f}
              /\ \A f \in answered' \ answered :
                     /\ HoldsIn(new, blobs, f) /\ TakesEffectIn(new, f)
                     /\ f.op # "upload" => f \in new.audit
    PROVE  ServerInv' /\ Keeps(stored, stored') /\ answered \subseteq answered'
<1>0. /\ stored \in Databases /\ seen \in Databases /\ blobs \subseteq Blobs
      /\ faults \in Nat /\ crashes \in Nat /\ Keeps(stored, seen)
    BY DEF ServerInv, ServerTypeOK
<1>1. Keeps(stored, new)
    BY <1>0, KeepsTransitive
<1>2. CASE stored' = new /\ seen' = new /\ call' = next /\ faults' = faults
    <2>1. /\ stored' \in Databases /\ seen' \in Databases /\ Keeps(stored, stored')
          /\ Keeps(stored', seen') /\ SignedIn(seen')
        BY <1>1, <1>2, KeepsItself
    <2>2. call' \in Handlers \cup {None} /\ EarnedIn(seen', blobs', call')
        BY <1>2
    <2>3. /\ answered \subseteq answered'
          /\ \A f \in answered' \ answered :
                 /\ f \in Facts /\ HoldsIn(stored', blobs', f) /\ TakesEffectIn(stored', f)
                 /\ f.op # "upload" => f \in stored'.audit
        BY <1>2
    <2>4. blobs \subseteq blobs' /\ blobs' \subseteq Blobs /\ faults' \in Nat /\ crashes' \in Nat
        BY <1>0, <1>2
    <2> QED
        BY <2>1, <2>2, <2>3, <2>4, Moved
<1>3. CASE stored' = stored /\ seen' = new /\ call' = None /\ faults' = faults + 1
    <2>1. /\ stored' \in Databases /\ seen' \in Databases /\ Keeps(stored, stored')
          /\ Keeps(stored', seen') /\ SignedIn(seen')
        BY <1>0, <1>1, <1>3, KeepsItself
    <2>2. call' \in Handlers \cup {None} /\ EarnedIn(seen', blobs', call')
        BY <1>3 DEF EarnedIn
    <2>3. answered' = answered
        BY <1>0, <1>3
    <2>4. blobs \subseteq blobs' /\ blobs' \subseteq Blobs /\ faults' \in Nat /\ crashes' \in Nat
        BY <1>0, <1>3
    <2> QED
        BY <2>1, <2>2, <2>3, <2>4, Moved
<1> QED
    BY <1>2, <1>3 DEF Commit

LEMMA RowIsTyped ==
    ASSUME NEW r \in Requests
    PROVE  Row(r) \in Rows /\ Row(r) # None /\ r.kind \in Kinds
<1>1. r \in Known /\ r.blob \in Blobs \cup {None} /\ r.kind \in Kinds
    BY RequestsAssumption DEF Known
<1> QED
    BY <1>1, StockAssumption DEF Row, Rows

LEMMA PublishedIsTyped ==
    ASSUME NEW r \in Requests
    PROVE  Published(r) \in Handlers
BY RowIsTyped DEF Published, Pending, Fact, Handlers, Facts

\* A row of another kind is put in place of a missing one.
LEMMA StoredKeeps ==
    ASSUME NEW d \in Databases, NEW k \in Kinds, NEW row \in Rows,
           d.rows[k] = None \/ k = "project"
    PROVE  LET new == [d EXCEPT !.rows[k] = row]
           IN  new \in Databases /\ Keeps(d, new) /\ new.rows[k] = row /\ new.approvals = d.approvals
<1> DEFINE new == [d EXCEPT !.rows[k] = row]
<1>0. /\ d.rows \in [Kinds -> Rows \cup {None}] /\ d.approvals \in Seq(Ballots)
      /\ d.artifacts \subseteq Blobs /\ d.audit \subseteq Facts
    BY DatabaseFields
<1>1. /\ new.rows = [d.rows EXCEPT ![k] = row] /\ new.approvals = d.approvals
      /\ new.artifacts = d.artifacts /\ new.audit = d.audit
    BY DEF Databases
<1>2. new \in Databases
    BY <1>0 DEF Databases
<1>3. new.rows[k] = row /\ \A j \in Kinds \ {k} : new.rows[j] = d.rows[j]
    BY <1>0, <1>1
<1>4. Begins(d.approvals, new.approvals)
    BY <1>0, <1>1, BeginsItself
<1>5. row # None
    BY StockAssumption
<1>k. {"component", "recipe"} \subseteq Kinds
    BY DEF Kinds
<1>6. Keeps(d, new)
    <2> HIDE DEF new
    <2> QED
        BY <1>1, <1>3, <1>4, <1>5, <1>k DEF Keeps
<1> QED
    BY <1>1, <1>2, <1>3, <1>6

\* The four publications that insert once.
LEMMA Inserted ==
    ASSUME ServerInv, NEW r \in Requests, NEW same \in BOOLEAN, r.kind # "project",
           same => /\ seen.rows[r.kind].rev = r.rev
                   /\ r.kind \in {"component", "evidence"} => seen.rows[r.kind].blob = r.blob,
           InsertOnce(r, same), calls' \in Nat, UNCHANGED <<blobs, answered, crashes>>
    PROVE  ServerInv' /\ Keeps(stored, stored') /\ answered \subseteq answered'
<1>0. /\ stored \in Databases /\ seen \in Databases /\ blobs \subseteq Blobs /\ answered \subseteq Facts
      /\ faults \in Nat /\ crashes \in Nat /\ Keeps(stored, seen) /\ SignedIn(seen)
    BY DEF ServerInv, ServerTypeOK, LedgerIsSigned
<1>1. Row(r) \in Rows /\ Row(r) # None /\ r.kind \in Kinds /\ Published(r) \in Handlers
    BY RowIsTyped, PublishedIsTyped
<1>2. /\ Published(r).step = "audit" /\ Published(r).fact.op = "publish"
      /\ Published(r).fact.kind = r.kind /\ Published(r).fact.what = Row(r)
      /\ Row(r).rev = r.rev /\ Row(r).blob = r.blob
    BY DEF Published, Pending, Fact, Row
<1>3. ASSUME NEW d \in Databases, d.rows[r.kind] # None, d.rows[r.kind].rev = r.rev,
             r.kind \in {"component", "evidence"} => d.rows[r.kind].blob = r.blob
      PROVE  EarnedIn(d, blobs, Published(r))
    <2>1. HoldsIn(d, blobs, Published(r).fact)
        BY <1>2, <1>3 DEF HoldsIn
    <2>2. TakesEffectIn(d, Published(r).fact)
        BY <1>2 DEF TakesEffectIn
    <2> QED
        BY <1>2, <2>1, <2>2 DEF EarnedIn
<1>4. CASE seen.rows[r.kind] = None /\ Commit(Stored(r), Published(r))
    <2>1. /\ Stored(r) \in Databases /\ Keeps(seen, Stored(r)) /\ Stored(r).rows[r.kind] = Row(r)
          /\ Stored(r).approvals = seen.approvals
        BY <1>0, <1>1, <1>4, StoredKeeps DEF Stored
    <2>2. SignedIn(Stored(r))
        BY <1>0, <2>1 DEF SignedIn
    <2>3. EarnedIn(Stored(r), blobs, Published(r))
        BY <1>1, <1>2, <1>3, <2>1
    <2> QED
        BY <1>1, <1>4, <2>1, <2>2, <2>3, Transacted
<1>5. CASE /\ seen.rows[r.kind] # None /\ same /\ call' = Published(r)
           /\ stored' = stored /\ seen' = seen /\ faults' = faults
    <2>1. EarnedIn(seen, blobs, Published(r))
        BY <1>0, <1>3, <1>5
    <2>2. EarnedIn(seen', blobs', call') /\ call' \in Handlers \cup {None}
        BY <1>1, <1>5, <2>1
    <2>3. /\ stored' \in Databases /\ seen' \in Databases /\ Keeps(stored, stored')
          /\ Keeps(stored', seen') /\ SignedIn(seen')
        BY <1>0, <1>5, KeepsItself
    <2>4. /\ blobs \subseteq blobs' /\ blobs' \subseteq Blobs /\ answered' = answered
          /\ faults' \in Nat /\ crashes' \in Nat
        BY <1>0, <1>5
    <2> QED
        BY <2>2, <2>3, <2>4, Moved
<1> QED
    BY <1>4, <1>5 DEF InsertOnce

\* A row's status may change to its last.
LEMMA StatusKeeps ==
    ASSUME NEW d \in Databases, NEW k \in {"component", "recipe"}, d.rows[k] # None,
           NEW s, s = (IF k = "component" THEN "deprecated" ELSE "APPROVED")
    PROVE  LET new == [d EXCEPT !.rows[k].status = s]
           IN  /\ new \in Databases /\ Keeps(d, new) /\ new.approvals = d.approvals
               /\ new.rows[k] # None /\ new.rows[k].status = s
<1> DEFINE new == [d EXCEPT !.rows[k].status = s]
           row == [d.rows[k] EXCEPT !.status = s]
<1>k. k \in Kinds
    BY DEF Kinds
<1>0. /\ d.rows \in [Kinds -> Rows \cup {None}] /\ d.approvals \in Seq(Ballots)
      /\ d.artifacts \subseteq Blobs /\ d.audit \subseteq Facts
    BY DatabaseFields
<1>1. d.rows[k] \in Rows
    BY <1>0, <1>k
<1>2. row \in Rows /\ row.status = s
    BY <1>1 DEF Rows
<1>3. Rest(row) = Rest(d.rows[k])
    BY <1>1 DEF Rest, Rows
<1>4. new = [d EXCEPT !.rows = [d.rows EXCEPT ![k] = row]]
    BY <1>0, <1>k DEF Databases
<1>5. row # None
    BY <1>2, StockAssumption
<1> HIDE DEF row, new
<1>6. /\ new.rows = [d.rows EXCEPT ![k] = row] /\ new.approvals = d.approvals
      /\ new.artifacts = d.artifacts /\ new.audit = d.audit
    BY <1>4 DEF Databases
<1>7. new.rows[k] = row /\ \A j \in Kinds \ {k} : new.rows[j] = d.rows[j]
    BY <1>0, <1>6, <1>k
<1>8. new \in Databases
    BY <1>0, <1>2, <1>4 DEF Databases
<1>9. Begins(d.approvals, new.approvals)
    BY <1>0, <1>6, BeginsItself
<1>10. Keeps(d, new)
    BY <1>2, <1>3, <1>5, <1>6, <1>7, <1>9 DEF Keeps, Kinds
<1> QED
    BY <1>2, <1>5, <1>6, <1>7, <1>8, <1>10 DEF new

LEMMA ServerStep ==
    ASSUME ServerInv, ServerNext
    PROVE  ServerInv' /\ Keeps(stored, stored') /\ answered \subseteq answered'
<1> DEFINE Kept == ServerInv' /\ Keeps(stored, stored') /\ answered \subseteq answered'
<1>0. /\ stored \in Databases /\ seen \in Databases /\ blobs \subseteq Blobs /\ answered \subseteq Facts
      /\ call \in Handlers \cup {None} /\ calls \in Nat /\ faults \in Nat /\ crashes \in Nat
      /\ Keeps(stored, seen) /\ SignedIn(seen) /\ EarnedIn(seen, blobs, call)
    BY DEF ServerInv, ServerTypeOK, LedgerIsSigned, CallIsEarned
<1>d. /\ seen.rows \in [Kinds -> Rows \cup {None}] /\ seen.approvals \in Seq(Ballots)
      /\ seen.artifacts \subseteq Blobs /\ seen.audit \subseteq Facts
    BY <1>0, DatabaseFields
<1>s. Keeps(stored, stored) /\ Keeps(seen, seen)
    BY <1>0, KeepsItself
<1>k. {"component", "recipe", "project", "bundle", "evidence"} \subseteq Kinds
    BY DEF Kinds
<1>a. Accept => calls' \in Nat
    BY <1>0 DEF Accept
<1>1. ASSUME NEW r \in Requests, PublishComponent(r)
      PROVE  Kept
    <2>1. /\ r.kind = "component" /\ calls' \in Nat /\ UNCHANGED <<blobs, answered, crashes>>
          /\ InsertOnce(r, SameComponent(seen.rows["component"], r))
        BY <1>1, <1>a DEF PublishComponent, Handle
    <2>2. /\ SameComponent(seen.rows["component"], r) \in BOOLEAN
          /\ SameComponent(seen.rows["component"], r) =>
                 seen.rows["component"].rev = r.rev /\ seen.rows["component"].blob = r.blob
        BY DEF SameComponent
    <2> QED
        BY <2>1, <2>2, Inserted
<1>2. ASSUME NEW r \in Requests, PublishRecipe(r)
      PROVE  Kept
    <2>1. /\ r.kind = "recipe" /\ calls' \in Nat /\ UNCHANGED <<blobs, answered, crashes>>
          /\ InsertOnce(r, SameRecipe(seen.rows["recipe"], r))
        BY <1>2, <1>a DEF PublishRecipe, Handle
    <2>2. /\ SameRecipe(seen.rows["recipe"], r) \in BOOLEAN
          /\ SameRecipe(seen.rows["recipe"], r) => seen.rows["recipe"].rev = r.rev
        BY DEF SameRecipe
    <2> QED
        BY <2>1, <2>2, Inserted
<1>3. ASSUME NEW r \in Requests, PublishBundle(r)
      PROVE  Kept
    <2>1. /\ r.kind = "bundle" /\ calls' \in Nat /\ UNCHANGED <<blobs, answered, crashes>>
          /\ InsertOnce(r, SameBundle(seen.rows["bundle"], r))
        BY <1>3, <1>a DEF PublishBundle, Handle
    <2>2. /\ SameBundle(seen.rows["bundle"], r) \in BOOLEAN
          /\ SameBundle(seen.rows["bundle"], r) => seen.rows["bundle"].rev = r.rev
        BY DEF SameBundle
    <2> QED
        BY <2>1, <2>2, Inserted
<1>4. ASSUME NEW r \in Requests, CreateEvidence(r)
      PROVE  Kept
    <2>1. /\ r.kind = "evidence" /\ calls' \in Nat /\ UNCHANGED <<blobs, answered, crashes>>
          /\ InsertOnce(r, SameEvidence(seen.rows["evidence"], r))
        BY <1>4, <1>a DEF CreateEvidence, Handle
    <2>2. /\ SameEvidence(seen.rows["evidence"], r) \in BOOLEAN
          /\ SameEvidence(seen.rows["evidence"], r) =>
                 seen.rows["evidence"].rev = r.rev /\ seen.rows["evidence"].blob = r.blob
        BY DEF SameEvidence
    <2> QED
        BY <2>1, <2>2, Inserted
<1>5. ASSUME NEW r \in Requests, RegisterProject(r)
      PROVE  Kept
    <2> DEFINE row == IF seen.rows["project"] = None THEN Row(r)
                      ELSE [Row(r) EXCEPT !.by = seen.rows["project"].by]
               new == [seen EXCEPT !.rows["project"] = row]
    <2>1. /\ Commit(new, Published(r)) /\ r.kind = "project" /\ calls' \in Nat
          /\ blobs' = blobs /\ answered' = answered /\ crashes' = crashes
        BY <1>5, <1>a DEF RegisterProject, Handle
    <2>2. Row(r) \in Rows /\ Published(r) \in Handlers
        BY RowIsTyped, PublishedIsTyped
    <2>3. row \in Rows
        BY <1>d, <1>k, <2>2 DEF Rows
    <2> HIDE DEF row
    <2>4. /\ new \in Databases /\ Keeps(seen, new) /\ new.rows["project"] = row
          /\ new.approvals = seen.approvals
        BY <1>0, <1>k, <2>3, StoredKeeps
    <2> HIDE DEF new
    <2>5. SignedIn(new)
        BY <1>0, <2>4 DEF SignedIn
    <2>6. row # None
        BY <2>3, StockAssumption
    <2>7. /\ Published(r).step = "audit" /\ Published(r).fact.op = "publish"
          /\ Published(r).fact.kind = "project"
        BY <2>1 DEF Published, Pending, Fact
    <2>8. HoldsIn(new, blobs, Published(r).fact) /\ TakesEffectIn(new, Published(r).fact)
        BY <2>4, <2>6, <2>7 DEF HoldsIn, TakesEffectIn
    <2>9. EarnedIn(new, blobs, Published(r))
        BY <2>7, <2>8 DEF EarnedIn
    <2> QED
        BY <2>1, <2>2, <2>4, <2>5, <2>9, Transacted
<1>6. ASSUME NEW u \in Users, Deprecate(u)
      PROVE  Kept
    <2> DEFINE new == [seen EXCEPT !.rows["component"].status = "deprecated"]
               next == Pending("audit", Fact("deprecate", "component", u))
    <2>1. /\ Commit(new, next) /\ seen.rows["component"] # None /\ calls' \in Nat
          /\ blobs' = blobs /\ answered' = answered /\ crashes' = crashes
        BY <1>6, <1>a DEF Deprecate
    <2>2. /\ new \in Databases /\ Keeps(seen, new) /\ new.approvals = seen.approvals
          /\ new.rows["component"] # None /\ new.rows["component"].status = "deprecated"
        BY <1>0, <2>1, StatusKeeps
    <2>3. next \in Handlers /\ next.step = "audit" /\ next.fact.op = "deprecate"
        BY DEF Pending, Fact, Handlers, Facts
    <2> HIDE DEF new, next
    <2>4. SignedIn(new)
        BY <1>0, <2>2 DEF SignedIn
    <2>5. HoldsIn(new, blobs, next.fact) /\ TakesEffectIn(new, next.fact)
        BY <2>2, <2>3 DEF HoldsIn, TakesEffectIn
    <2>6. EarnedIn(new, blobs, next)
        BY <2>3, <2>5 DEF EarnedIn
    <2> QED
        BY <2>1, <2>2, <2>3, <2>4, <2>6, Transacted
<1>7. ASSUME NEW b \in Blobs, Upload(b)
      PROVE  Kept
    <2>1. /\ calls' \in Nat /\ blobs' = blobs \cup {b}
          /\ call' = Pending("register", Fact("upload", "artifact", b))
          /\ stored' = stored /\ seen' = seen /\ answered' = answered
          /\ faults' = faults /\ crashes' = crashes
        BY <1>7, <1>a DEF Upload
    <2>2. /\ call' \in Handlers /\ call'.step = "register" /\ call'.fact.op = "upload"
          /\ call'.fact.what = b
        BY <2>1 DEF Pending, Fact, Handlers, Facts
    <2>3. EarnedIn(seen', blobs', call')
        BY <2>1, <2>2 DEF EarnedIn
    <2>4. /\ stored' \in Databases /\ seen' \in Databases /\ Keeps(stored, stored')
          /\ Keeps(stored', seen') /\ SignedIn(seen')
        BY <1>0, <1>s, <2>1
    <2>5. /\ blobs \subseteq blobs' /\ blobs' \subseteq Blobs /\ answered' = answered
          /\ faults' \in Nat /\ crashes' \in Nat
        BY <1>0, <2>1
    <2> QED
        BY <2>1, <2>2, <2>3, <2>4, <2>5, Moved
<1>8. ASSUME RegisterArtifact
      PROVE  Kept
    <2> DEFINE new == [seen EXCEPT !.artifacts = @ \cup {call.fact.what}]
    <2>1. /\ call # None /\ call.step = "register" /\ Commit(new, None)
          /\ answered' = IF faults' = faults THEN answered \cup {call.fact} ELSE answered
          /\ calls' = calls /\ blobs' = blobs /\ crashes' = crashes
        BY <1>8 DEF RegisterArtifact
    <2>2. call.fact \in Facts /\ call.fact.op = "upload" /\ call.fact.what \in blobs
        BY <1>0, <2>1 DEF EarnedIn, Handlers
    <2>3. /\ new.rows = seen.rows /\ new.approvals = seen.approvals /\ new.audit = seen.audit
          /\ new.artifacts = seen.artifacts \cup {call.fact.what} /\ new \in Databases
        BY <1>0, <2>2 DEF Databases
    <2> HIDE DEF new
    <2>4. Keeps(seen, new) /\ SignedIn(new)
        BY <1>0, <1>s, <2>3 DEF Keeps, SignedIn
    <2>5. HoldsIn(new, blobs, call.fact) /\ TakesEffectIn(new, call.fact)
        BY <2>2, <2>3 DEF HoldsIn, TakesEffectIn
    <2>6. EarnedIn(new, blobs, None)
        BY DEF EarnedIn
    <2>7. \/ answered' = answered
          \/ faults' = faults /\ answered' = answered \cup {call.fact}
        BY <2>1
    <2> QED
        BY <1>0, <2>1, <2>2, <2>3, <2>4, <2>5, <2>6, <2>7, Transacted
<1>9. ASSUME NEW a \in Ballots, Approve(a)
      PROVE  Kept
    <2> DEFINE row == seen.rows["recipe"]
               ledger == Append(seen.approvals, a)
               new == [seen EXCEPT !.approvals = ledger]
               next == NextOfApproval(row, ledger, a)
               earned == ApprovedForProduction(row.by, ledger)
    <2>1. /\ Commit(new, next) /\ MayApprove(a.by, a.role) /\ row # None /\ calls' \in Nat
          /\ blobs' = blobs /\ answered' = answered /\ crashes' = crashes
        BY <1>9, <1>a DEF Approve
    <2>2. /\ ledger \in Seq(Ballots) /\ Begins(seen.approvals, ledger)
          /\ ledger[Len(seen.approvals) + 1] = a /\ Len(ledger) = Len(seen.approvals) + 1
        BY <1>d, BeginsAppended
    <2>3. earned \in BOOLEAN
        BY DEF ApprovedForProduction
    <2>4. /\ next.step = (IF earned /\ row.status # "APPROVED" THEN "status" ELSE "audit")
          /\ next.fact.op = "approve" /\ next.fact.what.entry = a /\ next.fact.what.approved = earned
        BY DEF NextOfApproval, Pending, Fact
    <2>5. next \in Handlers
        <3> HIDE DEF earned
        <3>1. next = [step |-> IF earned /\ row.status # "APPROVED" THEN "status" ELSE "audit",
                      fact |-> [op |-> "approve", kind |-> "recipe",
                                what |-> [entry |-> a, approved |-> earned]]]
            BY DEF NextOfApproval, Pending, Fact, earned
        <3> HIDE DEF next
        <3>2. [entry |-> a, approved |-> earned] \in Entries
            BY <2>3 DEF Entries
        <3>3. [op |-> "approve", kind |-> "recipe", what |-> [entry |-> a, approved |-> earned]] \in Facts
            BY <3>2 DEF Facts
        <3> QED
            BY <3>1, <3>3 DEF Handlers
    <2> HIDE DEF next, earned, ledger
    <2>6. /\ new.rows = seen.rows /\ new.approvals = ledger /\ new.audit = seen.audit
          /\ new.artifacts = seen.artifacts /\ new \in Databases
        BY <1>0, <2>2 DEF Databases
    <2> HIDE DEF new
    <2>7. Keeps(seen, new)
        BY <1>s, <2>2, <2>6 DEF Keeps
    <2>8. SignedIn(new)
        <3>1. ASSUME NEW i \in DOMAIN ledger
              PROVE  MayApprove(ledger[i].by, ledger[i].role)
            <4>1. CASE i \in 1..Len(seen.approvals)
                BY <1>0, <1>d, <2>2, <4>1 DEF SignedIn, Begins
            <4>2. CASE i = Len(seen.approvals) + 1
                BY <2>1, <2>2, <4>2
            <4> QED
                BY <1>d, <2>2, <4>1, <4>2
        <3> QED
            BY <2>6, <3>1 DEF SignedIn
    <2>9. HoldsIn(new, blobs, next.fact)
        <3>1. Len(seen.approvals) + 1 \in DOMAIN ledger
            BY <1>d, <2>2
        <3> QED
            BY <2>2, <2>4, <2>6, <3>1 DEF HoldsIn
    <2>10. next.step = "audit" => TakesEffectIn(new, next.fact)
        BY <2>1, <2>3, <2>4, <2>6 DEF TakesEffectIn
    <2>11. EarnedIn(new, blobs, next)
        BY <2>1, <2>4, <2>6, <2>9, <2>10 DEF EarnedIn
    <2> QED
        BY <2>1, <2>5, <2>6, <2>7, <2>8, <2>11, Transacted
<1>10. ASSUME RaiseStatus
       PROVE  Kept
    <2> DEFINE new == [seen EXCEPT !.rows["recipe"].status = "APPROVED"]
               next == Pending("audit", call.fact)
    <2>1. /\ call # None /\ call.step = "status" /\ Commit(new, next)
          /\ calls' = calls /\ blobs' = blobs /\ answered' = answered /\ crashes' = crashes
        BY <1>10 DEF RaiseStatus
    <2>2. /\ call.fact \in Facts /\ seen.rows["recipe"] # None /\ call.fact.op # "upload"
          /\ HoldsIn(seen, blobs, call.fact)
        BY <1>0, <2>1 DEF EarnedIn, Handlers
    <2>3. /\ new \in Databases /\ Keeps(seen, new) /\ new.approvals = seen.approvals
          /\ new.rows["recipe"] # None /\ new.rows["recipe"].status = "APPROVED"
        BY <1>0, <2>2, StatusKeeps
    <2>4. next \in Handlers /\ next.step = "audit" /\ next.fact = call.fact
        BY <2>2 DEF Pending, Handlers
    <2> HIDE DEF new, next
    <2>5. SignedIn(new)
        BY <1>0, <2>3 DEF SignedIn
    <2>6. HoldsIn(new, blobs, next.fact)
        BY <1>0, <2>2, <2>3, <2>4, HoldsStays
    <2>7. TakesEffectIn(new, next.fact)
        BY <2>3 DEF TakesEffectIn
    <2>8. EarnedIn(new, blobs, next)
        BY <2>2, <2>4, <2>6, <2>7 DEF EarnedIn
    <2> QED
        BY <1>0, <2>1, <2>3, <2>4, <2>5, <2>8, Transacted
<1>11. ASSUME NEW u \in Users, NEW until \in {None, "soon"}, Snapshot(u, until)
       PROVE  Kept
    <2>1. /\ calls' \in Nat
          /\ call' = Pending("audit", Fact("snapshot", "cell", SnapshotNow(until)))
          /\ blobs' = blobs /\ stored' = stored /\ seen' = seen /\ answered' = answered
          /\ faults' = faults /\ crashes' = crashes
        BY <1>11, <1>a DEF Snapshot
    <2>2. SnapshotNow(until) \in SnapshotsOf
        BY <1>d, <1>k DEF SnapshotNow, SnapshotsOf
    <2>3. /\ call'.step = "audit" /\ call'.fact.op = "snapshot"
          /\ call'.fact.what.recipe = seen.rows["recipe"]
          /\ call'.fact.what.approvals = seen.approvals
          /\ call'.fact.what.evidence = seen.rows["evidence"]
        BY <2>1 DEF Pending, Fact, SnapshotNow
    <2>4. call' \in Handlers
        BY <2>1, <2>2 DEF Pending, Fact, Handlers, Facts
    <2>5. HoldsIn(seen, blobs, call'.fact) /\ TakesEffectIn(seen, call'.fact)
        BY <1>d, <2>3, BeginsItself DEF HoldsIn, TakesEffectIn
    <2>6. EarnedIn(seen', blobs', call')
        BY <2>1, <2>3, <2>5 DEF EarnedIn
    <2>7. /\ stored' \in Databases /\ seen' \in Databases /\ Keeps(stored, stored')
          /\ Keeps(stored', seen') /\ SignedIn(seen')
        BY <1>0, <1>s, <2>1
    <2>8. /\ blobs \subseteq blobs' /\ blobs' \subseteq Blobs /\ answered' = answered
          /\ faults' \in Nat /\ crashes' \in Nat
        BY <1>0, <2>1
    <2> QED
        BY <2>1, <2>4, <2>6, <2>7, <2>8, Moved
<1>12. ASSUME RecordAudit
       PROVE  Kept
    <2> DEFINE new == [seen EXCEPT !.audit = @ \cup {call.fact}]
    <2>1. /\ call # None /\ call.step = "audit" /\ Commit(new, None)
          /\ answered' = IF faults' = faults THEN answered \cup {call.fact} ELSE answered
          /\ calls' = calls /\ blobs' = blobs /\ crashes' = crashes
        BY <1>12 DEF RecordAudit
    <2>2. /\ call.fact \in Facts /\ HoldsIn(seen, blobs, call.fact)
          /\ TakesEffectIn(seen, call.fact)
        BY <1>0, <2>1 DEF EarnedIn, Handlers
    <2>3. /\ new.rows = seen.rows /\ new.approvals = seen.approvals /\ new.artifacts = seen.artifacts
          /\ new.audit = seen.audit \cup {call.fact} /\ new \in Databases
        BY <1>0, <2>2 DEF Databases
    <2> HIDE DEF new
    <2>4. Keeps(seen, new) /\ SignedIn(new)
        BY <1>0, <1>s, <2>3 DEF Keeps, SignedIn
    <2>5. HoldsIn(new, blobs, call.fact) /\ TakesEffectIn(new, call.fact) /\ call.fact \in new.audit
        BY <1>0, <2>2, <2>3, <2>4, HoldsStays, EffectStays
    <2>6. EarnedIn(new, blobs, None)
        BY DEF EarnedIn
    <2>7. \/ answered' = answered
          \/ faults' = faults /\ answered' = answered \cup {call.fact}
        BY <2>1
    <2> QED
        BY <1>0, <2>1, <2>2, <2>3, <2>4, <2>5, <2>6, <2>7, Transacted
<1>13. ASSUME Crash
       PROVE  Kept
    <2>1. /\ crashes' = crashes + 1 /\ seen' = stored /\ call' = None /\ calls' = calls
          /\ stored' = stored /\ blobs' = blobs /\ answered' = answered /\ faults' = faults
        BY <1>13 DEF Crash
    <2>2. SignedIn(stored)
        BY <1>0, SignedBefore
    <2>3. EarnedIn(seen', blobs', call')
        BY <2>1 DEF EarnedIn
    <2> QED
        BY <1>0, <1>s, <2>1, <2>2, <2>3, Moved
<1>14. ASSUME Stop
       PROVE  Kept
    <2>1. /\ call = None /\ stored' = seen /\ calls' = calls /\ seen' = seen /\ blobs' = blobs
          /\ call' = call /\ answered' = answered /\ faults' = faults /\ crashes' = crashes
        BY <1>14 DEF Stop
    <2>2. EarnedIn(seen', blobs', call')
        BY <1>0, <2>1
    <2> QED
        BY <1>0, <1>s, <2>1, <2>2, Moved
<1> HIDE DEF Kept
<1>15. Kept
    BY <1>1, <1>2, <1>3, <1>4, <1>5, <1>6, <1>7, <1>8, <1>9, <1>10, <1>11, <1>12, <1>13, <1>14
    DEF ServerNext
<1> QED
    BY <1>15 DEF Kept

-----------------------------------------------------------------------------
(* Approvals. *)

LEMMA TwoDistinct ==
    ASSUME NEW S, Cardinality(S) >= 2
    PROVE  \E x, y \in S : x # y
<1> SUFFICES ASSUME \A x, y \in S : x = y
             PROVE  FALSE
    OBVIOUS
<1>1. CASE S = {}
    <2>1. Cardinality(S) = 0
        BY <1>1, FS_EmptySet
    <2> QED
        BY <2>1
<1>2. CASE S # {}
    <2>1. PICK x \in S : TRUE
        BY <1>2
    <2>2. S = {x}
        BY <2>1
    <2>3. Cardinality(S) = 1
        BY <2>2, FS_Singleton
    <2> QED
        BY <2>3
<1> QED
    BY <1>1, <1>2

\* Of each approver one entry counts, so that two roles are two people.
LEMMA DualRoleIsIndependent ==
    ASSUME NEW ledger \in Seq(Ballots), NEW recipe, DualRole(recipe, ledger, ApprovalRoles),
           \A i \in DOMAIN ledger : MayApprove(ledger[i].by, ledger[i].role)
    PROVE  IndependentlyApproved(ledger, recipe.by)
<1> DEFINE A == Approvers(recipe, ledger, ApprovalRoles)
<1>1. PICK x \in {ledger[k].role : k \in A}, y \in {ledger[k].role : k \in A} : x # y
    <2> DEFINE S == {ledger[k].role : k \in A}
    <2>1. Cardinality(S) >= 2
        BY DEF DualRole
    <2> HIDE DEF S
    <2>2. \E x, y \in S : x # y
        BY <2>1, TwoDistinct
    <2> QED
        BY <2>2 DEF S
<1>2. PICK i \in A, j \in A : ledger[i].role # ledger[j].role
    BY <1>1
<1>3. /\ i \in DOMAIN ledger /\ j \in DOMAIN ledger /\ i \in Nat /\ j \in Nat
      /\ i >= 1 /\ j >= 1 /\ i # j
    BY <1>2 DEF Approvers
<1>4. /\ ledger[i].decision = "approved" /\ ledger[i].role \in ApprovalRoles /\ ledger[i].by # recipe.by
      /\ ledger[j].decision = "approved" /\ ledger[j].role \in ApprovalRoles /\ ledger[j].by # recipe.by
    BY <1>2 DEF Approvers
<1>5. ASSUME NEW k \in A, NEW l \in 1..(k - 1), ledger[l].decision = "approved",
             ledger[l].role \in ApprovalRoles
      PROVE  ledger[l].by # ledger[k].by
    BY <1>5 DEF Approvers
<1>6. ledger[i].by # ledger[j].by
    <2>1. CASE i < j
        BY <1>2, <1>3, <1>4, <1>5, <2>1
    <2>2. CASE j < i
        BY <1>2, <1>3, <1>4, <1>5, <2>2
    <2> QED
        BY <1>3, <2>1, <2>2
<1> QED
    BY <1>2, <1>3, <1>4, <1>6 DEF IndependentlyApproved

LEMMA IndependenceStays ==
    ASSUME NEW s \in Seq(Ballots), NEW t \in Seq(Ballots), Begins(s, t), NEW author,
           IndependentlyApproved(s, author)
    PROVE  IndependentlyApproved(t, author)
<1>1. ASSUME NEW i \in DOMAIN s
      PROVE  i \in DOMAIN t /\ t[i] = s[i]
    BY DEF Begins
<1>2. PICK i \in DOMAIN s, j \in DOMAIN s :
          /\ s[i].by # s[j].by /\ s[i].role # s[j].role
          /\ author \notin {s[i].by, s[j].by}
          /\ \A k \in {i, j} : /\ s[k].decision = "approved"
                               /\ MayApprove(s[k].by, s[k].role)
    BY DEF IndependentlyApproved
<1>3. /\ i \in DOMAIN t /\ t[i] = s[i] /\ j \in DOMAIN t /\ t[j] = s[j]
    BY <1>1, <1>2
<1> QED
    BY <1>2, <1>3 DEF IndependentlyApproved

LEMMA ApprovedStays ==
    ASSUME NEW d \in Databases, NEW e \in Databases, Keeps(d, e), NEW rev, ApprovedIn(d, rev)
    PROVE  ApprovedIn(e, rev)
<1>1. /\ d.rows \in [Kinds -> Rows \cup {None}] /\ e.rows \in [Kinds -> Rows \cup {None}]
      /\ d.approvals \in Seq(Ballots) /\ e.approvals \in Seq(Ballots) /\ "recipe" \in Kinds
    BY DatabaseFields DEF Kinds
<1>2. e.rows["recipe"] # None /\ Rest(e.rows["recipe"]) = Rest(d.rows["recipe"])
    BY <1>1 DEF ApprovedIn, Keeps
<1>3. e.rows["recipe"].rev = rev /\ e.rows["recipe"].by = d.rows["recipe"].by
    <2>1. d.rows["recipe"] \in Rows /\ e.rows["recipe"] \in Rows
        BY <1>1, <1>2 DEF ApprovedIn
    <2> QED
        BY <1>2, <2>1, RestFields DEF ApprovedIn
<1>4. IndependentlyApproved(e.approvals, e.rows["recipe"].by)
    BY <1>1, <1>3, IndependenceStays DEF ApprovedIn, Keeps
<1> QED
    BY <1>2, <1>3, <1>4 DEF ApprovedIn

\* What the compiler checks of a snapshot the server has issued, however long ago.
LEMMA SnapshotIsFounded ==
    ASSUME ServerInv, NEW snap \in Snapshots, NEW rev, ~ RecipeErrors(snap, rev, ApprovalRoles)
    PROVE  ApprovedIn(stored, rev)
<1>0. /\ stored \in Databases /\ seen \in Databases /\ answered \subseteq Facts
      /\ stored.approvals \in Seq(Ballots)
    BY DatabaseFields DEF ServerInv, ServerTypeOK
<1>1. PICK f \in answered : f.op = "snapshot" /\ snap = f.what
    BY DEF Snapshots
<1>2. f \in Facts /\ HoldsIn(stored, blobs, f)
    BY <1>0, <1>1 DEF ServerInv, AnsweredIsDurable, Holds
<1>3. snap.approvals \in Seq(Ballots)
    BY <1>1, <1>2 DEF Facts, SnapshotsOf
<1>4. /\ snap.recipe # None /\ snap.recipe.rev = rev
      /\ DualRole(snap.recipe, snap.approvals, ApprovalRoles)
    BY DEF RecipeErrors
<1>5. /\ stored.rows["recipe"] # None /\ stored.rows["recipe"].rev = rev
      /\ stored.rows["recipe"].by = snap.recipe.by /\ Begins(snap.approvals, stored.approvals)
    BY <1>1, <1>2, <1>4 DEF HoldsIn
<1>6. SignedIn(stored)
    BY <1>0, SignedBefore DEF ServerInv, LedgerIsSigned
<1>7. \A i \in DOMAIN snap.approvals : MayApprove(snap.approvals[i].by, snap.approvals[i].role)
    BY <1>0, <1>3, <1>5, <1>6 DEF SignedIn, Begins
<1>8. IndependentlyApproved(snap.approvals, snap.recipe.by)
    BY <1>3, <1>4, <1>7, DualRoleIsIndependent
<1>9. IndependentlyApproved(stored.approvals, snap.recipe.by)
    BY <1>0, <1>3, <1>5, <1>8, IndependenceStays
<1> QED
    BY <1>5, <1>9 DEF ApprovedIn

-----------------------------------------------------------------------------
(* The compiler. *)

Compiled == CompilerTypeOK(Snapshots) /\ BuildIsFounded /\ VerifiedIsApproved

\* A build that is under way.
LEMMA BuildIsTyped ==
    ASSUME Compiled, build.stage # "idle"
    PROVE  build \in Builds(Snapshots)
BY DEF Compiled, CompilerTypeOK, Idle

\* A step of the server disturbs no build and no plan.
LEMMA CompiledStays ==
    ASSUME Compiled, stored \in Databases, stored' \in Databases, Keeps(stored, stored'),
           answered \subseteq answered', UNCHANGED compilerVars
    PROVE  Compiled'
<1>1. file' = file /\ build' = build /\ plans' = plans
    BY DEF compilerVars
<1>2. Snapshots \subseteq Snapshots'
    BY DEF Snapshots
<1>3. CompilerTypeOK(Snapshots)'
    <2>1. Builds(Snapshots) \subseteq Builds(Snapshots')
        BY <1>2 DEF Builds
    <2> QED
        BY <1>1, <2>1 DEF Compiled, CompilerTypeOK, Builds
<1>4. BuildIsFounded'
    BY <1>1, ApprovedStays DEF Compiled, BuildIsFounded
<1>5. ASSUME NEW p \in plans', p.evidence = "verified", p.keys
      PROVE  ApprovedIn(stored', p.frozen)
    <2>1. ApprovedIn(stored, p.frozen)
        BY <1>1, <1>5 DEF Compiled, VerifiedIsApproved
    <2> QED
        BY <2>1, ApprovedStays
<1>6. VerifiedIsApproved'
    BY <1>5 DEF VerifiedIsApproved
<1> QED
    BY <1>3, <1>4, <1>6 DEF Compiled

LEMMA CompilerStep ==
    ASSUME ServerInv, Compiled, CompilerNext(Snapshots, ApprovalRoles), UNCHANGED serverVars
    PROVE  Compiled'
<1> DEFINE Typed == Builds(Snapshots)
           Founded(b) == b.stage # "idle" /\ b.evidence = "verified" /\ b.keys =>
                             b.stage # "recipes" /\ ApprovedIn(stored, b.frozen)
<1>0. /\ file \in Contents /\ Founded(build) /\ VerifiedIsApproved
      /\ \A p \in plans : p.evidence = "verified" /\ p.keys => ApprovedIn(stored, p.frozen)
    BY DEF Compiled, CompilerTypeOK, BuildIsFounded, VerifiedIsApproved, ApprovedIn
<1>1. stored' = stored /\ answered' = answered /\ Snapshots' = Snapshots
    BY DEF serverVars, Snapshots
\* What is to be shown of a step.
<1>2. ASSUME file' \in Contents, build' = Idle \/ build' \in Typed, Founded(build'),
             \A p \in plans' : p.evidence = "verified" /\ p.keys => ApprovedIn(stored, p.frozen)
      PROVE  Compiled'
    <2>1. CompilerTypeOK(Snapshots)'
        BY <1>1, <1>2 DEF CompilerTypeOK, Builds
    <2>2. BuildIsFounded'
        BY <1>1, <1>2 DEF BuildIsFounded
    <2>3. VerifiedIsApproved'
        BY <1>1, <1>2 DEF VerifiedIsApproved, ApprovedIn
    <2> QED
        BY <2>1, <2>2, <2>3 DEF Compiled
<1>i. Founded(Idle)
    BY DEF Idle
<1>b. build.stage # "idle" => build \in Typed
    BY BuildIsTyped
<1>t. build = Idle \/ build \in Typed
    BY DEF Compiled, CompilerTypeOK
<1> HIDE DEF Typed
<1>3. ASSUME NEW c \in Contents, Edit(c)
      PROVE  Compiled'
    BY <1>0, <1>2, <1>3, <1>t DEF Edit
<1>4. ASSUME NEW mode \in {"simulation", "production"}, NEW assemble \in BOOLEAN,
             NEW keys \in BOOLEAN, NEW late \in BOOLEAN,
             NEW s \in Snapshots \cup Foreign \cup {None}, NEW signature \in Signatures,
             signature = "platform" => s \in Snapshots,
             Begin(mode, assemble, s, signature, keys, late)
      PROVE  Compiled'
    <2>1. /\ build' = [stage |-> "recipes", mode |-> mode, assemble |-> assemble, snapshot |-> s,
                       signature |-> signature, keys |-> keys, late |-> late, checked |-> file, frozen |-> None, inventory |-> None,
                       errors |-> FALSE, evidence |-> "none"]
          /\ file' = file /\ plans' = plans
        BY <1>4 DEF Begin
    <2>2. build' \in Typed
        BY <1>0, <1>4, <2>1 DEF Typed, Builds, Stages
    <2>3. Founded(build')
        BY <2>1
    <2> QED
        BY <1>0, <1>2, <2>1, <2>2, <2>3
<1>5. ASSUME FreezeRecipe
      PROVE  Compiled'
    <2>1. /\ build.stage = "recipes" /\ build' = [build EXCEPT !.stage = "evidence", !.frozen = file]
          /\ file' = file /\ plans' = plans
        BY <1>5 DEF FreezeRecipe
    <2>2. build \in Typed
        BY <1>b, <2>1
    <2>3. build' \in Typed /\ build'.evidence = build.evidence /\ build'.keys = build.keys
        BY <1>0, <2>1, <2>2 DEF Typed, Builds, Stages
    <2>4. Founded(build')
        BY <1>0, <2>1, <2>3
    <2> QED
        BY <1>0, <1>2, <2>1, <2>3, <2>4
<1>6. ASSUME CheckEvidence(ApprovalRoles)
      PROVE  Compiled'
    <2> DEFINE failed == \/ Unproven(build.snapshot, build.mode)
                         \/ build.snapshot # None /\ Refused(build.snapshot, ApprovalRoles)
               verdict == CASE failed -> "failed"
                            [] build.snapshot = None -> "not-required"
                            [] OTHER -> "verified"
    <2>1. /\ build.stage = "evidence"
          /\ build' = [build EXCEPT !.stage = "inventory", !.errors = failed, !.evidence = verdict]
          /\ file' = file /\ plans' = plans
        BY <1>6 DEF CheckEvidence
    <2>2. build \in Typed
        BY <1>b, <2>1
    <2>3. failed \in BOOLEAN
        OBVIOUS
    <2>4. verdict = "verified" => build.snapshot # None /\ ~ Refused(build.snapshot, ApprovalRoles)
        OBVIOUS
    <2>5. verdict \in {"failed", "not-required", "verified"}
        OBVIOUS
    <2> HIDE DEF failed, verdict
    <2>6. /\ build' \in Typed /\ build'.stage = "inventory" /\ build'.frozen = build.frozen
          /\ build'.evidence = verdict /\ build'.keys = build.keys
        BY <2>1, <2>2, <2>3, <2>5 DEF Typed, Builds, Stages
    <2>7. verdict = "verified" /\ build.keys => ApprovedIn(stored, build.frozen)
        <3> SUFFICES ASSUME verdict = "verified", build.keys
                     PROVE  ApprovedIn(stored, build.frozen)
            OBVIOUS
        <3>1. build.snapshot \in Snapshots
            BY <2>2, <2>4 DEF Typed, Builds, Refused, Unsigned
        <3>2. ~ RecipeErrors(build.snapshot, build.frozen, ApprovalRoles)
            BY <2>4 DEF Refused
        <3> QED
            BY <3>1, <3>2, SnapshotIsFounded
    <2>8. Founded(build')
        BY <2>6, <2>7
    <2> QED
        BY <1>0, <1>2, <2>1, <2>6, <2>8
<1>7. ASSUME FreezeInventory
      PROVE  Compiled'
    <2> DEFINE done == [build EXCEPT !.inventory = file]
               plan == [mode |-> done.mode, evidence |-> done.evidence, keys |-> done.keys,
                        frozen |-> done.frozen, inventory |-> done.inventory]
    <2>1. /\ build.stage = "inventory" /\ file' = file
          /\ \/ build' = Idle /\ plans' = plans
             \/ /\ plans' = plans \cup {plan}
                /\ build' = [done EXCEPT !.stage = "gather"] \/ build' = Idle
        BY <1>7 DEF FreezeInventory
    <2>2. build \in Typed
        BY <1>b, <2>1
    <2>3. done \in Typed /\ done.evidence = build.evidence /\ done.keys = build.keys /\ done.frozen = build.frozen
        BY <1>0, <2>2 DEF Typed, Builds
    <2> HIDE DEF done
    <2>4. /\ [done EXCEPT !.stage = "gather"] \in Typed
          /\ [done EXCEPT !.stage = "gather"].evidence = build.evidence
          /\ [done EXCEPT !.stage = "gather"].keys = build.keys
          /\ [done EXCEPT !.stage = "gather"].frozen = build.frozen
          /\ [done EXCEPT !.stage = "gather"].stage = "gather"
        BY <2>3 DEF Typed, Builds, Stages
    <2>5. plan.evidence = "verified" /\ plan.keys => ApprovedIn(stored, plan.frozen)
        BY <1>0, <2>1, <2>3
    <2>6. \A p \in plans' : p.evidence = "verified" /\ p.keys => ApprovedIn(stored, p.frozen)
        BY <1>0, <2>1, <2>5
    <2>7. build' = Idle \/ build' = [done EXCEPT !.stage = "gather"]
        BY <2>1
    <2>8. Founded(build')
        <3>1. CASE build' = Idle
            BY <1>i, <3>1
        <3>2. CASE build' = [done EXCEPT !.stage = "gather"]
            BY <1>0, <2>1, <2>4, <3>2
        <3> QED
            BY <2>7, <3>1, <3>2
    <2>9. build' = Idle \/ build' \in Typed
        BY <2>4, <2>7
    <2> QED
        BY <1>0, <1>2, <2>1, <2>6, <2>8, <2>9
<1>8. ASSUME Gather
      PROVE  Compiled'
    <2>1. /\ build.stage = "gather" /\ file' = file /\ plans' = plans
          /\ build' = [build EXCEPT !.stage = "sign"] \/ build' = Idle
        BY <1>8 DEF Gather
    <2>2. build \in Typed
        BY <1>b, <2>1
    <2>3. /\ [build EXCEPT !.stage = "sign"] \in Typed
          /\ [build EXCEPT !.stage = "sign"].evidence = build.evidence
          /\ [build EXCEPT !.stage = "sign"].keys = build.keys
          /\ [build EXCEPT !.stage = "sign"].frozen = build.frozen
          /\ [build EXCEPT !.stage = "sign"].stage = "sign"
        BY <2>2 DEF Typed, Builds, Stages
    <2>4. Founded([build EXCEPT !.stage = "sign"])
        BY <1>0, <2>1, <2>3
    <2>5. Founded(build')
        BY <1>i, <2>1, <2>4
    <2> QED
        BY <1>0, <1>2, <2>1, <2>3, <2>5
<1>9. ASSUME Sign \/ Kill
      PROVE  Compiled'
    <2>1. file' = file /\ plans' = plans /\ build' = Idle
        BY <1>9 DEF Sign, Kill
    <2> QED
        BY <1>0, <1>2, <1>i, <2>1
<1> QED
    BY <1>3, <1>4, <1>5, <1>6, <1>7, <1>8, <1>9 DEF CompilerNext, Compile

-----------------------------------------------------------------------------
(* The qualification. *)

Later == Q!Range(Probes)

LEMMA ProbesAreGates ==
    /\ Later \subseteq {"restart", "stale_device", "platform", "kitting"}
    /\ Q!Gates = {"l0", "bundle"} \cup Later
BY QualificationAssumption DEF Later, Q!Range, Q!Gates

\* What follows a gate.
LEMMA Scheduled ==
    ASSUME NEW gate \in Q!Gates
    PROVE  Q!After(gate) \in (IF gate = "l0" THEN {"key"} ELSE Later \cup {"l2"})
<1>1. CASE gate = "l0"
    BY <1>1 DEF Q!After
<1>2. CASE gate # "l0"
    <2> DEFINE n == Len(Probes)
               i == CHOOSE i \in DOMAIN Q!Schedule : Q!Schedule[i] = gate
    <2>1. Probes \in Seq({"restart", "stale_device", "platform", "kitting"})
        BY QualificationAssumption
    <2>2. /\ DOMAIN Q!Schedule = 1..(n + 2) /\ Len(Q!Schedule) = n + 2
          /\ Q!Schedule[1] = "bundle" /\ Q!Schedule[n + 2] = "l2"
          /\ \A j \in 1..n : Q!Schedule[j + 1] = Probes[j]
        <3> DEFINE T == {"bundle", "restart", "stale_device", "platform", "kitting", "l2"}
        <3>1. Probes \in Seq(T) /\ <<"bundle">> \in Seq(T) /\ <<"l2">> \in Seq(T)
            <4>1. Probes \in Seq(T)
                BY <2>1, SeqMonotonic
            <4> QED
                BY <4>1
        <3>2. Len(<<"bundle">>) = 1 /\ <<"bundle">>[1] = "bundle" /\ Len(<<"l2">>) = 1 /\ <<"l2">>[1] = "l2"
            OBVIOUS
        <3> HIDE DEF T
        <3> DEFINE s == <<"bundle">> \o Probes
        <3>3. /\ s \in Seq(T) /\ Len(s) = 1 + n
              /\ \A j \in 1..(1 + n) : s[j] = IF j <= 1 THEN <<"bundle">>[j] ELSE Probes[j - 1]
            BY <3>1, <3>2, ConcatProperties
        <3> HIDE DEF s
        <3>4. n \in Nat
            BY <2>1
        <3>5. /\ s \o <<"l2">> \in Seq(T) /\ Len(s \o <<"l2">>) = n + 2
              /\ \A j \in 1..(n + 2) : (s \o <<"l2">>)[j] = IF j <= 1 + n THEN s[j] ELSE <<"l2">>[j - (1 + n)]
            BY <3>1, <3>2, <3>3, <3>4, ConcatProperties
        <3>6. Q!Schedule = s \o <<"l2">>
            BY DEF Q!Schedule, s
        <3>7. Q!Schedule[1] = "bundle"
            BY <3>2, <3>3, <3>4, <3>5, <3>6
        <3>8. Q!Schedule[n + 2] = "l2"
            BY <3>2, <3>3, <3>4, <3>5, <3>6
        <3>9. ASSUME NEW j \in 1..n
              PROVE  Q!Schedule[j + 1] = Probes[j]
            BY <3>3, <3>4, <3>5, <3>6
        <3> QED
            BY <3>5, <3>6, <3>7, <3>8, <3>9
    <2>3. gate = "bundle" \/ gate \in Later
        BY <1>2, ProbesAreGates
    <2>4. \E j \in DOMAIN Q!Schedule : Q!Schedule[j] = gate
        <3>1. CASE gate = "bundle"
            BY <2>1, <2>2, <3>1
        <3>2. CASE gate \in Later
            <4>1. PICK j \in DOMAIN Probes : Probes[j] = gate
                BY <3>2 DEF Later, Q!Range
            <4>2. j \in 1..n
                BY <2>1, <4>1
            <4> QED
                BY <2>1, <2>2, <4>1, <4>2
        <3> QED
            BY <2>3, <3>1, <3>2
    <2>5. i \in DOMAIN Q!Schedule /\ Q!Schedule[i] = gate
        BY <2>4
    <2>6. gate # "l2"
        BY <2>3, ProbesAreGates
    <2> HIDE DEF i
    <2>7. i \in 1..(n + 1)
        BY <2>1, <2>2, <2>5, <2>6
    <2>8. Q!Schedule[1 + i] \in Later \cup {"l2"}
        <3>1. CASE i = n + 1
            BY <2>1, <2>2, <3>1
        <3>2. CASE i \in 1..n
            <4>1. Q!Schedule[i + 1] = Probes[i] /\ i \in DOMAIN Probes
                BY <2>1, <2>2, <3>2
            <4> QED
                BY <2>7, <4>1 DEF Later, Q!Range
        <3> QED
            BY <2>1, <2>7, <3>1, <3>2
    <2> QED
        BY <1>2, <2>8 DEF Q!After, i
<1> QED
    BY <1>1, <1>2

Qualified == Q!TypeOK /\ Q!FoundIsOne /\ Q!QualifiedIsExact

\* A step of one invocation.
LEMMA InvocationMoved ==
    ASSUME Qualified, NEW q \in Invocations, NEW run,
           run \in Q!Runs \cup Q!Outcomes,
           run.pc # "ended" /\ run.steady => Q!Found(q, run),
           run.pc = "ended" /\ run.exit = "qualified" /\ run.steady => Q!Exact(q, run),
           quals' = [quals EXCEPT ![q] = run], project' = project, head' = head,
           evidence' \in [Q!Gates -> Invocations \cup {None}],
           signing' \in Invocations \cup {None}, trusted' \subseteq Invocations
    PROVE  Qualified'
<1>0. /\ project \in Q!Projects /\ head \in Q!Projects
      /\ quals \in [Invocations -> {Q!Idle} \cup Q!Runs \cup Q!Outcomes]
    BY DEF Qualified, Q!TypeOK
<1>1. Q!TypeOK'
    BY <1>0 DEF Q!TypeOK
<1>2. quals'[q] = run /\ \A p \in Invocations \ {q} : quals'[p] = quals[p]
    BY <1>0
<1>3. ASSUME NEW p \in Invocations
      PROVE  /\ Q!Running(p)' /\ quals'[p].steady => Q!Found(p, quals[p])'
             /\ Q!At(p, "ended")' /\ quals'[p].exit = "qualified" /\ quals'[p].steady =>
                    Q!Exact(p, quals[p])'
    <2>1. CASE p = q
        BY <1>2, <2>1 DEF Q!Running, Q!At, Q!Found, Q!Exact
    <2>2. CASE p # q
        <3>1. quals'[p] = quals[p]
            BY <1>2, <2>2
        <3>2. Q!Running(p) /\ quals[p].steady => Q!Found(p, quals[p])
            BY DEF Qualified, Q!FoundIsOne
        <3>3. Q!At(p, "ended") /\ quals[p].exit = "qualified" /\ quals[p].steady =>
                  Q!Exact(p, quals[p])
            BY DEF Qualified, Q!QualifiedIsExact
        <3> QED
            BY <3>1, <3>2, <3>3 DEF Q!Running, Q!At, Q!Found, Q!Exact
    <2> QED
        BY <2>1, <2>2
<1>4. Q!FoundIsOne'
    BY <1>3 DEF Q!FoundIsOne
<1>5. Q!QualifiedIsExact'
    BY <1>3 DEF Q!QualifiedIsExact
<1> QED
    BY <1>1, <1>4, <1>5 DEF Qualified

\* Somebody edits or commits: what runs has not been left alone.
LEMMA Disturbed ==
    ASSUME Qualified, Q!Disturb, project' \in Q!Projects, head' \in Q!Projects,
           UNCHANGED <<evidence, signing, trusted>>
    PROVE  Qualified'
<1>0. /\ quals \in [Invocations -> {Q!Idle} \cup Q!Runs \cup Q!Outcomes]
      /\ evidence \in [Q!Gates -> Invocations \cup {None}]
      /\ signing \in Invocations \cup {None} /\ trusted \subseteq Invocations
    BY DEF Qualified, Q!TypeOK
<1>1. ASSUME NEW p \in Invocations
      PROVE  /\ quals'[p] \in {Q!Idle} \cup Q!Runs \cup Q!Outcomes
             /\ quals'[p].pc = quals[p].pc
             /\ Q!Running(p) => quals'[p].steady = FALSE
             /\ ~ Q!Running(p) => quals'[p] = quals[p]
    <2>1. quals'[p] = IF Q!Running(p) THEN [quals[p] EXCEPT !.steady = FALSE] ELSE quals[p]
        BY DEF Q!Disturb
    <2>2. CASE Q!Running(p)
        <3>1. quals[p] \in Q!Runs
            <4>1. quals[p].pc # "idle" /\ quals[p].pc # "ended"
                BY <2>2 DEF Q!Running
            <4>2. quals[p] # Q!Idle
                BY <4>1 DEF Q!Idle
            <4>3. quals[p] \notin Q!Outcomes
                BY <4>1 DEF Q!Outcomes
            <4> QED
                BY <1>0, <4>2, <4>3
        <3>2. quals'[p] = [quals[p] EXCEPT !.steady = FALSE]
            BY <2>1, <2>2
        <3>3. quals'[p] \in Q!Runs
            BY <3>1, <3>2, ZenonT(60) DEF Q!Runs
        <3>4. quals'[p].pc = quals[p].pc /\ quals'[p].steady = FALSE
            BY <3>1, <3>2 DEF Q!Runs
        <3> QED
            BY <2>2, <3>3, <3>4
    <2>3. CASE ~ Q!Running(p)
        BY <1>0, <2>1, <2>3
    <2> QED
        BY <2>2, <2>3
<1>2. DOMAIN quals' = Invocations /\ quals' = [p \in Invocations |-> quals'[p]]
    BY DEF Q!Disturb
<1>3. quals' \in [Invocations -> {Q!Idle} \cup Q!Runs \cup Q!Outcomes]
    BY <1>1, <1>2
<1>4. Q!TypeOK'
    BY <1>0, <1>3 DEF Q!TypeOK
<1>5. Q!FoundIsOne'
    BY <1>1 DEF Q!FoundIsOne, Q!Running
<1>6. ASSUME NEW p \in Invocations, quals'[p].pc = "ended", quals'[p].exit = "qualified",
             quals'[p].steady
      PROVE  Q!Exact(p, quals'[p])
    <2>1. quals'[p] = quals[p]
        BY <1>1, <1>6 DEF Q!Running
    <2> QED
        BY <1>6, <2>1 DEF Qualified, Q!QualifiedIsExact, Q!At
<1>7. Q!QualifiedIsExact'
    BY <1>6 DEF Q!QualifiedIsExact, Q!At, Q!Exact
<1> QED
    BY <1>4, <1>5, <1>7 DEF Qualified

LEMMA InvocationStep ==
    ASSUME Qualified, NEW q \in Invocations, Q!Qualify(q)
    PROVE  Qualified'
<1> DEFINE run == quals[q]
           now == quals'[q]
<1>0. /\ project \in Q!Projects /\ head \in Q!Projects
      /\ evidence \in [Q!Gates -> Invocations \cup {None}]
      /\ signing \in Invocations \cup {None} /\ trusted \subseteq Invocations
      /\ quals \in [Invocations -> {Q!Idle} \cup Q!Runs \cup Q!Outcomes]
    BY DEF Qualified, Q!TypeOK
<1>p. /\ Later \subseteq {"restart", "stale_device", "platform", "kitting"}
      /\ Q!Gates = {"l0", "bundle"} \cup Later
    BY ProbesAreGates
\* A run that is under way.
<1>r. ASSUME NEW pc, Q!At(q, pc), pc # "idle", pc # "ended"
      PROVE  run \in Q!Runs /\ run.pc = pc /\ (run.steady => Q!Found(q, run))
    <2>1. run.pc = pc
        BY <1>r DEF Q!At
    <2>2. run # Q!Idle
        BY <1>r, <2>1 DEF Q!Idle
    <2>3. run \notin Q!Outcomes
        BY <1>r, <2>1 DEF Q!Outcomes
    <2>4. run \in Q!Runs
        BY <1>0, <2>2, <2>3
    <2>5. Q!Running(q)
        BY <1>r, <2>1 DEF Q!Running
    <2> QED
        BY <2>1, <2>4, <2>5 DEF Qualified, Q!FoundIsOne
\* What is to be shown of a step that goes on.
<1>m. ASSUME NEW next \in Q!Runs, next.pc # "ended", next.steady => Q!Found(q, next),
             quals' = [quals EXCEPT ![q] = next], project' = project, head' = head,
             evidence' \in [Q!Gates -> Invocations \cup {None}],
             signing' \in Invocations \cup {None}, trusted' \subseteq Invocations
      PROVE  Qualified'
    BY <1>m, InvocationMoved
\* And of one that leaves the artifact of a gate.
<1>l. ASSUME NEW gate \in Q!Gates, NEW changed, Q!Leave(q, gate, changed)
      PROVE  /\ evidence' \in [Q!Gates -> Invocations \cup {None}]
             /\ quals' = [quals EXCEPT ![q] = [[changed EXCEPT !.gate = gate] EXCEPT !.pc = "digest"]]
    BY <1>0, <1>l DEF Q!Leave, Q!Move
<1>1. ASSUME NEW l2 \in Seeded \cup {None}, Q!Start(q, l2)
      PROVE  Qualified'
    <2>1. PICK commit \in {head, None} : quals' = [quals EXCEPT ![q] = Q!Blank(commit, l2)]
        BY <1>1 DEF Q!Start
    <2> DEFINE next == Q!Blank(commit, l2)
    <2>2. next \in Q!Runs
        BY <1>0 DEF Q!Blank, Q!Runs
    <2>3. /\ next.pc \in {"sources", "status"} /\ next.commit = commit /\ ~ next.clean
        BY DEF Q!Blank
    <2> HIDE DEF next
    <2>4. Q!Found(q, next)
        BY <1>p, <2>3 DEF Q!Found, Later
    <2> QED
        BY <1>0, <1>1, <1>m, <2>1, <2>2, <2>3, <2>4 DEF Q!Start, next
<1>2. ASSUME Q!ReadStatus(q)
      PROVE  Qualified'
    <2>1. /\ run \in Q!Runs /\ run.pc = "status" /\ (run.steady => Q!Found(q, run))
        BY <1>2, <1>r DEF Q!ReadStatus
    <2>2. PICK next \in {[[run EXCEPT !.clean = (project = head)] EXCEPT !.pc = "sources"],
                         [[run EXCEPT !.commit = None] EXCEPT !.pc = "sources"]} :
              quals' = [quals EXCEPT ![q] = next]
        BY <1>2 DEF Q!ReadStatus, Q!Move
    <2>3. next \in Q!Runs
        <3> DEFINE clean == project = head
        <3>0. clean \in BOOLEAN
            OBVIOUS
        <3> HIDE DEF clean
        <3>1. [[run EXCEPT !.clean = clean] EXCEPT !.pc = "sources"] \in Q!Runs
            BY <2>1, <3>0, ZenonT(60) DEF Q!Runs
        <3>2. [[run EXCEPT !.commit = None] EXCEPT !.pc = "sources"] \in Q!Runs
            BY <2>1 DEF Q!Runs
        <3> QED
            BY <2>2, <3>1, <3>2 DEF clean
    <2>4. /\ next.pc = "sources" /\ next.steady = run.steady
          /\ next.commit \in {run.commit, None} /\ next.clean \in {run.clean, project = head}
        BY <2>1, <2>2 DEF Q!Runs
    <2>5. next.steady => Q!Found(q, next)
        BY <1>p, <2>1, <2>4 DEF Q!Found, Later
    <2> QED
        BY <1>0, <1>2, <1>m, <2>2, <2>3, <2>4, <2>5 DEF Q!ReadStatus
<1>3. ASSUME Q!ReadSources(q)
      PROVE  Qualified'
    <2>1. /\ run \in Q!Runs /\ run.pc = "sources" /\ (run.steady => Q!Found(q, run))
        BY <1>3, <1>r DEF Q!ReadSources
    <2> DEFINE next == [[run EXCEPT !.sources = project] EXCEPT !.pc = "parity"]
    <2>2. quals' = [quals EXCEPT ![q] = next]
        BY <1>3 DEF Q!ReadSources, Q!Move
    <2>3. next \in Q!Runs
        BY <1>0, <2>1, ZenonT(60) DEF Q!Runs
    <2>4. /\ next.pc = "parity" /\ next.steady = run.steady /\ next.commit = run.commit
          /\ next.clean = run.clean /\ next.sources = project
        BY <2>1 DEF Q!Runs
    <2> HIDE DEF next
    <2>5. next.steady => Q!Found(q, next)
        BY <1>p, <2>1, <2>4 DEF Q!Found, Later
    <2> QED
        BY <1>0, <1>3, <1>m, <2>2, <2>3, <2>4, <2>5 DEF Q!ReadSources
<1>4. ASSUME Q!Parity(q)
      PROVE  Qualified'
    <2>1. /\ run \in Q!Runs /\ run.pc = "parity" /\ (run.steady => Q!Found(q, run))
        BY <1>4, <1>r DEF Q!Parity
    <2>2. PICK branched \in BOOLEAN :
              quals' = [quals EXCEPT ![q] = [[run EXCEPT !.failed = branched] EXCEPT !.pc = "l0"]]
        BY <1>4 DEF Q!Parity, Q!Move
    <2> DEFINE next == [[run EXCEPT !.failed = branched] EXCEPT !.pc = "l0"]
    <2>3. next \in Q!Runs
        BY <2>1, ZenonT(60) DEF Q!Runs
    <2>4. /\ next.pc = "l0" /\ next.steady = run.steady /\ next.commit = run.commit
          /\ next.clean = run.clean /\ next.sources = run.sources
        BY <2>1 DEF Q!Runs
    <2> HIDE DEF next
    <2>5. next.steady => Q!Found(q, next)
        BY <1>p, <2>1, <2>4 DEF Q!Found, Later
    <2> QED
        BY <1>0, <1>4, <1>m, <2>2, <2>3, <2>4, <2>5 DEF Q!Parity, next
<1>5. ASSUME Q!RunL0(q)
      PROVE  Qualified'
    <2>1. /\ run \in Q!Runs /\ run.pc = "l0" /\ (run.steady => Q!Found(q, run))
        BY <1>5, <1>r DEF Q!RunL0
    <2>2. PICK emitted \in BOOLEAN, passed \in BOOLEAN :
              LET found == IF emitted THEN {q} ELSE Q!ReportDirectory(q)
              IN  Q!Leave(q, "l0", [run EXCEPT
                      !.tree = project["tree"],
                      !.rows = IF found = {} THEN None ELSE CHOOSE p \in found : TRUE,
                      !.failed = @ \/ ~Q!Graded(emitted, passed)])
        BY <1>5 DEF Q!RunL0
    <2> DEFINE rows == IF emitted THEN q ELSE None
               failed == run.failed \/ ~ (emitted /\ passed)
               changed == [run EXCEPT !.tree = project["tree"], !.rows = rows, !.failed = failed]
               next == [[changed EXCEPT !.gate = "l0"] EXCEPT !.pc = "digest"]
    <2>3. Q!Leave(q, "l0", changed)
        BY <2>2 DEF Q!ReportDirectory, Q!Graded
    <2>4. failed \in BOOLEAN /\ rows \in Invocations \cup {None} /\ (~ failed => rows = q)
        BY <2>1 DEF Q!Runs
    <2> HIDE DEF rows, failed
    <2>5. project["tree"] \in Revisions
        BY <1>0 DEF Q!Projects, Q!Sources
    <2>6. next \in Q!Runs
        <3>1. "l0" \in Q!Gates
            BY <1>p
        <3> QED
            BY <2>1, <2>4, <2>5, <3>1, ZenonT(60) DEF Q!Runs
    <2>7. /\ next.pc = "digest" /\ next.steady = run.steady /\ next.commit = run.commit
          /\ next.clean = run.clean /\ next.sources = run.sources /\ next.tree = project["tree"]
          /\ next.rows = rows /\ next.failed = failed /\ next.gate = "l0"
        BY <2>1 DEF Q!Runs
    <2>8. quals' = [quals EXCEPT ![q] = next] /\ evidence' \in [Q!Gates -> Invocations \cup {None}]
        BY <1>l, <1>p, <2>3
    <2> HIDE DEF next
    <2>9. next.steady => Q!Found(q, next)
        BY <1>p, <2>1, <2>4, <2>7 DEF Q!Found, Later
    <2> QED
        BY <1>0, <1>5, <1>m, <2>6, <2>7, <2>8, <2>9 DEF Q!RunL0
<1>6. ASSUME NEW gate \in Q!Gates, Q!Digest(q, gate)
      PROVE  Qualified'
    <2>1. /\ run \in Q!Runs /\ run.pc = "digest" /\ run.gate = gate
          /\ (run.steady => Q!Found(q, run))
        BY <1>6, <1>r DEF Q!Digest
    <2> DEFINE next == [[run EXCEPT !.digests[gate] = evidence[gate]] EXCEPT !.pc = Q!After(gate)]
    <2>2. quals' = [quals EXCEPT ![q] = next]
        BY <1>6 DEF Q!Digest, Q!Move
    <2>3. Q!After(gate) \in (IF gate = "l0" THEN {"key"} ELSE Later \cup {"l2"})
        BY Scheduled
    <2>4. next \in Q!Runs
        <3>1. Q!After(gate) \in {"key", "l2"} \cup Q!Range(Probes)
            BY <2>3 DEF Later
        <3>2. [run.digests EXCEPT ![gate] = evidence[gate]] \in [Q!Gates -> Invocations \cup {None}]
            BY <1>0, <2>1 DEF Q!Runs
        <3>3. next = [[run EXCEPT !.digests = [run.digests EXCEPT ![gate] = evidence[gate]]]
                          EXCEPT !.pc = Q!After(gate)]
            BY <2>1 DEF Q!Runs
        <3> DEFINE kept == [run.digests EXCEPT ![gate] = evidence[gate]]
                   hashed == [run EXCEPT !.digests = kept]
        <3> HIDE DEF next, kept
        <3>4. hashed \in Q!Runs
            BY <2>1, <3>2 DEF Q!Runs, kept
        <3> HIDE DEF hashed
        <3>5. [hashed EXCEPT !.pc = Q!After(gate)] \in Q!Runs
            BY <3>1, <3>4 DEF Q!Runs
        <3> QED
            BY <3>3, <3>5 DEF hashed, kept
    <2>5. /\ next.pc = Q!After(gate) /\ next.steady = run.steady /\ next.commit = run.commit
          /\ next.clean = run.clean /\ next.sources = run.sources /\ next.tree = run.tree
          /\ next.rows = run.rows /\ next.failed = run.failed /\ next.bundle = run.bundle
        BY <2>1 DEF Q!Runs
    <2> HIDE DEF next
    <2>6. next.steady => Q!Found(q, next)
        BY <1>p, <2>1, <2>3, <2>5 DEF Q!Found, Later
    <2>7. next.pc # "ended"
        BY <1>p, <2>3, <2>5
    <2> QED
        BY <1>0, <1>6, <1>m, <2>2, <2>4, <2>6, <2>7 DEF Q!Digest
<1>7. ASSUME Q!WriteKey(q)
      PROVE  Qualified'
    <2>1. /\ run \in Q!Runs /\ run.pc = "key" /\ (run.steady => Q!Found(q, run))
        BY <1>7, <1>r DEF Q!WriteKey
    <2>2. Q!After("bundle") \in Later \cup {"l2"}
        BY <1>p, Scheduled
    <2> DEFINE lost == [[run EXCEPT !.failed = TRUE] EXCEPT !.pc = Q!After("bundle")]
               next == [run EXCEPT !.pc = "assemble"]
    <2>3. CASE run.commit = None
        <3>1. /\ quals' = [quals EXCEPT ![q] = lost] /\ signing' = signing /\ trusted' = trusted
              /\ project' = project /\ head' = head /\ evidence' = evidence
            BY <1>7, <2>3 DEF Q!WriteKey, Q!Move
        <3>2. lost \in Q!Runs
            <4>1. Q!After("bundle") \in {"l2"} \cup Q!Range(Probes)
                BY <2>2 DEF Later
            <4> QED
                BY <2>1, <4>1, ZenonT(60) DEF Q!Runs
        <3>3. /\ lost.pc = Q!After("bundle") /\ lost.steady = run.steady /\ lost.commit = run.commit
              /\ lost.clean = run.clean /\ lost.sources = run.sources /\ lost.tree = run.tree
              /\ lost.failed
            BY <2>1 DEF Q!Runs
        <3> HIDE DEF lost
        <3>4. lost.steady => Q!Found(q, lost)
            BY <1>p, <2>1, <2>2, <3>3 DEF Q!Found, Later
        <3>5. lost.pc # "ended"
            BY <1>p, <2>2, <3>3
        <3> QED
            BY <1>0, <1>m, <3>1, <3>2, <3>4, <3>5
    <2>4. CASE run.commit # None
        <3>1. /\ quals' = [quals EXCEPT ![q] = next] /\ signing' = q /\ trusted' = trusted \cup {q}
              /\ project' = project /\ head' = head /\ evidence' = evidence
            BY <1>7, <2>4 DEF Q!WriteKey, Q!Move
        <3>2. next \in Q!Runs
            BY <2>1 DEF Q!Runs
        <3>3. /\ next.pc = "assemble" /\ next.steady = run.steady /\ next.commit = run.commit
              /\ next.clean = run.clean /\ next.sources = run.sources /\ next.tree = run.tree
              /\ next.failed = run.failed /\ next.rows = run.rows
            BY <2>1 DEF Q!Runs
        <3> HIDE DEF next
        <3>4. next.steady => Q!Found(q, next)
            BY <1>p, <2>1, <3>3 DEF Q!Found, Later
        <3> QED
            BY <1>0, <1>m, <3>1, <3>2, <3>3, <3>4
    <2> QED
        BY <2>3, <2>4
<1>8. ASSUME Q!Assemble(q)
      PROVE  Qualified'
    <2>1. /\ run \in Q!Runs /\ run.pc = "assemble" /\ (run.steady => Q!Found(q, run))
        BY <1>8, <1>r DEF Q!Assemble
    <2> DEFINE bundle == [content |-> project, key |-> signing]
               built == [[run EXCEPT !.bundle = bundle] EXCEPT !.pc = "probe"]
               refused == [[run EXCEPT !.failed = TRUE] EXCEPT !.pc = "probe"]
    <2>2. CASE signing \in trusted /\ quals' = [quals EXCEPT ![q] = built]
        <3>1. bundle \in [content : Q!Projects, key : Invocations] /\ bundle.content = project
            BY <1>0, <2>2
        <3> HIDE DEF bundle
        <3>3. built \in Q!Runs
            BY <2>1, <3>1, ZenonT(60) DEF Q!Runs
        <3>4. /\ built.pc = "probe" /\ built.steady = run.steady /\ built.commit = run.commit
              /\ built.clean = run.clean /\ built.sources = run.sources /\ built.tree = run.tree
              /\ built.failed = run.failed /\ built.rows = run.rows /\ built.bundle = bundle
            BY <2>1 DEF Q!Runs
        <3> HIDE DEF built
        <3>5. built.steady => Q!Found(q, built)
            BY <1>p, <2>1, <3>1, <3>4 DEF Q!Found, Later
        <3> QED
            BY <1>0, <1>8, <1>m, <2>2, <3>3, <3>4, <3>5 DEF Q!Assemble
    <2>3. CASE quals' = [quals EXCEPT ![q] = refused]
        <3>1. refused \in Q!Runs
            BY <2>1 DEF Q!Runs
        <3>2. /\ refused.pc = "probe" /\ refused.steady = run.steady /\ refused.commit = run.commit
              /\ refused.clean = run.clean /\ refused.sources = run.sources
              /\ refused.tree = run.tree /\ refused.failed
            BY <2>1 DEF Q!Runs
        <3> HIDE DEF refused
        <3>3. refused.steady => Q!Found(q, refused)
            BY <1>p, <2>1, <3>2 DEF Q!Found, Later
        <3> QED
            BY <1>0, <1>8, <1>m, <2>3, <3>1, <3>2, <3>3 DEF Q!Assemble
    <2> QED
        BY <1>8, <2>2, <2>3 DEF Q!Assemble, Q!Move
<1>9. ASSUME Q!WriteBundleProbe(q)
      PROVE  Qualified'
    <2>1. /\ run \in Q!Runs /\ run.pc = "probe" /\ (run.steady => Q!Found(q, run))
        BY <1>9, <1>r DEF Q!WriteBundleProbe
    <2> DEFINE next == [[run EXCEPT !.gate = "bundle"] EXCEPT !.pc = "digest"]
    <2>2. quals' = [quals EXCEPT ![q] = next] /\ evidence' \in [Q!Gates -> Invocations \cup {None}]
        BY <1>9, <1>l, <1>p DEF Q!WriteBundleProbe
    <2>3. next \in Q!Runs
        <3>1. "bundle" \in Q!Gates
            BY <1>p
        <3> QED
            BY <2>1, <3>1, ZenonT(60) DEF Q!Runs
    <2>4. /\ next.pc = "digest" /\ next.steady = run.steady /\ next.commit = run.commit
          /\ next.clean = run.clean /\ next.sources = run.sources /\ next.tree = run.tree
          /\ next.failed = run.failed /\ next.rows = run.rows /\ next.bundle = run.bundle
        BY <2>1 DEF Q!Runs
    <2> HIDE DEF next
    <2>5. next.steady => Q!Found(q, next)
        BY <1>p, <2>1, <2>4 DEF Q!Found, Later
    <2> QED
        BY <1>0, <1>9, <1>m, <2>2, <2>3, <2>4, <2>5 DEF Q!WriteBundleProbe
\* The other gates: a verdict is added, and an artifact left.
<1>10. ASSUME NEW gate \in Later, Q!At(q, gate), NEW verdict \in BOOLEAN,
              Q!Leave(q, gate, [run EXCEPT !.failed = @ \/ ~ verdict]),
              project' = project, head' = head, signing' = signing, trusted' = trusted
       PROVE  Qualified'
    <2>1. /\ run \in Q!Runs /\ run.pc = gate /\ (run.steady => Q!Found(q, run))
        BY <1>10, <1>p, <1>r
    <2> DEFINE failed == run.failed \/ ~ verdict
               next == [[[run EXCEPT !.failed = failed] EXCEPT !.gate = gate] EXCEPT !.pc = "digest"]
    <2>2. quals' = [quals EXCEPT ![q] = next] /\ evidence' \in [Q!Gates -> Invocations \cup {None}]
        BY <1>10, <1>l, <1>p
    <2>3. failed \in BOOLEAN /\ (~ failed => ~ run.failed)
        OBVIOUS
    <2> HIDE DEF failed
    <2>4. next \in Q!Runs
        <3>1. gate \in Q!Gates
            BY <1>p
        <3> DEFINE judged == [run EXCEPT !.failed = failed]
        <3>2. judged \in Q!Runs
            BY <2>1, <2>3 DEF Q!Runs
        <3> HIDE DEF judged
        <3>3. [judged EXCEPT !.gate = gate] \in Q!Runs
            BY <3>1, <3>2 DEF Q!Runs
        <3> DEFINE left == [judged EXCEPT !.gate = gate]
        <3> HIDE DEF left
        <3>4. [left EXCEPT !.pc = "digest"] \in Q!Runs
            BY <3>3 DEF Q!Runs, left
        <3> QED
            BY <3>4 DEF left, judged
    <2>5. /\ next.pc = "digest" /\ next.steady = run.steady /\ next.commit = run.commit
          /\ next.clean = run.clean /\ next.sources = run.sources /\ next.tree = run.tree
          /\ next.failed = failed /\ next.rows = run.rows /\ next.bundle = run.bundle
        BY <2>1 DEF Q!Runs
    <2> HIDE DEF next
    <2>6. next.steady => Q!Found(q, next)
        BY <1>p, <2>1, <2>3, <2>5 DEF Q!Found, Later
    <2> QED
        BY <1>0, <1>10, <1>m, <2>2, <2>4, <2>5, <2>6
<1>11. ASSUME NEW gate \in Q!Range(Probes), Q!Probe(q, gate)
       PROVE  Qualified'
    <2>1. gate \in Later
        BY DEF Later
    <2>2. PICK passed \in BOOLEAN : Q!Leave(q, gate, [run EXCEPT !.failed = @ \/ ~ passed])
        BY <1>11 DEF Q!Probe
    <2> QED
        BY <1>10, <1>11, <2>1, <2>2 DEF Q!Probe
<1>12. ASSUME Q!Kitting(q)
       PROVE  Qualified'
    <2>1. run \in Q!Runs /\ run.pc = "kitting"
        BY <1>12, <1>r DEF Q!Kitting
    <2>2. "kitting" \in Later
        BY <2>1 DEF Q!Runs, Later
    <2>3. PICK emitted \in BOOLEAN, passed \in BOOLEAN :
              Q!Leave(q, "kitting", [run EXCEPT !.failed = @ \/ ~ Q!Graded(emitted, passed)])
        BY <1>12 DEF Q!Kitting
    <2>4. Q!Graded(emitted, passed) \in BOOLEAN
        BY DEF Q!Graded
    <2> QED
        BY <1>10, <1>12, <2>2, <2>3, <2>4 DEF Q!Kitting
<1>13. ASSUME Q!ValidateL2(q)
       PROVE  Qualified'
    <2>1. /\ run \in Q!Runs /\ run.pc = "l2" /\ (run.steady => Q!Found(q, run))
        BY <1>13, <1>r DEF Q!ValidateL2
    <2> DEFINE valid == Q!L2Valid(q)
               next == [[run EXCEPT !.l2passed = valid] EXCEPT !.pc = "judge"]
    <2>2. quals' = [quals EXCEPT ![q] = next]
        BY <1>13 DEF Q!ValidateL2, Q!Move
    <2>3. valid \in BOOLEAN /\ (valid => run.l2 # None /\ run.l2.scene = project["scene"])
        BY DEF Q!L2Valid
    <2> HIDE DEF valid
    <2>4. next \in Q!Runs
        BY <2>1, <2>3, ZenonT(60) DEF Q!Runs
    <2>5. /\ next.pc = "judge" /\ next.steady = run.steady /\ next.commit = run.commit
          /\ next.clean = run.clean /\ next.sources = run.sources /\ next.tree = run.tree
          /\ next.failed = run.failed /\ next.rows = run.rows /\ next.bundle = run.bundle
          /\ next.l2 = run.l2 /\ next.l2passed = valid
        BY <2>1 DEF Q!Runs
    <2> HIDE DEF next
    <2>6. next.steady => Q!Found(q, next)
        BY <1>p, <2>1, <2>3, <2>5 DEF Q!Found, Later
    <2> QED
        BY <1>0, <1>13, <1>m, <2>2, <2>4, <2>5, <2>6 DEF Q!ValidateL2
\* The end, qualified or otherwise.
<1>14. ASSUME NEW exit \in {"l0 only", "rejected", "killed"}, Q!End(q, exit),
              project' = project, head' = head, evidence' = evidence, signing' = signing,
              trusted' = trusted
       PROVE  Qualified'
    <2> DEFINE next == [pc |-> "ended", exit |-> exit]
    <2>1. quals' = [quals EXCEPT ![q] = next]
        BY <1>14 DEF Q!End
    <2>2. next \in Q!Outcomes /\ next.pc = "ended" /\ next.exit # "qualified"
        BY DEF Q!Outcomes
    <2> HIDE DEF next
    <2> QED
        BY <1>0, <1>14, <2>1, <2>2, InvocationMoved
<1>15. ASSUME Q!Judge(q)
       PROVE  Qualified'
    <2>1. /\ run \in Q!Runs /\ run.pc = "judge" /\ (run.steady => Q!Found(q, run))
        BY <1>15, <1>r DEF Q!Judge
    <2>2. /\ project' = project /\ head' = head /\ evidence' = evidence /\ signing' = signing
          /\ trusted' = trusted
        BY <1>15 DEF Q!Judge
    <2> DEFINE next == [[run EXCEPT !.exit = "qualified"] EXCEPT !.pc = "ended"]
    <2>3. CASE Q!Overall(run) /\ ~run.failed /\ quals' = [quals EXCEPT ![q] = next]
        <3>1. next \in Q!Runs
            BY <2>1, ZenonT(60) DEF Q!Runs
        <3>2. /\ next.pc = "ended" /\ next.steady = run.steady /\ next.commit = run.commit
              /\ next.sources = run.sources /\ next.tree = run.tree
              /\ next.rows = run.rows /\ next.bundle = run.bundle /\ next.l2 = run.l2
            BY <2>1 DEF Q!Runs
        <3> HIDE DEF next
        <3>3. run.steady => Q!Exact(q, next)
            BY <1>p, <2>1, <2>3, <3>2 DEF Q!Found, Q!Exact, Q!Overall, Later
        <3> QED
            BY <1>0, <2>2, <2>3, <3>1, <3>2, <3>3, InvocationMoved
    <2>4. CASE \E exit \in {"l0 only", "rejected", "killed"} : Q!End(q, exit)
        BY <1>14, <2>2, <2>4
    <2> QED
        BY <1>15, <2>3, <2>4 DEF Q!Judge, Q!Move
<1>16. ASSUME Q!Kill(q)
       PROVE  Qualified'
    BY <1>14, <1>16 DEF Q!Kill
<1> QED
    BY <1>1, <1>2, <1>3, <1>4, <1>5, <1>6, <1>7, <1>8, <1>9, <1>11, <1>12, <1>13, <1>15, <1>16
    DEF Q!Qualify

LEMMA QualificationStep ==
    ASSUME Qualified, Q!Next
    PROVE  Qualified'
<1>0. project \in Q!Projects /\ head \in Q!Projects
    BY DEF Qualified, Q!TypeOK
<1>1. ASSUME NEW s \in Q!Sources, NEW r \in Revisions, Q!Edit(s, r)
      PROVE  Qualified'
    <2>1. project' \in Q!Projects /\ head' = head
        BY <1>0, <1>1 DEF Q!Edit, Q!Projects
    <2> QED
        BY <1>0, <1>1, <2>1, Disturbed DEF Q!Edit
<1>2. ASSUME Q!Commit
      PROVE  Qualified'
    BY <1>0, <1>2, Disturbed DEF Q!Commit
<1> QED
    BY <1>1, <1>2, InvocationStep DEF Q!Next

-----------------------------------------------------------------------------
(* The pipeline. *)

LEMMA Parts == IInv <=> ServerInv /\ Compiled /\ Qualified
BY DEF IInv, Compiled, Qualified

LEMMA ServerStarts == ASSUME ServerInit PROVE ServerInv
<1>0. /\ stored = [rows |-> Stock, approvals |-> << >>, artifacts |-> blobs, audit |-> {}]
      /\ seen = stored /\ call = None /\ answered = {} /\ calls = 0 /\ faults = 0 /\ crashes = 0
      /\ blobs = {Stock[k].blob : k \in {k \in Kinds : Stock[k] # None}} \ {None}
    BY DEF ServerInit
<1>1. ASSUME NEW k \in Kinds, Stock[k] # None
      PROVE  Stock[k].blob \in Blobs \cup {None}
    <2>1. Stock[k] \in Rows
        BY <1>1, StockAssumption
    <2> QED
        BY <2>1 DEF Rows
<1>2. blobs \subseteq Blobs
    BY <1>0, <1>1
<1>3. stored \in Databases
    <2>1. Stock \in [Kinds -> Rows \cup {None}]
        BY StockAssumption
    <2> QED
        BY <1>0, <1>2, <2>1 DEF Databases
<1>4. ServerTypeOK
    BY <1>0, <1>2, <1>3 DEF ServerTypeOK
<1>5. Keeps(stored, seen)
    BY <1>0, <1>3, KeepsItself
<1>6. CallIsEarned
    BY <1>0 DEF CallIsEarned, EarnedIn
<1>7. LedgerIsSigned
    BY <1>0 DEF LedgerIsSigned, SignedIn
<1>8. AnsweredIsDurable /\ ApprovalTakesEffect
    BY <1>0 DEF AnsweredIsDurable, ApprovalTakesEffect
<1> QED
    BY <1>4, <1>5, <1>6, <1>7, <1>8 DEF ServerInv

LEMMA CompilerStarts == ASSUME CompilerInit PROVE Compiled
<1>1. CompilerTypeOK(Snapshots)
    BY CompilerAssumption DEF CompilerInit, CompilerTypeOK
<1>2. BuildIsFounded
    BY DEF CompilerInit, BuildIsFounded, Idle
<1>3. VerifiedIsApproved
    BY DEF CompilerInit, VerifiedIsApproved
<1> QED
    BY <1>1, <1>2, <1>3 DEF Compiled

LEMMA QualificationStarts == ASSUME Q!Init PROVE Qualified
<1>0. /\ head = [s \in Q!Sources |-> First] /\ project \in Checkouts
      /\ evidence = [g \in Q!Gates |-> None] /\ signing = None /\ trusted = {}
      /\ quals = [q \in Invocations |-> Q!Idle]
    BY DEF Q!Init
<1>1. head \in Q!Projects /\ project \in Q!Projects
    BY <1>0, QualificationAssumption DEF Q!Projects
<1>2. Q!TypeOK
    BY <1>0, <1>1 DEF Q!TypeOK
<1>3. \A q \in Invocations : quals[q].pc = "idle"
    BY <1>0 DEF Q!Idle
<1>4. Q!FoundIsOne /\ Q!QualifiedIsExact
    BY <1>3 DEF Q!FoundIsOne, Q!QualifiedIsExact, Q!Running, Q!At
<1> QED
    BY <1>2, <1>4 DEF Qualified

LEMMA QualifiedStays == ASSUME Qualified, UNCHANGED qualificationVars PROVE Qualified'
<1>1. /\ project' = project /\ head' = head /\ evidence' = evidence /\ signing' = signing
      /\ trusted' = trusted /\ quals' = quals
    BY DEF qualificationVars
<1>2. Q!TypeOK'
    BY <1>1 DEF Qualified, Q!TypeOK
<1>3. Q!FoundIsOne'
    BY <1>1 DEF Qualified, Q!FoundIsOne, Q!Running, Q!Found
<1>4. Q!QualifiedIsExact'
    BY <1>1 DEF Qualified, Q!QualifiedIsExact, Q!At, Q!Exact
<1> QED
    BY <1>2, <1>3, <1>4 DEF Qualified

LEMMA ServerStays ==
    ASSUME ServerInv, UNCHANGED serverVars
    PROVE  ServerInv' /\ Keeps(stored, stored') /\ answered \subseteq answered'
<1>1. /\ stored' = stored /\ seen' = seen /\ blobs' = blobs /\ call' = call /\ answered' = answered
      /\ calls' = calls /\ faults' = faults /\ crashes' = crashes
    BY DEF serverVars
<1>2. /\ stored \in Databases /\ seen \in Databases /\ blobs \subseteq Blobs
      /\ call \in Handlers \cup {None} /\ calls \in Nat /\ faults \in Nat /\ crashes \in Nat
      /\ Keeps(stored, seen) /\ SignedIn(seen) /\ EarnedIn(seen, blobs, call)
    BY DEF ServerInv, ServerTypeOK, LedgerIsSigned, CallIsEarned
<1>3. Keeps(stored, stored)
    BY <1>2, KeepsItself
<1> QED
    BY <1>1, <1>2, <1>3, Moved

\* Each part keeps its invariant in its own steps and in those of the others.
LEMMA PipelineStep ==
    ASSUME IInv, [Next]_vars
    PROVE  IInv' /\ Keeps(stored, stored')
<1>0. ServerInv /\ Compiled /\ Qualified
    BY Parts
<1>c. ASSUME ServerInv', Compiled', Qualified'
      PROVE  IInv'
    BY <1>c DEF IInv, Compiled, Qualified
<1>1. ASSUME ServerInv' /\ Keeps(stored, stored') /\ answered \subseteq answered',
             UNCHANGED compilerVars
      PROVE  Compiled'
    <2>1. stored \in Databases /\ stored' \in Databases
        BY <1>0, <1>1 DEF ServerInv, ServerTypeOK
    <2> QED
        BY <1>0, <1>1, <2>1, CompiledStays
<1>2. CASE ServerNext /\ UNCHANGED compilerVars /\ UNCHANGED qualificationVars
    BY <1>0, <1>1, <1>2, ServerStep, QualifiedStays, <1>c
<1>3. CASE /\ CompilerNext(Snapshots, ApprovalRoles) /\ UNCHANGED serverVars
           /\ UNCHANGED qualificationVars
    BY <1>0, <1>3, ServerStays, CompilerStep, QualifiedStays, <1>c
<1>4. CASE Q!Next /\ UNCHANGED serverVars /\ UNCHANGED compilerVars
    BY <1>0, <1>1, <1>4, ServerStays, QualificationStep, <1>c
<1>5. CASE UNCHANGED vars
    <2>1. UNCHANGED serverVars /\ UNCHANGED compilerVars /\ UNCHANGED qualificationVars
        BY <1>5 DEF vars, serverVars, compilerVars, qualificationVars
    <2> QED
        BY <1>0, <1>1, <2>1, ServerStays, QualifiedStays, <1>c
<1> QED
    BY <1>2, <1>3, <1>4, <1>5 DEF Next

\* The parts together: what the handler in progress will tell is in the open transaction, which
\* keeps the file; the evidence a build verified with keys is approved in the file; what a qualification has
\* found while it was left alone is of one project.
THEOREM Invariance == Spec => []IInv
<1>1. Init => IInv
    BY ServerStarts, CompilerStarts, QualificationStarts, Parts DEF Init
<1>2. IInv /\ [Next]_vars => IInv'
    BY PipelineStep
<1> QED
    BY <1>1, <1>2, PTL DEF Spec

\* Every variable has its type; so has whatever was told to a caller.
THEOREM TypeCorrect == Spec => []TypeOK
<1>1. IInv => TypeOK
    BY DEF IInv, ServerInv, TypeOK
<1> QED
    BY <1>1, Invariance, PTL

\* What a caller was told of a publication, a deprecation, an upload, an approval or a snapshot is
\* in the database file with its audit entry and stays there, whatever commits failed before, and
\* across crashes.
THEOREM AnswersAreDurable == Spec => []AnsweredIsDurable
<1>1. IInv => AnsweredIsDurable
    BY DEF IInv, ServerInv
<1> QED
    BY <1>1, Invariance, PTL

\* Who is told that his vote approved the recipe finds it APPROVED, although ledger and status
\* are two commits.
THEOREM ApprovalsTakeEffect == Spec => []ApprovalTakesEffect
<1>1. IInv => ApprovalTakesEffect
    BY DEF IInv, ServerInv
<1> QED
    BY <1>1, Invariance, PTL

\* No step of the server, a crash included, rewrites what was released, or any vote.
THEOREM ReleasedEntitiesAreKept == Spec => ReleasedIsKept
<1>1. IInv /\ [Next]_vars =>
          [/\ \A k \in Kinds \ {"project"} :
                  stored.rows[k] # None =>
                      stored'.rows[k] # None /\ Rest(stored'.rows[k]) = Rest(stored.rows[k])
           /\ Begins(stored.approvals, stored'.approvals)]_stored
    BY PipelineStep DEF Keeps
<1> QED
    BY <1>1, Invariance, PTL DEF Spec, ReleasedIsKept

\* With the platform's public keys, the compiler verifies evidence only of the recipe the platform
\* stores, with two independent approvals in its ledger: another status at publication, a lost
\* commit, a crash, an old snapshot or a document nobody issued does not get a recipe past it.
THEOREM VerifiedMeansApproved == Spec => []VerifiedIsApproved
<1>1. IInv => VerifiedIsApproved
    BY DEF IInv
<1> QED
    BY <1>1, Invariance, PTL

\* A release qualified while nobody edited or committed is exactly the revision its report names,
\* by its digests, the tree that was driven, the bundle and the L2 scene, with rows of its own.
THEOREM QualifiedMeansExact == Spec => []QualifiedIsExact
<1>1. IInv => QualifiedIsExact
    BY DEF IInv, QualifiedIsExact
<1> QED
    BY <1>1, Invariance, PTL

-----------------------------------------------------------------------------
(* The agent of a cell. *)

Operations == [phase : {"idle"} \cup Phases, step : {"none"} \cup Steps,
               cand : MaybeBundle, prev : MaybeBundle, bad : BOOLEAN]

\* The operation goes on at another step, of another phase or of its own.
Moves(phase, step, bad) ==
    /\ op' = [phase |-> phase, step |-> step, cand |-> op.cand, prev |-> op.prev, bad |-> bad]
    /\ UNCHANGED result

\* Where an operation stands after a step that succeeded.
LEMMA ProceedCases ==
    ASSUME op \in Operations, op.phase # "idle", Proceed
    PROVE  \/ op.step = "copy" /\ Moves(op.phase, "rename", op.bad)
           \/ op.step = "rename" /\ Moves(op.phase, "select", op.bad)
           \/ op.step = "select" /\ Moves(op.phase, "environment", op.bad)
           \/ op.step = "environment" /\ op.phase = "install" /\ Moves(op.phase, "stop", op.bad)
           \/ op.step = "environment" /\ op.phase # "install" /\ Moves(op.phase, "link", op.bad)
           \/ op.step = "stop" /\ op.phase = "install" /\ Moves(op.phase, "link", op.bad)
           \/ op.step = "stop" /\ op.phase = "restore" /\ op.prev = NoBundle
              /\ End("nothing_restored")
           \/ op.step = "stop" /\ op.phase \in {"undo", "rollback"} /\ Aim = NoBundle
              /\ Moves(op.phase, "clear", op.bad)
           \/ op.step = "stop" /\ op.phase # "install" /\ Aim # NoBundle
              /\ Moves(op.phase, "environment", op.bad)
           \/ op.step = "link" /\ Moves(op.phase, "start", op.bad)
           \/ op.step = "start" /\ Moves(op.phase, "health", op.bad)
           \/ op.step = "health" /\ op.phase = "restore" /\ End("rollback.failed")
           \/ op.step = "health" /\ op.phase # "restore" /\ Moves(op.phase, "record", op.bad)
           \/ op.step = "clear" /\ Moves(op.phase, "record", op.bad)
           \/ op.step \in {"none", "record", "state"} /\ Moves(op.phase, "state", op.bad)
<1>1. op = [phase |-> op.phase, step |-> op.step, cand |-> op.cand, prev |-> op.prev,
            bad |-> op.bad]
    BY DEF Operations
<1>2. CASE op.phase = "restore" /\ op.step = "stop" /\ op.prev = NoBundle
    BY <1>2 DEF Proceed
<1>3. CASE op.phase = "restore" /\ op.step = "health"
    BY <1>3 DEF Proceed
<1>4. CASE /\ ~(op.phase = "restore" /\ op.step = "stop" /\ op.prev = NoBundle)
           /\ ~(op.phase = "restore" /\ op.step = "health")
    <2>1. op' = [op EXCEPT !.step = After(op.step)] /\ UNCHANGED result
        BY <1>4 DEF Proceed, Goto
    <2>2. Moves(op.phase, After(op.step), op.bad)
        BY <1>1, <2>1 DEF Moves, Operations
    <2>3. \/ op.step = "copy" /\ After(op.step) = "rename"
          \/ op.step = "rename" /\ After(op.step) = "select"
          \/ op.step = "select" /\ After(op.step) = "environment"
          \/ op.step = "environment" /\ op.phase = "install" /\ After(op.step) = "stop"
          \/ op.step = "environment" /\ op.phase # "install" /\ After(op.step) = "link"
          \/ op.step = "stop" /\ op.phase = "install" /\ After(op.step) = "link"
          \/ op.step = "stop" /\ op.phase # "install" /\ Aim = NoBundle /\ After(op.step) = "clear"
          \/ op.step = "stop" /\ op.phase # "install" /\ Aim # NoBundle
             /\ After(op.step) = "environment"
          \/ op.step = "link" /\ After(op.step) = "start"
          \/ op.step = "start" /\ After(op.step) = "health"
          \/ op.step \in {"health", "clear"} /\ After(op.step) = "record"
          \/ op.step \in {"none", "record", "state"} /\ After(op.step) = "state"
        BY DEF After, Operations, Steps
    <2>4. op.step = "stop" /\ op.phase = "restore" => Aim # NoBundle
        BY <1>4 DEF Aim
    <2>5. op.phase \in {"install", "undo", "rollback", "restore"}
        BY DEF Operations, Phases
    <2> QED
        BY <1>4, <2>2, <2>3, <2>4, <2>5
<1> QED
    BY <1>2, <1>3, <1>4

\* Where it stands after one that raised.
LEMMA RaiseCases ==
    ASSUME op \in Operations, op.phase # "idle", Raise
    PROVE  \/ End("error")
           \/ /\ op.phase = "install" /\ op.step \in {"link", "start", "health", "record", "state"}
              /\ Moves("undo", "stop", op.bad)
           \/ op.phase \in {"undo", "restore"} /\ op.step = "stop" /\ Proceed
           \/ /\ op.phase = "undo" /\ op.step \in {"environment", "link", "start", "health"}
              /\ Moves("undo", "record", TRUE)
           \/ /\ op.phase = "rollback" /\ op.step \in {"environment", "link", "start", "health"}
              /\ Moves("restore", "stop", op.bad)
<1>1. op = [phase |-> op.phase, step |-> op.step, cand |-> op.cand, prev |-> op.prev,
            bad |-> op.bad]
    BY DEF Operations
<1>2. ASSUME NEW phase, Enter(phase) PROVE Moves(phase, "stop", op.bad)
    BY <1>1, <1>2 DEF Enter, Moves, Operations
<1>3. ASSUME op' = [op EXCEPT !.step = "record", !.bad = TRUE], UNCHANGED result,
             op.phase = "undo"
      PROVE  Moves("undo", "record", TRUE)
    BY <1>1, <1>3 DEF Moves, Operations
<1> QED
    BY <1>2, <1>3 DEF Raise

\* An operation that goes on or ends stays one.
LEMMA OpType ==
    ASSUME AgentTypeOK, op.phase # "idle", Proceed \/ Raise
    PROVE  op' \in Operations /\ result' \in Results
<1> USE DEF Operations, Phases, Steps, MaybeBundle, Results, Settled
<1>0. op \in Operations /\ result \in Results
    BY DEF AgentTypeOK
<1>1. ASSUME NEW phase \in Phases, NEW step \in Steps, NEW bad \in BOOLEAN,
             Moves(phase, step, bad)
      PROVE  op' \in Operations /\ result' \in Results
    BY <1>0, <1>1 DEF Moves
<1>2. ASSUME NEW r \in Results, End(r) PROVE op' \in Operations /\ result' \in Results
    BY <1>2 DEF End, AgentIdle
<1>3. op.phase \in Phases /\ op.bad \in BOOLEAN
    BY <1>0
<1>4. CASE Proceed
    BY <1>0, <1>1, <1>2, <1>3, <1>4, ProceedCases
<1>5. CASE Raise
    BY <1>0, <1>1, <1>2, <1>3, <1>4, <1>5, RaiseCases
<1> QED
    BY <1>4, <1>5

\* A step of the agent, or beside it, keeps the types.
LEMMA TypeStep == AgentTypeOK /\ [AgentNext]_agentVars => AgentTypeOK'
<1> SUFFICES ASSUME AgentTypeOK, [AgentNext]_agentVars PROVE AgentTypeOK'
    OBVIOUS
<1> DEFINE OpFine == op' \in Operations /\ result' \in Results
<1>0. ASSUME op.phase # "idle", Proceed \/ Raise PROVE OpFine
    BY <1>0, OpType
<1>a. op \in Operations /\ AgentIdle \in Operations /\ Aim \in MaybeBundle
    BY DEF AgentTypeOK, Operations, AgentIdle, MaybeBundle, Aim
<1> USE DEF AgentTypeOK, disk, MaybeBundle, At
<1>1. ASSUME NEW b \in Bundles, Install(b) PROVE AgentTypeOK'
    BY <1>1 DEF Install, Phases, Steps, Results
<1>2. ASSUME NEW b \in Bundles, RevokeKey(b) PROVE AgentTypeOK'
    BY <1>2 DEF RevokeKey
<1>3. CASE Rollback
    BY <1>3 DEF Rollback, Phases, Steps, Results
<1>4. CASE CopyToStaging
    <2>1. OpFine
        BY <1>0, <1>4 DEF CopyToStaging
    <2> QED
        BY <1>4, <2>1 DEF CopyToStaging, Operations
<1>5. CASE RenameRelease
    <2>1. OpFine
        BY <1>0, <1>5 DEF RenameRelease
    <2> QED
        BY <1>5, <2>1 DEF RenameRelease, Operations
<1>6. CASE ReadPrevious
    <2>1. OpFine
        <3>1. CASE op' = [op EXCEPT !.step = "environment", !.prev = link] /\ UNCHANGED result
            BY <1>a, <3>1 DEF Operations, Steps
        <3> QED
            BY <1>0, <1>6, <3>1 DEF ReadPrevious
    <2> QED
        BY <1>6, <2>1 DEF ReadPrevious, Operations
<1>7. CASE StopUnit
    <2>1. OpFine
        BY <1>0, <1>7 DEF StopUnit
    <2> QED
        BY <1>7, <2>1 DEF StopUnit, Operations
<1>8. CASE PrepareEnvironment
    <2>1. OpFine
        BY <1>0, <1>8 DEF PrepareEnvironment
    <2> QED
        BY <1>8, <1>a, <2>1 DEF PrepareEnvironment, Operations
<1>9. CASE ClearActive
    <2>1. OpFine
        BY <1>0, <1>9 DEF ClearActive
    <2> QED
        BY <1>9, <2>1 DEF ClearActive, Operations
<1>10. CASE ActivateLink
    <2>1. OpFine
        BY <1>0, <1>10 DEF ActivateLink
    <2> QED
        BY <1>10, <1>a, <2>1 DEF ActivateLink, Operations
<1>11. CASE StartUnit
    <2>1. OpFine
        BY <1>0, <1>11 DEF StartUnit
    <2>2. /\ env' \in MaybeBundle /\ running' \in MaybeBundle /\ overtaken' \in BOOLEAN
          /\ UNCHANGED <<releases, staging, signed, link, state, journal, guard>>
        <3>1. \/ env' = link /\ overtaken' = FALSE /\ running' = link
              \/ env' = env /\ overtaken' = overtaken /\ running' = running
            BY <1>11 DEF StartUnit, Boot
        <3>2. UNCHANGED <<releases, staging, signed, link, state, journal, guard>>
            BY <1>11 DEF StartUnit
        <3>3. {link, env, running} \subseteq MaybeBundle /\ overtaken \in BOOLEAN
            OBVIOUS
        <3> HIDE DEF AgentTypeOK, MaybeBundle
        <3> QED
            BY <3>1, <3>2, <3>3
    <2> QED
        BY <2>1, <2>2 DEF Operations
<1>12. CASE WaitHealthy
    <2>1. OpFine
        BY <1>0, <1>12 DEF WaitHealthy
    <2> QED
        BY <1>12, <2>1 DEF WaitHealthy, Operations
<1>13. CASE RecordEvent
    <2>1. OpFine
        BY <1>0, <1>13 DEF RecordEvent
    <2> QED
        BY <1>13, <1>a, <2>1 DEF RecordEvent, Operations
<1>14. CASE WriteState
    <2>1. OpFine
        <3>1. ASSUME NEW r \in Results, End(r) PROVE OpFine
            BY <1>a, <3>1 DEF End
        <3>2. {"activated", "activation.rolled_back", "rolled-back"} \subseteq Results
            BY DEF Results, Settled
        <3> QED
            BY <1>0, <1>14, <3>1, <3>2 DEF WriteState
    <2>2. state' = state \/ \E r \in {"activated", "rolled-back", "rollback-failed"} :
                                 state' = NewState(r)
        BY <1>14 DEF WriteState
    <2> QED
        BY <1>14, <1>a, <2>1, <2>2 DEF WriteState, NewState, Operations
<1>15. CASE GuardReads \/ RuntimeRestarts
    BY <1>15 DEF GuardReads, RuntimeRestarts
<1>16. CASE GuardWrites
    <2>1. overtaken' \in BOOLEAN
        BY <1>16 DEF GuardWrites
    <2>2. env' \in MaybeBundle /\ guard' \in MaybeBundle
        BY <1>16 DEF GuardWrites
    <2> QED
        BY <1>16, <2>1, <2>2 DEF GuardWrites
<1>17. CASE Die
    BY <1>17, <1>a DEF Die, End, Operations, Results
<1>18. CASE Reboot
    <2>1. OpFine
        BY <1>18, <1>a DEF Reboot, Results
    <2>2. /\ env' \in MaybeBundle /\ running' \in MaybeBundle /\ overtaken' \in BOOLEAN
          /\ guard' = NoBundle /\ staging' = "absent"
          /\ UNCHANGED <<releases, signed, link, state, journal>>
        <3>1. \/ env' = link /\ overtaken' = FALSE /\ running' = link
              \/ running' = NoBundle /\ UNCHANGED <<env, overtaken>>
            BY <1>18 DEF Reboot
        <3>2. /\ guard' = NoBundle /\ staging' = "absent"
              /\ UNCHANGED <<releases, signed, link, state, journal>>
            BY <1>18 DEF Reboot
        <3>3. link \in MaybeBundle /\ env \in MaybeBundle /\ overtaken \in BOOLEAN
            OBVIOUS
        <3>4. /\ env' = link \/ env' = env
              /\ overtaken' = FALSE \/ overtaken' = overtaken
            BY <3>1
        <3>6. env' \in MaybeBundle
            BY <3>3, <3>4
        <3>7. overtaken' \in BOOLEAN
            BY <3>3, <3>4
        <3>8. running' \in MaybeBundle
            BY <3>1, <3>3 DEF MaybeBundle
        <3> QED
            BY <3>2, <3>6, <3>7, <3>8
    <2> QED
        BY <2>1, <2>2 DEF Operations
<1>19. CASE UNCHANGED agentVars
    BY <1>19 DEF agentVars
<1> QED
    BY <1>1, <1>2, <1>3, <1>4, <1>5, <1>6, <1>7, <1>8, <1>9, <1>10, <1>11, <1>12,
       <1>13, <1>14, <1>15, <1>16, <1>17, <1>18, <1>19 DEF AgentNext, Locked

\* A target without releases is of the right types.
LEMMA TypeInit == AgentInit => AgentTypeOK
<1> SUFFICES ASSUME AgentInit PROVE AgentTypeOK
    OBVIOUS
<1>1. op \in Operations /\ result \in Results /\ signed \in SUBSET Bundles
    BY DEF AgentInit, AgentIdle, Operations, MaybeBundle, Results
<1>2. releases \in [Bundles -> {"absent", "intact", "altered"}]
    BY DEF AgentInit
<1> QED
    BY <1>1, <1>2 DEF AgentInit, AgentTypeOK, Operations, MaybeBundle

\* Type correctness of the agent.
THEOREM AgentTypeCorrect == AgentSpec => []AgentTypeOK
    BY TypeInit, TypeStep, PTL DEF AgentSpec

-----------------------------------------------------------------------------
(* The inductive step.  Where an operation raised, nothing it has written so  *)
(* far is relied on any more; where it went on, one more thing is in place.   *)

Kept == Intact' /\ Aimed' /\ ReportedIsReal' /\ RecordedIsSelected'

\* An operation that raises, or has nothing to restore, owes nothing yet.
LEMMA RaiseKeeps ==
    ASSUME AgentIInv, op.phase # "idle", Raise,
           (\A b \in {link, env, running, guard, state.active, state.previous} \ {NoBundle} :
               releases[b] = "intact")',
           \A b \in MaybeBundle \ {NoBundle} : releases[b] = "intact" => releases'[b] = "intact"
    PROVE  Kept
<1>0. op \in Operations /\ op.prev \in MaybeBundle /\ op.cand \in MaybeBundle
    BY DEF AgentIInv, AgentTypeOK, Operations
<1>1. /\ op.prev # NoBundle => releases'[op.prev] = "intact"
      /\ op.phase \in {"rollback", "restore"} =>
            op.cand # NoBundle /\ releases'[op.cand] = "intact"
    BY <1>0 DEF AgentIInv, Intact
<1> DEFINE Out == \/ /\ op' = AgentIdle
                     /\ result' \notin Settled \cup {"booted"}
                  \/ /\ op'.phase \in {"undo", "restore"}
                     /\ op'.phase = "restore" => op.phase \in {"rollback", "restore"}
                     /\ op'.step \in {"stop", "environment", "clear"}
                     /\ op'.step = "clear" => op'.phase = "undo" /\ op.prev = NoBundle
                     /\ op'.cand = op.cand /\ op'.prev = op.prev /\ op'.bad = FALSE
                  \/ /\ op'.phase = "undo" /\ op'.step = "record" /\ op'.bad = TRUE
                     /\ op'.cand = op.cand /\ op'.prev = op.prev
<1>2. Out
    <2>1. op.bad \in BOOLEAN /\ (op.bad => op.phase = "undo" /\ op.step \in {"record", "state"})
        BY <1>0 DEF AgentIInv, Aimed, Operations
    <2>2. CASE End("error")
        BY <2>2 DEF End, Settled
    <2>3. CASE /\ op.phase = "install"
               /\ op.step \in {"link", "start", "health", "record", "state"}
               /\ Moves("undo", "stop", op.bad)
        BY <2>1, <2>3 DEF Moves
    <2>4. CASE op.phase \in {"undo", "restore"} /\ op.step = "stop" /\ Proceed
        <3>1. \/ End("nothing_restored")
              \/ Aim = NoBundle /\ op.phase = "undo" /\ Moves(op.phase, "clear", op.bad)
              \/ Moves(op.phase, "environment", op.bad)
            BY <1>0, <2>4, ProceedCases
        <3> QED
            BY <2>1, <2>4, <3>1 DEF End, Moves, Aim, Settled
    <2>5. CASE /\ op.phase = "undo" /\ op.step \in {"environment", "link", "start", "health"}
               /\ Moves("undo", "record", TRUE)
        BY <2>5 DEF Moves
    <2>6. CASE /\ op.phase = "rollback" /\ op.step \in {"environment", "link", "start", "health"}
               /\ Moves("restore", "stop", op.bad)
        BY <2>1, <2>6 DEF Moves
    <2> QED
        BY <1>0, <2>2, <2>3, <2>4, <2>5, <2>6, RaiseCases
<1>3. Intact'
    BY <1>1, <1>2 DEF Intact, AgentIdle
<1>4. Aimed'
    BY <1>2 DEF Aimed, AgentIdle, Projected, Aim
<1>5. ReportedIsReal' /\ RecordedIsSelected'
    BY <1>2 DEF ReportedIsReal, RecordedIsSelected, AgentIdle, Settled
<1> QED
    BY <1>3, <1>4, <1>5 DEF Kept

\* The invariant is kept by every step of the agent, or beside it.
LEMMA InvStep == AgentIInv /\ [AgentNext]_agentVars => AgentIInv'
<1> SUFFICES ASSUME AgentIInv, [AgentNext]_agentVars PROVE AgentIInv'
    OBVIOUS
<1> USE NoBundleAssumption
<1>0. /\ AgentTypeOK' /\ AgentTypeOK /\ Intact /\ Aimed /\ ReportedIsReal /\ RecordedIsSelected
      /\ op \in Operations
    BY TypeStep DEF AgentIInv, AgentTypeOK, Operations
<1>a. \A b \in {link, env, running, guard, state.active, state.previous} \ {NoBundle} :
          releases[b] = "intact"
    BY <1>0 DEF Intact
<1>b. ASSUME NEW phase, NEW step, NEW bad, Moves(phase, step, bad)
      PROVE  /\ op'.phase = phase /\ op'.step = step /\ op'.bad = bad
             /\ op'.cand = op.cand /\ op'.prev = op.prev /\ UNCHANGED result
    BY <1>b DEF Moves
<1>c. AgentIdle.phase = "idle" /\ AgentIdle.step = "none" /\ AgentIdle.bad = FALSE /\ AgentIdle.prev = NoBundle
    BY DEF AgentIdle
<1>1. ASSUME NEW b \in Bundles, Install(b) PROVE Kept
    <2>1. /\ op' = [phase |-> "install", cand |-> b, prev |-> NoBundle, bad |-> FALSE,
                    step |-> IF releases[b] = "absent" THEN "copy" ELSE "select"]
          /\ UNCHANGED <<disk, signed, link, env, running, state, journal, guard, overtaken>>
        BY <1>1 DEF Install
    <2>2. /\ op'.phase = "install" /\ op'.step \in {"copy", "select"}
          /\ op'.prev = NoBundle /\ ~op'.bad
        BY <2>1
    <2>3. Intact'
        BY <1>a, <2>1, <2>2 DEF Intact, disk
    <2>4. Aimed'
        BY <2>2 DEF Aimed, Projected
    <2> QED
        BY <1>c, <2>2, <2>3, <2>4 DEF Kept, ReportedIsReal, RecordedIsSelected
<1>2. ASSUME NEW b \in Bundles, RevokeKey(b) PROVE Kept
    BY <1>0, <1>2 DEF RevokeKey, disk, Kept, Intact, Aimed, Projected, Aim, ReportedIsReal,
                      RecordedIsSelected, Confessed
<1>3. ASSUME Rollback PROVE Kept
    <2>1. /\ op' = [phase |-> "rollback", step |-> "stop", cand |-> state.previous, prev |-> link,
                    bad |-> FALSE]
          /\ UNCHANGED <<disk, signed, link, env, running, state, journal, guard, overtaken>>
          /\ state.previous # NoBundle
        BY <1>3 DEF Rollback
    <2>2. /\ op'.phase = "rollback" /\ op'.step = "stop" /\ op'.prev = link /\ ~op'.bad
          /\ op'.cand = state.previous
        BY <2>1
    <2>3. Intact'
        BY <1>a, <2>1, <2>2 DEF Intact, disk
    <2>4. Aimed'
        BY <2>2 DEF Aimed, Projected
    <2> QED
        BY <1>c, <2>2, <2>3, <2>4 DEF Kept, ReportedIsReal, RecordedIsSelected
<1>d. ASSUME op.phase # "idle", op.step \notin {"copy", "rename", "select"}, Aim # NoBundle
      PROVE  releases[Aim] = "intact" /\ Aim \in MaybeBundle
    BY <1>0, <1>d DEF Intact, Aim, Operations, Phases
<1>e. op.step \notin {"record", "state"} => op.bad = FALSE
    BY <1>0 DEF Aimed, Operations
<1>f. \A b \in MaybeBundle \ {NoBundle} : b \in Bundles
    BY DEF MaybeBundle
<1>4. ASSUME CopyToStaging PROVE Kept
    <2>1. /\ op.phase # "idle" /\ op.step = "copy"
          /\ UNCHANGED <<releases, signed, link, env, running, state, journal, guard, overtaken>>
        BY <1>4 DEF CopyToStaging, At
    <2>2. CASE Raise
        BY <1>a, <2>1, <2>2, RaiseKeeps
    <2>3. CASE Proceed
        <3>1. Moves(op.phase, "rename", op.bad)
            BY <1>0, <2>1, <2>3, ProceedCases
        <3> QED
            BY <1>0, <1>b, <1>c, <1>e, <2>1, <3>1
               DEF Kept, Intact, Aimed, Projected, ReportedIsReal, RecordedIsSelected
    <2> QED
        BY <1>4, <2>2, <2>3 DEF CopyToStaging
<1>5. ASSUME RenameRelease PROVE Kept
    <2>1. /\ op.phase # "idle" /\ op.step = "rename"
          /\ UNCHANGED <<signed, link, env, running, state, journal, guard, overtaken>>
        BY <1>5 DEF RenameRelease, At
    <2>2. \A b \in MaybeBundle \ {NoBundle} : releases[b] = "intact" => releases'[b] = "intact"
        BY <1>0, <1>5, <1>f DEF RenameRelease, VerifyContent, AgentTypeOK
    <2>3. {link, env, running, guard, state.active, state.previous, op.prev, op.cand}
              \subseteq MaybeBundle
        BY <1>0 DEF AgentTypeOK, Operations
    <2>4. CASE Raise
        BY <1>a, <2>1, <2>2, <2>3, <2>4, RaiseKeeps
    <2>5. CASE Proceed
        <3>1. Moves(op.phase, "select", op.bad)
            BY <1>0, <2>1, <2>5, ProceedCases
        <3>2. Intact'
            BY <1>0, <1>b, <2>1, <2>2, <2>3, <3>1 DEF Intact
        <3> QED
            BY <1>0, <1>b, <1>c, <1>e, <2>1, <3>1, <3>2
               DEF Kept, Aimed, Projected, ReportedIsReal, RecordedIsSelected
    <2> QED
        BY <1>5, <2>4, <2>5 DEF RenameRelease
<1>6. ASSUME ReadPrevious PROVE Kept
    <2>1. /\ op.phase # "idle" /\ op.step = "select"
          /\ UNCHANGED <<disk, signed, link, env, running, state, journal, guard, overtaken>>
        BY <1>6 DEF ReadPrevious, At
    <2>2. CASE Raise
        BY <1>a, <2>1, <2>2, RaiseKeeps DEF disk
    <2>3. CASE /\ VerifiedRelease(op.cand)
               /\ op' = [op EXCEPT !.step = "environment", !.prev = link] /\ UNCHANGED result
        <3>1. /\ op'.phase = op.phase /\ op'.step = "environment" /\ op'.cand = op.cand
              /\ op'.prev = link /\ op'.bad = op.bad
            BY <1>0, <2>3 DEF Operations
        <3>2. op.cand # NoBundle /\ releases[op.cand] = "intact"
            BY <2>3 DEF VerifiedRelease, VerifyContent
        <3> QED
            BY <1>a, <1>c, <1>e, <2>1, <3>1, <3>2
               DEF Kept, Intact, Aimed, Projected, ReportedIsReal, RecordedIsSelected, disk
    <2> QED
        BY <1>6, <2>2, <2>3 DEF ReadPrevious
<1>7. ASSUME StopUnit PROVE Kept
    <2>1. /\ op.phase # "idle" /\ op.step = "stop"
          /\ UNCHANGED <<disk, signed, link, env, state, journal, guard, overtaken>>
          /\ running' \in {running, NoBundle}
        BY <1>7 DEF StopUnit, At
    <2>2. CASE Raise
        BY <1>a, <2>1, <2>2, RaiseKeeps DEF disk
    <2>3. CASE Proceed
        <3>1. CASE op.phase = "install" /\ Moves(op.phase, "link", op.bad)
            <4>1. Intact'
                BY <1>0, <1>b, <2>1, <3>1 DEF Intact, disk
            <4>2. Aimed'
                BY <1>0, <1>b, <1>e, <2>1, <3>1 DEF Aimed, Projected, Aim
            <4> QED
                BY <1>b, <1>c, <3>1, <4>1, <4>2
                   DEF Kept, ReportedIsReal, RecordedIsSelected
        <3>2. CASE End("nothing_restored")
            BY <1>0, <1>a, <1>c, <2>1, <3>2
               DEF End, Kept, Intact, Aimed, Projected, AgentIdle, ReportedIsReal,
                   RecordedIsSelected, Settled, disk
        <3>3. CASE \/ op.phase \in {"undo", "rollback"} /\ Aim = NoBundle /\ Moves(op.phase, "clear", op.bad)
                   \/ op.phase # "install" /\ Moves(op.phase, "environment", op.bad)
            <4>1. op.phase = "rollback" => Aim # NoBundle
                BY <1>0 DEF Intact, Aim
            <4>2. /\ op'.phase = op.phase /\ op'.step \in {"clear", "environment"} /\ op'.bad = op.bad
                  /\ op'.cand = op.cand /\ op'.prev = op.prev /\ op.phase # "install"
                  /\ op'.step = "clear" => op.phase = "undo" /\ op.prev = NoBundle
                BY <1>b, <3>3, <4>1 DEF Aim
            <4>3. Intact'
                BY <1>0, <2>1, <4>2 DEF Intact, disk
            <4>4. Aimed'
                BY <1>e, <2>1, <4>2 DEF Aimed, Projected
            <4> QED
                BY <1>c, <2>1, <4>2, <4>3, <4>4 DEF Kept, ReportedIsReal, RecordedIsSelected
        <3> QED
            BY <1>0, <2>1, <2>3, <3>1, <3>2, <3>3, ProceedCases
    <2> QED
        BY <1>7, <2>2, <2>3 DEF StopUnit
<1>8. ASSUME PrepareEnvironment PROVE Kept
    <2>1. /\ op.phase # "idle" /\ op.step = "environment"
          /\ UNCHANGED <<disk, signed, link, running, state, journal, guard, overtaken>>
          /\ env' \in {env, Aim}
        BY <1>8 DEF PrepareEnvironment, At
    <2>2. CASE Raise
        BY <1>a, <1>d, <2>1, <2>2, RaiseKeeps DEF disk
    <2>3. CASE env' = Aim /\ Proceed
        <3>1. \/ op.phase = "install" /\ Moves(op.phase, "stop", op.bad)
              \/ op.phase # "install" /\ Moves(op.phase, "link", op.bad)
            BY <1>0, <2>1, <2>3, ProceedCases
        <3>2. /\ op'.phase = op.phase /\ op'.step \in {"stop", "link"} /\ op'.bad = op.bad
              /\ op'.cand = op.cand /\ op'.prev = op.prev
            BY <1>b, <3>1
        <3>3. Intact'
            BY <1>0, <1>d, <2>1, <2>3, <3>2 DEF Intact, disk
        <3>4. Aimed'
            BY <1>e, <2>1, <2>3, <3>2 DEF Aimed, Projected, Aim
        <3> QED
            BY <1>c, <2>1, <3>2, <3>3, <3>4 DEF Kept, ReportedIsReal, RecordedIsSelected
    <2> QED
        BY <1>8, <2>2, <2>3 DEF PrepareEnvironment
<1>9. ASSUME ClearActive PROVE Kept
    <2>1. /\ op.phase # "idle" /\ op.step = "clear"
          /\ UNCHANGED <<disk, signed, running, state, journal, guard, overtaken>>
          /\ link' \in {link, NoBundle} /\ env' \in {env, NoBundle}
        BY <1>9 DEF ClearActive, At
    <2>2. CASE Raise
        BY <1>a, <2>1, <2>2, RaiseKeeps DEF disk
    <2>3. CASE link' = NoBundle /\ env' = NoBundle /\ Proceed
        <3>1. Moves(op.phase, "record", op.bad)
            BY <1>0, <2>1, <2>3, ProceedCases
        <3>2. Aim' = NoBundle /\ op.phase = "undo"
            BY <1>0, <1>b, <2>1, <3>1 DEF Aimed, Aim
        <3>3. Intact'
            BY <1>0, <1>b, <2>1, <2>3, <3>1, <3>2 DEF Intact, disk
        <3>4. Aimed'
            BY <1>b, <1>e, <2>1, <2>3, <3>1, <3>2 DEF Aimed
        <3> QED
            BY <1>b, <1>c, <3>1, <3>2, <3>3, <3>4 DEF Kept, ReportedIsReal, RecordedIsSelected
    <2> QED
        BY <1>9, <2>2, <2>3 DEF ClearActive
<1>10. ASSUME ActivateLink PROVE Kept
    <2>1. /\ op.phase # "idle" /\ op.step = "link"
          /\ UNCHANGED <<disk, signed, env, running, state, journal, guard, overtaken>>
          /\ link' \in {link, Aim}
        BY <1>10 DEF ActivateLink, At
    <2>2. CASE Raise
        BY <1>a, <1>d, <2>1, <2>2, RaiseKeeps DEF disk
    <2>3. CASE link' = Aim /\ Proceed
        <3>1. Moves(op.phase, "start", op.bad)
            BY <1>0, <2>1, <2>3, ProceedCases
        <3>2. Aim' = Aim /\ op'.phase = op.phase
            BY <1>b, <3>1 DEF Aim
        <3>3. Intact'
            BY <1>0, <1>b, <1>d, <2>1, <2>3, <3>1 DEF Intact, disk
        <3>4. Aimed'
            BY <1>0, <1>b, <1>e, <2>1, <2>3, <3>1, <3>2 DEF Aimed, Projected
        <3> QED
            BY <1>b, <1>c, <2>1, <3>1, <3>3, <3>4 DEF Kept, ReportedIsReal, RecordedIsSelected
    <2> QED
        BY <1>10, <2>2, <2>3 DEF ActivateLink
<1>11. ASSUME StartUnit PROVE Kept
    <2>1. /\ op.phase # "idle" /\ op.step = "start"
          /\ UNCHANGED <<disk, signed, link, state, journal, guard>>
        BY <1>11 DEF StartUnit, At
    <2>2. \/ env' = link /\ overtaken' = FALSE /\ running' = link
          \/ env' = env /\ overtaken' = overtaken /\ running' = running
        BY <1>11 DEF StartUnit, Boot
    <2>3. CASE Raise
        BY <1>a, <2>1, <2>2, <2>3, RaiseKeeps DEF disk
    <2>4. CASE Proceed
        <3>1. Moves(op.phase, "health", op.bad)
            BY <1>0, <2>1, <2>4, ProceedCases
        <3>2. Aim' = Aim /\ op'.phase = op.phase
            BY <1>b, <3>1 DEF Aim
        <3>3. Intact'
            BY <1>0, <1>b, <2>1, <2>2, <3>1 DEF Intact, disk
        <3>4. link = Aim /\ (~overtaken /\ Aim # NoBundle => env = Aim)
            BY <1>0, <1>e, <2>1 DEF Aimed, Projected
        <3>5. Aimed'
            BY <1>b, <1>e, <2>1, <2>2, <3>1, <3>2, <3>4 DEF Aimed, Projected
        <3> QED
            BY <1>b, <1>c, <2>1, <3>1, <3>3, <3>5 DEF Kept, ReportedIsReal, RecordedIsSelected
    <2> QED
        BY <1>11, <2>3, <2>4 DEF StartUnit
<1>12. ASSUME WaitHealthy PROVE Kept
    <2>1. /\ op.phase # "idle" /\ op.step = "health"
          /\ UNCHANGED <<disk, signed, link, env, running, state, journal, guard, overtaken>>
        BY <1>12 DEF WaitHealthy, At
    <2>2. CASE Raise
        BY <1>a, <2>1, <2>2, RaiseKeeps DEF disk
    <2>3. CASE running = Aim /\ Proceed
        <3>1. link = Aim /\ (~overtaken /\ Aim # NoBundle => env = Aim)
            BY <1>0, <1>e, <2>1 DEF Aimed, Projected
        <3>2. CASE End("rollback.failed")
            <4>1. Intact' /\ Aimed'
                BY <1>0, <1>c, <2>1, <3>2 DEF End, Intact, Aimed, Projected, disk
            <4>2. ReportedIsReal'
                BY <2>1, <2>3, <3>1 DEF ReportedIsReal
            <4> QED
                BY <3>2, <4>1, <4>2 DEF Kept, End, RecordedIsSelected
        <3>3. CASE op.phase # "restore" /\ Moves(op.phase, "record", op.bad)
            <4>1. Aim' = Aim /\ op'.phase = op.phase
                BY <1>b, <3>3 DEF Aim
            <4>2. Intact'
                BY <1>0, <1>b, <2>1, <3>3 DEF Intact, disk
            <4>3. Aimed'
                BY <1>b, <1>e, <2>1, <2>3, <3>1, <3>3, <4>1 DEF Aimed, Projected
            <4> QED
                BY <1>b, <1>c, <2>1, <3>3, <4>2, <4>3 DEF Kept, ReportedIsReal, RecordedIsSelected
        <3> QED
            BY <1>0, <2>1, <2>3, <3>2, <3>3, ProceedCases
    <2> QED
        BY <1>12, <2>2, <2>3 DEF WaitHealthy
<1>13. ASSUME RecordEvent PROVE Kept
    <2>1. /\ op.phase # "idle" /\ op.step = "record"
          /\ UNCHANGED <<disk, signed, link, env, running, state, guard, overtaken>>
        BY <1>13 DEF RecordEvent, At
    <2>2. CASE Raise
        BY <1>a, <2>1, <2>2, RaiseKeeps DEF disk
    <2>3. CASE journal' = Aim /\ Proceed
        <3>1. Moves(op.phase, "state", op.bad)
            BY <1>0, <2>1, <2>3, ProceedCases
        <3>2. Aim' = Aim /\ op'.phase = op.phase
            BY <1>b, <3>1 DEF Aim
        <3>3. Intact'
            BY <1>0, <1>b, <2>1, <3>1 DEF Intact, disk
        <3>4. Aimed'
            BY <1>0, <1>b, <2>1, <2>3, <3>1, <3>2 DEF Aimed, Projected
        <3> QED
            BY <1>b, <1>c, <2>1, <3>1, <3>3, <3>4 DEF Kept, ReportedIsReal, RecordedIsSelected
    <2> QED
        BY <1>13, <2>2, <2>3 DEF RecordEvent
<1>14. ASSUME WriteState PROVE Kept
    <2>1. /\ op.phase # "idle" /\ op.step = "state"
          /\ UNCHANGED <<disk, signed, link, env, running, journal, guard, overtaken>>
        BY <1>14 DEF WriteState, At
    <2>2. ASSUME state' = state \/ \E r : state' = NewState(r)
          PROVE  (\A b \in {link, env, running, guard, state.active, state.previous} \ {NoBundle} :
                     releases[b] = "intact")'
        BY <1>a, <1>d, <2>1, <2>2 DEF NewState, disk
    <2>3. CASE Raise /\ UNCHANGED state
        BY <2>1, <2>2, <2>3, RaiseKeeps DEF disk
    <2>4. CASE \E r : state' = NewState(r) /\ Raise
        BY <2>1, <2>2, <2>4, RaiseKeeps DEF disk
    <2>5. ASSUME NEW r, NEW s, state' = NewState(r), End(s),
                 op.bad => r = "rollback-failed" /\ s = "activation.rolled_back"
          PROVE  Kept
        <3>1. Intact' /\ Aimed'
            BY <1>c, <2>1, <2>2, <2>5 DEF End, Intact, Aimed, Projected, disk
        <3>2. op.bad => Confessed'
            BY <2>5 DEF End, NewState, Confessed
        <3>3. ~op.bad => /\ link = Aim /\ journal = Aim
                         /\ ~overtaken /\ Aim # NoBundle => env = Aim /\ running = Aim
            BY <1>0, <2>1 DEF Aimed, Projected
        <3>4. state'.active = Aim
            BY <2>5 DEF NewState
        <3> QED
            BY <2>1, <3>1, <3>2, <3>3, <3>4 DEF Kept, ReportedIsReal, RecordedIsSelected
    <2>6. op.bad => op.phase = "undo"
        BY <1>0 DEF Aimed
    <2> QED
        BY <1>14, <2>3, <2>4, <2>5, <2>6 DEF WriteState
<1>15. ASSUME GuardReads PROVE Kept
    <2>1. /\ guard' = link
          /\ UNCHANGED <<disk, signed, link, env, running, state, journal, op, overtaken, result>>
        BY <1>15 DEF GuardReads
    <2> QED
        BY <1>0, <2>1 DEF disk, Kept, Intact, Aimed, Projected, Aim, ReportedIsReal,
                          RecordedIsSelected, Confessed
<1>16. ASSUME GuardWrites PROVE Kept
    <2>1. /\ guard # NoBundle /\ guard' = NoBundle
          /\ UNCHANGED <<disk, signed, link, running, state, journal, op, result>>
        BY <1>16 DEF GuardWrites
    <2>2. CASE UNCHANGED <<env, overtaken>>
        BY <1>0, <2>1, <2>2 DEF disk, Kept, Intact, Aimed, Projected, Aim, ReportedIsReal,
                                RecordedIsSelected, Confessed
    <2>3. CASE env' = guard /\ overtaken' = (overtaken \/ guard # IF op = AgentIdle THEN link ELSE Aim)
        <3>1. ~overtaken' => ~overtaken /\ env' = IF op = AgentIdle THEN link ELSE Aim
            BY <2>3
        <3>2. Intact'
            BY <1>0, <2>1, <2>3 DEF Intact, disk
        <3>3. Aimed'
            BY <1>0, <1>c, <2>1, <3>1 DEF Aimed, Projected, Aim
        <3>4. ReportedIsReal' /\ RecordedIsSelected'
            BY <1>0, <2>1, <3>1 DEF ReportedIsReal, RecordedIsSelected, Confessed
        <3> QED
            BY <3>2, <3>3, <3>4 DEF Kept
    <2> QED
        BY <1>16, <2>2, <2>3 DEF GuardWrites
<1>17. ASSUME RuntimeRestarts PROVE Kept
    <2>1. /\ running' = env
          /\ UNCHANGED <<disk, signed, link, env, state, journal, op, guard, overtaken, result>>
        BY <1>17 DEF RuntimeRestarts
    <2>2. Intact'
        BY <1>0, <2>1 DEF Intact, disk
    <2>3. Aimed'
        BY <1>0, <2>1 DEF Aimed, Projected, Aim, AgentIdle
    <2>4. ReportedIsReal' /\ RecordedIsSelected'
        BY <1>0, <2>1 DEF ReportedIsReal, RecordedIsSelected, Confessed
    <2> QED
        BY <2>2, <2>3, <2>4 DEF Kept
<1>18. ASSUME Die PROVE Kept
    BY <1>0, <1>a, <1>c, <1>18
       DEF Die, End, Kept, Intact, Aimed, Projected, ReportedIsReal, RecordedIsSelected, Settled
<1>19. ASSUME Reboot PROVE Kept
    <2>1. /\ op' = AgentIdle /\ guard' = NoBundle
          /\ UNCHANGED <<releases, signed, link, state, journal>>
        BY <1>19 DEF Reboot
    <2>2. \/ env' = link /\ running' = link /\ result' = "booted"
          \/ running' = NoBundle /\ env' = env /\ result' = "died"
        BY <1>19 DEF Reboot
    <2>3. Intact' /\ Aimed'
        BY <1>a, <1>c, <2>1, <2>2 DEF Intact, Aimed, Projected
    <2> QED
        BY <2>1, <2>2, <2>3 DEF Kept, ReportedIsReal, RecordedIsSelected, Settled
<1>20. ASSUME UNCHANGED agentVars PROVE Kept
    BY <1>0, <1>20 DEF agentVars, disk, Kept, Intact, Aimed, Projected, Aim, ReportedIsReal,
                       RecordedIsSelected, Confessed
<1>21. Kept
    BY <1>1, <1>2, <1>3, <1>4, <1>5, <1>6, <1>7, <1>8, <1>9, <1>10, <1>11, <1>12,
       <1>13, <1>14, <1>15, <1>16, <1>17, <1>18, <1>19, <1>20 DEF AgentNext, Locked
<1> QED
    BY <1>0, <1>21 DEF Kept, AgentIInv

\* The invariant holds of every behaviour.
THEOREM AgentInvariance == AgentSpec => []AgentIInv
<1>1. AgentInit => Intact /\ Aimed /\ ReportedIsReal /\ RecordedIsSelected
    BY DEF AgentInit, AgentIdle, Intact, Aimed, Projected, ReportedIsReal, RecordedIsSelected, Settled
<1> QED
    BY <1>1, TypeInit, InvStep, PTL DEF AgentSpec, AgentIInv

\* Only content that was verified is selected, served, or kept for a rollback.
THEOREM OnlyIntactSelected == AgentSpec => []SelectedIsIntact
<1>1. AgentIInv => SelectedIsIntact
    BY DEF AgentIInv, Intact, SelectedIsIntact
<1> QED
    BY <1>1, AgentInvariance, PTL

\* What install, rollback and boot report is what link, environment and runtime are.
THEOREM ReportsAreReal == AgentSpec => []ReportedIsReal
<1>1. AgentIInv => ReportedIsReal
    BY DEF AgentIInv
<1> QED
    BY <1>1, AgentInvariance, PTL

\* State file and journal name the selected release after whatever was recorded.
THEOREM RecordsNameSelection == AgentSpec => []RecordedIsSelected
<1>1. AgentIInv => RecordedIsSelected
    BY DEF AgentIInv
<1> QED
    BY <1>1, AgentInvariance, PTL
=============================================================================
