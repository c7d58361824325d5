-------------------------- MODULE MCReleasePipeline --------------------------
EXTENDS ReleasePipeline, TLC

CONSTANTS alice, bob, carol, blob, newblob, commissioning, q1, q2

MCUsers == {alice, bob, carol}

\* The administrator may sign in any role, the engineers in their own only.
MCRolesOf == [u \in MCUsers |-> IF u = carol THEN {"administrator"} ELSE {"process_engineer"}]

Request(kind, rev, b, status, until, u) ==
    [kind |-> kind, rev |-> rev, blob |-> b, status |-> status, until |-> until, by |-> u]

MCRequests ==
    {Request("recipe", PlatformDigest(1), None, "draft", None, alice),
     Request("recipe", PlatformDigest(1), None, "APPROVED", None, alice),
     Request("recipe", PlatformDigest(2), None, "draft", None, bob),
     Request("component", PlatformDigest(1), newblob, "current", None, carol),
     Request("bundle", PlatformDigest(1), newblob, "current", None, carol),
     Request("evidence", commissioning, blob, "current", "soon", carol),
     Request("project", PlatformDigest(1), None, "current", None, carol)}

\* The commissioning evidence is on record, and ages.
MCStock == [k \in Kinds |-> IF k = "evidence"
                             THEN Row(Request(k, commissioning, blob, "current", "soon", carol))
                             ELSE None]

Ballot(u, role, decision) == [by |-> u, role |-> role, decision |-> decision]

MCBallots ==
    {Ballot(alice, "process_engineer", "approved"), Ballot(bob, "process_engineer", "approved"),
     Ballot(carol, "automation_engineer", "approved"), Ballot(bob, "automation_engineer", "approved")}

\* What can still qualify; nothing is asked of two invocations that cannot.
Hopeful(q) ==
    \/ quals[q].pc = "idle"
    \/ quals[q].pc # "ended" /\ quals[q].commit # None /\ quals[q].l2 # None /\ ~quals[q].failed

\* The compiler runs after the last request on a snapshot issued before, with keys, or before the
\* first without one or on another document, and the project changes while it runs. The recipe is
\* published by the second call, and not both a crash and a failing commit are met by the last one.
Paced ==
    /\ compiles > 0 => call = None /\ calls \in {0, MaxCalls}
    /\ build.stage # "idle" /\ calls # 0 => build.signature = "platform" /\ build.keys
    /\ edits <= compiles
    /\ calls > 1 => seen.rows["recipe"] # None
    /\ calls = MaxCalls => faults + crashes <= 1
    /\ changes > 0 => \E q \in Invocations : quals[q].pc = "idle"
    /\ \E q \in Invocations : Hopeful(q)

MCOriginal == [data |-> 1, form |-> "canonical", sound |-> TRUE]

MCContents == {MCOriginal, [MCOriginal EXCEPT !.sound = FALSE]}

\* A document someone else wrote, of a recipe that nobody approved, with all that is asked of it.
MCForeign ==
    {[recipe |-> [rev |-> MCOriginal, blob |-> None, status |-> "APPROVED", until |-> None,
                  by |-> alice],
      approvals |-> <<Ballot(bob, "process_engineer", "approved"),
                      Ballot(carol, "automation_engineer", "approved")>>,
      evidence |-> MCStock["evidence"], until |-> None]}

\* The recipe as a person writes it: no platform digest is one of its file.
MCYaml == [MCOriginal EXCEPT !.form = "yaml"]

\* Qualification: one file of the checkout may differ from the revision; the L2 report is of the
\* first scene, and restart stands for the three probes before kitting.
MCFirst == [s \in {"cell", "scene", "recipe", "tree"} |-> 1]
MCCheckouts == {MCFirst, [MCFirst EXCEPT !["cell"] = 2]}
MCBranched == {<<"recipe", 2>>}
MCSeeded == {[sound |-> TRUE, scene |-> 1, tree |-> None, recipe |-> None, commit |-> None]}
MCProbes == <<"restart", "kitting">>
MCSymmetry == Permutations(Invocations)
=============================================================================
