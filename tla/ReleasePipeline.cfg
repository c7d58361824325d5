SPECIFICATION Spec
CONSTANTS
  None = None
  alice = alice
  bob = bob
  carol = carol
  blob = blob
  newblob = newblob
  Users <- MCUsers
  RolesOf <- MCRolesOf
  Requests <- MCRequests
  Blobs = {blob, newblob}
  Stock <- MCStock
  Contents <- MCContents
  Original <- MCOriginal
  EvidenceKinds = {commissioning}
  Foreign <- MCForeign
  Ballots <- MCBallots
  MaxCalls = 4
  MaxFaults = 1
  MaxCrashes = 1
  MaxEdits = 1
  MaxCompiles = 1
  commissioning = commissioning
  q1 = q1
  q2 = q2
  Invocations = {q1, q2}
  Revisions = {1, 2}
  First = 1
  Branched <- MCBranched
  Seeded <- MCSeeded
  Checkouts <- MCCheckouts
  Probes <- MCProbes
  MaxChanges = 1
CONSTRAINT Paced
SYMMETRY MCSymmetry
INVARIANTS AnsweredIsDurable VerifiedIsApproved QualifiedIsExact
CHECK_DEADLOCK FALSE
