SPECIFICATION FairSpec
CONSTANTS
    j1 = j1
    j2 = j2
    None = None
    Jobs = {j1, j2}
    MayStop = TRUE
INVARIANTS SlotExclusive EventBeforeAcknowledgement
PROPERTIES ImplementsServer CancelEndsGoal GoalsConclude
CHECK_DEADLOCK FALSE
