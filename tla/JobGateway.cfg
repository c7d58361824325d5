SPECIFICATION FairSpec
CONSTANTS
    g1 = g1
    g2 = g2
    k1 = k1
    c1 = c1
    c2 = c2
    b1 = b1
    b2 = b2
    None = None
    Goals = {g1, g2}
    Keys = {k1}
    Contents = {c1, c2}
    Bundles = {b1, b2}
    Freezes <- MCFreezes
    MaxCrashes = 1
    MaxOutages = 1
    StoreFaults = TRUE
INVARIANTS DispatchedOnce RepliesAreDurable SuccessIsEarned
PROPERTIES ImplementsService GoalsReturn
CHECK_DEADLOCK FALSE
