SPECIFICATION FairTreeSpec
CONSTANTS
    NoVerdict = NoVerdict
    Tree <- MCTree
    Attempts <- MCAttempts
    Typed = {"move", "process", "inspect"}
    Process = "process"
    Inspect = "inspect"
INVARIANTS LeftIsCancelled UnprovenIsFlagged
PROPERTIES TreeEnds
CHECK_DEADLOCK FALSE
