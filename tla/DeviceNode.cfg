SPECIFICATION FairSpec
CONSTANTS
    c1 = c1
    c2 = c2
    None = None
    Commands = {c1, c2}
    Threads = 2
    Provable = {c1}
INVARIANTS ActiveIsWorking
PROPERTIES UnprovenBlocksDevice ImplementsServer CommandsConclude
CHECK_DEADLOCK FALSE
