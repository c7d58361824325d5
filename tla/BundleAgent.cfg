SPECIFICATION AgentSpec
CONSTANTS
    b1 = b1
    b2 = b2
    b3 = b3
    NoBundle = NoBundle
    Bundles = {b1, b2}
    Compatible = {b1, b2}
INVARIANTS SelectedIsIntact ReportedIsReal
CHECK_DEADLOCK FALSE
