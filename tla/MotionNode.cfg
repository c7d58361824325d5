SPECIFICATION FairSpec
CONSTANTS
    g1 = g1
    g2 = g2
    g3 = g3
    None = None
    Goals = {g1, g2}
    Manipulations = {g2}
    PlanOnly = {}
    Direct = FALSE
    MaxScene = 1
INVARIANTS AnsweredControllerIsStill SuccessIsObserved
PROPERTIES MotionsConclude
CHECK_DEADLOCK FALSE
