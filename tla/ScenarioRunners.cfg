SPECIFICATION RunnersSpec
CONSTANTS
    Script <- MCScript
    Plan <- MCPlan
    MaxAbandoned = 2
    MaxConfigures = 2
    MaxPhysics = 1
    Scenarios <- MCScenarios
    Undecided = Undecided
    Nobody = Nobody
INVARIANTS OneRunPerJob SuccessWasObserved OutcomeIsEarned
CHECK_DEADLOCK FALSE
