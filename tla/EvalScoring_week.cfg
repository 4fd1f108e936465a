CONSTANTS
    w1 = w1
    w2 = w2
    Weeks = {w1, w2}
    Targets <- MCTargets
    NotConverted <- MCNotConverted
    Selected <- MCSelected
    Outputs <- MCOutputs
    MaxConcurrency = 1
    Faults = {"judge"}
SPECIFICATION Spec
CHECK_DEADLOCK FALSE
INVARIANTS
    ScoresAgree
    SummaryCountsTargets
