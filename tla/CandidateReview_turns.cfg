CONSTANTS
    c1 = c1
    c2 = c2
    CandidateIds = {c1, c2}
    Opinions = {opinion}
    Selected <- MCSelected
    Files <- MCFiles
    None = None
    MaxAttempts = 2
    MaxTurns = 2
    MaxResults = 2
SPECIFICATION Spec
CHECK_DEADLOCK FALSE
INVARIANTS
    EvidenceMovesOnce
    DecidesOnOwnFile
