CONSTANTS
    Turns = 2
    Width = 2
    Worker = worker
    Handlers = {h1, h2}
    Updates = {u1, u2}
    Commands = {go, text}
    Go = go
    Text = text
    None = none
    Faults = {"agent", "send"}
SPECIFICATION FairSpec
CHECK_DEADLOCK FALSE
INVARIANTS
    WaitsWithAllSent
PROPERTIES
    ResumesWhenComplete
    CompleteResumes
