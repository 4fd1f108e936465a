CONSTANTS
    Runs = {r1, r2}
    Outsiders = {}
    Root = root
    N = 2
    Worker = worker
    Hooks = {hook}
    Clis = {}
    NoRun = noRun
    Faults = {"crash", "turn", "commit", "push", "finish"}
SPECIFICATION FairSpec
PROPERTIES
    CommitCompletes
    InterruptedRunEnds
    PipelineSpec
