CONSTANTS
    Runs = {r1, r2, r3}
    Outsiders = {x1}
    Root = root
    N = 2
    Worker = worker
    Hooks = {hook}
    Clis = {cli}
    NoRun = noRun
    Faults = {"crash", "commit", "push", "finish", "abandon"}
SYMMETRY RunSymmetry
SPECIFICATION Spec
INVARIANTS
    TypeOK
    OneActiveRun
    CompletedIsDurable
    PublishedOnce
    PublishedContent
    QueuedIsStartable
    OnlyItsCommitStrands
PROPERTIES
    PipelineSafety
    CommitsAreKept
