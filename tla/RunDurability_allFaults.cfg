CONSTANTS
    Runs = {r1}
    Outsiders = {}
    Root = root
    N = 1
    Worker = worker
    Hooks = {h1, h2}
    Clis = {cli}
    NoRun = noRun
    Faults = {"crash", "kill", "turn", "commit", "push", "finish", "reconcile", "abandon", "abandonLive", "abandonTerminal", "staleSend", "slowNotice", "overlap"}
SPECIFICATION Spec
INVARIANTS
    OneTurn
    PhaseIsTrue
