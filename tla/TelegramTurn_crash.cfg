CONSTANTS
    Turns = 2
    Width = 2
    Worker = worker
    Handlers = {h1, h2}
    Updates = {u1, u2, u3}
    Commands = {text}
    Go = go
    Text = text
    None = none
    Faults = {"crash", "agent", "send", "mixed"}
SYMMETRY UpdateSymmetry
SPECIFICATION Spec
CHECK_DEADLOCK FALSE
INVARIANTS
    OneTurn
    UpdateActsOnce
PROPERTIES
    AnswersAreHeard
