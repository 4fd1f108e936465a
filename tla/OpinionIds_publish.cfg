CONSTANTS
    weekly = weekly
    byHand = byHand
    old = old
    quote = quote
    note = note
    Runs = {weekly, byHand}
    Manual = {byHand}
    Owner = Owner
    Idle = Idle
    Selected <- MCSelected
    FirstDoc <- MCFirstDoc
    FirstHighWater = 2
    MaxId = 3
    MaxEdits = 2
    MaxOutside = 1
    Faults = {"crash", "turn", "finish", "abandon"}
SPECIFICATION Spec
CHECK_DEADLOCK FALSE
INVARIANTS
    IdsAreNeverReused
    PublishedIsEvidenced
    HighWaterIsEarned
    LeftoversAreManual
