CONSTANTS
    Weeks = 2
    Versions <- MCVersions
    WeekOf <- MCWeekOf
    Procs = {p1, p2}
    None = none
    Baseline = baseline
    Dead = dead
    Faults = {"crash", "sync", "write", "move", "overlap"}
SPECIFICATION FairSpec
CHECK_DEADLOCK FALSE
INVARIANTS
    WeeksInOrder
    SnapshotAgrees
    StoppedSnapshotIsRetryable
PROPERTIES
    SnapshotIsFrozen
    ReservedSettles
