CONSTANTS
    Weeks = 2
    Versions <- MCFewVersions
    WeekOf <- MCWeekOf
    Procs = {p1, p2}
    None = none
    Baseline = baseline
    Dead = dead
    Faults = {"slowSync", "overlap"}
SYMMETRY ProcSymmetry
SPECIFICATION Spec
INVARIANTS
    EvidenceTakenOnce
CHECK_DEADLOCK FALSE
