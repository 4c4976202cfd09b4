CONSTANTS
    Threads = {t1, t2}
    Sandboxes = {s1, s2}
    Workers = {w1}
    Goldens = {g1}
    GoldenPrefix = golden
    None = None
    Faults = {}
    Ops = {"resume", "pause", "suspend", "delete", "golden"}
    Overlap = FALSE
    Signals = FALSE
SPECIFICATION FairSpec
INVARIANTS
    RunningHasContainer
    RunningHoldsSlot
    OccupantRecorded
PROPERTIES
    RequestsReturn
