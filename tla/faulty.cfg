CONSTANTS
    Threads = {t1, t2}
    Sandboxes = {s1, s2}
    Workers = {w1, w2}
    Goldens = {g1}
    GoldenPrefix = golden
    None = None
    Faults = {"checkpoint", "upload", "restore"}
    Ops = {"resume", "pause", "suspend", "golden"}
    Overlap = FALSE
    Signals = FALSE
SPECIFICATION Spec
SYMMETRY Symmetry
INVARIANTS
    RunningHoldsSlot
    OccupantRecorded
    SnapshotKept
    PathFollowsWorker
    GoldenUsable
PROPERTIES
    ImplementsMultiplex
