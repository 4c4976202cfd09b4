CONSTANTS
    Threads = {t1, t2}
    Sandboxes = {s1}
    Workers = {w1, w2}
    Goldens = {g1}
    GoldenPrefix = golden
    None = None
    Faults = {}
    Ops = {"resume", "suspend"}
    Overlap = TRUE
    Signals = FALSE
SPECIFICATION Spec
INVARIANTS
    RunsOnOneWorker
