CONSTANTS
    Threads = {t1}
    Sandboxes = {s1}
    Workers = {w1}
    Goldens = {g1}
    GoldenPrefix = golden
    None = None
    Faults = {"upload"}
    Ops = {"resume", "suspend"}
    Overlap = FALSE
    Signals = FALSE
SPECIFICATION Spec
INVARIANTS
    StaysRestorable
