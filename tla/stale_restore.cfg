CONSTANTS
    Threads = {t1}
    Sandboxes = {s1, s2, s3}
    Workers = {w1, w2}
    Goldens = {g1}
    GoldenPrefix = golden
    None = None
    Faults = {}
    Ops = {"resume", "suspend"}
    Overlap = FALSE
    Signals = FALSE
SPECIFICATION Spec
INVARIANTS
    RestoresNewest
