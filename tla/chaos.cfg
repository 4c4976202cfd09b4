CONSTANTS
    Threads = {t1, t2}
    Sandboxes = {s1}
    Workers = {w1}
    Goldens = {g1}
    GoldenPrefix = golden
    None = None
    Faults = {"boot", "upload", "download", "restore", "status", "put", "read", "detach", "restart", "crash"}
    Ops = {"resume", "pause", "suspend", "delete", "golden"}
    Overlap = TRUE
    Signals = TRUE
SPECIFICATION Spec
SYMMETRY Symmetry
VIEW WithoutGoldenDirs
INVARIANTS
    TypeOK
    SlotExclusive
    ReservationOwned
    QuiescentClean
    EvictionSerialised
    GoldenFirst
