CONSTANTS
    Sandboxes = {1, 2}
    Workers = {w1}
    Calls = {c1}
    PoliciesUsed = {"resource-evict"}
    Agents = {1, 2}
    Called = {}
    Ops = {}
    TTL = 1
    Second = 2
    Durations = {2}
    Mem <- OneMiB
    MaxTime = 4
    MaxLag = 0
    MaxClock = 6
    MaxPushes = 0
    None = None
SPECIFICATION Spec
PROPERTIES
    ClockAdvances
