CONSTANTS
    Sandboxes = {1, 2}
    Workers = {w1}
    Calls = {c1, c2}
    PoliciesUsed = {"semantic-score"}
    Agents = {1}
    Called = {}
    Ops = {}
    TTL = 2
    Second = 2
    Durations = {0}
    Mem <- OneMiB
    MaxTime = 4
    MaxLag = 1
    MaxClock = 1
    MaxPushes = 0
    None = None
SPECIFICATION Spec
SYMMETRY CallSymmetry
INVARIANTS
    ToolLoopNotEvicted
VIEW WithoutAccounts
