CONSTANTS
    Sandboxes = {1}
    Workers = {w1}
    Calls = {c1, c2}
    PoliciesUsed = {"semantic-score"}
    Agents = {}
    Called = {1}
    Ops = {"pause","suspend","delete"}
    TTL = 1
    Second = 2
    Durations = {0}
    Mem <- OneMiB
    MaxTime = 2
    MaxLag = 1
    MaxClock = 0
    MaxPushes = 1
    None = None
SPECIFICATION FairSpec
INVARIANTS
    TypeOK
    
PROPERTIES
    BusyClears
