CONSTANTS
    Sandboxes = {1, 2, 3}
    Workers = {w1}
    Signals <- SomeSignals
    AtStart <- Idle
    TickSec = 120
    WaitSec = 300
    MaxSignals = 1
    None = None
SPECIFICATION FairSpec
INVARIANTS
    TypeOK
    OneKnocker
    ScoreBounded
PROPERTIES
    NotOvertaken
    ResumesReturn
