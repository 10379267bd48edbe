SPECIFICATION FairSpec
CONSTANTS
    A = A
    B = B
    Allowed <- MCAllowed
    Streams = {A, B}
    Configured = {A}
    Requests = {{A}, {B}, {A, B}}
    Skips = {TRUE, FALSE}
    FromEnd = TRUE
    StartupLimited = TRUE
    Count = 1
    MaxEntries = 1
    Losses = 0
    Restarts = 0
    Switches = 2
    Failures = 1
    Signals = 1
INVARIANTS
    SubscribedHasGroup
PROPERTIES
    SkipsOnlyAdded
    SubscribedIsRead
    SwitchEnds
    DeadConsumerEnds
CHECK_DEADLOCK FALSE
