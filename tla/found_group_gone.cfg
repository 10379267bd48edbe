SPECIFICATION FairSpec
CONSTANTS
    A = A
    B = B
    Allowed <- MCAllowed
    Streams = {A}
    Configured = {A}
    Requests = {{A}}
    Skips = {TRUE, FALSE}
    FromEnd = TRUE
    StartupLimited = TRUE
    Count = 1
    MaxEntries = 1
    Losses = 1
    Restarts = 0
    Switches = 0
    Failures = 0
    Signals = 1
PROPERTIES
    SubscribedIsRead
CHECK_DEADLOCK FALSE
