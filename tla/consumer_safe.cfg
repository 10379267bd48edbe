SPECIFICATION Spec
CONSTANTS
    A = A
    B = B
    Allowed <- MCAllowed
    Streams = {A, B}
    Configured = {A}
    Requests = {{A}, {B}, {A, B}}
    Skips = {TRUE, FALSE}
    FromEnd = TRUE
    StartupLimited = TRUE
    Count = 1
    MaxEntries = 2
    Losses = 1
    Restarts = 1
    Switches = 1
    Failures = 1
    Signals = 0
INVARIANTS
    TypeOK
    Accounted
PROPERTIES
    InOrderOnce
CHECK_DEADLOCK FALSE
