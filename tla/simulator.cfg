SPECIFICATION Spec
CONSTANTS
    Pages = {p1}
    Kept = 2
    Recent = 2
    MaxEvents = 3
    MaxOthers = 1
    MaxRestarts = 1
INVARIANTS
    RingIsRight
PROPERTIES
    CanvasIsThePanel
    CanvasCatchesUp
    StreamsEnd
\* A process that is gone stays gone.
CHECK_DEADLOCK FALSE
