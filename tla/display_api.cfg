SPECIFICATION Spec
CONSTANTS
    Limit = 2
    \* A second is three ticks: one over is below the .001 that is not carried, two are above.
    \* From a grant at 0 the wait is 5, 4 and 0 ticks.
    Second = 3
    Carry = 1
    Window = 5
    Instants = {0, 1, 5}
    Settings = {0}
    Requests = {r1, r2, r3}
    Calls <- MCCalls
    Colors = {"blue", "red"}
    StartColor = "blue"
SYMMETRY Symmetry
INVARIANTS
    TimelineIsRight
    OneState
    AtMostLimit
PROPERTIES
    RefusedForAReason
    AllOrNothing
\* The requests are sent once each: nothing is left to do when they are answered.
CHECK_DEADLOCK FALSE
