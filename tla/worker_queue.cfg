SPECIFICATION Spec
CONSTANTS
    Text = Text
    Score = Score
    Web = Web
    Overlay = Overlay
    Card = Card
    Gif = Gif
    Clock = Clock
    P1 = P1
    P2 = P2
    None = None
    Blank = Blank
    Dark = Dark
    Displays = {Text, Score, Web, Overlay}
    Held = {Score}
    Remote = {Web, Overlay}
    AnimatedHold = {Web}
    Then <- MCThen
    Faces = {Clock}
    Playlists = {P1}
    QueueSize = 2
    MaxCalls = 3
    Calls = {"blank", "idle", "playlist", "stop"}
    Faults = {"fetch", "oserror", "draw"}
INVARIANTS
    TypeOK
    NoLostWakeup
    QueueKept
PROPERTIES
    CutOnlyByLaterBlank
    HeldStaysUp
\* stop() ends the thread, and so does an exception of a fetch.
CHECK_DEADLOCK FALSE
