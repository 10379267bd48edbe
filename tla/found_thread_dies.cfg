SPECIFICATION Spec
CONSTANTS
    Text = Text
    Score = Score
    Web = Web
    Overlay = Overlay
    Card = Card
    Gif = Gif
    Clock = Clock
    P1 = P1
    P2 = P2
    None = None
    Blank = Blank
    Dark = Dark
    Displays = {Web}
    Held = {}
    Remote = {Web}
    AnimatedHold = {}
    Then <- MCThen
    Faces = {}
    Playlists = {}
    QueueSize = 1
    MaxCalls = 1
    Calls = {}
    Faults = {"fetch", "oserror"}
INVARIANTS
    ThreadSurvives
