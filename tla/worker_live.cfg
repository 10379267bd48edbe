SPECIFICATION FairSpec
CONSTANTS
    Text = Text
    Score = Score
    Web = Web
    Overlay = Overlay
    Card = Card
    Gif = Gif
    Clock = Clock
    P1 = P1
    P2 = P2
    None = None
    Blank = Blank
    Dark = Dark
    Displays = {Card, Overlay}
    Held = {Card}
    Remote = {Card, Overlay}
    AnimatedHold = {}
    Then <- MCThen
    Faces = {Clock}
    Playlists = {P1}
    QueueSize = 1
    MaxCalls = 3
    Calls = {"blank", "idle", "playlist", "stop"}
    Faults = {"fetch"}
INVARIANTS
    ThreadSurvives
    LitDisplayIsShowing
PROPERTIES
    BlankTakesEffect
    StopEnds
    StandbyReturns
    HandsOff
