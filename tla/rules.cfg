SPECIFICATION Spec
CONSTANTS
    Words <- MCWords
    Lower <- MCLower
    Any = "*"
    Tags <- MCTags
    Figure = "figure"
    Day = 4
    NoText = ""
    Texts <- MCTexts
    Strip <- MCStrip
    Upper <- MCUpper
    Cut <- MCCut
    Wheel = 360
    PanelHues <- MCPanelHues
    GreyColor = 5
    White = "white"
    Defaults <- MCDefaults
    Cases <- MCCases
INVARIANTS
    MatchIsRight
    ReplayShows
    BoardReads
\* A question is asked once.
CHECK_DEADLOCK FALSE
