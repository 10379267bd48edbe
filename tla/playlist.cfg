SPECIFICATION FairSpec
CONSTANTS
    Playlists <- MCPlaylists
    Shuffled <- MCShuffled
    MinItem = 2
    MaxTime = 12
    Settable = {0, 3, 6}
    ClockSets = 1
INVARIANTS
    RoundsAreWhole
    PlaysOnSchedule
PROPERTIES
    TotalIsKept
\* A playlist that ran out stays over, and time is bounded.
CHECK_DEADLOCK FALSE
