SPECIFICATION Spec
CONSTANTS
    U1 = U1
    U2 = U2
    U3 = U3
    T1 = T1
    T2 = T2
    Png = Png
    Gif = Gif
    None = None
    Urls = {U1, U2, U3}
    Suffixes = {Png, Gif}
    Threads = {T1, T2}
    CacheFiles = 2
    MaxItems = 2
    Faults = {"remote", "disk", "crash"}
    MaxCalls = 4
SYMMETRY Symmetric
INVARIANTS
    Whole
PROPERTIES
    PruneTakesOldest
    AloneIsFound
\* With no call left the directory rests.
CHECK_DEADLOCK FALSE
