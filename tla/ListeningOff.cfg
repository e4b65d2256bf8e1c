SPECIFICATION Spec
CONSTANTS
    Tracks = {t1, t2}
    None = None
    MaxAsks = 1
    MaxWaiting = 2
    Leave = {TRUE}
INVARIANT OffIsSilent
