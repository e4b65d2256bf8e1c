SPECIFICATION DeviceSpec
CONSTANTS
    Places = {"a", "b", "c"}
    MaxSaved = 2
    Songs <- MCSongs
    MaxTaps = 2
    MaxUpsets = 1
    MaxCalls = 1
    MinInterval = 2
    StillInterval = 3
    MaxClientAge = 3
    StaleAfter = 6
    FixGap = 1
    MaxDelay = 1
    MaxStarts = 2
    MaxCuts = 1
    m1 = m1
    m2 = m2
    Riders = {m1, m2}
    Cap = 2
    Asks = 1
    Refreshes = 1
    Leavers = {}
    CutOff = {}
    DropOut = {m1}
    MaxBreaks = 1
INVARIANT DeviceTypeOK
INVARIANT HostPlaceIsSaved
INVARIANT StoppedIsGone
PROPERTY SharingStaysVisible
PROPERTY RendersEnd
PROPERTY QueueEnds
PROPERTY EndMovesOnlyItsSong
PROPERTY HolderLearns
CHECK_DEADLOCK FALSE
