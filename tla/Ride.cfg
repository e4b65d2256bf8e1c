SPECIFICATION RideSpec
CONSTANTS
    Tabs = {"b1", "b2"}
    Releases = {"v1", "v2"}
    Attempts = {"a1", "a2"}
    MaxLogouts = 1
    MaxReturns = 2
    Rooms = {r1, r2}
    Members = {m1, m2, m3}
    Codes = {k1, k2}
    Modes = {"group_ride"}
    Second = 2
    Ttl = 3
    Margin = 3
    Pause = 3
    Skew = 2
    RoomEnd = 13
    Horizon = 11
    MaxFetches = 2
    Tracks = {"t1"}
    Controllers = {"h1"}
    Listeners = {"l1"}
    MaxPosition = 3
    ChannelCap = 2
    MaxCommands = 3
    MaxClock = 2
    Riders = {m1, m2}
    Cap = 2
    Asks = 1
    Refreshes = 1
    Leavers = {m2}
    CutOff = {m1}
    DropOut = {m1}
    MaxBreaks = 1
INVARIANT RideTypeOK
INVARIANT NoReloadLoop
INVARIANT AttemptsStandAlone
INVARIANT CodeIndex
INVARIANT RelayStaysValid
INVARIANT EpochIdentifiesState
INVARIANT CaughtUp
INVARIANT MicOnlyWhileHeld
INVARIANT BeliefFollowsFloor
INVARIANT MicWithoutFloorIsBrief
PROPERTY CodeLeadsToLiveRoom
PROPERTY NoBlindWrite
PROPERTY NoJump
CHECK_DEADLOCK FALSE
